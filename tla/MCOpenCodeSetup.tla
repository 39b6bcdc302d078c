---------------------------- MODULE MCOpenCodeSetup ----------------------------
(* Both kinds of panes, with and without a prompt.                         *)
EXTENDS OpenCodeSetup

AnyShape == [owned : BOOLEAN, prompt : BOOLEAN]
==============================================================================
