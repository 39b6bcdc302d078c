---------------------------- MODULE MCAgentReports ----------------------------
EXTENDS AgentReports, TLC

(* A conversation, and one that it has started.                            *)
ParentDef == "first" :> Home @@ "under" :> "first"
ConversationDef == DOMAIN ParentDef

(* A user who goes from one conversation to the next while reports go      *)
(* wrong, also under a plugin that is loaded again; conversations that are *)
(* busy, and ask; and a user who goes to one that is busy.                 *)
BoundsDef == {
  [loads |-> 1, moves |-> 2, works |-> 0, losses |-> 2, failures |-> 0],
  [loads |-> 2, moves |-> 1, works |-> 0, losses |-> 1, failures |-> 0],
  [loads |-> 1, moves |-> 0, works |-> 3, losses |-> 0, failures |-> 1],
  [loads |-> 1, moves |-> 1, works |-> 2, losses |-> 0, failures |-> 0]}
===============================================================================
