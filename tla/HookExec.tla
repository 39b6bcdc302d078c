------------------------------- MODULE HookExec -------------------------------
(***************************************************************************)
(* The on-create script in its worktree-setup window and the goroutine     *)
(* that waits for it (internal/infra/hookexec/runner.go).  They share no   *)
(* memory: the window's shell tells its result through a status file and   *)
(* the user's confirmation through another, and the goroutine polls those  *)
(* files and the existence of the pane, one after the other.  What it      *)
(* reports drives the setup in ResourceLeases and SessionLifecycle:        *)
(* "succeeded" is their HookSucceeds, "confirming" their HookFails.        *)
(***************************************************************************)
EXTENDS Integers

CONSTANTS
  Hook,       \* executions, each in a window of its own
  Lingering,  \* may a script leave a process behind that keeps its output open?
  Closing,    \* may the window be closed, by the user or with its session?
  ReadErrors, \* may reading a file fail although it is there?
  ListErrors  \* may list-panes fail although the pane is there?

ASSUME HookExecAssumption ==
  /\ Lingering \in BOOLEAN /\ Closing \in BOOLEAN
  /\ ReadErrors \in BOOLEAN /\ ListErrors \in BOOLEAN

VARIABLES
  code,    \* what the script, or timeout in its place, ended with
  output,  \* is the pipe to tee still open after that?
  shell,   \* the bash of the window; the pane is there until it ends
  status,  \* the status file
  ack,     \* is the acknowledgement file there?
  waiter,  \* Wait, then WaitForAcknowledgement
  missed   \* executions whose open window was taken for a confirmation: history

polling == <<waiter, missed>>
vars == <<code, output, shell, status, ack, polling>>

None == -1
TimedOut == 124
ExitCode == {0, 1, TimedOut}
Waiting == {"status", "status-pane"}     \* inside Wait
Confirming == {"ack", "ack-pane"}        \* inside WaitForAcknowledgement
Ended == {"succeeded", "acknowledged", "abandoned"}

TypeOK ==
  /\ code \in [Hook -> ExitCode \cup {None}]
  /\ output \in [Hook -> BOOLEAN]
  /\ shell \in [Hook -> {"pipeline", "prompt", "exiting", "ended"}]
  /\ status \in [Hook -> ExitCode \cup {None}]
  /\ ack \in [Hook -> BOOLEAN]
  /\ waiter \in [Hook -> Waiting \cup Confirming \cup {"close"} \cup Ended]
  /\ missed \subseteq Hook

(* Start has opened the window. *)
Init ==
  /\ code = [h \in Hook |-> None]
  /\ output = [h \in Hook |-> TRUE]
  /\ shell = [h \in Hook |-> "pipeline"]
  /\ status = [h \in Hook |-> None]
  /\ ack = [h \in Hook |-> FALSE]
  /\ waiter = [h \in Hook |-> "status"]
  /\ missed = {}

Pane(h) == shell[h] # "ended"
Goto(h, step) == waiter' = [waiter EXCEPT ![h] = step]

------------------------------------------------------------------------------
(* hookCommand                                                             *)

(* The script ends, or timeout kills it and reports 124.                   *)
ScriptEnds(h, exit) ==
  /\ code[h] = None /\ shell[h] = "pipeline"
  /\ code' = [code EXCEPT ![h] = exit]
  /\ \E open \in {FALSE, Lingering} : output' = [output EXCEPT ![h] = open]
  /\ UNCHANGED <<shell, status, ack, polling>>

OutputCloses(h) ==
  /\ code[h] # None /\ output[h]
  /\ output' = [output EXCEPT ![h] = FALSE]
  /\ UNCHANGED <<code, shell, status, ack, polling>>

(* Mutant: the status of tee instead of the script's.                      *)
PublishLast(h) ==
  /\ shell[h] = "pipeline" /\ code[h] # None /\ ~ output[h]
  /\ status' = [status EXCEPT ![h] = 0]
  /\ shell' = [shell EXCEPT ![h] = "exiting"]
  /\ UNCHANGED <<code, output, ack, polling>>

(* The pipeline is over when tee has seen the end of the output; mv makes  *)
(* the status appear at once.                                              *)
PublishStatus(h) ==
  /\ shell[h] = "pipeline" /\ code[h] # None /\ ~ output[h]
  /\ status' = [status EXCEPT ![h] = code[h]]
  /\ shell' = [shell EXCEPT ![h] = IF code[h] = 0 THEN "exiting" ELSE "prompt"]
  /\ UNCHANGED <<code, output, ack, polling>>

UserConfirms(h) ==
  /\ shell[h] = "prompt"
  /\ ack' = [ack EXCEPT ![h] = TRUE]
  /\ shell' = [shell EXCEPT ![h] = "exiting"]
  /\ UNCHANGED <<code, output, status, polling>>

ShellEnds(h) ==
  /\ shell[h] = "exiting"
  /\ shell' = [shell EXCEPT ![h] = "ended"]
  /\ UNCHANGED <<code, output, status, ack, polling>>

(* Whatever ran in the window ends without a status.                       *)
WindowCloses(h) ==
  /\ Closing
  /\ Pane(h)
  /\ shell' = [shell EXCEPT ![h] = "ended"]
  /\ UNCHANGED <<code, output, status, ack, polling>>

------------------------------------------------------------------------------
(* Wait and WaitForAcknowledgement; both poll with waitForFile.            *)

RemoveFiles(h) ==
  /\ status' = [status EXCEPT ![h] = None]
  /\ ack' = [ack EXCEPT ![h] = FALSE]

ReadStatus(h) ==
  /\ waiter[h] = "status"
  /\ \/ status[h] = None /\ Goto(h, "status-pane")
     \/ status[h] = 0 /\ Goto(h, "close")
     \/ (status[h] \notin {None, 0} \/ ReadErrors) /\ Goto(h, "ack")
  /\ UNCHANGED <<code, output, shell, status, ack, missed>>

(* Mutant: only the file counts.                                           *)
PollFileOnly(h) ==
  /\ waiter[h] = "status-pane"
  /\ Goto(h, "status")
  /\ UNCHANGED <<code, output, shell, status, ack, missed>>

LookAtPane(h) ==
  /\ waiter[h] = "status-pane"
  /\ \/ Goto(h, IF Pane(h) THEN "status" ELSE "ack")
     \/ ListErrors /\ Goto(h, "ack")
  /\ UNCHANGED <<code, output, shell, status, ack, missed>>

CloseWindow(h) ==
  /\ waiter[h] = "close"
  /\ shell' = [shell EXCEPT ![h] = "ended"]
  /\ RemoveFiles(h)
  /\ Goto(h, "succeeded")
  /\ UNCHANGED <<code, output, missed>>

ReadAcknowledgement(h) ==
  /\ waiter[h] = "ack"
  /\ \/ ack[h] /\ RemoveFiles(h) /\ Goto(h, "acknowledged")
     \/ ~ ack[h] /\ Goto(h, "ack-pane") /\ UNCHANGED <<status, ack>>
     \/ ReadErrors /\ RemoveFiles(h) /\ Goto(h, "abandoned")
  /\ UNCHANGED <<code, output, shell, missed>>

(* Mutant: the missing file is taken for the missing pane.                 *)
LookAtNothing(h) ==
  /\ waiter[h] = "ack-pane"
  /\ RemoveFiles(h) /\ Goto(h, "acknowledged")
  /\ UNCHANGED <<code, output, shell, missed>>

(* A pane that is gone counts as confirmed, and so does one that           *)
(* list-panes fails to tell of.                                            *)
LookForAcknowledgement(h) ==
  /\ waiter[h] = "ack-pane"
  /\ \/ Pane(h) /\ Goto(h, "ack") /\ UNCHANGED <<status, ack, missed>>
     \/ ~ Pane(h) /\ RemoveFiles(h) /\ Goto(h, "acknowledged") /\ UNCHANGED missed
     \/ /\ ListErrors /\ Pane(h)
        /\ RemoveFiles(h) /\ Goto(h, "acknowledged") /\ missed' = missed \cup {h}
  /\ UNCHANGED <<code, output, shell>>

Window(h) == PublishStatus(h) \/ ShellEnds(h)
Waiter(h) ==
  \/ ReadStatus(h) \/ LookAtPane(h) \/ CloseWindow(h)
  \/ ReadAcknowledgement(h) \/ LookForAcknowledgement(h)

Next ==
  \E h \in Hook :
    \/ \E exit \in ExitCode : ScriptEnds(h, exit)
    \/ OutputCloses(h) \/ UserConfirms(h) \/ WindowCloses(h)
    \/ Window(h) \/ Waiter(h)

Spec == Init /\ [][Next]_vars

(* timeout ends a script; the shell and the goroutine run.  The user and a *)
(* process the script left behind owe nothing.                             *)
Fairness ==
  \A h \in Hook :
    /\ WF_vars(\E exit \in ExitCode : ScriptEnds(h, exit))
    /\ WF_vars(Window(h))
    /\ WF_vars(Waiter(h))
FairSpec == Spec /\ Fairness

------------------------------------------------------------------------------
(* A script that failed or timed out is never reported as a success, which *)
(* would promote its leases (PIPESTATUS[0] in hookCommand).                *)
FailureNeverSucceeds == \A h \in Hook : waiter[h] \in {"close", "succeeded"} => code[h] = 0

(* The session of a failed setup is not cleaned up under the user's eyes:  *)
(* the window has been confirmed or has been closed before (ADR-0016).     *)
(* The exception is a list-panes that fails, which WaitForAcknowledgement  *)
(* takes for a window that is closed (runner.go:186, 200).                 *)
ConfirmedBeforeCleanup ==
  \A h \in Hook : waiter[h] = "acknowledged" /\ h \notin missed => shell[h] \in {"exiting", "ended"}

(* Wait returns after the script has ended and closed its output, and      *)
(* after the window has gone, whichever of file and pane it looks at first.*)
WaitReturns ==
  \A h \in Hook : ~ output[h] \/ ~ Pane(h) ~> waiter[h] \notin Waiting

(* "On success, the setup window exits automatically, provisional Resource *)
(* Leases are promoted" (ADR-0016): a script that ended well in a window   *)
(* nobody closed is not reported as failed.                                *)
SuccessIsReported == \A h \in Hook : code[h] = 0 => waiter[h] \notin Confirming \cup {"acknowledged", "abandoned"}

(* The timeout bounds the setup ("These commands enforce the configured    *)
(* timeout", worktree-hook-integration.md).                                *)
TimeoutEnforced == \A h \in Hook : waiter[h] \in Waiting ~> waiter[h] \notin Waiting
==============================================================================
