----------------------------- MODULE HookExecProofs -----------------------------
(***************************************************************************)
(* Theorems about HookExec, for every set of executions and whichever of   *)
(* lingering processes, closed windows and failing calls may happen.       *)
(***************************************************************************)
EXTENDS HookExec, TLAPS

(* The files tell nothing the window did not do: a status is the script's  *)
(* own, an acknowledgement means the shell is past its prompt, and the     *)
(* goroutine has the success it reports, or the confirmation, from there.  *)
FilesAreTrue ==
  \A h \in Hook :
    /\ status[h] # None => status[h] = code[h]
    /\ ack[h] => shell[h] \in {"exiting", "ended"}
    /\ waiter[h] \in {"close", "succeeded"} => code[h] = 0
    /\ waiter[h] = "acknowledged" /\ h \notin missed => shell[h] \in {"exiting", "ended"}

IInv == TypeOK /\ FilesAreTrue

LEMMA InitInv == Init => IInv
  BY DEF Init, IInv, TypeOK, FilesAreTrue, None, ExitCode, TimedOut, Waiting, Confirming, Ended

(* Each step of one window or its goroutine preserves the invariant.       *)
LEMMA StepInv == IInv /\ [Next]_vars => IInv'
<1> USE DEF IInv, TypeOK, FilesAreTrue, None, ExitCode, TimedOut, Waiting, Confirming, Ended, Goto, Pane, polling
<1> SUFFICES ASSUME IInv, [Next]_vars PROVE IInv'
  OBVIOUS
<1>1. ASSUME NEW h \in Hook, NEW exit \in ExitCode, ScriptEnds(h, exit) PROVE IInv'
  <2>1. PICK open \in {FALSE, Lingering} : output' = [output EXCEPT ![h] = open]
    BY <1>1 DEF ScriptEnds
  <2>2. open \in BOOLEAN
    BY HookExecAssumption DEF HookExecAssumption
  <2>3. TypeOK'
    BY <1>1, <2>1, <2>2 DEF ScriptEnds
  <2>4. FilesAreTrue'
    BY <1>1 DEF ScriptEnds
  <2> QED BY <2>3, <2>4
<1>2. ASSUME NEW h \in Hook, OutputCloses(h) PROVE IInv'
  BY <1>2 DEF OutputCloses
<1>3. ASSUME NEW h \in Hook, PublishStatus(h) PROVE IInv'
  BY <1>3 DEF PublishStatus
<1>4. ASSUME NEW h \in Hook, UserConfirms(h) PROVE IInv'
  BY <1>4 DEF UserConfirms
<1>5. ASSUME NEW h \in Hook, ShellEnds(h) PROVE IInv'
  BY <1>5 DEF ShellEnds
<1>6. ASSUME NEW h \in Hook, WindowCloses(h) PROVE IInv'
  BY <1>6 DEF WindowCloses
<1>7. ASSUME NEW h \in Hook, ReadStatus(h) PROVE IInv'
  BY <1>7 DEF ReadStatus
<1>8. ASSUME NEW h \in Hook, LookAtPane(h) PROVE IInv'
  BY <1>8 DEF LookAtPane
<1>9. ASSUME NEW h \in Hook, CloseWindow(h) PROVE IInv'
  BY <1>9 DEF CloseWindow, RemoveFiles
<1>10. ASSUME NEW h \in Hook, ReadAcknowledgement(h) PROVE IInv'
  <2> USE DEF RemoveFiles
  <2>1. waiter[h] = "ack" /\ UNCHANGED <<code, output, shell, missed>>
    BY <1>10 DEF ReadAcknowledgement
  <2>2. CASE ack[h] /\ RemoveFiles(h) /\ Goto(h, "acknowledged")
    BY <2>1, <2>2
  <2>3. CASE ~ ack[h] /\ Goto(h, "ack-pane") /\ UNCHANGED <<status, ack>>
    BY <2>1, <2>3
  <2>4. CASE ReadErrors /\ RemoveFiles(h) /\ Goto(h, "abandoned")
    BY <2>1, <2>4
  <2> QED BY <1>10, <2>2, <2>3, <2>4 DEF ReadAcknowledgement
<1>11. ASSUME NEW h \in Hook, LookForAcknowledgement(h) PROVE IInv'
  <2> USE DEF RemoveFiles
  <2>1. waiter[h] = "ack-pane" /\ UNCHANGED <<code, output, shell>>
    BY <1>11 DEF LookForAcknowledgement
  <2>2. CASE Pane(h) /\ Goto(h, "ack") /\ UNCHANGED <<status, ack, missed>>
    BY <2>1, <2>2
  <2>3. CASE ~ Pane(h) /\ RemoveFiles(h) /\ Goto(h, "acknowledged") /\ UNCHANGED missed
    BY <2>1, <2>3
  <2>4. CASE RemoveFiles(h) /\ Goto(h, "acknowledged") /\ missed' = missed \cup {h}
    <3>1. FilesAreTrue'
      BY <2>1, <2>4
    <3>2. TypeOK'
      BY <2>1, <2>4
    <3> QED BY <3>1, <3>2
  <2> QED BY <1>11, <2>2, <2>3, <2>4 DEF LookForAcknowledgement
<1>12. CASE UNCHANGED vars
  BY <1>12 DEF vars
<1> QED
  BY <1>1, <1>2, <1>3, <1>4, <1>5, <1>6, <1>7, <1>8, <1>9, <1>10, <1>11, <1>12
     DEF Next, Window, Waiter

(* The status a success is reported from is that of the script, for any    *)
(* number of windows (PIPESTATUS[0] and mv in hookCommand; Wait).          *)
THEOREM FailuresNeverSucceed == Spec => []FailureNeverSucceeds
<1>1. IInv => FailureNeverSucceeds
  BY DEF IInv, FilesAreTrue, FailureNeverSucceeds
<1> QED BY InitInv, StepInv, <1>1, PTL DEF Spec

(* Nothing is cleaned up before the prompt was confirmed or its window     *)
(* closed, unless list-panes failed to tell of an open window              *)
(* (WaitForAcknowledgement).                                               *)
THEOREM CleanupsAreConfirmed == Spec => []ConfirmedBeforeCleanup
<1>1. IInv => ConfirmedBeforeCleanup
  BY DEF IInv, FilesAreTrue, ConfirmedBeforeCleanup
<1> QED BY InitInv, StepInv, <1>1, PTL DEF Spec
==============================================================================
