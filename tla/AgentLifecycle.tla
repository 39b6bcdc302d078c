---------------------------- MODULE AgentLifecycle ----------------------------
(***************************************************************************)
(* TC Agents from the request that creates one to the report that removes  *)
(* it: CreateAgent and DeleteAgent in the daemon, the agent wrapper in the *)
(* pane, the agent process under it, and the deletion of the Session they  *)
(* live in.  What a startup setup does inside is OpenCodeSetup; here it    *)
(* runs and ends.  The statuses of a running Agent are left out: removal   *)
(* does not depend on them.                                                *)
(***************************************************************************)
EXTENDS Naturals, Sequences

CONSTANTS
  Agent,         \* the Agents asked for, by the id each will get
  Shape,         \* what may be asked for: a new pane or the client's, a setup or none
  None,
  Fault          \* what may go wrong around the program

Record == [pane : BOOLEAN, group : BOOLEAN]   \* what the Registry knows of an Agent

ASSUME AgentLifecycleAssumption ==
  /\ Shape \subseteq [owned : BOOLEAN, setup : BOOLEAN]
  /\ None \notin Shape \cup Record
  /\ Fault \subseteq {"early",  \* a deletion before the creation has returned
                     "tmux",   \* a call to tmux fails, or is cut off, done or not
                     "lost"}   \* a call of the wrapper that does not arrive

VARIABLES
  faults,   \* what has gone wrong so far
  session,  \* the Session: its tmux session, then its record, may go
  shape,    \* what was asked for
  rec,      \* the Agent Registry: is the pane, the process group recorded?
  setup,    \* the goroutine of the startup setup
  entry,    \* is the setup in the coordinator's map?
  create,   \* where CreateAgent is
  undo,     \* what a failing creation has still to do
  delete,   \* where DELETE /agents/{id} is
  seen,     \* the record it read
  pane,     \* the tmux pane
  wrapper,  \* the agent wrapper in it
  child,    \* the agent process
  answer    \* the wrapper's question about its setup

world == <<faults, session>>
requests == <<shape, create, undo, delete, seen>>
processes == <<pane, wrapper, child, answer>>
vars == <<world, rec, setup, entry, requests, processes>>

(* What a failing creation may have still to do.                           *)
Plan == {<<>>, <<"forget">>, <<"cancel", "forget">>, <<"stop", "forget">>,
         <<"cancel", "stop", "forget">>, <<"delete">>, <<"delete", "forget">>,
         <<"delete", "cancel", "forget">>, <<"cancel", "forget", "delete">>,
         <<"forget", "delete">>, <<"terminate", "delete", "forget">>}
Returned == {"ok", "failed"}

TypeOK ==
  /\ faults \subseteq Fault
  /\ session \in {"up", "killed", "gone"}
  /\ shape \in [Agent -> Shape \cup {None}]
  /\ rec \in [Agent -> Record \cup {None}]
  /\ setup \in [Agent -> {"none", "waiting", "running", "ok", "err"}]
  /\ entry \in [Agent -> BOOLEAN]
  /\ create \in [Agent -> {"idle", "write", "register", "window", "record", "give",
                           "lookup", "wait", "undo"} \cup Returned]
  /\ undo \in [Agent -> Plan]
  /\ delete \in [Agent -> {"idle", "cancel", "forget", "read", "kill", "await",
                           "terminate", "erase"}]
  /\ seen \in [Agent -> Record \cup {None}]
  /\ pane \in [Agent -> {"none", "open", "closed"}]
  /\ wrapper \in [Agent -> {"none", "boot", "refuse", "started", "run", "exited",
                            "settle", "ended"}]
  /\ child \in [Agent -> {"none", "alive", "ended"}]
  /\ answer \in [Agent -> {"none", "ask", "asked", "ok", "err"}]

Init ==
  /\ faults = {}
  /\ session = "up"
  /\ shape = [a \in Agent |-> None]
  /\ rec = [a \in Agent |-> None]
  /\ setup = [a \in Agent |-> "none"]
  /\ entry = [a \in Agent |-> FALSE]
  /\ create = [a \in Agent |-> "idle"]
  /\ undo = [a \in Agent |-> <<>>]
  /\ delete = [a \in Agent |-> "idle"]
  /\ seen = [a \in Agent |-> None]
  /\ pane = [a \in Agent |-> "none"]
  /\ wrapper = [a \in Agent |-> "none"]
  /\ child = [a \in Agent |-> "none"]
  /\ answer = [a \in Agent |-> "none"]

Happens(f) == f \in Fault /\ faults' = faults \cup {f}
Owned(a) == shape[a].owned
WithSetup(a) == shape[a].setup
Registered(a) == rec[a] # None
Busy(a) == setup[a] \in {"waiting", "running"}
TmuxUp == session = "up" \/ "tmux" \in faults   \* a kill that failed may leave it
Cancelled(a) == ~ entry[a] \/ ~ Busy(a)   \* Cancel finds nothing, or has seen the end

Erase(a) == rec' = [rec EXCEPT ![a] = None]
Forget(a) == entry' = [entry EXCEPT ![a] = FALSE]
Close(a) == pane' = [pane EXCEPT ![a] = IF @ = "open" THEN "closed" ELSE @]
Kill(a) == child' = [child EXCEPT ![a] = IF @ = "alive" THEN "ended" ELSE @]

------------------------------------------------------------------------------
(* CreateAgent                                                             *)

CreateGoes(a, step) == create' = [create EXCEPT ![a] = step]
Unwind(a, steps) ==
  /\ undo' = [undo EXCEPT ![a] = steps]
  /\ CreateGoes(a, IF steps = <<>> THEN "failed" ELSE "undo")
Launch(a) == IF Owned(a) THEN "window" ELSE "ok"
FailedSetup == <<"cancel", "stop", "forget">>

(* The Session is looked up, and a pane of the client's is looked for in   *)
(* its tmux session.                                                       *)
BeginCreate(a, s) ==
  /\ create[a] = "idle"
  /\ session # "gone"
  /\ s.owned \/ TmuxUp
  /\ shape' = [shape EXCEPT ![a] = s]
  /\ pane' = [pane EXCEPT ![a] = IF s.owned THEN "none" ELSE "open"]
  /\ CreateGoes(a, "write")
  /\ UNCHANGED <<world, rec, setup, entry, undo, delete, seen, wrapper, child, answer>>

WriteRecord(a) ==
  /\ create[a] = "write"
  /\ rec' = [rec EXCEPT ![a] = [pane |-> ~ Owned(a), group |-> FALSE]]
  /\ CreateGoes(a, IF WithSetup(a) THEN "register" ELSE Launch(a))
  /\ UNCHANGED <<world, setup, entry, shape, undo, delete, seen, processes>>

(* A pane that is known is in the setup's channel from the start.          *)
Register(a) ==
  /\ create[a] = "register"
  /\ setup' = [setup EXCEPT ![a] = IF Owned(a) THEN "waiting" ELSE "running"]
  /\ entry' = [entry EXCEPT ![a] = TRUE]
  /\ CreateGoes(a, Launch(a))
  /\ UNCHANGED <<world, rec, shape, undo, delete, seen, processes>>

OpenWindow(a) ==
  /\ create[a] = "window"
  /\ TmuxUp
  /\ pane' = [pane EXCEPT ![a] = "open"]
  /\ wrapper' = [wrapper EXCEPT ![a] = "boot"]
  /\ CreateGoes(a, "record")
  /\ UNCHANGED <<world, rec, setup, entry, shape, undo, delete, seen, child, answer>>

(* new-window fails; an error may hide a window that opened.               *)
WindowFails(a) ==
  /\ create[a] = "window"
  /\ Unwind(a, IF WithSetup(a) THEN <<"delete", "cancel", "forget">> ELSE <<"delete">>)
  /\ \/ UNCHANGED <<faults, pane, wrapper>>
     \/ /\ Happens("tmux")
        /\ pane' = [pane EXCEPT ![a] = "open"]
        /\ wrapper' = [wrapper EXCEPT ![a] = "boot"]
  /\ UNCHANGED <<session, rec, setup, entry, shape, delete, seen, child, answer>>

(* The binary of the wrapper is not found.                                 *)
CommandFails(a) ==
  /\ create[a] = "window"
  /\ Unwind(a, IF WithSetup(a) THEN <<"cancel", "forget", "delete">> ELSE <<"delete">>)
  /\ UNCHANGED <<world, rec, setup, entry, shape, delete, seen, processes>>

(* Mutant: an update that puts the record back.                            *)
RecordPaneAnyway(a) ==
  /\ create[a] = "record"
  /\ rec' = [rec EXCEPT ![a] = IF @ = None THEN [pane |-> TRUE, group |-> FALSE]
                               ELSE [@ EXCEPT !.pane = TRUE]]
  /\ CreateGoes(a, IF WithSetup(a) THEN "give" ELSE "ok")
  /\ UNCHANGED <<world, setup, entry, shape, undo, delete, seen, processes>>

(* The record is read again: it may be gone by now.                        *)
RecordPane(a) ==
  /\ create[a] = "record"
  /\ \/ /\ Registered(a)
        /\ rec' = [rec EXCEPT ![a].pane = TRUE]
        /\ CreateGoes(a, IF WithSetup(a) THEN "give" ELSE "ok")
        /\ UNCHANGED undo
     \/ /\ ~ Registered(a)
        /\ Unwind(a, IF WithSetup(a) THEN FailedSetup ELSE <<>>)
        /\ UNCHANGED rec
  /\ UNCHANGED <<world, setup, entry, shape, delete, seen, processes>>

GivePane(a) ==
  /\ create[a] = "give"
  /\ setup' = [setup EXCEPT ![a] = IF entry[a] /\ @ = "waiting" THEN "running" ELSE @]
  /\ CreateGoes(a, "lookup")
  /\ UNCHANGED <<world, rec, entry, shape, undo, delete, seen, processes>>

(* Wait looks the setup up first.                                          *)
LookUp(a) ==
  /\ create[a] = "lookup"
  /\ \/ /\ entry[a] /\ CreateGoes(a, "wait")
        /\ UNCHANGED undo
     \/ ~ entry[a] /\ Unwind(a, FailedSetup)
  /\ UNCHANGED <<world, rec, setup, entry, shape, delete, seen, processes>>

WaitReturns(a) ==
  /\ create[a] = "wait"
  /\ \/ /\ setup[a] = "ok"
        /\ Forget(a)
        /\ CreateGoes(a, "ok")
        /\ UNCHANGED undo
     \/ /\ setup[a] = "err"
        /\ Unwind(a, FailedSetup)
        /\ UNCHANGED entry
  /\ UNCHANGED <<world, rec, setup, shape, delete, seen, processes>>

Disconnect(a) ==
  /\ create[a] = "wait"
  /\ Unwind(a, FailedSetup)
  /\ UNCHANGED <<world, rec, setup, entry, shape, delete, seen, processes>>

(* The steps of a failing creation, in the order each failure has them.    *)
Undo(a, step) == create[a] = "undo" /\ undo[a] # <<>> /\ Head(undo[a]) = step
Done(a) == Unwind(a, Tail(undo[a]))

UndoDelete(a) ==
  /\ Undo(a, "delete") /\ Done(a)
  /\ Erase(a)
  /\ UNCHANGED <<world, setup, entry, shape, delete, seen, processes>>

UndoCancel(a) ==
  /\ Undo(a, "cancel") /\ Cancelled(a) /\ Done(a)
  /\ UNCHANGED <<world, rec, setup, entry, shape, delete, seen, processes>>

UndoForget(a) ==
  /\ Undo(a, "forget") /\ Done(a)
  /\ Forget(a)
  /\ UNCHANGED <<world, rec, setup, shape, delete, seen, processes>>

(* Mutant: the record goes and the pane stays.                             *)
StopRecordOnly(a) ==
  /\ Undo(a, "stop")
  /\ Unwind(a, <<"delete", "forget">>)
  /\ UNCHANGED <<world, rec, setup, entry, shape, delete, seen, processes>>

(* stopFailedOwnedAgent, the middle step of FailedSetup: by the pane, else *)
(* by the process group, else not at all.                                  *)
Stop(a) ==
  /\ Undo(a, "stop")
  /\ \/ /\ pane[a] = "open"
        /\ Close(a)
        /\ Unwind(a, <<"delete", "forget">>)
        /\ UNCHANGED faults
     \/ /\ IF pane[a] = "open" THEN Happens("tmux") ELSE UNCHANGED faults
        /\ Unwind(a, IF Registered(a) /\ rec[a].group
                     THEN <<"terminate", "delete", "forget">> ELSE <<"forget">>)
        /\ UNCHANGED pane
  /\ UNCHANGED <<session, rec, setup, entry, shape, delete, seen, wrapper, child, answer>>

(* A group that cannot be signalled keeps its record.                      *)
UndoTerminate(a) ==
  /\ Undo(a, "terminate")
  /\ \/ Kill(a) /\ Done(a)
     \/ Unwind(a, <<"forget">>) /\ UNCHANGED child
  /\ UNCHANGED <<world, rec, setup, entry, shape, delete, seen, pane, wrapper, answer>>

------------------------------------------------------------------------------
(* DELETE /agents/{id}                                                     *)

DeleteGoes(a, step) == delete' = [delete EXCEPT ![a] = step]

(* A client knows the Agent from an earlier list.                          *)
BeginDelete(a) ==
  /\ delete[a] = "idle" /\ create[a] \notin {"idle", "write"}
  /\ IF create[a] \in Returned THEN UNCHANGED faults ELSE Happens("early")
  /\ DeleteGoes(a, "cancel")
  /\ UNCHANGED <<session, rec, setup, entry, shape, create, undo, seen, processes>>

DeleteCancels(a) ==
  /\ delete[a] = "cancel" /\ Cancelled(a)
  /\ DeleteGoes(a, "forget")
  /\ UNCHANGED <<world, rec, setup, entry, shape, create, undo, seen, processes>>

DeleteForgets(a) ==
  /\ delete[a] = "forget"
  /\ Forget(a)
  /\ DeleteGoes(a, "read")
  /\ UNCHANGED <<world, rec, setup, shape, create, undo, seen, processes>>

(* A pane of the daemon's is killed; in a client's only the process group  *)
(* is, once it is known.                                                   *)
DeleteReads(a) ==
  /\ delete[a] = "read"
  /\ \/ /\ Registered(a)
        /\ seen' = [seen EXCEPT ![a] = rec[a]]
        /\ DeleteGoes(a, IF Owned(a) THEN "kill"
                         ELSE IF rec[a].group THEN "terminate" ELSE "await")
     \/ /\ ~ Registered(a)
        /\ DeleteGoes(a, "idle")
        /\ UNCHANGED seen
  /\ UNCHANGED <<world, rec, setup, entry, shape, create, undo, processes>>

(* Without a recorded pane the target is empty, which tmux takes for the   *)
(* current pane, whichever that is.  The result is ignored.                *)
DeleteKills(a) ==
  /\ delete[a] = "kill"
  /\ \/ seen[a].pane /\ Close(a) /\ UNCHANGED faults
     \/ ~ seen[a].pane /\ (UNCHANGED pane \/ \E b \in Agent : Close(b)) /\ UNCHANGED faults
     \/ Happens("tmux") /\ UNCHANGED pane
  /\ DeleteGoes(a, "erase")
  /\ UNCHANGED <<session, rec, setup, entry, shape, create, undo, seen, wrapper, child, answer>>

(* waitForChildProcessGroup: for five seconds at most.                     *)
DeleteAwaits(a) ==
  /\ delete[a] = "await"
  /\ \/ Registered(a) /\ rec[a].group /\ DeleteGoes(a, "terminate")
     \/ ~ (Registered(a) /\ rec[a].group) /\ DeleteGoes(a, "idle")
  /\ UNCHANGED <<world, rec, setup, entry, shape, create, undo, seen, processes>>

(* A client that hangs up cuts the wait for the end of the process short.  *)
DeleteTerminates(a) ==
  /\ delete[a] = "terminate"
  /\ \/ Kill(a) /\ DeleteGoes(a, "erase")
     \/ (Kill(a) \/ UNCHANGED child) /\ DeleteGoes(a, "idle")
  /\ UNCHANGED <<world, rec, setup, entry, shape, create, undo, seen, pane, wrapper, answer>>

DeleteErases(a) ==
  /\ delete[a] = "erase"
  /\ Erase(a)
  /\ DeleteGoes(a, "idle")
  /\ UNCHANGED <<world, setup, entry, shape, create, undo, seen, processes>>

------------------------------------------------------------------------------
(* The deletion of the Session: first its tmux session, then its records.  *)

(* Whether the kill succeeds is not looked at.                             *)
KillSession ==
  /\ session = "up"
  /\ session' = "killed"
  /\ \/ /\ pane' = [a \in Agent |-> IF pane[a] = "open" THEN "closed" ELSE pane[a]]
        /\ UNCHANGED faults
     \/ Happens("tmux") /\ UNCHANGED pane
  /\ UNCHANGED <<rec, setup, entry, requests, wrapper, child, answer>>

RemoveSession ==
  /\ session = "killed"
  /\ session' = "gone"
  /\ rec' = [a \in Agent |-> None]
  /\ UNCHANGED <<faults, setup, entry, requests, processes>>

------------------------------------------------------------------------------
(* The startup setup, see OpenCodeSetup                                    *)

SetupSucceeds(a) ==
  /\ setup[a] = "running" /\ child[a] # "none"
  /\ setup' = [setup EXCEPT ![a] = "ok"]
  /\ UNCHANGED <<world, rec, entry, requests, processes>>

(* Mutant: the deadline runs from the moment the pane is known.            *)
SetupFailsLate(a) ==
  /\ setup[a] = "running"
  /\ setup' = [setup EXCEPT ![a] = "err"]
  /\ UNCHANGED <<world, rec, entry, requests, processes>>

(* The deadline, a cancellation, a refusal of the plugin or of tmux.       *)
SetupFails(a) ==
  /\ Busy(a)
  /\ setup' = [setup EXCEPT ![a] = "err"]
  /\ UNCHANGED <<world, rec, entry, requests, processes>>

------------------------------------------------------------------------------
(* agent-wrapper                                                           *)

WrapperGoes(a, step) == wrapper' = [wrapper EXCEPT ![a] = step]

(* A window of the daemon's closes when its command ends.                  *)
WrapperEnds(a) ==
  /\ WrapperGoes(a, "ended")
  /\ IF Owned(a) THEN Close(a) ELSE UNCHANGED pane

(* A client that asked for an Agent in its own pane becomes the wrapper.   *)
BecomeWrapper(a) ==
  /\ create[a] = "ok" /\ ~ Owned(a)
  /\ wrapper[a] = "none" /\ pane[a] = "open"
  /\ WrapperGoes(a, "boot")
  /\ UNCHANGED <<world, rec, setup, entry, requests, pane, child, answer>>

StartChild(a) ==
  /\ wrapper[a] = "boot"
  /\ child' = [child EXCEPT ![a] = "alive"]
  /\ WrapperGoes(a, "started")
  /\ UNCHANGED <<world, rec, setup, entry, requests, pane, answer>>

(* No OpenCode server, or no such binary: only a setup is told.            *)
BootFails(a) ==
  /\ wrapper[a] = "boot"
  /\ IF WithSetup(a) THEN WrapperGoes(a, "refuse") /\ UNCHANGED pane ELSE WrapperEnds(a)
  /\ UNCHANGED <<world, rec, setup, entry, requests, child, answer>>

(* reportSetupFailure: the answer comes when the setup has ended.          *)
ReportRefusal(a) ==
  /\ wrapper[a] = "refuse"
  /\ \/ Cancelled(a) /\ WrapperGoes(a, "exited") /\ UNCHANGED <<faults, pane>>
     \/ Happens("lost") /\ WrapperGoes(a, "exited") /\ UNCHANGED pane
     \/ Happens("lost") /\ WrapperEnds(a)
  /\ UNCHANGED <<session, rec, setup, entry, requests, child, answer>>

(* Mutant: every wrapper waits for its setup, the daemon's panes too.      *)
StartedAsksAlways(a) ==
  /\ wrapper[a] = "started"
  /\ \/ Registered(a) /\ rec' = [rec EXCEPT ![a].group = TRUE]
     \/ ~ Registered(a) /\ UNCHANGED rec
  /\ WrapperGoes(a, "run")
  /\ answer' = [answer EXCEPT ![a] = IF WithSetup(a) THEN "ask" ELSE "none"]
  /\ UNCHANGED <<world, setup, entry, requests, pane, child>>

(* The started event; an Agent that is gone is an error nobody looks at.   *)
(* The setup of a pane of the daemon's is the daemon's to wait for.        *)
ReportStarted(a) ==
  /\ wrapper[a] = "started"
  /\ \/ Registered(a) /\ rec' = [rec EXCEPT ![a].group = TRUE] /\ UNCHANGED faults
     \/ ~ Registered(a) /\ UNCHANGED <<faults, rec>>
     \/ Happens("lost") /\ UNCHANGED rec
  /\ WrapperGoes(a, "run")
  /\ answer' = [answer EXCEPT ![a] = IF WithSetup(a) /\ ~ Owned(a) THEN "ask" ELSE "none"]
  /\ UNCHANGED <<session, setup, entry, requests, pane, child>>

AskSetup(a) ==
  /\ wrapper[a] = "run" /\ answer[a] = "ask"
  /\ \/ /\ answer' = [answer EXCEPT ![a] = IF entry[a] THEN "asked" ELSE "err"]
        /\ UNCHANGED faults
     \/ Happens("lost") /\ answer' = [answer EXCEPT ![a] = "err"]
  /\ UNCHANGED <<session, rec, setup, entry, requests, pane, wrapper, child>>

(* WaitOpenCodeSetup forgets the setup whatever came of it.                *)
SetupAnswers(a) ==
  /\ answer[a] = "asked" /\ setup[a] \in {"ok", "err"}
  /\ answer' = [answer EXCEPT ![a] = setup[a]]
  /\ Forget(a)
  /\ UNCHANGED <<world, rec, setup, requests, pane, wrapper, child>>

(* The agent has ended, or its setup failed and it is made to.             *)
WrapperSees(a) ==
  /\ wrapper[a] = "run"
  /\ child[a] = "ended" \/ answer[a] = "err"
  /\ Kill(a)
  /\ WrapperGoes(a, "exited")
  /\ UNCHANGED <<world, rec, setup, entry, requests, pane, answer>>

ReportExited(a) ==
  /\ wrapper[a] = "exited"
  /\ \/ Erase(a) /\ WrapperGoes(a, "settle") /\ UNCHANGED <<faults, pane>>
     \/ Happens("lost") /\ WrapperEnds(a) /\ UNCHANGED rec
  /\ UNCHANGED <<session, setup, entry, requests, child, answer>>

(* The exited event cancels the setup before it is answered.               *)
Settle(a) ==
  /\ wrapper[a] = "settle" /\ Cancelled(a)
  /\ Forget(a)
  /\ WrapperEnds(a)
  /\ UNCHANGED <<world, rec, setup, requests, child, answer>>

(* By itself or by a signal, which the wrapper passes on.                  *)
ChildEnds(a) ==
  /\ child[a] = "alive"
  /\ Kill(a)
  /\ UNCHANGED <<world, rec, setup, entry, requests, pane, wrapper, answer>>

UserClosesPane(a) ==
  /\ pane[a] = "open"
  /\ Close(a)
  /\ UNCHANGED <<world, rec, setup, entry, requests, wrapper, child, answer>>

------------------------------------------------------------------------------

Create(a) ==
  \/ WriteRecord(a) \/ Register(a) \/ OpenWindow(a) \/ WindowFails(a) \/ CommandFails(a)
  \/ RecordPane(a) \/ GivePane(a) \/ LookUp(a) \/ WaitReturns(a)
  \/ UndoDelete(a) \/ UndoCancel(a) \/ UndoForget(a) \/ Stop(a) \/ UndoTerminate(a)
Delete(a) ==
  \/ DeleteCancels(a) \/ DeleteForgets(a) \/ DeleteReads(a) \/ DeleteKills(a)
  \/ DeleteAwaits(a) \/ DeleteTerminates(a) \/ DeleteErases(a)
Wrapper(a) ==
  \/ StartChild(a) \/ BootFails(a) \/ ReportRefusal(a) \/ ReportStarted(a)
  \/ AskSetup(a) \/ SetupAnswers(a) \/ WrapperSees(a) \/ ReportExited(a) \/ Settle(a)
Setup(a) == SetupSucceeds(a) \/ SetupFails(a)

Next ==
  \/ KillSession \/ RemoveSession
  \/ \E a \in Agent :
       \/ \E s \in Shape : BeginCreate(a, s)
       \/ Create(a) \/ Disconnect(a) \/ BeginDelete(a) \/ Delete(a) \/ Setup(a)
       \/ BecomeWrapper(a) \/ Wrapper(a) \/ ChildEnds(a) \/ UserClosesPane(a)

Spec == Init /\ [][Next]_vars

(* The daemon and the wrapper go on; a setup has its deadline; an agent    *)
(* ends when its wrapper passes the hangup of its pane on.                 *)
FairSpec ==
  /\ Spec
  /\ \A a \in Agent : /\ WF_vars(Create(a)) /\ WF_vars(Delete(a)) /\ WF_vars(Setup(a))
                      /\ WF_vars(Wrapper(a))
                      /\ WF_vars(pane[a] = "closed" /\ ChildEnds(a))

------------------------------------------------------------------------------
(* Properties                                                              *)

(* An Agent that left the Registry, because it exited, was deleted or lost *)
(* its Session, is never put back: no read of its record outlives it.      *)
GoneStaysGone ==
  [][\A a \in Agent : rec[a] = None /\ create[a] \notin {"idle", "write"} => rec'[a] = None]_vars

(* "Registration is guaranteed": an agent process is known to the Registry *)
(* for as long as nobody has hung up on it.                                *)
RunningIsRegistered ==
  \A a \in Agent : child[a] = "alive" => Registered(a) \/ pane[a] = "closed"

(* It takes a deletion that overlaps the creation, or an error of tmux, to *)
(* lose track of an agent process: whatever else removes a record, however *)
(* many calls are lost, has closed the pane or ended the process before.   *)
OnlyFaultsOrphan == faults \cap {"early", "tmux"} = {} => RunningIsRegistered

(* While an Agent is registered, who has still to ask for the outcome of   *)
(* its setup finds it, unless a deletion came first: the creation and the  *)
(* wrapper never take the answer from each other.                          *)
SetupIsKept ==
  \A a \in Agent :
    /\ Registered(a) /\ ~ entry[a]
    /\ \/ create[a] \in {"give", "lookup"}
       \/ wrapper[a] = "run" /\ answer[a] = "ask"
    => delete[a] # "idle" \/ seen[a] # None

(* A failed creation leaves, in the end, neither a record nor a process,   *)
(* if nothing went wrong around it.                                        *)
FailedCreationsVanish ==
  \A a \in Agent :
    create[a] = "failed" ~> faults # {} \/ (rec[a] = None /\ child[a] # "alive")

(* Every creation and every deletion returns, and so does every wrapper    *)
(* that has begun to report its end: none waits for a setup for ever.      *)
RequestsReturn ==
  \A a \in Agent :
    /\ create[a] # "idle" ~> create[a] \in Returned
    /\ delete[a] # "idle" ~> delete[a] = "idle"
    /\ wrapper[a] \in {"refuse", "exited", "settle"} ~> wrapper[a] = "ended"

(* The Registry tracks active Agents only: once its wrapper has ended, an  *)
(* Agent is not listed.                                                    *)
EndedAgentsLeave == \A a \in Agent : wrapper[a] = "ended" => rec[a] = None
==============================================================================
