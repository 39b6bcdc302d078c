------------------------- MODULE AgentLifecycleProofs -------------------------
(***************************************************************************)
(* Proofs about AgentLifecycle, for any number of Agents of any shape and  *)
(* any faults.                                                             *)
(***************************************************************************)
EXTENDS AgentLifecycle, TLAPS

(* The plans that remove the record.                                       *)
WithDelete == {<<"delete">>, <<"delete", "forget">>, <<"delete", "cancel", "forget">>,
               <<"cancel", "forget", "delete">>, <<"forget", "delete">>,
               <<"terminate", "delete", "forget">>}

(* The one that stops the process group first, which may fail.             *)
Terminating == <<"terminate", "delete", "forget">>

(* Where each plan of a failing creation belongs.                          *)
LEMMA Plans ==
  /\ <<>> \in Plan \ WithDelete
  /\ <<"forget">> \in Plan \ WithDelete
  /\ FailedSetup \in Plan \ WithDelete
  /\ <<"delete">> \in Plan \cap (WithDelete \ {Terminating})
  /\ <<"delete", "forget">> \in Plan \cap (WithDelete \ {Terminating})
  /\ <<"delete", "cancel", "forget">> \in Plan \cap (WithDelete \ {Terminating})
  /\ <<"cancel", "forget", "delete">> \in Plan \cap (WithDelete \ {Terminating})
  /\ Terminating \in Plan \cap WithDelete
  <1>1. <<>> \notin WithDelete /\ <<"forget">> \notin WithDelete
    BY SMT DEF WithDelete
  <1>2. FailedSetup \notin WithDelete
    BY SMT DEF WithDelete, FailedSetup
  <1>3. Terminating \notin {<<"delete">>, <<"delete", "forget">>, <<"delete", "cancel", "forget">>,
                          <<"cancel", "forget", "delete">>}
    BY SMT DEF Terminating
  <1> QED
    BY <1>1, <1>2, <1>3 DEF Plan, WithDelete, FailedSetup, Terminating

(* The plan of a failed setup.                                             *)
LEMMA PlanFailed == FailedSetup \in Plan /\ FailedSetup # <<>>
  BY SMT DEF Plan, FailedSetup

(* What is left of a plan after its first step.                            *)
LEMMA PlanTail ==
  ASSUME NEW p \in Plan, p # <<>>
  PROVE  /\ Tail(p) \in Plan
         /\ Head(p) = "delete" => p \in WithDelete /\ Tail(p) \notin WithDelete
         /\ Head(p) # "delete" => (Tail(p) \in WithDelete <=> p \in WithDelete)
         /\ Head(p) = "stop" => p \notin WithDelete
         /\ Tail(p) # Terminating
         /\ Head(p) = "terminate" => p = Terminating
  <1>1. <<>> \notin WithDelete /\ <<"forget">> \notin WithDelete
    BY SMT DEF WithDelete
  <1>2. /\ <<"cancel", "forget">> \notin WithDelete /\ <<"stop", "forget">> \notin WithDelete
        /\ <<"cancel", "stop", "forget">> \notin WithDelete
    BY SMT DEF WithDelete
  <1>11. /\ Terminating \notin {<<>>, <<"forget">>, <<"delete">>, <<"cancel", "forget">>,
                             <<"stop", "forget">>, <<"delete", "forget">>, <<"forget", "delete">>}
    BY SMT DEF Terminating
  <1>3. CASE p = <<"forget">> \/ p = <<"delete">>
    <2>1. /\ Tail(<<"forget">>) = <<>> /\ Head(<<"forget">>) = "forget"
          /\ Tail(<<"delete">>) = <<>> /\ Head(<<"delete">>) = "delete"
      BY SMT
    <2> QED
      BY <1>11, <1>1, <1>3, <2>1 DEF Plan, WithDelete
  <1>4. CASE p = <<"cancel", "forget">> \/ p = <<"stop", "forget">>
    <2>1. /\ Tail(<<"cancel", "forget">>) = <<"forget">> /\ Head(<<"cancel", "forget">>) = "cancel"
          /\ Tail(<<"stop", "forget">>) = <<"forget">> /\ Head(<<"stop", "forget">>) = "stop"
      BY SMT
    <2> QED
      BY <1>11, <1>1, <1>2, <1>4, <2>1 DEF Plan
  <1>5. CASE p = <<"delete", "forget">>
    <2>1. Tail(p) = <<"forget">> /\ Head(p) = "delete"
      BY <1>5, SMT
    <2> QED
      BY <1>11, <1>1, <1>5, <2>1 DEF Plan, WithDelete
  <1>6. CASE p = <<"cancel", "stop", "forget">>
    <2>1. Tail(p) = <<"stop", "forget">> /\ Head(p) = "cancel"
      BY <1>6, SMT
    <2> QED
      BY <1>11, <1>2, <1>6, <2>1 DEF Plan
  <1>7. CASE p = <<"delete", "cancel", "forget">>
    <2>1. Tail(p) = <<"cancel", "forget">> /\ Head(p) = "delete"
      BY <1>7, SMT
    <2> QED
      BY <1>11, <1>2, <1>7, <2>1 DEF Plan, WithDelete
  <1>8. CASE p = <<"forget", "delete">>
    <2>1. Tail(p) = <<"delete">> /\ Head(p) = "forget"
      BY <1>8, SMT
    <2> QED
      BY <1>11, <1>8, <2>1 DEF Plan, WithDelete
  <1>9. CASE p = <<"cancel", "forget", "delete">>
    <2>1. Tail(p) = <<"forget", "delete">> /\ Head(p) = "cancel"
      BY <1>9, SMT
    <2> QED
      BY <1>11, <1>9, <2>1 DEF Plan, WithDelete
  <1>10. CASE p = <<"terminate", "delete", "forget">>
    <2>1. Tail(p) = <<"delete", "forget">> /\ Head(p) = "terminate"
      BY <1>10, SMT
    <2> QED
      BY <1>11, <1>10, <2>1 DEF Plan, WithDelete, Terminating
  <1> QED
    BY <1>3, <1>4, <1>5, <1>6, <1>7, <1>8, <1>9, <1>10 DEF Plan

(* The partial updates of a record keep its type.                          *)
LEMMA RecUpdates ==
  ASSUME rec \in [Agent -> Record \cup {None}], NEW a \in Agent, rec[a] # None
  PROVE  /\ [rec EXCEPT ![a].pane = TRUE] \in [Agent -> Record \cup {None}]
         /\ [rec EXCEPT ![a].group = TRUE] \in [Agent -> Record \cup {None}]
  <1>1. rec[a] \in Record
    OBVIOUS
  <1>2. [rec[a] EXCEPT !.pane = TRUE] \in Record /\ [rec[a] EXCEPT !.group = TRUE] \in Record
    BY <1>1 DEF Record
  <1>3. ASSUME NEW r \in Record
        PROVE  [rec EXCEPT ![a] = r] \in [Agent -> Record \cup {None}]
    OBVIOUS
  <1>4. /\ [rec EXCEPT ![a].pane = TRUE] = [rec EXCEPT ![a] = [rec[a] EXCEPT !.pane = TRUE]]
        /\ [rec EXCEPT ![a].group = TRUE] = [rec EXCEPT ![a] = [rec[a] EXCEPT !.group = TRUE]]
    OBVIOUS
  <1> QED
    BY <1>2, <1>3, <1>4, Zenon

(* What the partial updates of a record leave alone.                       *)
LEMMA RecFields ==
  ASSUME rec \in [Agent -> Record \cup {None}], NEW a \in Agent, rec[a] # None
  PROVE  /\ rec' = [rec EXCEPT ![a].pane = TRUE] =>
              /\ \A b \in Agent : b # a => rec'[b] = rec[b]
              /\ rec'[a] # None /\ rec'[a].pane /\ rec'[a].group = rec[a].group
         /\ rec' = [rec EXCEPT ![a].group = TRUE] =>
              /\ \A b \in Agent : b # a => rec'[b] = rec[b]
              /\ rec'[a] # None /\ rec'[a].group /\ rec'[a].pane = rec[a].pane
  <1>1. rec[a] \in Record
    OBVIOUS
  <1>2. DEFINE r == [rec[a] EXCEPT !.pane = TRUE]
               s == [rec[a] EXCEPT !.group = TRUE]
  <1>3. r \in Record /\ r.pane /\ r.group = rec[a].group
    BY <1>1 DEF Record
  <1>4. s \in Record /\ s.group /\ s.pane = rec[a].pane
    BY <1>1 DEF Record
  <1>5. rec' = [rec EXCEPT ![a].pane = TRUE] => rec' = [rec EXCEPT ![a] = r]
    OBVIOUS
  <1>6. rec' = [rec EXCEPT ![a].group = TRUE] => rec' = [rec EXCEPT ![a] = s]
    OBVIOUS
  <1>7. r # None /\ s # None
    BY <1>3, <1>4, AgentLifecycleAssumption
  <1>8. ASSUME NEW q, rec' = [rec EXCEPT ![a] = q]
        PROVE  rec'[a] = q /\ \A b \in Agent : b # a => rec'[b] = rec[b]
    BY <1>8
  <1> HIDE DEF r, s
  <1> QED
    BY <1>3, <1>4, <1>5, <1>6, <1>7, <1>8

(* A failing creation takes up its plan.                                   *)
LEMMA UnwindPlan ==
  ASSUME NEW a \in Agent, NEW p \in Plan, p # <<>>, undo \in [Agent -> Plan], Unwind(a, p)
  PROVE  /\ undo' = [undo EXCEPT ![a] = p] /\ undo' \in [Agent -> Plan]
         /\ create' = [create EXCEPT ![a] = "undo"]
  BY DEF Unwind, CreateGoes

(* A creation whose setup failed leaves the record to its Stop.            *)
LEMMA UnwindFailed ==
  ASSUME TypeOK, NEW a \in Agent, Unwind(a, FailedSetup)
  PROVE  /\ undo' = [undo EXCEPT ![a] = FailedSetup]
         /\ undo'[a] \notin WithDelete
         /\ create' = [create EXCEPT ![a] = "undo"]
  BY Plans, PlanFailed DEF Unwind, CreateGoes, TypeOK

(* The plans Stop may leave.                                               *)
LEMMA StopPlans ==
  /\ <<"delete", "forget">> \in Plan \ {<<>>}
  /\ <<"terminate", "delete", "forget">> \in Plan \ {<<>>}
  /\ <<"forget">> \in Plan \ {<<>>}
  <1>1. /\ <<"delete", "forget">> # <<>> /\ <<"forget">> # <<>>
        /\ <<"terminate", "delete", "forget">> # <<>>
    BY SMT
  <1> QED
    BY <1>1 DEF Plan
------------------------------------------------------------------------------
(* The inductive invariant                                                 *)

(* How the parts of one Agent go together, whatever goes wrong.            *)
Structure(a) ==
  /\ create[a] # "idle" => shape[a] \in Shape
  /\ create[a] = "idle" => rec[a] = None
  /\ create[a] \in {"window", "record", "give", "lookup", "wait", "undo", "failed"} => Owned(a)
  /\ create[a] \in {"give", "lookup", "wait"} => WithSetup(a)
  /\ create[a] \in {"idle", "write", "register", "window"} => wrapper[a] = "none"
  /\ create[a] \in {"write", "register", "window"} /\ Owned(a) => pane[a] = "none"
  /\ wrapper[a] # "none" => pane[a] # "none"
  /\ wrapper[a] \in {"none", "boot", "refuse"} => child[a] = "none"
  /\ wrapper[a] \in {"none", "boot", "refuse", "started"} => answer[a] = "none"
  /\ wrapper[a] \in {"started", "run"} => child[a] # "none"
  /\ wrapper[a] = "settle" => rec[a] = None
  /\ child[a] = "alive" => wrapper[a] \in {"started", "run"}
  /\ Registered(a) /\ ~ Owned(a) => rec[a].pane
  /\ Registered(a) /\ rec[a].group => child[a] # "none"
  /\ delete[a] = "terminate" => child[a] # "none"
  /\ delete[a] \in {"kill", "await", "terminate", "erase"} => seen[a] # None
  /\ answer[a] # "none" => WithSetup(a) /\ ~ Owned(a) /\ create[a] = "ok"

Structured == \A a \in Agent : Structure(a)

(* No deletion has overlapped a creation, and tmux has done what it said.  *)
Calm == faults \cap {"early", "tmux"} = {}

(* Then an Agent whose pane is open and whose process may still come or    *)
(* go on is registered, and a record is removed only when that is over.    *)
Tracked(a) ==
  /\ delete[a] # "idle" => create[a] \in Returned
  /\ create[a] \in {"register", "window"} /\ session # "gone" => Registered(a)
  /\ /\ pane[a] = "open" /\ create[a] \notin {"idle", "write"}
     /\ wrapper[a] \in {"none", "boot", "started", "run"} /\ child[a] # "ended"
     => Registered(a)
  /\ Registered(a) /\ ~ rec[a].pane =>
       \/ create[a] \in {"register", "window", "record"}
       \/ create[a] = "undo" /\ undo[a] \in WithDelete \ {Terminating}
  /\ create[a] = "undo" /\ undo[a] \in WithDelete => pane[a] # "open"
  /\ delete[a] = "kill" => seen[a].pane
  /\ delete[a] = "erase" => pane[a] # "open" \/ child[a] = "ended"
  /\ session # "up" => pane[a] # "open"

CalmTracked == Calm => \A a \in Agent : Tracked(a)

(* The outcome of a setup has still to be asked for: by the creation if    *)
(* the pane is the daemon's, else by the wrapper.                          *)
Unasked(a) ==
  IF Owned(a) THEN create[a] \in {"window", "record", "give", "lookup"}
  ELSE create[a] = "ok" /\ answer[a] \in {"none", "ask"}
Kept(a) ==
  create[a] # "idle" /\ WithSetup(a) /\ Unasked(a) /\ Registered(a) =>
    entry[a] \/ delete[a] # "idle" \/ seen[a] # None

AllKept == \A a \in Agent : Kept(a)

IInv ==
  /\ TypeOK
  /\ Structured
  /\ CalmTracked
  /\ AllKept

------------------------------------------------------------------------------
(* The steps that need more than their definition                         *)

(* What WriteRecord writes.                                                *)
LEMMA WriteFields ==
  ASSUME TypeOK, NEW b \in Agent, shape[b] \in Shape, WriteRecord(b)
  PROVE  /\ \A a \in Agent : a # b => rec'[a] = rec[a]
         /\ rec'[b] # None /\ (rec'[b].pane <=> ~ Owned(b)) /\ ~ rec'[b].group
  <1>1. /\ \A a \in Agent : a # b => rec'[a] = rec[a]
        /\ rec'[b] = [pane |-> ~ Owned(b), group |-> FALSE]
    BY DEF WriteRecord, TypeOK
  <1>2. Owned(b) \in BOOLEAN
    BY AgentLifecycleAssumption DEF Owned
  <1>3. PICK o \in BOOLEAN : o = ~ Owned(b)
    BY <1>2
  <1>4. rec'[b] = [pane |-> o, group |-> FALSE]
    BY <1>1, <1>3
  <1>5. [pane |-> o, group |-> FALSE] \in Record
    BY <1>3 DEF Record
  <1>6. rec'[b].pane = o /\ rec'[b].group = FALSE
    BY <1>4
  <1>7. rec'[b] # None
    BY <1>4, <1>5, AgentLifecycleAssumption
  <1> QED
    BY <1>1, <1>3, <1>6, <1>7

(* One step of a failing creation.                                         *)
LEMMA DoneStep ==
  ASSUME TypeOK, NEW a \in Agent, NEW step, Undo(a, step), Done(a)
  PROVE  /\ create[a] = "undo" /\ create'[a] \in {"undo", "failed"}
         /\ undo' \in [Agent -> Plan]
         /\ \A b \in Agent : b # a => undo'[b] = undo[b] /\ create'[b] = create[b]
         /\ create'[a] = "failed" => undo'[a] \notin WithDelete
         /\ step = "delete" => undo[a] \in WithDelete /\ undo'[a] \notin WithDelete
         /\ step # "delete" => (undo'[a] \in WithDelete <=> undo[a] \in WithDelete)
         /\ undo'[a] # Terminating
         /\ step = "terminate" => undo[a] = Terminating
  <1> DEFINE p == Tail(undo[a])
  <1>1. /\ undo[a] \in Plan /\ undo[a] # <<>> /\ Head(undo[a]) = step
        /\ create[a] = "undo"
    BY DEF Undo, TypeOK
  <1>2. /\ p \in Plan
        /\ step = "delete" => undo[a] \in WithDelete /\ p \notin WithDelete
        /\ step # "delete" => (p \in WithDelete <=> undo[a] \in WithDelete)
        /\ p # Terminating
        /\ step = "terminate" => undo[a] = Terminating
    BY <1>1, PlanTail
  <1>3. /\ undo' = [undo EXCEPT ![a] = p]
        /\ create' = [create EXCEPT ![a] = IF p = <<>> THEN "failed" ELSE "undo"]
    BY DEF Done, Unwind, CreateGoes
  <1>4. <<>> \notin WithDelete
    BY Plans
  <1> HIDE DEF p
  <1>5. undo'[a] = p /\ undo' \in [Agent -> Plan]
    BY <1>2, <1>3 DEF TypeOK
  <1>6. create'[a] = IF p = <<>> THEN "failed" ELSE "undo"
    BY <1>3 DEF TypeOK
  <1>7. \A b \in Agent : b # a => undo'[b] = undo[b] /\ create'[b] = create[b]
    BY <1>3 DEF TypeOK
  <1> QED
    BY <1>1, <1>2, <1>4, <1>5, <1>6, <1>7

(* Stop closes the pane, unless tmux fails.                                *)
LEMMA StopStep ==
  ASSUME TypeOK, NEW a \in Agent, Stop(a)
  PROVE  /\ create[a] = "undo" /\ create' = [create EXCEPT ![a] = "undo"]
         /\ undo[a] \notin WithDelete
         /\ \A b \in Agent : b # a => undo'[b] = undo[b] /\ pane'[b] = pane[b]
         /\ pane'[a] # "open" \/ Happens("tmux")
  <1>1. create[a] = "undo" /\ undo[a] \notin WithDelete
    BY PlanTail DEF Stop, Undo, TypeOK
  <1>2. PICK p \in Plan \ {<<>>} : Unwind(a, p)
    BY StopPlans DEF Stop
  <1>3. undo' = [undo EXCEPT ![a] = p] /\ create' = [create EXCEPT ![a] = "undo"]
    BY <1>2, UnwindPlan DEF TypeOK
  <1>4. /\ \A b \in Agent : b # a => undo'[b] = undo[b]
    BY <1>3 DEF TypeOK
  <1>5. /\ \A b \in Agent : b # a => pane'[b] = pane[b]
        /\ pane'[a] # "open" \/ Happens("tmux")
    BY DEF Stop, Close, TypeOK
  <1> QED
    BY <1>1, <1>3, <1>4, <1>5

(* Faults only accumulate.                                                 *)
LEMMA FaultsStep ==
  ASSUME [Next]_vars
  PROVE  faults \subseteq faults' /\ (faults \subseteq Fault => faults' \subseteq Fault)
  <1> USE DEF Happens, world
  <1>1. CASE KillSession \/ RemoveSession
    BY <1>1 DEF KillSession, RemoveSession
  <1>2. ASSUME NEW b \in Agent, Create(b)
       PROVE  faults \subseteq faults' /\ (faults \subseteq Fault => faults' \subseteq Fault)
    BY <1>2 DEF Create, WriteRecord, Register, OpenWindow, WindowFails, CommandFails,
       RecordPane, GivePane, LookUp, WaitReturns, UndoDelete, UndoCancel, UndoForget,
       Stop, UndoTerminate
  <1>3. ASSUME NEW b \in Agent, Delete(b)
       PROVE  faults \subseteq faults' /\ (faults \subseteq Fault => faults' \subseteq Fault)
    BY <1>3 DEF Delete, DeleteCancels, DeleteForgets, DeleteReads, DeleteKills,
       DeleteAwaits, DeleteTerminates, DeleteErases
  <1>4. ASSUME NEW b \in Agent, Wrapper(b)
       PROVE  faults \subseteq faults' /\ (faults \subseteq Fault => faults' \subseteq Fault)
    BY <1>4 DEF Wrapper, StartChild, BootFails, ReportRefusal, ReportStarted,
       AskSetup, SetupAnswers, WrapperSees, ReportExited, Settle
  <1>5. ASSUME NEW b \in Agent, Setup(b)
       PROVE  faults \subseteq faults' /\ (faults \subseteq Fault => faults' \subseteq Fault)
    BY <1>5 DEF Setup, SetupSucceeds, SetupFails
  <1>6. ASSUME NEW b \in Agent, NEW s \in Shape,
              BeginCreate(b, s)
       PROVE  faults \subseteq faults' /\ (faults \subseteq Fault => faults' \subseteq Fault)
    BY <1>6 DEF BeginCreate
  <1>7. ASSUME NEW b \in Agent,
              \/ Disconnect(b) \/ BeginDelete(b)
              \/ BecomeWrapper(b) \/ ChildEnds(b) \/ UserClosesPane(b)
       PROVE  faults \subseteq faults' /\ (faults \subseteq Fault => faults' \subseteq Fault)
    BY <1>7 DEF Disconnect, BeginDelete, BecomeWrapper, ChildEnds, UserClosesPane
  <1>8. CASE UNCHANGED vars
    BY <1>8 DEF vars
  <1> QED
    BY <1>1, <1>2, <1>3, <1>4, <1>5, <1>6, <1>7, <1>8 DEF Next

(* Every step keeps the types.                                             *)
LEMMA TypeStep ==
  ASSUME TypeOK, [Next]_vars
  PROVE  TypeOK'
  <1> USE AgentLifecycleAssumption, FaultsStep DEF TypeOK, Returned
  <1>1. CASE KillSession
    BY <1>1 DEF KillSession, world, requests, processes
  <1>2. CASE RemoveSession
    BY <1>2 DEF RemoveSession, world, requests, processes
  <1>3. ASSUME NEW b \in Agent, NEW s \in Shape, BeginCreate(b, s) PROVE TypeOK'
    BY <1>3 DEF BeginCreate, world, requests, processes, CreateGoes, TmuxUp
  <1>4. ASSUME NEW b \in Agent, WriteRecord(b) PROVE TypeOK'
    BY <1>4 DEF WriteRecord, world, requests, processes, CreateGoes, Launch, Record
  <1>5. ASSUME NEW b \in Agent, Register(b) PROVE TypeOK'
    BY <1>5 DEF Register, world, requests, processes, CreateGoes, Launch
  <1>6. ASSUME NEW b \in Agent, OpenWindow(b) PROVE TypeOK'
    BY <1>6 DEF OpenWindow, world, requests, processes, CreateGoes, TmuxUp
  <1>7. ASSUME NEW b \in Agent, WindowFails(b) PROVE TypeOK'
    BY <1>7, Plans DEF WindowFails, world, requests, processes, Unwind, CreateGoes
  <1>8. ASSUME NEW b \in Agent, CommandFails(b) PROVE TypeOK'
    BY <1>8, Plans DEF CommandFails, world, requests, processes, Unwind, CreateGoes
  <1>9. ASSUME NEW b \in Agent, RecordPane(b) PROVE TypeOK'
    <2>1. Unwind(b, FailedSetup) => /\ undo' \in [Agent -> Plan]
                                    /\ create' = [create EXCEPT ![b] = "undo"]
      BY PlanFailed DEF Unwind, CreateGoes
    <2>2. Unwind(b, <<>>) => /\ undo' \in [Agent -> Plan]
                             /\ create' = [create EXCEPT ![b] = "failed"]
      BY Plans DEF Unwind, CreateGoes
    <2>3. Registered(b) => [rec EXCEPT ![b].pane = TRUE] \in [Agent -> Record \cup {None}]
      BY RecUpdates DEF Registered
    <2>4. CASE Registered(b)
      <3>1. /\ rec' = [rec EXCEPT ![b].pane = TRUE]
            /\ create' = [create EXCEPT ![b] = IF WithSetup(b) THEN "give" ELSE "ok"]
            /\ UNCHANGED undo
        BY <1>9, <2>4 DEF RecordPane, CreateGoes
      <3>2. rec' \in [Agent -> Record \cup {None}]
        BY <3>1, <2>3, <2>4
      <3> QED
        BY <1>9, <3>1, <3>2 DEF RecordPane, world, requests, processes
    <2>5. CASE ~ Registered(b) /\ WithSetup(b)
      BY <1>9, <2>5, <2>1, <2>2, <2>3 DEF RecordPane, world, requests, processes, CreateGoes
    <2>6. CASE ~ Registered(b) /\ ~ WithSetup(b)
      BY <1>9, <2>6, <2>1, <2>2, <2>3 DEF RecordPane, world, requests, processes, CreateGoes
    <2> QED
      BY <1>9, <2>4, <2>5, <2>6 DEF RecordPane
  <1>10. ASSUME NEW b \in Agent, GivePane(b) PROVE TypeOK'
    BY <1>10 DEF GivePane, world, requests, processes, CreateGoes
  <1>11. ASSUME NEW b \in Agent, LookUp(b) PROVE TypeOK'
    <2>1. Unwind(b, FailedSetup) => /\ undo' \in [Agent -> Plan]
                                    /\ create' = [create EXCEPT ![b] = "undo"]
      BY PlanFailed DEF Unwind, CreateGoes
    <2>2. CASE entry[b]
      BY <1>11, <2>2, <2>1 DEF LookUp, world, requests, processes, CreateGoes
    <2>3. CASE ~ entry[b]
      BY <1>11, <2>3, <2>1 DEF LookUp, world, requests, processes, CreateGoes
    <2> QED
      BY <1>11, <2>2, <2>3 DEF LookUp
  <1>12. ASSUME NEW b \in Agent, WaitReturns(b) PROVE TypeOK'
    <2>1. Unwind(b, FailedSetup) => /\ undo' \in [Agent -> Plan]
                                    /\ create' = [create EXCEPT ![b] = "undo"]
      BY PlanFailed DEF Unwind, CreateGoes
    <2>2. CASE setup[b] = "ok"
      BY <1>12, <2>2, <2>1 DEF WaitReturns, world, requests, processes, CreateGoes, Forget
    <2>3. CASE setup[b] = "err"
      BY <1>12, <2>3, <2>1 DEF WaitReturns, world, requests, processes, CreateGoes, Forget
    <2> QED
      BY <1>12, <2>2, <2>3 DEF WaitReturns
  <1>13. ASSUME NEW b \in Agent, Disconnect(b) PROVE TypeOK'
    <2>1. Unwind(b, FailedSetup) => /\ undo' \in [Agent -> Plan]
                                    /\ create' = [create EXCEPT ![b] = "undo"]
      BY PlanFailed DEF Unwind, CreateGoes
    <2> QED
      BY <1>13, <2>1 DEF Disconnect, world, requests, processes
  <1>14. ASSUME NEW b \in Agent, UndoDelete(b) PROVE TypeOK'
    <2>1. Tail(undo[b]) \in Plan
      BY <1>14, PlanTail DEF UndoDelete, Undo
    <2> QED
      BY <1>14, <2>1 DEF UndoDelete, world, requests, processes, Undo, Done, Unwind,
         CreateGoes, Erase
  <1>15. ASSUME NEW b \in Agent, UndoCancel(b) PROVE TypeOK'
    <2>1. Tail(undo[b]) \in Plan
      BY <1>15, PlanTail DEF UndoCancel, Undo
    <2> QED
      BY <1>15, <2>1 DEF UndoCancel, world, requests, processes, Undo, Done, Unwind,
         CreateGoes
  <1>16. ASSUME NEW b \in Agent, UndoForget(b) PROVE TypeOK'
    <2>1. Tail(undo[b]) \in Plan
      BY <1>16, PlanTail DEF UndoForget, Undo
    <2> QED
      BY <1>16, <2>1 DEF UndoForget, world, requests, processes, Undo, Done, Unwind,
         CreateGoes, Forget
  <1>17. ASSUME NEW b \in Agent, Stop(b) PROVE TypeOK'
    <2>1. ASSUME NEW p \in Plan, p # <<>>, Unwind(b, p)
          PROVE  undo' \in [Agent -> Plan] /\ create' = [create EXCEPT ![b] = "undo"]
      BY <2>1, UnwindPlan
    <2> QED
      BY <1>17, <2>1, StopPlans DEF Stop, world, requests, processes, Close
  <1>18. ASSUME NEW b \in Agent, UndoTerminate(b) PROVE TypeOK'
    <2>1. PICK p \in Plan : Unwind(b, p)
      BY <1>18, PlanTail, StopPlans DEF UndoTerminate, Undo, Done
    <2> QED
      BY <1>18, <2>1 DEF UndoTerminate, world, requests, processes, Unwind, CreateGoes, Kill
  <1>19. ASSUME NEW b \in Agent, BeginDelete(b) PROVE TypeOK'
    BY <1>19 DEF BeginDelete, world, requests, processes, DeleteGoes
  <1>20. ASSUME NEW b \in Agent, DeleteCancels(b) PROVE TypeOK'
    BY <1>20 DEF DeleteCancels, world, requests, processes, DeleteGoes
  <1>21. ASSUME NEW b \in Agent, DeleteForgets(b) PROVE TypeOK'
    BY <1>21 DEF DeleteForgets, world, requests, processes, DeleteGoes, Forget
  <1>22. ASSUME NEW b \in Agent, DeleteReads(b) PROVE TypeOK'
    BY <1>22 DEF DeleteReads, world, requests, processes, DeleteGoes
  <1>23. ASSUME NEW b \in Agent, DeleteKills(b) PROVE TypeOK'
    BY <1>23 DEF DeleteKills, world, requests, processes, DeleteGoes, Close
  <1>24. ASSUME NEW b \in Agent, DeleteAwaits(b) PROVE TypeOK'
    BY <1>24 DEF DeleteAwaits, world, requests, processes, DeleteGoes
  <1>25. ASSUME NEW b \in Agent, DeleteTerminates(b) PROVE TypeOK'
    BY <1>25 DEF DeleteTerminates, world, requests, processes, DeleteGoes, Kill
  <1>26. ASSUME NEW b \in Agent, DeleteErases(b) PROVE TypeOK'
    BY <1>26 DEF DeleteErases, world, requests, processes, DeleteGoes, Erase
  <1>27. ASSUME NEW b \in Agent, SetupSucceeds(b) PROVE TypeOK'
    BY <1>27 DEF SetupSucceeds, world, requests, processes
  <1>28. ASSUME NEW b \in Agent, SetupFails(b) PROVE TypeOK'
    BY <1>28 DEF SetupFails, world, requests, processes
  <1>29. ASSUME NEW b \in Agent, BecomeWrapper(b) PROVE TypeOK'
    BY <1>29 DEF BecomeWrapper, world, requests, processes, WrapperGoes
  <1>30. ASSUME NEW b \in Agent, StartChild(b) PROVE TypeOK'
    BY <1>30 DEF StartChild, world, requests, processes, WrapperGoes
  <1>31. ASSUME NEW b \in Agent, BootFails(b) PROVE TypeOK'
    BY <1>31 DEF BootFails, world, requests, processes, WrapperGoes, WrapperEnds, Close
  <1>32. ASSUME NEW b \in Agent, ReportRefusal(b) PROVE TypeOK'
    BY <1>32 DEF ReportRefusal, world, requests, processes, WrapperGoes, WrapperEnds, Close
  <1>33. ASSUME NEW b \in Agent, ReportStarted(b) PROVE TypeOK'
    <2>1. Registered(b) => [rec EXCEPT ![b].group = TRUE] \in [Agent -> Record \cup {None}]
      BY RecUpdates DEF Registered
    <2> QED
      BY <1>33, <2>1 DEF ReportStarted, world, requests, processes, WrapperGoes
  <1>34. ASSUME NEW b \in Agent, AskSetup(b) PROVE TypeOK'
    BY <1>34 DEF AskSetup, world, requests, processes, Happens
  <1>35. ASSUME NEW b \in Agent, SetupAnswers(b) PROVE TypeOK'
    BY <1>35 DEF SetupAnswers, world, requests, processes, Forget
  <1>36. ASSUME NEW b \in Agent, WrapperSees(b) PROVE TypeOK'
    BY <1>36 DEF WrapperSees, world, requests, processes, WrapperGoes, Kill
  <1>37. ASSUME NEW b \in Agent, ReportExited(b) PROVE TypeOK'
    BY <1>37 DEF ReportExited, world, requests, processes, WrapperGoes, WrapperEnds,
       Close, Erase
  <1>38. ASSUME NEW b \in Agent, Settle(b) PROVE TypeOK'
    BY <1>38 DEF Settle, world, requests, processes, WrapperGoes, WrapperEnds, Close, Forget
  <1>39. ASSUME NEW b \in Agent, ChildEnds(b) PROVE TypeOK'
    BY <1>39 DEF ChildEnds, world, requests, processes, Kill
  <1>40. ASSUME NEW b \in Agent, UserClosesPane(b) PROVE TypeOK'
    BY <1>40 DEF UserClosesPane, world, requests, processes, Close
  <1>41. CASE UNCHANGED vars
    BY <1>41 DEF vars, world, requests, processes
  <1> QED
    BY <1>1, <1>2, <1>3, <1>4, <1>5, <1>6, <1>7, <1>8, <1>9, <1>10, <1>11, <1>12,
       <1>13, <1>14, <1>15, <1>16, <1>17, <1>18, <1>19, <1>20, <1>21, <1>22, <1>23,
       <1>24, <1>25, <1>26, <1>27, <1>28, <1>29, <1>30, <1>31, <1>32, <1>33, <1>34,
       <1>35, <1>36, <1>37, <1>38, <1>39, <1>40, <1>41 DEF Next, Create, Delete,
       Wrapper, Setup

(* Every step keeps the structure of every Agent.                          *)
LEMMA StructureStep ==
  ASSUME TypeOK, TypeOK', Structured, [Next]_vars
  PROVE  Structured'
  <1> USE AgentLifecycleAssumption DEF TypeOK, Structured, Structure, Owned, WithSetup,
          Registered, Returned
  <1>1. CASE KillSession
    BY <1>1 DEF KillSession, world, requests, processes
  <1>2. CASE RemoveSession
    BY <1>2 DEF RemoveSession, world, requests, processes
  <1>3. ASSUME NEW b \in Agent, NEW s \in Shape, BeginCreate(b, s) PROVE Structured'
    BY <1>3 DEF BeginCreate, world, requests, processes, CreateGoes, TmuxUp
  <1>4. ASSUME NEW b \in Agent, WriteRecord(b) PROVE Structured'
    <2>1. shape[b] \in Shape
      BY <1>4 DEF WriteRecord
    <2>2. /\ \A a \in Agent : a # b => rec'[a] = rec[a]
          /\ rec'[b] # None /\ (rec'[b].pane <=> ~ Owned(b)) /\ ~ rec'[b].group
      BY <1>4, <2>1, WriteFields
    <2>3. /\ create[b] = "write"
          /\ create' = [create EXCEPT ![b] = IF WithSetup(b) THEN "register" ELSE Launch(b)]
          /\ UNCHANGED <<session, setup, entry, shape, undo, delete, seen, processes>>
      BY <1>4 DEF WriteRecord, CreateGoes, world
    <2>4. create'[b] \in {"register", "window", "ok"} /\ (create'[b] = "ok" => ~ Owned(b))
      BY <2>3 DEF Launch
    <2> QED
      BY <2>1, <2>2, <2>3, <2>4 DEF processes, Launch
  <1>5. ASSUME NEW b \in Agent, Register(b) PROVE Structured'
    BY <1>5 DEF Register, world, requests, processes, CreateGoes, Launch
  <1>6. ASSUME NEW b \in Agent, OpenWindow(b) PROVE Structured'
    BY <1>6 DEF OpenWindow, world, requests, processes, CreateGoes, TmuxUp
  <1>7. ASSUME NEW b \in Agent, WindowFails(b) PROVE Structured'
    BY <1>7 DEF WindowFails, world, requests, processes, Unwind, CreateGoes
  <1>8. ASSUME NEW b \in Agent, CommandFails(b) PROVE Structured'
    BY <1>8 DEF CommandFails, world, requests, processes, Unwind, CreateGoes
  <1>9. ASSUME NEW b \in Agent, RecordPane(b) PROVE Structured'
    <2>1. CASE Registered(b)
      <3>1. rec' = [rec EXCEPT ![b].pane = TRUE]
        BY <1>9, <2>1 DEF RecordPane, Unwind
      <3> QED
        BY <1>9, <2>1, <3>1, RecFields DEF RecordPane, world, requests, processes,
           CreateGoes
    <2>2. CASE ~ Registered(b)
      BY <1>9, <2>2 DEF RecordPane, world, requests, processes, Unwind, CreateGoes
    <2> QED
      BY <2>1, <2>2
  <1>10. ASSUME NEW b \in Agent, GivePane(b) PROVE Structured'
    BY <1>10 DEF GivePane, world, requests, processes, CreateGoes
  <1>11. ASSUME NEW b \in Agent, LookUp(b) PROVE Structured'
    BY <1>11 DEF LookUp, world, requests, processes, CreateGoes, Unwind
  <1>12. ASSUME NEW b \in Agent, WaitReturns(b) PROVE Structured'
    BY <1>12 DEF WaitReturns, world, requests, processes, CreateGoes, Unwind, Forget
  <1>13. ASSUME NEW b \in Agent, Disconnect(b) PROVE Structured'
    BY <1>13 DEF Disconnect, world, requests, processes, CreateGoes, Unwind
  <1>14. ASSUME NEW b \in Agent, UndoDelete(b) PROVE Structured'
    BY <1>14 DEF UndoDelete, world, requests, processes, Undo, Done, Unwind,
       CreateGoes, Erase
  <1>15. ASSUME NEW b \in Agent, UndoCancel(b) PROVE Structured'
    BY <1>15 DEF UndoCancel, world, requests, processes, Undo, Done, Unwind, CreateGoes
  <1>16. ASSUME NEW b \in Agent, UndoForget(b) PROVE Structured'
    BY <1>16 DEF UndoForget, world, requests, processes, Undo, Done, Unwind,
       CreateGoes, Forget
  <1>17. ASSUME NEW b \in Agent, Stop(b) PROVE Structured'
    BY <1>17 DEF Stop, world, requests, processes, Undo, Unwind, CreateGoes, Close
  <1>18. ASSUME NEW b \in Agent, UndoTerminate(b) PROVE Structured'
    BY <1>18 DEF UndoTerminate, world, requests, processes, Undo, Done, Unwind,
       CreateGoes, Kill
  <1>19. ASSUME NEW b \in Agent, BeginDelete(b) PROVE Structured'
    BY <1>19 DEF BeginDelete, world, requests, processes, DeleteGoes
  <1>20. ASSUME NEW b \in Agent, DeleteCancels(b) PROVE Structured'
    BY <1>20 DEF DeleteCancels, world, requests, processes, DeleteGoes
  <1>21. ASSUME NEW b \in Agent, DeleteForgets(b) PROVE Structured'
    BY <1>21 DEF DeleteForgets, world, requests, processes, DeleteGoes, Forget
  <1>22. ASSUME NEW b \in Agent, DeleteReads(b) PROVE Structured'
    BY <1>22 DEF DeleteReads, world, requests, processes, DeleteGoes
  <1>23. ASSUME NEW b \in Agent, DeleteKills(b) PROVE Structured'
    BY <1>23 DEF DeleteKills, world, requests, processes, DeleteGoes, Close
  <1>24. ASSUME NEW b \in Agent, DeleteAwaits(b) PROVE Structured'
    BY <1>24 DEF DeleteAwaits, world, requests, processes, DeleteGoes
  <1>25. ASSUME NEW b \in Agent, DeleteTerminates(b) PROVE Structured'
    BY <1>25 DEF DeleteTerminates, world, requests, processes, DeleteGoes, Kill
  <1>26. ASSUME NEW b \in Agent, DeleteErases(b) PROVE Structured'
    BY <1>26 DEF DeleteErases, world, requests, processes, DeleteGoes, Erase
  <1>27. ASSUME NEW b \in Agent, SetupSucceeds(b) PROVE Structured'
    BY <1>27 DEF SetupSucceeds, world, requests, processes
  <1>28. ASSUME NEW b \in Agent, SetupFails(b) PROVE Structured'
    BY <1>28 DEF SetupFails, world, requests, processes
  <1>29. ASSUME NEW b \in Agent, BecomeWrapper(b) PROVE Structured'
    BY <1>29 DEF BecomeWrapper, world, requests, processes, WrapperGoes
  <1>30. ASSUME NEW b \in Agent, StartChild(b) PROVE Structured'
    BY <1>30 DEF StartChild, world, requests, processes, WrapperGoes
  <1>31. ASSUME NEW b \in Agent, BootFails(b) PROVE Structured'
    BY <1>31 DEF BootFails, world, requests, processes, WrapperGoes, WrapperEnds, Close
  <1>32. ASSUME NEW b \in Agent, ReportRefusal(b) PROVE Structured'
    BY <1>32 DEF ReportRefusal, world, requests, processes, WrapperGoes, WrapperEnds, Close
  <1>33. ASSUME NEW b \in Agent, ReportStarted(b) PROVE Structured'
    <2>1. CASE Registered(b) /\ rec' = [rec EXCEPT ![b].group = TRUE]
      BY <1>33, <2>1, RecFields DEF ReportStarted, world, requests, processes, WrapperGoes
    <2>2. CASE UNCHANGED rec
      BY <1>33, <2>2 DEF ReportStarted, world, requests, processes, WrapperGoes
    <2> QED
      BY <1>33, <2>1, <2>2 DEF ReportStarted
  <1>34. ASSUME NEW b \in Agent, AskSetup(b) PROVE Structured'
    BY <1>34 DEF AskSetup, world, requests, processes
  <1>35. ASSUME NEW b \in Agent, SetupAnswers(b) PROVE Structured'
    BY <1>35 DEF SetupAnswers, world, requests, processes, Forget
  <1>36. ASSUME NEW b \in Agent, WrapperSees(b) PROVE Structured'
    BY <1>36 DEF WrapperSees, world, requests, processes, WrapperGoes, Kill
  <1>37. ASSUME NEW b \in Agent, ReportExited(b) PROVE Structured'
    BY <1>37 DEF ReportExited, world, requests, processes, WrapperGoes, WrapperEnds,
       Close, Erase
  <1>38. ASSUME NEW b \in Agent, Settle(b) PROVE Structured'
    BY <1>38 DEF Settle, world, requests, processes, WrapperGoes, WrapperEnds, Close, Forget
  <1>39. ASSUME NEW b \in Agent, ChildEnds(b) PROVE Structured'
    BY <1>39 DEF ChildEnds, world, requests, processes, Kill
  <1>40. ASSUME NEW b \in Agent, UserClosesPane(b) PROVE Structured'
    BY <1>40 DEF UserClosesPane, world, requests, processes, Close
  <1>41. CASE UNCHANGED vars
    BY <1>41 DEF vars, world, requests, processes
  <1> QED
    BY <1>1, <1>2, <1>3, <1>4, <1>5, <1>6, <1>7, <1>8, <1>9, <1>10, <1>11, <1>12,
       <1>13, <1>14, <1>15, <1>16, <1>17, <1>18, <1>19, <1>20, <1>21, <1>22, <1>23,
       <1>24, <1>25, <1>26, <1>27, <1>28, <1>29, <1>30, <1>31, <1>32, <1>33, <1>34,
       <1>35, <1>36, <1>37, <1>38, <1>39, <1>40, <1>41 DEF Next, Create, Delete,
       Wrapper, Setup

(* What was calm after a step was calm before it.                          *)
LEMMA CalmStep ==
  ASSUME Calm', [Next]_vars
  PROVE  Calm
  BY FaultsStep DEF Calm

(* A calm tmux is up while the Session is.                                 *)
LEMMA CalmUp ==
  ASSUME Calm, TmuxUp
  PROVE  session = "up"
  BY DEF Calm, TmuxUp

(* A step that is not calm.                                                *)
LEMMA NotCalm ==
  ASSUME Happens("early") \/ Happens("tmux")
  PROVE  ~ Calm'
  BY DEF Happens, Calm

(* Every calm step keeps every Agent tracked.                              *)
LEMMA TrackedStep ==
  ASSUME TypeOK, TypeOK', Structured, Structured', Calm, Calm',
         \A a \in Agent : Tracked(a), [Next]_vars
  PROVE  \A a \in Agent : Tracked(a)'
  <1> USE NotCalm, CalmUp DEF TypeOK, Structured, Structure, Tracked, Owned, WithSetup,
          Registered, Returned
  <1>1. CASE KillSession
    BY <1>1 DEF KillSession, world, requests, processes
  <1>2. CASE RemoveSession
    BY <1>2 DEF RemoveSession, world, requests, processes
  <1>3. ASSUME NEW b \in Agent, NEW s \in Shape, BeginCreate(b, s)
        PROVE  \A a \in Agent : Tracked(a)'
    BY <1>3 DEF BeginCreate, world, requests, processes, CreateGoes
  <1>4. ASSUME NEW b \in Agent, WriteRecord(b) PROVE \A a \in Agent : Tracked(a)'
    <2>1. shape[b] \in Shape
      BY <1>4 DEF WriteRecord
    <2>2. /\ \A a \in Agent : a # b => rec'[a] = rec[a]
          /\ rec'[b] # None /\ (rec'[b].pane <=> ~ Owned(b)) /\ ~ rec'[b].group
      BY <1>4, <2>1, WriteFields
    <2>3. /\ create[b] = "write"
          /\ create' = [create EXCEPT ![b] = IF WithSetup(b) THEN "register" ELSE Launch(b)]
          /\ UNCHANGED <<session, setup, entry, shape, undo, delete, seen, processes>>
      BY <1>4 DEF WriteRecord, CreateGoes, world
    <2>4. create'[b] \in {"register", "window", "ok"} /\ (create'[b] = "ok" => ~ Owned(b))
      BY <2>3 DEF Launch
    <2> QED
      BY <2>1, <2>2, <2>3, <2>4 DEF processes, Launch
  <1>5. ASSUME NEW b \in Agent, Register(b) PROVE \A a \in Agent : Tracked(a)'
    BY <1>5 DEF Register, world, requests, processes, CreateGoes, Launch
  <1>6. ASSUME NEW b \in Agent, OpenWindow(b) PROVE \A a \in Agent : Tracked(a)'
    BY <1>6 DEF OpenWindow, world, requests, processes, CreateGoes
  <1>7. ASSUME NEW b \in Agent, WindowFails(b) PROVE \A a \in Agent : Tracked(a)'
    BY <1>7, Plans DEF WindowFails, world, requests, processes, Unwind, CreateGoes
  <1>8. ASSUME NEW b \in Agent, CommandFails(b) PROVE \A a \in Agent : Tracked(a)'
    BY <1>8, Plans DEF CommandFails, world, requests, processes, Unwind, CreateGoes
  <1>9. ASSUME NEW b \in Agent, RecordPane(b) PROVE \A a \in Agent : Tracked(a)'
    <2>1. CASE Registered(b)
      <3>1. rec' = [rec EXCEPT ![b].pane = TRUE]
        BY <1>9, <2>1 DEF RecordPane, Unwind
      <3>2. /\ \A a \in Agent : a # b => rec'[a] = rec[a]
            /\ rec'[b] # None /\ rec'[b].pane
        BY <2>1, <3>1, RecFields
      <3>3. /\ create[b] = "record"
            /\ create' = [create EXCEPT ![b] = IF WithSetup(b) THEN "give" ELSE "ok"]
            /\ UNCHANGED <<session, setup, entry, shape, undo, delete, seen, processes>>
        BY <1>9, <2>1 DEF RecordPane, CreateGoes, world
      <3> QED
        BY <2>1, <3>2, <3>3 DEF processes
    <2>2. CASE ~ Registered(b) /\ WithSetup(b)
      <3>1. Unwind(b, FailedSetup)
        BY <1>9, <2>2 DEF RecordPane
      <3> QED
        BY <1>9, <2>2, <3>1, UnwindFailed DEF RecordPane, world, requests, processes
    <2>3. CASE ~ Registered(b) /\ ~ WithSetup(b)
      <3>1. Unwind(b, <<>>)
        BY <1>9, <2>3 DEF RecordPane
      <3> QED
        BY <1>9, <2>3, <3>1, Plans DEF RecordPane, world, requests, processes,
           Unwind, CreateGoes
    <2> QED
      BY <2>1, <2>2, <2>3
  <1>10. ASSUME NEW b \in Agent, GivePane(b) PROVE \A a \in Agent : Tracked(a)'
    BY <1>10 DEF GivePane, world, requests, processes, CreateGoes
  <1>11. ASSUME NEW b \in Agent, LookUp(b) PROVE \A a \in Agent : Tracked(a)'
    <2>1. CASE entry[b]
      BY <1>11, <2>1 DEF LookUp, world, requests, processes, CreateGoes
    <2>2. CASE ~ entry[b]
      BY <1>11, <2>2, UnwindFailed DEF LookUp, world, requests, processes
    <2> QED
      BY <1>11, <2>1, <2>2 DEF LookUp
  <1>12. ASSUME NEW b \in Agent, WaitReturns(b) PROVE \A a \in Agent : Tracked(a)'
    <2>1. CASE setup[b] = "ok"
      BY <1>12, <2>1 DEF WaitReturns, world, requests, processes, CreateGoes, Forget
    <2>2. CASE setup[b] = "err"
      BY <1>12, <2>2, UnwindFailed DEF WaitReturns, world, requests, processes
    <2> QED
      BY <1>12, <2>1, <2>2 DEF WaitReturns
  <1>13. ASSUME NEW b \in Agent, Disconnect(b) PROVE \A a \in Agent : Tracked(a)'
    BY <1>13, UnwindFailed DEF Disconnect, world, requests, processes
  <1>14. ASSUME NEW b \in Agent, UndoDelete(b) PROVE \A a \in Agent : Tracked(a)'
    <2>1. Undo(b, "delete") /\ Done(b)
      BY <1>14 DEF UndoDelete
    <2>2. /\ create[b] = "undo" /\ create'[b] \in {"undo", "failed"}
          /\ \A a \in Agent : a # b => undo'[a] = undo[a] /\ create'[a] = create[a]
          /\ create'[b] = "failed" => undo'[b] \notin WithDelete
          /\ undo[b] \in WithDelete /\ undo'[b] \notin WithDelete
      BY <2>1, DoneStep
    <2> QED
      BY <1>14, <2>2 DEF UndoDelete, world, requests, processes, Erase
  <1>15. ASSUME NEW b \in Agent, UndoCancel(b) PROVE \A a \in Agent : Tracked(a)'
    <2>1. Undo(b, "cancel") /\ Done(b)
      BY <1>15 DEF UndoCancel
    <2>2. /\ create[b] = "undo" /\ create'[b] \in {"undo", "failed"}
          /\ \A a \in Agent : a # b => undo'[a] = undo[a] /\ create'[a] = create[a]
          /\ create'[b] = "failed" => undo'[b] \notin WithDelete
          /\ undo'[b] \in WithDelete <=> undo[b] \in WithDelete
          /\ undo'[b] # Terminating
      BY <2>1, DoneStep
    <2> QED
      BY <1>15, <2>2 DEF UndoCancel, world, requests, processes
  <1>16. ASSUME NEW b \in Agent, UndoForget(b) PROVE \A a \in Agent : Tracked(a)'
    <2>1. Undo(b, "forget") /\ Done(b)
      BY <1>16 DEF UndoForget
    <2>2. /\ create[b] = "undo" /\ create'[b] \in {"undo", "failed"}
          /\ \A a \in Agent : a # b => undo'[a] = undo[a] /\ create'[a] = create[a]
          /\ create'[b] = "failed" => undo'[b] \notin WithDelete
          /\ undo'[b] \in WithDelete <=> undo[b] \in WithDelete
          /\ undo'[b] # Terminating
      BY <2>1, DoneStep
    <2> QED
      BY <1>16, <2>2 DEF UndoForget, world, requests, processes, Forget
  <1>17. ASSUME NEW b \in Agent, Stop(b) PROVE \A a \in Agent : Tracked(a)'
    BY <1>17, StopStep DEF Stop, world, requests, processes
  <1>18. ASSUME NEW b \in Agent, UndoTerminate(b) PROVE \A a \in Agent : Tracked(a)'
    <2>1. CASE Kill(b) /\ Done(b)
      <3>1. Undo(b, "terminate") /\ Done(b)
        BY <1>18, <2>1 DEF UndoTerminate
      <3>2. /\ create[b] = "undo" /\ create'[b] \in {"undo", "failed"}
            /\ \A a \in Agent : a # b => undo'[a] = undo[a] /\ create'[a] = create[a]
            /\ create'[b] = "failed" => undo'[b] \notin WithDelete
            /\ undo'[b] \in WithDelete <=> undo[b] \in WithDelete
            /\ undo[b] = Terminating
        BY <3>1, DoneStep
      <3> QED
        BY <1>18, <2>1, <3>2 DEF UndoTerminate, world, requests, processes, Kill
    <2>2. CASE Unwind(b, <<"forget">>) /\ UNCHANGED child
      <3>1. Undo(b, "terminate") /\ undo[b] \in Plan
        BY <1>18 DEF UndoTerminate
      <3>2. undo[b] # <<>> /\ Head(undo[b]) = "terminate" /\ create[b] = "undo"
        BY <3>1 DEF Undo
      <3>3. undo[b] = Terminating
        BY <3>1, <3>2, PlanTail
      <3>4. undo' = [undo EXCEPT ![b] = <<"forget">>] /\ create' = [create EXCEPT ![b] = "undo"]
        <4>1. <<"forget">> # <<>>
          BY StopPlans
        <4> QED
          BY <2>2, <4>1 DEF Unwind, CreateGoes
      <3>5. /\ undo'[b] \notin WithDelete /\ create'[b] = "undo"
            /\ \A a \in Agent : a # b => undo'[a] = undo[a] /\ create'[a] = create[a]
        BY <3>4, Plans
      <3> QED
        BY <1>18, <2>2, <3>2, <3>5, <3>3 DEF UndoTerminate, world, requests, processes
    <2> QED
      BY <1>18, <2>1, <2>2 DEF UndoTerminate
  <1>19. ASSUME NEW b \in Agent, BeginDelete(b) PROVE \A a \in Agent : Tracked(a)'
    BY <1>19 DEF BeginDelete, world, requests, processes, DeleteGoes
  <1>20. ASSUME NEW b \in Agent, DeleteCancels(b) PROVE \A a \in Agent : Tracked(a)'
    BY <1>20 DEF DeleteCancels, world, requests, processes, DeleteGoes
  <1>21. ASSUME NEW b \in Agent, DeleteForgets(b) PROVE \A a \in Agent : Tracked(a)'
    BY <1>21 DEF DeleteForgets, world, requests, processes, DeleteGoes, Forget
  <1>22. ASSUME NEW b \in Agent, DeleteReads(b) PROVE \A a \in Agent : Tracked(a)'
    BY <1>22 DEF DeleteReads, world, requests, processes, DeleteGoes
  <1>23. ASSUME NEW b \in Agent, DeleteKills(b) PROVE \A a \in Agent : Tracked(a)'
    BY <1>23 DEF DeleteKills, world, requests, processes, DeleteGoes, Close
  <1>24. ASSUME NEW b \in Agent, DeleteAwaits(b) PROVE \A a \in Agent : Tracked(a)'
    BY <1>24 DEF DeleteAwaits, world, requests, processes, DeleteGoes
  <1>25. ASSUME NEW b \in Agent, DeleteTerminates(b) PROVE \A a \in Agent : Tracked(a)'
    BY <1>25 DEF DeleteTerminates, world, requests, processes, DeleteGoes, Kill
  <1>26. ASSUME NEW b \in Agent, DeleteErases(b) PROVE \A a \in Agent : Tracked(a)'
    BY <1>26 DEF DeleteErases, world, requests, processes, DeleteGoes, Erase
  <1>27. ASSUME NEW b \in Agent, SetupSucceeds(b) PROVE \A a \in Agent : Tracked(a)'
    BY <1>27 DEF SetupSucceeds, world, requests, processes
  <1>28. ASSUME NEW b \in Agent, SetupFails(b) PROVE \A a \in Agent : Tracked(a)'
    BY <1>28 DEF SetupFails, world, requests, processes
  <1>29. ASSUME NEW b \in Agent, BecomeWrapper(b) PROVE \A a \in Agent : Tracked(a)'
    BY <1>29 DEF BecomeWrapper, world, requests, processes, WrapperGoes
  <1>30. ASSUME NEW b \in Agent, StartChild(b) PROVE \A a \in Agent : Tracked(a)'
    BY <1>30 DEF StartChild, world, requests, processes, WrapperGoes
  <1>31. ASSUME NEW b \in Agent, BootFails(b) PROVE \A a \in Agent : Tracked(a)'
    BY <1>31 DEF BootFails, world, requests, processes, WrapperGoes, WrapperEnds, Close
  <1>32. ASSUME NEW b \in Agent, ReportRefusal(b) PROVE \A a \in Agent : Tracked(a)'
    BY <1>32 DEF ReportRefusal, world, requests, processes, WrapperGoes, WrapperEnds, Close
  <1>33. ASSUME NEW b \in Agent, ReportStarted(b) PROVE \A a \in Agent : Tracked(a)'
    <2>1. CASE Registered(b) /\ rec' = [rec EXCEPT ![b].group = TRUE]
      <3>1. /\ \A a \in Agent : a # b => rec'[a] = rec[a]
            /\ rec'[b] # None /\ rec'[b].group /\ rec'[b].pane = rec[b].pane
        BY <2>1, RecFields
      <3>2. /\ wrapper[b] = "started" /\ wrapper' = [wrapper EXCEPT ![b] = "run"]
            /\ answer' \in [Agent -> {"none", "ask", "asked", "ok", "err"}]
            /\ \A a \in Agent : a # b => answer'[a] = answer[a]
            /\ answer'[b] = IF WithSetup(b) /\ ~ Owned(b) THEN "ask" ELSE "none"
            /\ UNCHANGED <<session, setup, entry, shape, create, undo, delete, seen, pane, child>>
        BY <1>33 DEF ReportStarted, requests, WrapperGoes
      <3> QED
        BY <2>1, <3>1, <3>2
    <2>2. CASE UNCHANGED rec
      BY <1>33, <2>2 DEF ReportStarted, world, requests, processes, WrapperGoes
    <2> QED
      BY <1>33, <2>1, <2>2 DEF ReportStarted
  <1>34. ASSUME NEW b \in Agent, AskSetup(b) PROVE \A a \in Agent : Tracked(a)'
    BY <1>34 DEF AskSetup, world, requests, processes
  <1>35. ASSUME NEW b \in Agent, SetupAnswers(b) PROVE \A a \in Agent : Tracked(a)'
    BY <1>35 DEF SetupAnswers, world, requests, processes, Forget
  <1>36. ASSUME NEW b \in Agent, WrapperSees(b) PROVE \A a \in Agent : Tracked(a)'
    BY <1>36 DEF WrapperSees, world, requests, processes, WrapperGoes, Kill
  <1>37. ASSUME NEW b \in Agent, ReportExited(b) PROVE \A a \in Agent : Tracked(a)'
    BY <1>37 DEF ReportExited, world, requests, processes, WrapperGoes, WrapperEnds,
       Close, Erase
  <1>38. ASSUME NEW b \in Agent, Settle(b) PROVE \A a \in Agent : Tracked(a)'
    BY <1>38 DEF Settle, world, requests, processes, WrapperGoes, WrapperEnds, Close, Forget
  <1>39. ASSUME NEW b \in Agent, ChildEnds(b) PROVE \A a \in Agent : Tracked(a)'
    BY <1>39 DEF ChildEnds, world, requests, processes, Kill
  <1>40. ASSUME NEW b \in Agent, UserClosesPane(b) PROVE \A a \in Agent : Tracked(a)'
    BY <1>40 DEF UserClosesPane, world, requests, processes, Close
  <1>41. CASE UNCHANGED vars
    BY <1>41 DEF vars, world, requests, processes
  <1> QED
    BY <1>1, <1>2, <1>3, <1>4, <1>5, <1>6, <1>7, <1>8, <1>9, <1>10, <1>11, <1>12,
       <1>13, <1>14, <1>15, <1>16, <1>17, <1>18, <1>19, <1>20, <1>21, <1>22, <1>23,
       <1>24, <1>25, <1>26, <1>27, <1>28, <1>29, <1>30, <1>31, <1>32, <1>33, <1>34,
       <1>35, <1>36, <1>37, <1>38, <1>39, <1>40, <1>41 DEF Next, Create, Delete,
       Wrapper, Setup

(* No step takes the outcome of a setup from who has still to ask for it.  *)
LEMMA KeptStep ==
  ASSUME TypeOK, TypeOK', Structured, Structured', AllKept, [Next]_vars
  PROVE  AllKept'
  <1> USE AgentLifecycleAssumption DEF TypeOK, Structured, Structure, AllKept, Kept,
          Unasked, Owned, WithSetup, Registered, Returned
  <1>1. CASE KillSession
    BY <1>1 DEF KillSession, world, requests, processes
  <1>2. CASE RemoveSession
    BY <1>2 DEF RemoveSession, world, requests, processes
  <1>3. ASSUME NEW b \in Agent, NEW s \in Shape, BeginCreate(b, s) PROVE AllKept'
    BY <1>3 DEF BeginCreate, world, requests, processes, CreateGoes, TmuxUp
  <1>4. ASSUME NEW b \in Agent, WriteRecord(b) PROVE AllKept'
    <2>1. shape[b] \in Shape
      BY <1>4 DEF WriteRecord
    <2>2. /\ \A a \in Agent : a # b => rec'[a] = rec[a]
          /\ rec'[b] # None /\ (rec'[b].pane <=> ~ Owned(b)) /\ ~ rec'[b].group
      BY <1>4, <2>1, WriteFields
    <2>3. /\ create[b] = "write"
          /\ create' = [create EXCEPT ![b] = IF WithSetup(b) THEN "register" ELSE Launch(b)]
          /\ UNCHANGED <<session, setup, entry, shape, undo, delete, seen, processes>>
      BY <1>4 DEF WriteRecord, CreateGoes, world
    <2>4. create'[b] \in {"register", "window", "ok"} /\ (create'[b] = "ok" => ~ Owned(b))
      BY <2>3 DEF Launch
    <2> QED
      BY <2>1, <2>2, <2>3, <2>4 DEF processes, Launch
  <1>5. ASSUME NEW b \in Agent, Register(b) PROVE AllKept'
    BY <1>5 DEF Register, world, requests, processes, CreateGoes, Launch
  <1>6. ASSUME NEW b \in Agent, OpenWindow(b) PROVE AllKept'
    BY <1>6 DEF OpenWindow, world, requests, processes, CreateGoes, TmuxUp
  <1>7. ASSUME NEW b \in Agent, WindowFails(b) PROVE AllKept'
    BY <1>7 DEF WindowFails, world, requests, processes, Unwind, CreateGoes
  <1>8. ASSUME NEW b \in Agent, CommandFails(b) PROVE AllKept'
    BY <1>8 DEF CommandFails, world, requests, processes, Unwind, CreateGoes
  <1>9. ASSUME NEW b \in Agent, RecordPane(b) PROVE AllKept'
    <2>1. CASE Registered(b)
      <3>1. rec' = [rec EXCEPT ![b].pane = TRUE]
        BY <1>9, <2>1 DEF RecordPane, Unwind
      <3>2. /\ \A a \in Agent : a # b => rec'[a] = rec[a]
            /\ rec'[b] # None /\ rec'[b].pane
        BY <2>1, <3>1, RecFields
      <3>3. /\ create[b] = "record"
            /\ create' = [create EXCEPT ![b] = IF WithSetup(b) THEN "give" ELSE "ok"]
            /\ UNCHANGED <<session, setup, entry, shape, undo, delete, seen, processes>>
        BY <1>9, <2>1 DEF RecordPane, CreateGoes, world
      <3> QED
        BY <2>1, <3>2, <3>3 DEF processes
    <2>2. CASE ~ Registered(b) /\ WithSetup(b)
      <3>1. Unwind(b, FailedSetup)
        BY <1>9, <2>2 DEF RecordPane
      <3> QED
        BY <1>9, <2>2, <3>1, UnwindFailed DEF RecordPane, world, requests, processes
    <2>3. CASE ~ Registered(b) /\ ~ WithSetup(b)
      <3>1. Unwind(b, <<>>)
        BY <1>9, <2>3 DEF RecordPane
      <3> QED
        BY <1>9, <2>3, <3>1, Plans DEF RecordPane, world, requests, processes,
           Unwind, CreateGoes
    <2> QED
      BY <2>1, <2>2, <2>3
  <1>10. ASSUME NEW b \in Agent, GivePane(b) PROVE AllKept'
    BY <1>10 DEF GivePane, world, requests, processes, CreateGoes
  <1>11. ASSUME NEW b \in Agent, LookUp(b) PROVE AllKept'
    <2>1. CASE entry[b]
      BY <1>11, <2>1 DEF LookUp, world, requests, processes, CreateGoes
    <2>2. CASE ~ entry[b]
      BY <1>11, <2>2, UnwindFailed DEF LookUp, world, requests, processes
    <2> QED
      BY <1>11, <2>1, <2>2 DEF LookUp
  <1>12. ASSUME NEW b \in Agent, WaitReturns(b) PROVE AllKept'
    <2>1. CASE setup[b] = "ok"
      BY <1>12, <2>1 DEF WaitReturns, world, requests, processes, CreateGoes, Forget
    <2>2. CASE setup[b] = "err"
      BY <1>12, <2>2, UnwindFailed DEF WaitReturns, world, requests, processes
    <2> QED
      BY <1>12, <2>1, <2>2 DEF WaitReturns
  <1>13. ASSUME NEW b \in Agent, Disconnect(b) PROVE AllKept'
    BY <1>13, UnwindFailed DEF Disconnect, world, requests, processes
  <1>14. ASSUME NEW b \in Agent, UndoDelete(b) PROVE AllKept'
    <2>1. Undo(b, "delete") /\ Done(b)
      BY <1>14 DEF UndoDelete
    <2>2. /\ create[b] = "undo" /\ create'[b] \in {"undo", "failed"}
          /\ \A a \in Agent : a # b => undo'[a] = undo[a] /\ create'[a] = create[a]
          /\ create'[b] = "failed" => undo'[b] \notin WithDelete
          /\ undo[b] \in WithDelete /\ undo'[b] \notin WithDelete
      BY <2>1, DoneStep
    <2> QED
      BY <1>14, <2>2 DEF UndoDelete, world, requests, processes, Erase
  <1>15. ASSUME NEW b \in Agent, UndoCancel(b) PROVE AllKept'
    <2>1. Undo(b, "cancel") /\ Done(b)
      BY <1>15 DEF UndoCancel
    <2>2. /\ create[b] = "undo" /\ create'[b] \in {"undo", "failed"}
          /\ \A a \in Agent : a # b => undo'[a] = undo[a] /\ create'[a] = create[a]
          /\ create'[b] = "failed" => undo'[b] \notin WithDelete
          /\ undo'[b] \in WithDelete <=> undo[b] \in WithDelete
      BY <2>1, DoneStep
    <2> QED
      BY <1>15, <2>2 DEF UndoCancel, world, requests, processes
  <1>16. ASSUME NEW b \in Agent, UndoForget(b) PROVE AllKept'
    <2>1. Undo(b, "forget") /\ Done(b)
      BY <1>16 DEF UndoForget
    <2>2. /\ create[b] = "undo" /\ create'[b] \in {"undo", "failed"}
          /\ \A a \in Agent : a # b => undo'[a] = undo[a] /\ create'[a] = create[a]
          /\ create'[b] = "failed" => undo'[b] \notin WithDelete
          /\ undo'[b] \in WithDelete <=> undo[b] \in WithDelete
      BY <2>1, DoneStep
    <2> QED
      BY <1>16, <2>2 DEF UndoForget, world, requests, processes, Forget
  <1>17. ASSUME NEW b \in Agent, Stop(b) PROVE AllKept'
    BY <1>17, StopStep DEF Stop, world, requests, processes
  <1>18. ASSUME NEW b \in Agent, UndoTerminate(b) PROVE AllKept'
    <2>1. create[b] = "undo" /\ \E step \in {"undo", "failed"} : CreateGoes(b, step)
      BY <1>18 DEF UndoTerminate, Undo, Done, Unwind
    <2> QED
      BY <1>18, <2>1 DEF UndoTerminate, world, requests, processes, Kill, CreateGoes
  <1>19. ASSUME NEW b \in Agent, BeginDelete(b) PROVE AllKept'
    BY <1>19 DEF BeginDelete, world, requests, processes, DeleteGoes
  <1>20. ASSUME NEW b \in Agent, DeleteCancels(b) PROVE AllKept'
    BY <1>20 DEF DeleteCancels, world, requests, processes, DeleteGoes
  <1>21. ASSUME NEW b \in Agent, DeleteForgets(b) PROVE AllKept'
    BY <1>21 DEF DeleteForgets, world, requests, processes, DeleteGoes, Forget
  <1>22. ASSUME NEW b \in Agent, DeleteReads(b) PROVE AllKept'
    BY <1>22 DEF DeleteReads, world, requests, processes, DeleteGoes
  <1>23. ASSUME NEW b \in Agent, DeleteKills(b) PROVE AllKept'
    BY <1>23 DEF DeleteKills, world, requests, processes, DeleteGoes, Close
  <1>24. ASSUME NEW b \in Agent, DeleteAwaits(b) PROVE AllKept'
    BY <1>24 DEF DeleteAwaits, world, requests, processes, DeleteGoes
  <1>25. ASSUME NEW b \in Agent, DeleteTerminates(b) PROVE AllKept'
    BY <1>25 DEF DeleteTerminates, world, requests, processes, DeleteGoes, Kill
  <1>26. ASSUME NEW b \in Agent, DeleteErases(b) PROVE AllKept'
    BY <1>26 DEF DeleteErases, world, requests, processes, DeleteGoes, Erase
  <1>27. ASSUME NEW b \in Agent, SetupSucceeds(b) PROVE AllKept'
    BY <1>27 DEF SetupSucceeds, world, requests, processes
  <1>28. ASSUME NEW b \in Agent, SetupFails(b) PROVE AllKept'
    BY <1>28 DEF SetupFails, world, requests, processes
  <1>29. ASSUME NEW b \in Agent, BecomeWrapper(b) PROVE AllKept'
    BY <1>29 DEF BecomeWrapper, world, requests, processes, WrapperGoes
  <1>30. ASSUME NEW b \in Agent, StartChild(b) PROVE AllKept'
    BY <1>30 DEF StartChild, world, requests, processes, WrapperGoes
  <1>31. ASSUME NEW b \in Agent, BootFails(b) PROVE AllKept'
    BY <1>31 DEF BootFails, world, requests, processes, WrapperGoes, WrapperEnds, Close
  <1>32. ASSUME NEW b \in Agent, ReportRefusal(b) PROVE AllKept'
    BY <1>32 DEF ReportRefusal, world, requests, processes, WrapperGoes, WrapperEnds, Close
  <1>33. ASSUME NEW b \in Agent, ReportStarted(b) PROVE AllKept'
    <2>1. CASE Registered(b) /\ rec' = [rec EXCEPT ![b].group = TRUE]
      <3>1. /\ \A a \in Agent : a # b => rec'[a] = rec[a]
            /\ rec'[b] # None /\ rec'[b].group /\ rec'[b].pane = rec[b].pane
        BY <2>1, RecFields
      <3>2. /\ wrapper[b] = "started" /\ wrapper' = [wrapper EXCEPT ![b] = "run"]
            /\ answer' \in [Agent -> {"none", "ask", "asked", "ok", "err"}]
            /\ \A a \in Agent : a # b => answer'[a] = answer[a]
            /\ answer'[b] = IF WithSetup(b) /\ ~ Owned(b) THEN "ask" ELSE "none"
            /\ UNCHANGED <<session, setup, entry, shape, create, undo, delete, seen, pane, child>>
        BY <1>33 DEF ReportStarted, requests, WrapperGoes
      <3> QED
        BY <2>1, <3>1, <3>2
    <2>2. CASE UNCHANGED rec
      BY <1>33, <2>2 DEF ReportStarted, world, requests, processes, WrapperGoes
    <2> QED
      BY <1>33, <2>1, <2>2 DEF ReportStarted
  <1>34. ASSUME NEW b \in Agent, AskSetup(b) PROVE AllKept'
    BY <1>34 DEF AskSetup, world, requests, processes
  <1>35. ASSUME NEW b \in Agent, SetupAnswers(b) PROVE AllKept'
    BY <1>35 DEF SetupAnswers, world, requests, processes, Forget
  <1>36. ASSUME NEW b \in Agent, WrapperSees(b) PROVE AllKept'
    BY <1>36 DEF WrapperSees, world, requests, processes, WrapperGoes, Kill
  <1>37. ASSUME NEW b \in Agent, ReportExited(b) PROVE AllKept'
    BY <1>37 DEF ReportExited, world, requests, processes, WrapperGoes, WrapperEnds,
       Close, Erase
  <1>38. ASSUME NEW b \in Agent, Settle(b) PROVE AllKept'
    BY <1>38 DEF Settle, world, requests, processes, WrapperGoes, WrapperEnds, Close, Forget
  <1>39. ASSUME NEW b \in Agent, ChildEnds(b) PROVE AllKept'
    BY <1>39 DEF ChildEnds, world, requests, processes, Kill
  <1>40. ASSUME NEW b \in Agent, UserClosesPane(b) PROVE AllKept'
    BY <1>40 DEF UserClosesPane, world, requests, processes, Close
  <1>41. CASE UNCHANGED vars
    BY <1>41 DEF vars, world, requests, processes
  <1> QED
    BY <1>1, <1>2, <1>3, <1>4, <1>5, <1>6, <1>7, <1>8, <1>9, <1>10, <1>11, <1>12,
       <1>13, <1>14, <1>15, <1>16, <1>17, <1>18, <1>19, <1>20, <1>21, <1>22, <1>23,
       <1>24, <1>25, <1>26, <1>27, <1>28, <1>29, <1>30, <1>31, <1>32, <1>33, <1>34,
       <1>35, <1>36, <1>37, <1>38, <1>39, <1>40, <1>41 DEF Next, Create, Delete,
       Wrapper, Setup

(* What a step does to the records of the Agents that are gone.            *)
NoReturn == \A a \in Agent : rec[a] = None /\ create[a] \notin {"idle", "write"} => rec'[a] = None

(* No step puts a record back.                                             *)
LEMMA GoneStep ==
  ASSUME TypeOK, [Next]_vars
  PROVE  NoReturn
  <1> USE DEF TypeOK, NoReturn, Registered, world, requests, processes
  <1>1. CASE KillSession \/ RemoveSession
    BY <1>1 DEF KillSession, RemoveSession
  <1>2. ASSUME NEW b \in Agent, WriteRecord(b) PROVE NoReturn
    BY <1>2 DEF WriteRecord
  <1>3. ASSUME NEW b \in Agent, RecordPane(b) PROVE NoReturn
    BY <1>3 DEF RecordPane
  <1>4. ASSUME NEW b \in Agent, ReportStarted(b) PROVE NoReturn
    BY <1>4 DEF ReportStarted
  <1>5. ASSUME NEW b \in Agent, UndoDelete(b) \/ DeleteErases(b) \/ ReportExited(b)
        PROVE  NoReturn
    BY <1>5 DEF UndoDelete, DeleteErases, ReportExited, Erase
  <1>6. ASSUME NEW b \in Agent, Create(b), ~ WriteRecord(b), ~ RecordPane(b), ~ UndoDelete(b)
        PROVE  NoReturn
    BY <1>6 DEF Create, Register, OpenWindow, WindowFails, CommandFails, GivePane,
       LookUp, WaitReturns, UndoCancel, UndoForget, Stop, UndoTerminate
  <1>7. ASSUME NEW b \in Agent, Delete(b), ~ DeleteErases(b) PROVE NoReturn
    BY <1>7 DEF Delete, DeleteCancels, DeleteForgets, DeleteReads, DeleteKills,
       DeleteAwaits, DeleteTerminates
  <1>8. ASSUME NEW b \in Agent, Wrapper(b), ~ ReportStarted(b), ~ ReportExited(b)
        PROVE  NoReturn
    BY <1>8 DEF Wrapper, StartChild, BootFails, ReportRefusal, AskSetup, SetupAnswers,
       WrapperSees, Settle
  <1>9. ASSUME NEW b \in Agent, Setup(b) PROVE NoReturn
    BY <1>9 DEF Setup, SetupSucceeds, SetupFails
  <1>10. ASSUME NEW b \in Agent, NEW s \in Shape, BeginCreate(b, s) PROVE NoReturn
    BY <1>10 DEF BeginCreate
  <1>11. ASSUME NEW b \in Agent,
              \/ Disconnect(b) \/ BeginDelete(b)
              \/ BecomeWrapper(b) \/ ChildEnds(b) \/ UserClosesPane(b)
       PROVE  NoReturn
    BY <1>11 DEF Disconnect, BeginDelete, BecomeWrapper, ChildEnds, UserClosesPane
  <1>12. CASE UNCHANGED vars
    BY <1>12 DEF vars
  <1> QED
    BY <1>1, <1>2, <1>3, <1>4, <1>5, <1>6, <1>7, <1>8, <1>9, <1>10, <1>11, <1>12 DEF Next

------------------------------------------------------------------------------
(* The theorems                                                            *)

(* The invariant holds in every reachable state.                           *)
THEOREM Inductive == Spec => []IInv
  <1>1. Init => IInv
    <2> SUFFICES ASSUME Init PROVE IInv
      OBVIOUS
    <2>1. TypeOK
      BY Plans DEF Init, TypeOK
    <2>2. Structured /\ CalmTracked /\ AllKept
      BY DEF Init, Structured, Structure, CalmTracked, Tracked, AllKept, Kept,
         Registered, Returned
    <2> QED
      BY <2>1, <2>2 DEF IInv
  <1>2. IInv /\ [Next]_vars => IInv'
    <2> SUFFICES ASSUME IInv, [Next]_vars PROVE IInv'
      OBVIOUS
    <2>1. TypeOK'
      BY TypeStep DEF IInv
    <2>2. Structured'
      BY <2>1, StructureStep DEF IInv
    <2>3. ASSUME Calm' PROVE \A a \in Agent : Tracked(a)'
      <3>1. Calm /\ \A a \in Agent : Tracked(a)
        BY <2>3, CalmStep DEF IInv, CalmTracked
      <3> QED
        BY <2>1, <2>2, <2>3, <3>1, TrackedStep DEF IInv
    <2>4. AllKept'
      BY <2>1, <2>2, KeptStep DEF IInv
    <2> QED
      BY <2>1, <2>2, <2>3, <2>4 DEF IInv, CalmTracked
  <1> QED
    BY <1>1, <1>2, PTL DEF Spec

(* Every variable keeps its type: what create_agent.go, delete_agent.go    *)
(* and agentwrapper.go leave behind is always one of the states named.     *)
THEOREM TypeCorrect == Spec => []TypeOK
  <1>1. IInv => TypeOK
    BY DEF IInv
  <1> QED
    BY <1>1, Inductive, PTL

(* While no deletion overlaps a creation and tmux tells the truth, no agent*)
(* process runs unregistered in an open pane, whatever calls are lost.     *)
THEOREM Tracks == Spec => []OnlyFaultsOrphan
  <1>1. IInv => OnlyFaultsOrphan
    <2> SUFFICES ASSUME IInv, Calm, NEW a \in Agent, child[a] = "alive", pane[a] # "closed"
                 PROVE  Registered(a)
      BY DEF OnlyFaultsOrphan, RunningIsRegistered, Calm
    <2>1. Structure(a) /\ Tracked(a) /\ TypeOK
      BY DEF IInv, Structured, CalmTracked
    <2>2. wrapper[a] \in {"started", "run"} /\ pane[a] = "open"
      BY <2>1 DEF Structure, TypeOK
    <2>3. create[a] \notin {"idle", "write"}
      BY <2>1, <2>2 DEF Structure
    <2> QED
      BY <2>1, <2>2, <2>3 DEF Tracked
  <1> QED
    BY <1>1, Inductive, PTL

(* Whoever has still to ask for the outcome of a setup finds it, unless the*)
(* Agent was deleted: the creation's Forget and the wrapper's never take   *)
(* each other's.                                                           *)
THEOREM KeepsSetups == Spec => []SetupIsKept
  <1>1. IInv => SetupIsKept
    <2> SUFFICES ASSUME IInv, NEW a \in Agent, Registered(a), ~ entry[a],
                        \/ create[a] \in {"give", "lookup"}
                        \/ wrapper[a] = "run" /\ answer[a] = "ask"
                 PROVE  delete[a] # "idle" \/ seen[a] # None
      BY DEF SetupIsKept
    <2>1. Structure(a) /\ Kept(a)
      BY DEF IInv, Structured, AllKept
    <2>2. create[a] # "idle" /\ WithSetup(a) /\ Unasked(a)
      BY <2>1 DEF Structure, Unasked
    <2> QED
      BY <2>1, <2>2 DEF Kept
  <1> QED
    BY <1>1, Inductive, PTL

(* A record that left the Registry never comes back: RecordPane and the    *)
(* started event update only what they have just read.                     *)
THEOREM StaysGone == Spec => GoneStaysGone
  <1>1. TypeOK /\ [Next]_vars => [NoReturn]_vars
    BY GoneStep
  <1> QED
    BY <1>1, TypeCorrect, PTL DEF Spec, GoneStaysGone, NoReturn
==============================================================================
