------------------------- MODULE ResourceLeasesProofs -------------------------
(***************************************************************************)
(* Proofs about ResourceLeases, for every set of sessions, projects, keys, *)
(* ranges and callers and every number of lifecycle stripes.               *)
(***************************************************************************)
EXTENDS ResourceLeases, TLAPS

(* A lease is filed under the project of its owner.                        *)
LeaseInProject == \A l \in leases : l.project = ProjectOf[l.owner]

(* What the lease list keeps by itself, whoever calls the repository.      *)
LeaseInv ==
  /\ leases \subseteq Lease
  /\ granted \in Nat
  /\ LeaseInProject
  /\ PortsUnique
  /\ HookKeyHasOnePort

------------------------------------------------------------------------------
(* The operations of the repository keep LeaseInv.                         *)

LEMMA FewerLeases ==
  ASSUME LeaseInv, leases' \subseteq leases, granted' = granted
  PROVE  LeaseInv'
BY DEF LeaseInv, LeaseInProject, PortsUnique, HookKeyHasOnePort, OneLeasePer

LEMMA AcquireKeeps ==
  ASSUME LeaseInv, NEW kind \in {"hook", "session"}, NEW s \in SessionID, NEW key \in Key,
         NEW range \in Range, AcquirePort(kind, s, key, range)
  PROVE  LeaseInv'
<1>1. CASE UNCHANGED <<leases, granted>>
  BY <1>1, FewerLeases
<1>2. CASE ~ UNCHANGED <<leases, granted>>
  <2>1. /\ Answering(kind, s, key) = {}
        /\ granted' = granted + 1
    BY <1>2 DEF AcquirePort
  <2>2. PICK port \in range \ UsedPorts(ProjectOf[s]) :
          leases' = leases \cup {[at |-> granted + 1, project |-> ProjectOf[s], kind |-> kind,
                                  owner |-> s, key |-> key, port |-> port]}
    BY <1>2 DEF AcquirePort
  <2> DEFINE new == [at |-> granted + 1, project |-> ProjectOf[s], kind |-> kind,
                     owner |-> s, key |-> key, port |-> port]
  <2>3. leases' = leases \cup {new}
    BY <2>2
  <2>4. /\ new \in Lease
        /\ new.project = ProjectOf[new.owner]
    BY ResourceLeasesAssumption DEF LeaseInv, Lease
  <2>5. \A l \in leases : ~ (l.project = new.project /\ l.port = new.port)
    BY <2>2 DEF UsedPorts
  <2>6. \A l \in leases : ~ (l.kind = new.kind /\ l.owner = new.owner /\ l.key = new.key)
    BY <2>1 DEF Answering, Owned, LeaseInv, LeaseInProject
  <2> HIDE DEF new
  <2>7. PortsUnique'
    BY <2>3, <2>5 DEF LeaseInv, PortsUnique
  <2>8. HookKeyHasOnePort'
    BY <2>3, <2>6 DEF LeaseInv, HookKeyHasOnePort, OneLeasePer
  <2> QED
    BY <2>1, <2>3, <2>4, <2>7, <2>8 DEF LeaseInv, LeaseInProject
<1> QED
  BY <1>1, <1>2

(* A promotion changes no port, no owner and no project.                   *)
LEMMA PromoteKeeps ==
  ASSUME LeaseInv, NEW s \in SessionID, PromoteHookLeases(s), granted' = granted
  PROVE  LeaseInv'
<1> DEFINE image(l) == IF l \in Owned("hook", s) THEN Promoted(l) ELSE l
<1>1. leases' = {image(l) : l \in leases}
  BY DEF PromoteHookLeases
<1>2. ASSUME NEW l \in leases
      PROVE  /\ image(l) \in Lease
             /\ image(l).project = l.project
             /\ image(l).owner = l.owner
             /\ image(l).port = l.port
             /\ image(l).kind = "hook" => image(l) = l
  BY <1>2, ResourceLeasesAssumption DEF LeaseInv, Lease, LeaseInProject, Owned, Promoted
<1> HIDE DEF image
<1>3. leases' \subseteq Lease
  BY <1>1, <1>2
<1>4. LeaseInProject'
  BY <1>1, <1>2 DEF LeaseInv, LeaseInProject
<1>5. PortsUnique'
  BY <1>1, <1>2 DEF LeaseInv, PortsUnique
<1>6. HookKeyHasOnePort'
  BY <1>1, <1>2 DEF LeaseInv, HookKeyHasOnePort, OneLeasePer
<1> QED
  BY <1>3, <1>4, <1>5, <1>6 DEF LeaseInv

(* So does every step, because nothing else touches the list.              *)
LEMMA LeaseInvStep ==
  ASSUME TypeOK, LeaseInv, [Next]_vars
  PROVE  LeaseInv'
<1> USE DEF TypeOK
<1>1. ASSUME NEW s \in SessionID, NEW key \in Key, NEW range \in Range, HookAcquires(s, key, range)
      PROVE  LeaseInv'
  BY <1>1, AcquireKeeps DEF HookAcquires
<1>2. ASSUME NEW c \in Caller, SessionAcquires(c)
      PROVE  LeaseInv'
  <2>1. PICK r \in Request : request[c] = r
    BY <1>2 DEF SessionAcquires
  <2>2. /\ r.session \in SessionID /\ r.key \in Key /\ r.range \in Range
        /\ AcquirePort("session", r.session, r.key, r.range)
    BY <1>2, <2>1 DEF SessionAcquires, Request
  <2> QED
    BY <2>2, AcquireKeeps
<1>3. ASSUME NEW s \in SessionID, Promote(s)
      PROVE  LeaseInv'
  <2>1. CASE PromoteHookLeases(s) /\ granted' = granted
    BY <2>1, PromoteKeeps
  <2>2. CASE leases' = leases /\ granted' = granted
    BY <2>2, FewerLeases
  <2> QED
    BY <1>3, <2>1, <2>2 DEF Promote
<1>4. ASSUME leases' \subseteq leases, granted' = granted
      PROVE  LeaseInv'
  BY <1>4, FewerLeases
<1>5. ASSUME NEW s \in SessionID, SetupWorks(s), ~ Promote(s)
      PROVE  leases' \subseteq leases /\ granted' = granted
  BY <1>5 DEF SetupWorks, BeginHook, HookStarts, EndAfterPromotion, Materialize, DropLeases,
      DropToken, CleanupLeases, CleanupToken, CleanupRemoves, ReleaseHookLeases, RemoveRecords
<1>6. ASSUME NEW s \in SessionID,
             \/ \E hooked \in BOOLEAN : CreateRecord(s, hooked)
             \/ HookEnds(s) \/ Acknowledge(s) \/ AcknowledgementFails(s)
             \/ Finalize(s) \/ CleanupLocks(s) \/ DeleteLocks(s)
             \/ \E ok \in BOOLEAN : DeleteWrites(s, ok)
      PROVE  leases' \subseteq leases /\ granted' = granted
  BY <1>6 DEF CreateRecord, HookEnds, HookFails, HookSucceeds, Acknowledge,
      AcknowledgementFails, Finalize, CleanupLocks, DeleteLocks, DeleteWrites, RemoveRecords
<1>7. ASSUME NEW c \in Caller, NEW s \in SessionID, NEW key \in Key, NEW range \in Range,
             SessionFound(c, s, key, range)
      PROVE  leases' \subseteq leases /\ granted' = granted
  BY <1>7 DEF SessionFound
<1>8. ASSUME NEW ids \in SUBSET SessionID,
             Reconcile(ids) \/ \E project \in ProjectID : DeleteProject(project, ids)
      PROVE  leases' \subseteq leases /\ granted' = granted
  BY <1>8 DEF Reconcile, DeleteProject, RemoveRecords
<1>9. CASE UNCHANGED vars
  BY <1>4, <1>9 DEF vars
<1> HIDE DEF TypeOK
<1> QED
  BY <1>1, <1>2, <1>3, <1>4, <1>5, <1>6, <1>7, <1>8, <1>9 DEF Next

------------------------------------------------------------------------------
(* Types.                                                                  *)

LEMMA StripeInRange ==
  ASSUME NEW s \in SessionID
  PROVE  Stripe(s) \in 0 .. (Stripes - 1)
BY ResourceLeasesAssumption DEF Stripe

LEMMA LockTyped ==
  ASSUME TypeOK, NEW s \in SessionID, NEW by \in {"setup", "delete"}, Lock(by, s)
  PROVE  holder' \in [0 .. (Stripes - 1) -> Holder \cup {Nobody}]
<1>1. [by |-> by, id |-> s] \in Holder
  BY DEF Holder
<1> QED
  BY <1>1, StripeInRange DEF TypeOK, Lock

LEMMA TypeStep ==
  ASSUME TypeOK, LeaseInv, [Next]_vars
  PROVE  TypeOK'
<1>1. leases' \subseteq Lease /\ granted' \in Nat
  BY LeaseInvStep DEF LeaseInv
<1> USE StripeInRange DEF TypeOK, Lock, Unlock, Goto, SetupStep, Holder, Nobody, RemoveRecords, EndHook
<1>2. ASSUME NEW s \in SessionID, NEW hooked \in BOOLEAN, CreateRecord(s, hooked)
      PROVE  TypeOK'
  BY <1>1, <1>2 DEF CreateRecord
<1>3. ASSUME NEW s \in SessionID, SetupWorks(s)
      PROVE  TypeOK'
  <2>1. CASE BeginHook(s) BY <1>1, <2>1 DEF BeginHook
  <2>2. CASE \E ok \in BOOLEAN : HookStarts(s, ok) BY <1>1, <2>2 DEF HookStarts
  <2>3. CASE Promote(s) BY <1>1, <2>3 DEF Promote
  <2>4. CASE EndAfterPromotion(s) BY <1>1, <2>4 DEF EndAfterPromotion
  <2>5. CASE \E ok \in BOOLEAN : Materialize(s, ok) BY <1>1, <2>5 DEF Materialize
  <2>6. CASE DropLeases(s) \/ DropToken(s) BY <1>1, <2>6 DEF DropLeases, DropToken
  <2>7. CASE CleanupLeases(s) \/ CleanupToken(s) BY <1>1, <2>7 DEF CleanupLeases, CleanupToken
  <2>8. CASE \E ok \in BOOLEAN : CleanupRemoves(s, ok) BY <1>1, <2>8 DEF CleanupRemoves
  <2> QED
    BY <1>3, <2>1, <2>2, <2>3, <2>4, <2>5, <2>6, <2>7, <2>8 DEF SetupWorks
<1>4. ASSUME NEW s \in SessionID, HookEnds(s) \/ Acknowledge(s) \/ AcknowledgementFails(s)
      PROVE  TypeOK'
  BY <1>1, <1>4 DEF HookEnds, HookFails, HookSucceeds, Acknowledge, AcknowledgementFails
<1>5. ASSUME NEW s \in SessionID, Finalize(s) \/ CleanupLocks(s) \/ DeleteLocks(s)
      PROVE  TypeOK'
  <2>1. holder' \in [0 .. (Stripes - 1) -> Holder \cup {Nobody}]
    BY <1>5, LockTyped DEF Finalize, CleanupLocks, DeleteLocks
  <2>2. setup' \in [SessionID -> SetupStep]
    BY <1>5 DEF Finalize, CleanupLocks, DeleteLocks
  <2> QED
    BY <1>1, <1>5, <2>1, <2>2 DEF Finalize, CleanupLocks, DeleteLocks
<1>6. ASSUME NEW s \in SessionID, NEW ok \in BOOLEAN, DeleteWrites(s, ok)
      PROVE  TypeOK'
  BY <1>1, <1>6 DEF DeleteWrites
<1>7. ASSUME NEW s \in SessionID, NEW key \in Key, NEW range \in Range, HookAcquires(s, key, range)
      PROVE  TypeOK'
  BY <1>1, <1>7 DEF HookAcquires
<1>8. ASSUME NEW c \in Caller, NEW s \in SessionID, NEW key \in Key, NEW range \in Range,
             SessionFound(c, s, key, range)
      PROVE  TypeOK'
  BY <1>1, <1>8 DEF SessionFound, Request
<1>9. ASSUME NEW c \in Caller, SessionAcquires(c)
      PROVE  TypeOK'
  BY <1>1, <1>9 DEF SessionAcquires
<1>10. ASSUME NEW ids \in SUBSET SessionID, 
              Reconcile(ids) \/ \E project \in ProjectID : DeleteProject(project, ids)
       PROVE  TypeOK'
  BY <1>1, <1>10 DEF Reconcile, DeleteProject
<1>11. CASE UNCHANGED vars
  BY <1>1, <1>11 DEF vars
<1> QED
  BY <1>2, <1>3, <1>4, <1>5, <1>6, <1>7, <1>8, <1>9, <1>10, <1>11 DEF Next

LEMMA Initially == Init => TypeOK /\ LeaseInv
BY ResourceLeasesAssumption DEF Init, TypeOK, LeaseInv, LeaseInProject, PortsUnique,
   HookKeyHasOnePort, OneLeasePer, Lease, SetupStep

LEMMA Inductive == Spec => [](TypeOK /\ LeaseInv)
<1>1. TypeOK /\ LeaseInv /\ [Next]_vars => (TypeOK /\ LeaseInv)'
  BY TypeStep, LeaseInvStep
<1> QED
  BY Initially, <1>1, PTL DEF Spec

(* Every variable keeps its type.                                          *)
THEOREM Types == Spec => []TypeOK
BY Inductive, PTL

(* No port is named by two leases of a project, through acquisitions by    *)
(* hooks and sessions, promotions, releases and removals in any order.     *)
THEOREM PortsStayUnique == Spec => []PortsUnique
<1>1. LeaseInv => PortsUnique
  BY DEF LeaseInv
<1> QED
  BY Inductive, <1>1, PTL

(* A hook that asks twice under one key is given one port.                 *)
THEOREM HookKeysStaySingle == Spec => []HookKeyHasOnePort
<1>1. LeaseInv => HookKeyHasOnePort
  BY DEF LeaseInv
<1> QED
  BY Inductive, <1>1, PTL

------------------------------------------------------------------------------
(* Hook leases and their tokens.  The calls of a hook end with its script  *)
(* here: an invariant of the code needs that, as LeaseLateCall shows.      *)

(* A setup begins with its session.                                        *)
SetupHasSession == \A s \in SessionID : session[s] = "unborn" => setup[s] = "none"

LEMMA SetupHasSessionStep ==
  ASSUME TypeOK, SetupHasSession, [Next]_vars
  PROVE  SetupHasSession'
<1> USE DEF TypeOK, SetupHasSession, Goto, RemoveRecords
<1>1. ASSUME NEW s \in SessionID, NEW hooked \in BOOLEAN, CreateRecord(s, hooked)
      PROVE  SetupHasSession'
  BY <1>1 DEF CreateRecord
<1>2. ASSUME NEW s \in SessionID, SetupWorks(s)
      PROVE  SetupHasSession'
  BY <1>2 DEF SetupWorks, BeginHook, HookStarts, Promote, EndAfterPromotion, Materialize,
     DropLeases, DropToken, CleanupLeases, CleanupToken, CleanupRemoves
<1>3. ASSUME NEW s \in SessionID,
             \/ HookEnds(s) \/ Acknowledge(s) \/ AcknowledgementFails(s)
             \/ Finalize(s) \/ CleanupLocks(s)
      PROVE  SetupHasSession'
  BY <1>3 DEF HookEnds, HookFails, HookSucceeds, Acknowledge, AcknowledgementFails, Finalize,
     CleanupLocks
<1>4. ASSUME setup' = setup, \A s \in SessionID : session'[s] \in {session[s], "gone"}
      PROVE  SetupHasSession'
  BY <1>4
<1>5. ASSUME NEW s \in SessionID,
             \/ DeleteLocks(s) \/ \E ok \in BOOLEAN : DeleteWrites(s, ok)
             \/ \E key \in Key, range \in Range : HookAcquires(s, key, range)
      PROVE  SetupHasSession'
  BY <1>4, <1>5 DEF DeleteLocks, DeleteWrites, HookAcquires
<1>6. ASSUME NEW c \in Caller,
             \/ SessionAcquires(c)
             \/ \E s \in SessionID, key \in Key, range \in Range : SessionFound(c, s, key, range)
      PROVE  SetupHasSession'
  BY <1>4, <1>6 DEF SessionAcquires, SessionFound
<1>7. ASSUME NEW ids \in SUBSET SessionID,
             Reconcile(ids) \/ \E project \in ProjectID : DeleteProject(project, ids)
      PROVE  SetupHasSession'
  BY <1>4, <1>7 DEF Reconcile, DeleteProject
<1>8. CASE UNCHANGED vars
  BY <1>8 DEF vars
<1> QED
  BY <1>1, <1>2, <1>3, <1>5, <1>6, <1>7, <1>8 DEF Next

(* The setup steps at which the hook of a session may own leases.          *)
MayOwn == {"running", "failed", "abandoned", "exited", "checked", "missing", "releasing"}
HookInv == \A s \in SessionID : Owned("hook", s) # {} => s \in hooks /\ setup[s] \in MayOwn

(* A step that leaves a session's token and its place in the setup alone   *)
(* (or moves it within MayOwn), and adds no hook lease to it, is harmless. *)
LEMMA HookInvKept ==
  ASSUME HookInv, NEW s \in SessionID,
         Owned("hook", s)' \subseteq Owned("hook", s),
         s \in hooks => s \in hooks',
         setup[s] \in MayOwn => setup'[s] \in MayOwn
  PROVE  Owned("hook", s)' # {} => s \in hooks' /\ setup'[s] \in MayOwn
BY DEF HookInv

LEMMA HookInvStep ==
  ASSUME LateCalls = FALSE, TypeOK, SetupHasSession, HookInv, [Next]_vars
  PROVE  HookInv'
<1> SUFFICES ASSUME NEW x \in SessionID
             PROVE  Owned("hook", x)' # {} => x \in hooks' /\ setup'[x] \in MayOwn
  BY DEF HookInv
<1> USE DEF TypeOK
<1>1. ASSUME leases' \subseteq leases, hooks' = hooks, setup' = setup
      PROVE  Owned("hook", x)' # {} => x \in hooks' /\ setup'[x] \in MayOwn
  <2>1. Owned("hook", x)' \subseteq Owned("hook", x)
    BY <1>1 DEF Owned
  <2> QED
    BY <1>1, <2>1, HookInvKept
<1>2. ASSUME NEW s \in SessionID, leases' \subseteq leases,
             hooks' = hooks, \E step \in MayOwn : Goto(s, step), setup[s] \in MayOwn
      PROVE  Owned("hook", x)' # {} => x \in hooks' /\ setup'[x] \in MayOwn
  <2>1. Owned("hook", x)' \subseteq Owned("hook", x)
    BY <1>2 DEF Owned
  <2> QED
    BY <1>2, <2>1, HookInvKept DEF Goto
<1>3. ASSUME NEW s \in SessionID, leases' \subseteq leases,
             hooks' = hooks \/ hooks' = hooks \cup {s} \/ hooks' = hooks \ {s},
             \E step \in SetupStep : Goto(s, step),
             setup[s] \notin MayOwn \/ Owned("hook", s)' = {}
      PROVE  Owned("hook", x)' # {} => x \in hooks' /\ setup'[x] \in MayOwn
  <2>1. Owned("hook", x)' \subseteq Owned("hook", x)
    BY <1>3 DEF Owned
  <2>2. CASE x = s
    BY <1>3, <2>1, <2>2 DEF HookInv
  <2>3. CASE x # s
    BY <1>3, <2>1, <2>3, HookInvKept DEF Goto
  <2> QED
    BY <2>2, <2>3
<1>4. ASSUME NEW kind \in {"hook", "session"}, NEW s \in SessionID, NEW key \in Key, NEW range \in Range,
             AcquirePort(kind, s, key, range), hooks' = hooks, setup' = setup,
             kind = "hook" => s \in hooks /\ setup[s] = "running"
      PROVE  Owned("hook", x)' # {} => x \in hooks' /\ setup'[x] \in MayOwn
  <2>1. CASE kind = "hook" /\ x = s
    BY <1>4, <2>1 DEF MayOwn
  <2>2. CASE ~ (kind = "hook" /\ x = s)
    <3>1. Owned("hook", x)' \subseteq Owned("hook", x)
      BY <1>4, <2>2 DEF Owned, AcquirePort
    <3> QED
      BY <1>4, <3>1, HookInvKept
  <2> QED
    BY <2>1, <2>2
<1>5. ASSUME NEW s \in SessionID, Promote(s)
      PROVE  Owned("hook", x)' # {} => x \in hooks' /\ setup'[x] \in MayOwn
  <2>1. CASE s \in hooks
    <3>1. \A l \in leases' : l.kind = "hook" => l \in leases /\ l.owner # s
      <4>1. \A l \in leases : Promoted(l).kind = "session"
        BY DEF Promoted, Lease
      <4>2. leases' = {IF l \in Owned("hook", s) THEN Promoted(l) ELSE l : l \in leases}
        BY <1>5, <2>1 DEF Promote, PromoteHookLeases
      <4> QED
        BY <4>1, <4>2 DEF Owned
    <3>2. Owned("hook", x)' \subseteq Owned("hook", x) /\ (x = s => Owned("hook", x)' = {})
      BY <3>1 DEF Owned
    <3> QED
      BY <1>5, <2>1, <3>2, HookInvKept DEF Promote, Goto
  <2>2. CASE s \notin hooks
    BY <1>5, <2>2, <1>2 DEF Promote, MayOwn
  <2> QED
    BY <2>1, <2>2
<1>6. ASSUME NEW s \in SessionID, DropLeases(s) \/ CleanupLeases(s)
      PROVE  Owned("hook", x)' # {} => x \in hooks' /\ setup'[x] \in MayOwn
  <2>1. Owned("hook", s)' = {} /\ leases' \subseteq leases
    BY <1>6 DEF DropLeases, CleanupLeases, ReleaseHookLeases, Owned
  <2> QED
    BY <1>3, <1>6, <2>1 DEF DropLeases, CleanupLeases, SetupStep
<1>7. ASSUME NEW s \in SessionID,
             \/ BeginHook(s) \/ EndAfterPromotion(s) \/ DropToken(s) \/ CleanupToken(s)
             \/ CleanupLocks(s)
             \/ \E ok \in BOOLEAN : HookStarts(s, ok) \/ Materialize(s, ok) \/ CleanupRemoves(s, ok)
      PROVE  Owned("hook", x)' # {} => x \in hooks' /\ setup'[x] \in MayOwn
  <2>1. leases' \subseteq leases /\ setup[s] \notin MayOwn
    BY <1>7 DEF BeginHook, EndAfterPromotion, DropToken, CleanupToken, CleanupLocks, HookStarts,
       Materialize, CleanupRemoves, RemoveRecords, MayOwn
  <2>2. hooks' = hooks \/ hooks' = hooks \cup {s} \/ hooks' = hooks \ {s}
    BY <1>7 DEF BeginHook, EndAfterPromotion, DropToken, CleanupToken, CleanupLocks, HookStarts,
       Materialize, CleanupRemoves, EndHook
  <2>3. \E step \in SetupStep : Goto(s, step)
    BY <1>7 DEF BeginHook, EndAfterPromotion, DropToken, CleanupToken, CleanupLocks, HookStarts,
       Materialize, CleanupRemoves, SetupStep
  <2> QED
    BY <1>3, <2>1, <2>2, <2>3
<1>8. ASSUME NEW s \in SessionID, HookEnds(s) \/ Acknowledge(s) \/ AcknowledgementFails(s) \/ Finalize(s)
      PROVE  Owned("hook", x)' # {} => x \in hooks' /\ setup'[x] \in MayOwn
  BY <1>2, <1>8 DEF HookEnds, HookFails, HookSucceeds, Acknowledge, AcknowledgementFails, Finalize, MayOwn
<1>9. ASSUME NEW s \in SessionID, NEW hooked \in BOOLEAN, CreateRecord(s, hooked)
      PROVE  Owned("hook", x)' # {} => x \in hooks' /\ setup'[x] \in MayOwn
  <2>1. setup[s] \notin MayOwn
    BY <1>9 DEF CreateRecord, SetupHasSession, MayOwn
  <2> QED
    BY <1>1, <1>3, <1>9, <2>1 DEF CreateRecord, SetupStep
<1>10. ASSUME NEW s \in SessionID, DeleteLocks(s) \/ \E ok \in BOOLEAN : DeleteWrites(s, ok)
       PROVE  Owned("hook", x)' # {} => x \in hooks' /\ setup'[x] \in MayOwn
  BY <1>1, <1>10 DEF DeleteLocks, DeleteWrites, RemoveRecords
<1>11. ASSUME NEW s \in SessionID, NEW key \in Key, NEW range \in Range, HookAcquires(s, key, range)
       PROVE  Owned("hook", x)' # {} => x \in hooks' /\ setup'[x] \in MayOwn
  BY <1>4, <1>11 DEF HookAcquires
<1>12. ASSUME NEW c \in Caller, SessionAcquires(c)
       PROVE  Owned("hook", x)' # {} => x \in hooks' /\ setup'[x] \in MayOwn
  <2>1. request[c] \in Request
    BY <1>12 DEF SessionAcquires
  <2> QED
    BY <1>4, <1>12, <2>1 DEF SessionAcquires, Request
<1>13. ASSUME NEW c \in Caller, \E s \in SessionID, key \in Key, range \in Range : SessionFound(c, s, key, range)
       PROVE  Owned("hook", x)' # {} => x \in hooks' /\ setup'[x] \in MayOwn
  BY <1>1, <1>13 DEF SessionFound
<1>14. ASSUME NEW ids \in SUBSET SessionID,
              Reconcile(ids) \/ \E project \in ProjectID : DeleteProject(project, ids)
       PROVE  Owned("hook", x)' # {} => x \in hooks' /\ setup'[x] \in MayOwn
  BY <1>1, <1>14 DEF Reconcile, DeleteProject, RemoveRecords
<1>15. CASE UNCHANGED vars
  BY <1>1, <1>15 DEF vars
<1> HIDE DEF TypeOK
<1> QED
  BY <1>5, <1>6, <1>7, <1>8, <1>9, <1>10, <1>11, <1>12, <1>13, <1>14, <1>15 DEF Next, SetupWorks

(* As long as a script's calls end with it, no lease is left behind with a *)
(* token nobody will promote or release: not by a failed setup, not by a   *)
(* session removed under a running one, not by a failed finalization.      *)
THEOREM HookLeasesStayRegistered ==
  ASSUME LateCalls = FALSE
  PROVE  Spec => []HookLeaseRegistered
<1>1. Init => SetupHasSession /\ HookInv
  BY DEF Init, SetupHasSession, HookInv, Owned
<1>2. TypeOK /\ SetupHasSession /\ HookInv /\ [Next]_vars => (SetupHasSession /\ HookInv)'
  BY SetupHasSessionStep, HookInvStep
<1>3. TypeOK /\ HookInv => HookLeaseRegistered
  BY DEF TypeOK, HookInv, HookLeaseRegistered, Owned, Lease
<1> QED
  BY Types, <1>1, <1>2, <1>3, PTL DEF Spec

------------------------------------------------------------------------------
(* The lifecycle lock.                                                     *)

(* A finalization that found its session holds the lock of its stripe, as  *)
(* does the deletion of a failed setup.                                    *)
Locked == Finalizing \cup {"deleting"}
LockInv == \A s \in SessionID : setup[s] \in Locked => Holds("setup", s)

(* One stripe, one holder.                                                 *)
LEMMA OneHolder ==
  ASSUME NEW s \in SessionID, NEW x \in SessionID, NEW by \in {"setup", "delete"},
         Holds("setup", x), Stripe(x) = Stripe(s)
  PROVE  /\ holder[Stripe(s)] # Nobody
         /\ Holds(by, s) => by = "setup" /\ x = s
<1> DEFINE h == holder[Stripe(s)]
<1>1. h.by = "setup" /\ h.id = x
  BY DEF Holds
<1>2. Nobody.by # "setup"
  BY DEF Nobody
<1>3. Holds(by, s) => h.by = by /\ h.id = s
  BY DEF Holds
<1> QED
  BY <1>1, <1>2, <1>3

LEMMA LockInvStep ==
  ASSUME TypeOK, LockInv, [Next]_vars
  PROVE  LockInv'
<1> SUFFICES ASSUME NEW x \in SessionID
             PROVE  setup'[x] \in Locked => Holds("setup", x)'
  BY DEF LockInv
<1> USE DEF TypeOK, LockInv
<1>1. ASSUME NEW s \in SessionID, setup' = setup \/ \E step \in SetupStep \ Locked : Goto(s, step),
             holder' = holder
      PROVE  setup'[x] \in Locked => Holds("setup", x)'
  BY <1>1 DEF Goto, Holds, Locked, Finalizing
<1>2. ASSUME NEW s \in SessionID, NEW by \in {"setup", "delete"}, Lock(by, s),
             setup' = setup \/ (by = "setup" /\ \E step \in Locked : Goto(s, step))
      PROVE  setup'[x] \in Locked => Holds("setup", x)'
  <2>1. Stripe(s) \in DOMAIN holder /\ Stripe(x) \in DOMAIN holder
    BY StripeInRange
  <2>2. setup[x] \in Locked => Stripe(x) # Stripe(s)
    BY <1>2, OneHolder DEF Lock
  <2> QED
    BY <1>2, <2>1, <2>2 DEF Lock, Holds, Goto, SetupStep, Locked, Finalizing
<1>3. ASSUME NEW s \in SessionID, NEW by \in {"setup", "delete"}, Holds(by, s), Unlock(s),
             IF by = "setup" THEN \E step \in SetupStep \ Locked : Goto(s, step) ELSE setup' = setup
      PROVE  setup'[x] \in Locked => Holds("setup", x)'
  <2>1. Stripe(s) \in DOMAIN holder /\ Stripe(x) \in DOMAIN holder
    BY StripeInRange
  <2>2. CASE by = "setup" /\ x = s
    BY <1>3, <2>2 DEF Goto, Locked, Finalizing
  <2>3. CASE ~ (by = "setup" /\ x = s)
    <3>1. setup'[x] = setup[x]
      BY <1>3, <2>3 DEF Goto
    <3>2. setup[x] \in Locked => Stripe(x) # Stripe(s)
      BY <1>3, <2>3, OneHolder
    <3> QED
      BY <1>3, <2>1, <3>1, <3>2 DEF Holds, Unlock, Locked, Finalizing
  <2> QED
    BY <2>2, <2>3
<1>4. ASSUME NEW s \in SessionID, Promote(s)
      PROVE  setup'[x] \in Locked => Holds("setup", x)'
  <2>1. CASE s \in hooks
    BY <1>4, <2>1 DEF Promote, Goto, Holds, Locked, Finalizing
  <2>2. CASE s \notin hooks
    BY <1>4, <2>2, <1>3 DEF Promote, Locked, Finalizing, SetupStep
  <2> QED
    BY <2>1, <2>2
<1>5. ASSUME NEW s \in SessionID, EndAfterPromotion(s)
      PROVE  setup'[x] \in Locked => Holds("setup", x)'
  BY <1>5 DEF EndAfterPromotion, Goto, Holds, Locked, Finalizing
<1>6. ASSUME NEW s \in SessionID, NEW ok \in BOOLEAN, Materialize(s, ok) \/ CleanupRemoves(s, ok)
      PROVE  setup'[x] \in Locked => Holds("setup", x)'
  <2>1. Holds("setup", s) /\ Unlock(s)
    BY <1>6 DEF Materialize, CleanupRemoves, Locked, Finalizing
  <2>2. \E step \in SetupStep \ Locked : Goto(s, step)
    BY <1>6 DEF Materialize, CleanupRemoves, Locked, Finalizing, SetupStep
  <2> QED
    BY <1>3, <2>1, <2>2
<1>7. ASSUME NEW s \in SessionID, NEW ok \in BOOLEAN, DeleteWrites(s, ok)
      PROVE  setup'[x] \in Locked => Holds("setup", x)'
  <2>1. "delete" # "setup"
    OBVIOUS
  <2> QED
    BY <1>3, <1>7, <2>1 DEF DeleteWrites
<1>8. ASSUME NEW s \in SessionID, Finalize(s) \/ CleanupLocks(s) \/ DeleteLocks(s)
      PROVE  setup'[x] \in Locked => Holds("setup", x)'
  <2>1. CASE Finalize(s) /\ session[s] = "live"
    BY <1>2, <2>1 DEF Finalize, Goto, Locked, Finalizing
  <2>2. CASE Finalize(s) /\ session[s] # "live"
    BY <1>1, <2>2 DEF Finalize, SetupStep, Locked, Finalizing
  <2>3. CASE CleanupLocks(s)
    BY <1>2, <2>3 DEF CleanupLocks, Goto, Locked, Finalizing
  <2>4. CASE DeleteLocks(s)
    BY <1>2, <2>4 DEF DeleteLocks
  <2> QED
    BY <1>8, <2>1, <2>2, <2>3, <2>4
<1>9. ASSUME NEW s \in SessionID,
             \/ BeginHook(s) \/ DropLeases(s) \/ DropToken(s) \/ CleanupLeases(s) \/ CleanupToken(s)
             \/ \E ok \in BOOLEAN : HookStarts(s, ok)
             \/ HookEnds(s) \/ Acknowledge(s) \/ AcknowledgementFails(s)
      PROVE  setup'[x] \in Locked => Holds("setup", x)'
  <2>1. holder' = holder
    BY <1>9 DEF BeginHook, DropLeases, DropToken, CleanupLeases, CleanupToken, HookStarts,
       HookEnds, HookFails, HookSucceeds, Acknowledge, AcknowledgementFails
  <2>2. \E step \in SetupStep \ Locked : Goto(s, step)
    BY <1>9 DEF BeginHook, DropLeases, DropToken, CleanupLeases, CleanupToken, HookStarts,
       HookEnds, HookFails, HookSucceeds, Acknowledge, AcknowledgementFails, SetupStep, Locked, Finalizing
  <2> QED
    BY <1>1, <2>1, <2>2
<1>10. ASSUME NEW s \in SessionID, NEW hooked \in BOOLEAN, CreateRecord(s, hooked)
       PROVE  setup'[x] \in Locked => Holds("setup", x)'
  BY <1>10 DEF CreateRecord, Goto, Holds, Locked, Finalizing
<1>11. ASSUME NEW s \in SessionID, NEW key \in Key, NEW range \in Range, HookAcquires(s, key, range)
       PROVE  setup'[x] \in Locked => Holds("setup", x)'
  BY <1>11 DEF HookAcquires, Holds
<1>12. ASSUME NEW c \in Caller,
              \/ SessionAcquires(c)
              \/ \E s \in SessionID, key \in Key, range \in Range : SessionFound(c, s, key, range)
       PROVE  setup'[x] \in Locked => Holds("setup", x)'
  BY <1>12 DEF SessionAcquires, SessionFound, Holds
<1>13. ASSUME NEW ids \in SUBSET SessionID,
              Reconcile(ids) \/ \E project \in ProjectID : DeleteProject(project, ids)
       PROVE  setup'[x] \in Locked => Holds("setup", x)'
  BY <1>13 DEF Reconcile, DeleteProject, Holds
<1>14. CASE UNCHANGED vars
  BY <1>14 DEF vars, Holds
<1> HIDE DEF TypeOK, LockInv
<1> QED
  BY <1>4, <1>5, <1>6, <1>7, <1>8, <1>9, <1>10, <1>11, <1>12, <1>13, <1>14 DEF Next, SetupWorks

LEMMA LockKept == Spec => [](TypeOK /\ LockInv)
<1>1. Init => LockInv
  BY DEF Init, LockInv, Locked, Finalizing
<1>2. TypeOK /\ LockInv /\ [Next]_vars => LockInv'
  BY LockInvStep
<1> QED
  BY Types, <1>1, <1>2, PTL DEF Spec

(* However many sessions share a stripe and whatever else removes records, *)
(* DeleteSession does not write while the session's setup is finalized.    *)
THEOREM DeletionsWaitForFinalize == Spec => FinalizeExcludesDeletion
<1>1. TypeOK /\ LockInv =>
        [\A s \in SessionID, ok \in BOOLEAN : DeleteWrites(s, ok) => setup[s] \notin Finalizing]_vars
  <2>1. ASSUME LockInv, NEW s \in SessionID, NEW ok \in BOOLEAN, DeleteWrites(s, ok),
               setup[s] \in Finalizing
        PROVE  FALSE
    <3>1. Holds("setup", s) /\ Holds("delete", s)
      BY <2>1 DEF LockInv, Locked, DeleteWrites
    <3> QED
      BY <3>1, "setup" # "delete", OneHolder DEF Stripe
  <2> QED
    BY <2>1
<1> QED
  BY LockKept, <1>1, PTL DEF Spec, FinalizeExcludesDeletion

------------------------------------------------------------------------------
(* What that is worth when nothing else removes records.                   *)

CheckedIsLive == \A s \in SessionID : setup[s] = "checked" => session[s] = "live"

(* A record is removed by the holder of its lock, who is no finalization.  *)
LEMMA CheckedIsLiveStep ==
  ASSUME Deleters = {"DeleteSession"}, TypeOK, SetupHasSession, LockInv, CheckedIsLive, [Next]_vars
  PROVE  CheckedIsLive'
<1> SUFFICES ASSUME NEW x \in SessionID, setup'[x] = "checked"
             PROVE  session'[x] = "live"
  BY DEF CheckedIsLive
<1> USE DEF TypeOK, CheckedIsLive
<1>1. ASSUME NEW s \in SessionID, setup' = setup \/ \E step \in SetupStep \ {"checked"} : Goto(s, step),
             session' = session
      PROVE  session'[x] = "live"
  BY <1>1 DEF Goto
<1>2. ASSUME NEW s \in SessionID, NEW ok \in BOOLEAN, DeleteWrites(s, ok) \/ CleanupRemoves(s, ok)
      PROVE  session'[x] = "live"
  <2>1. x # s /\ setup[x] = "checked"
    <3>1. CASE DeleteWrites(s, ok)
      <4>1. setup[x] = "checked" /\ Holds("delete", s)
        BY <3>1 DEF DeleteWrites
      <4>2. Holds("setup", x)
        BY <4>1 DEF LockInv, Locked, Finalizing
      <4> QED
        BY <4>1, <4>2, OneHolder, "setup" # "delete"
    <3>2. CASE CleanupRemoves(s, ok)
      BY <3>2 DEF CleanupRemoves, Goto
    <3> QED
      BY <1>2, <3>1, <3>2
  <2> QED
    BY <1>2, <2>1 DEF DeleteWrites, CleanupRemoves, RemoveRecords
<1>3. ASSUME NEW s \in SessionID, NEW hooked \in BOOLEAN, CreateRecord(s, hooked)
      PROVE  session'[x] = "live"
  BY <1>3 DEF CreateRecord, Goto, SetupHasSession
<1>4. ASSUME NEW s \in SessionID, Finalize(s)
      PROVE  session'[x] = "live"
  BY <1>4 DEF Finalize, Goto
<1>5. ASSUME NEW s \in SessionID,
             \/ BeginHook(s) \/ DropLeases(s) \/ DropToken(s) \/ CleanupLeases(s) \/ CleanupToken(s)
             \/ \E ok \in BOOLEAN : HookStarts(s, ok)
             \/ HookEnds(s) \/ Acknowledge(s) \/ AcknowledgementFails(s)
      PROVE  session'[x] = "live"
  BY <1>1, <1>5 DEF BeginHook, DropLeases, DropToken, CleanupLeases, CleanupToken, HookStarts,
     HookEnds, HookFails, HookSucceeds, Acknowledge, AcknowledgementFails, SetupStep
<1>6. ASSUME NEW s \in SessionID,
             \/ Promote(s) \/ EndAfterPromotion(s) \/ \E ok \in BOOLEAN : Materialize(s, ok)
             \/ CleanupLocks(s) \/ DeleteLocks(s)
             \/ \E key \in Key, range \in Range : HookAcquires(s, key, range)
      PROVE  session'[x] = "live"
  BY <1>1, <1>6 DEF Promote, EndAfterPromotion, Materialize, CleanupLocks, DeleteLocks,
     HookAcquires, SetupStep
<1>7. ASSUME NEW c \in Caller,
             \/ SessionAcquires(c)
             \/ \E s \in SessionID, key \in Key, range \in Range : SessionFound(c, s, key, range)
      PROVE  session'[x] = "live"
  BY <1>7 DEF SessionAcquires, SessionFound
<1>8. \A ids : ~ Reconcile(ids) /\ \A project : ~ DeleteProject(project, ids)
  BY DEF Reconcile, DeleteProject
<1>9. CASE UNCHANGED vars
  BY <1>9 DEF vars
<1> HIDE DEF TypeOK, CheckedIsLive
<1> QED
  BY <1>2, <1>3, <1>4, <1>5, <1>6, <1>7, <1>8, <1>9 DEF Next, SetupWorks

(* If sessions are removed only by DeleteSession, the lifecycle lock is    *)
(* enough: no lease is promoted to a session that is gone.                 *)
THEOREM LockProtectsPromotion ==
  ASSUME Deleters = {"DeleteSession"}
  PROVE  Spec => PromotesToLive
<1>1. Init => SetupHasSession /\ CheckedIsLive
  BY DEF Init, SetupHasSession, CheckedIsLive
<1>2. TypeOK /\ LockInv /\ SetupHasSession /\ CheckedIsLive /\ [Next]_vars
        => (SetupHasSession /\ CheckedIsLive)'
  BY SetupHasSessionStep, CheckedIsLiveStep
<1>3. CheckedIsLive =>
        [\A s \in SessionID : setup[s] = "checked" /\ setup'[s] = "promoted" => session[s] = "live"]_vars
  BY DEF CheckedIsLive
<1> QED
  BY LockKept, <1>1, <1>2, <1>3, PTL DEF Spec, PromotesToLive

------------------------------------------------------------------------------
(* Leases last as long as the record of their session.                     *)

(* A setup that found no session found it gone for good.                   *)
MissingIsGone == \A s \in SessionID : setup[s] \in {"missing", "dropped"} => session[s] = "gone"

(* MissingIsGone is inductive.                                             *)
LEMMA MissingIsGoneStep ==
  ASSUME TypeOK, SetupHasSession, MissingIsGone, [Next]_vars
  PROVE  MissingIsGone'
<1> SUFFICES ASSUME NEW x \in SessionID, setup'[x] \in {"missing", "dropped"}
             PROVE  session'[x] = "gone"
  BY DEF MissingIsGone
<1> USE DEF TypeOK, MissingIsGone
<1>1. ASSUME setup' = setup, \A s \in SessionID : session[s] = "gone" => session'[s] = "gone"
      PROVE  session'[x] = "gone"
  BY <1>1
<1>2. ASSUME NEW s \in SessionID, session' = session,
             \E step \in SetupStep \ {"missing", "dropped"} : Goto(s, step)
      PROVE  session'[x] = "gone"
  BY <1>2 DEF Goto
<1>3. ASSUME NEW s \in SessionID, Finalize(s)
      PROVE  session'[x] = "gone"
  BY <1>3 DEF Finalize, Goto, SetupHasSession
<1>4. ASSUME NEW s \in SessionID, DropLeases(s)
      PROVE  session'[x] = "gone"
  BY <1>4 DEF DropLeases, Goto
<1>5. ASSUME NEW s \in SessionID, NEW ok \in BOOLEAN, CleanupRemoves(s, ok)
      PROVE  session'[x] = "gone"
  BY <1>5 DEF CleanupRemoves, RemoveRecords, Goto
<1>6. ASSUME NEW s \in SessionID, NEW hooked \in BOOLEAN, CreateRecord(s, hooked)
      PROVE  session'[x] = "gone"
  BY <1>6 DEF CreateRecord, Goto
<1>7. ASSUME NEW s \in SessionID,
             \/ BeginHook(s) \/ Promote(s) \/ EndAfterPromotion(s) \/ DropToken(s)
             \/ CleanupLeases(s) \/ CleanupToken(s)
             \/ \E ok \in BOOLEAN : HookStarts(s, ok) \/ Materialize(s, ok)
      PROVE  session'[x] = "gone"
  BY <1>2, <1>7 DEF BeginHook, Promote, EndAfterPromotion, DropToken, CleanupLeases, CleanupToken,
     HookStarts, Materialize, SetupStep
<1>8. ASSUME NEW s \in SessionID,
             HookEnds(s) \/ Acknowledge(s) \/ AcknowledgementFails(s) \/ CleanupLocks(s)
      PROVE  session'[x] = "gone"
  BY <1>2, <1>8 DEF HookEnds, HookFails, HookSucceeds, Acknowledge, AcknowledgementFails,
     CleanupLocks, SetupStep
<1>9. ASSUME NEW s \in SessionID,
             \/ DeleteLocks(s) \/ \E ok \in BOOLEAN : DeleteWrites(s, ok)
             \/ \E key \in Key, range \in Range : HookAcquires(s, key, range)
      PROVE  session'[x] = "gone"
  BY <1>1, <1>9 DEF DeleteLocks, DeleteWrites, RemoveRecords, HookAcquires
<1>10. ASSUME NEW c \in Caller,
              \/ SessionAcquires(c)
              \/ \E s \in SessionID, key \in Key, range \in Range : SessionFound(c, s, key, range)
       PROVE  session'[x] = "gone"
  BY <1>1, <1>10 DEF SessionAcquires, SessionFound
<1>11. ASSUME NEW ids \in SUBSET SessionID,
              Reconcile(ids) \/ \E project \in ProjectID : DeleteProject(project, ids)
       PROVE  session'[x] = "gone"
  BY <1>1, <1>11 DEF Reconcile, DeleteProject, RemoveRecords
<1>12. CASE UNCHANGED vars
  BY <1>1, <1>12 DEF vars
<1> HIDE DEF TypeOK, MissingIsGone
<1> QED
  BY <1>3, <1>4, <1>5, <1>6, <1>7, <1>8, <1>9, <1>10, <1>11, <1>12 DEF Next, SetupWorks

(* What a step may do to a lease.                                          *)
Outlasts(l) ==
  \/ \E m \in leases' : m.owner = l.owner /\ m.key = l.key /\ m.port = l.port
  \/ session'[l.owner] = "gone"
  \/ l.kind = "hook" /\ setup[l.owner] = "releasing"

(* One that stays outlasts; so does one that is promoted: it keeps its     *)
(* owner, its key and its port.                                            *)
LEMMA StayingOutlasts ==
  ASSUME NEW l \in leases, l \in leases'
  PROVE  Outlasts(l)
BY DEF Outlasts

(* A promotion turns a lease into one with the same owner, key and port.   *)
LEMMA PromotedOutlasts ==
  ASSUME LeaseInv, NEW l \in leases, NEW s \in SessionID, PromoteHookLeases(s)
  PROVE  Outlasts(l)
<1> DEFINE image == IF l \in Owned("hook", s) THEN Promoted(l) ELSE l
<1>1. image \in leases'
  BY DEF PromoteHookLeases
<1>2. image.owner = l.owner /\ image.key = l.key /\ image.port = l.port
  BY DEF LeaseInv, Lease, Promoted
<1> QED
  BY <1>1, <1>2 DEF Outlasts

(* What a session loses with its record, it loses then.                    *)
LEMMA RemovedOutlasts ==
  ASSUME LeaseInv, NEW l \in leases, NEW ids, RemoveRecords(ids)
  PROVE  Outlasts(l)
BY DEF Outlasts, RemoveRecords, Owned, LeaseInv, Lease

(* No step breaks it.                                                      *)
LEMMA OutlastsStep ==
  ASSUME TypeOK, LeaseInv, MissingIsGone, Next, NEW l \in leases
  PROVE  Outlasts(l)
<1>1. ASSUME NEW s \in SessionID, NEW key, NEW range, HookAcquires(s, key, range)
      PROVE  Outlasts(l)
  BY <1>1, StayingOutlasts DEF HookAcquires, AcquirePort
<1>2. ASSUME NEW c \in Caller, SessionAcquires(c)
      PROVE  Outlasts(l)
  BY <1>2, StayingOutlasts DEF SessionAcquires, AcquirePort
<1>3. ASSUME NEW s \in SessionID, Promote(s)
      PROVE  Outlasts(l)
  BY <1>3, PromotedOutlasts, StayingOutlasts DEF Promote
<1>4. ASSUME NEW s \in SessionID, DropLeases(s)
      PROVE  Outlasts(l)
  <2>1. session'[s] = "gone"
    BY <1>4 DEF DropLeases, MissingIsGone
  <2> QED
    BY <1>4, <2>1, StayingOutlasts DEF DropLeases, ReleaseHookLeases, Owned, Outlasts
<1>5. ASSUME NEW s \in SessionID, CleanupLeases(s)
      PROVE  Outlasts(l)
  BY <1>5, StayingOutlasts DEF CleanupLeases, ReleaseHookLeases, Owned, Outlasts
<1>6. ASSUME NEW s \in SessionID,
             \E ok \in BOOLEAN : CleanupRemoves(s, ok) \/ DeleteWrites(s, ok)
      PROVE  Outlasts(l)
  BY <1>6, RemovedOutlasts, StayingOutlasts DEF CleanupRemoves, DeleteWrites
<1>7. ASSUME NEW ids \in SUBSET SessionID,
             Reconcile(ids) \/ \E project \in ProjectID : DeleteProject(project, ids)
      PROVE  Outlasts(l)
  BY <1>7, RemovedOutlasts, StayingOutlasts DEF Reconcile, DeleteProject
<1>8. ASSUME NEW s \in SessionID,
             \/ BeginHook(s) \/ EndAfterPromotion(s) \/ DropToken(s) \/ CleanupToken(s)
             \/ \E ok \in BOOLEAN : HookStarts(s, ok) \/ Materialize(s, ok)
      PROVE  Outlasts(l)
  BY <1>8, StayingOutlasts DEF BeginHook, EndAfterPromotion, DropToken, CleanupToken, HookStarts,
     Materialize
<1>9. ASSUME NEW s \in SessionID,
             \/ \E hooked \in BOOLEAN : CreateRecord(s, hooked)
             \/ HookEnds(s) \/ Acknowledge(s) \/ AcknowledgementFails(s)
             \/ Finalize(s) \/ CleanupLocks(s) \/ DeleteLocks(s)
      PROVE  Outlasts(l)
  BY <1>9, StayingOutlasts DEF CreateRecord, HookEnds, HookFails, HookSucceeds, Acknowledge,
     AcknowledgementFails, Finalize, CleanupLocks, DeleteLocks
<1>10. ASSUME NEW c \in Caller, NEW s, NEW key, NEW range, SessionFound(c, s, key, range)
       PROVE  Outlasts(l)
  BY <1>10, StayingOutlasts DEF SessionFound
<1> QED
  BY <1>1, <1>2, <1>3, <1>4, <1>5, <1>6, <1>7, <1>8, <1>9, <1>10 DEF Next, SetupWorks

(* A lease ends only with the record of its session or, if it is the       *)
(* hook's, in the cleanup of the setup: never because the setup succeeded, *)
(* also when calls of the hook come late and whoever removes records.      *)
THEOREM LeasesAlwaysOutlastSetup == Spec => LeasesOutlastSetup
<1>1. Init => SetupHasSession /\ MissingIsGone
  BY DEF Init, SetupHasSession, MissingIsGone
<1>2. TypeOK /\ SetupHasSession /\ MissingIsGone /\ [Next]_vars => (SetupHasSession /\ MissingIsGone)'
  BY SetupHasSessionStep, MissingIsGoneStep
<1>3. TypeOK /\ LeaseInv /\ MissingIsGone /\ [Next]_vars => [\A l \in leases : Outlasts(l)]_vars
  BY OutlastsStep
<1> QED
  BY Inductive, <1>1, <1>2, <1>3, PTL DEF Spec, LeasesOutlastSetup, Outlasts
==============================================================================
