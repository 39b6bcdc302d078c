---------------------------- MODULE ResourceLeases ----------------------------
(***************************************************************************)
(* Port leases (internal/infra/memory/resource_lease_repo.go) and the      *)
(* three parties that use them: the setup goroutine of a Worktree Session  *)
(* (create_session.go), the requests of hooks and shells (acquire_port.go) *)
(* and the deletions of sessions.  A hook token is issued once per setup,  *)
(* so it is named by its session.  The lease repository has a mutex of its *)
(* own, the session records another lock, the lifecycle of a session a     *)
(* third: whatever the code does under different ones is a separate step.  *)
(***************************************************************************)
EXTENDS Integers, FiniteSets

CONSTANTS
  SessionID,   \* session ids, positive; one setup each
  ProjectID,
  ProjectOf,   \* the project each session is created in
  Key,         \* the labels ports are asked for under
  Range,       \* the port ranges asked for: sets of ports
  Caller,      \* clients whose session-owned request may be in flight
  Stripes,     \* lifecycle mutexes: session ids share them modulo this, 32 in the code
  MaxLeases,   \* bound on the leases ever granted; the code has none
  Deleters,    \* what may remove session records: see Deleter
  LateCalls    \* may a hook's request reach the Daemon after its script ended?

Deleter == {"DeleteSession", "Reconcile", "DeleteProject"}

ASSUME ResourceLeasesAssumption ==
  /\ SessionID \subseteq Nat
  /\ ProjectOf \in [SessionID -> ProjectID]
  /\ \A range \in Range : range \subseteq Nat
  /\ Stripes \in Nat \ {0}
  /\ MaxLeases \in Nat
  /\ Deleters \subseteq Deleter
  /\ LateCalls \in BOOLEAN

VARIABLES
  session,  \* "unborn", "live" (it has a record) or "gone"
  setup,    \* where the setup of a session is
  holder,   \* who is inside WithSessionLifecycle, per stripe
  hooks,    \* sessions whose hook token is registered
  leases,   \* the lease list; at is the position it was appended in
  granted,  \* leases appended so far
  request   \* per caller, a request whose session was found under the read lock

vars == <<session, setup, holder, hooks, leases, granted, request>>

SetupStep == {"none", "recorded", "starting", "running", "failed", "abandoned", "exited", "checked",
              "promoted", "ended", "missing", "dropped", "releasing", "ending", "removing",
              "deleting", "done"}
Finalizing == {"checked", "promoted", "ended"}   \* inside finalize, under the lifecycle lock

Nobody == [by |-> "nobody", id |-> 0]
Holder == [by: {"setup", "delete"}, id: SessionID]
Lease == [at: Nat, project: ProjectID, kind: {"hook", "session"}, owner: SessionID, key: Key, port: Nat]
Request == [session: SessionID, key: Key, range: Range]
NoRequest == [session |-> 0]

TypeOK ==
  /\ session \in [SessionID -> {"unborn", "live", "gone"}]
  /\ setup \in [SessionID -> SetupStep]
  /\ holder \in [0 .. (Stripes - 1) -> Holder \cup {Nobody}]
  /\ hooks \subseteq SessionID
  /\ leases \subseteq Lease
  /\ granted \in Nat
  /\ request \in [Caller -> Request \cup {NoRequest}]

Init ==
  /\ session = [s \in SessionID |-> "unborn"]
  /\ setup = [s \in SessionID |-> "none"]
  /\ holder = [n \in 0 .. (Stripes - 1) |-> Nobody]
  /\ hooks = {}
  /\ leases = {}
  /\ granted = 0
  /\ request = [c \in Caller |-> NoRequest]

Owned(kind, s) == {l \in leases : l.kind = kind /\ l.owner = s}

------------------------------------------------------------------------------
(* The lease repository, one critical section each.                        *)

(* AcquirePort: the lease this owner already has under the key answers;    *)
(* otherwise a port no lease of the project names, if one of those is      *)
(* available on the host (any of them may be, or none).                    *)
UsedPorts(project) == {l.port : l \in {k \in leases : k.project = project}}
(* Mutant: a lease never answers a second request.                         *)
NothingAnswers(kind, s, key) == {}

Answering(kind, s, key) == {l \in Owned(kind, s) : l.key = key /\ l.project = ProjectOf[s]}

(* Mutant: only the leases of the same kind of owner count as used.        *)
AcquireAmongKind(kind, s, key, range) ==
  \/ UNCHANGED <<leases, granted>>
  \/ /\ Answering(kind, s, key) = {}
     /\ granted < MaxLeases
     /\ granted' = granted + 1
     /\ \E port \in range \ {l.port : l \in {k \in leases : k.project = ProjectOf[s] /\ k.kind = kind}} :
          leases' = leases \cup {[at |-> granted + 1, project |-> ProjectOf[s], kind |-> kind,
                                  owner |-> s, key |-> key, port |-> port]}

AcquirePort(kind, s, key, range) ==
  \/ UNCHANGED <<leases, granted>>   \* a lease answers, or no port is available
  \/ /\ Answering(kind, s, key) = {}
     /\ granted < MaxLeases
     /\ granted' = granted + 1
     /\ \E port \in range \ UsedPorts(ProjectOf[s]) :
          leases' = leases \cup {[at |-> granted + 1, project |-> ProjectOf[s], kind |-> kind,
                                  owner |-> s, key |-> key, port |-> port]}

Promoted(l) == [l EXCEPT !.kind = "session", !.project = ProjectOf[l.owner]]
PromoteHookLeases(s) ==
  leases' = {IF l \in Owned("hook", s) THEN Promoted(l) ELSE l : l \in leases}

(* Mutant: releasing a hook's leases takes the session's own as well.      *)
ReleaseAnyKind(s) == leases' = {l \in leases : l.owner # s}

ReleaseHookLeases(s) == leases' = leases \ Owned("hook", s)
EndHook(s) == hooks' = hooks \ {s}

(* ReleaseSessionLeases and sessions.Delete, for all the ids of a plan in  *)
(* one write section.                                                      *)
RemoveRecords(ids) ==
  /\ session' = [s \in SessionID |-> IF s \in ids THEN "gone" ELSE session[s]]
  /\ leases' = leases \ UNION {Owned("session", s) : s \in ids}

------------------------------------------------------------------------------
(* acquire_port.go: a call with a hook token goes straight to the lease    *)
(* repository; one from a session first looks the session up.              *)

HookAcquires(s, key, range) ==
  /\ s \in hooks
  /\ setup[s] = "running" \/ (LateCalls /\ setup[s] # "starting")
  /\ AcquirePort("hook", s, key, range)
  /\ UNCHANGED <<session, setup, holder, hooks, request>>

SessionFound(c, s, key, range) ==
  /\ request[c] = NoRequest
  /\ session[s] = "live"
  /\ request' = [request EXCEPT ![c] = [session |-> s, key |-> key, range |-> range]]
  /\ UNCHANGED <<session, setup, holder, hooks, leases, granted>>

SessionAcquires(c) ==
  /\ request[c] # NoRequest
  /\ AcquirePort("session", request[c].session, request[c].key, request[c].range)
  /\ request' = [request EXCEPT ![c] = NoRequest]
  /\ UNCHANGED <<session, setup, holder, hooks>>

------------------------------------------------------------------------------
(* WithSessionLifecycle                                                    *)

Stripe(s) == s % Stripes
Holds(by, s) == holder[Stripe(s)] = [by |-> by, id |-> s]
Lock(by, s) ==
  /\ holder[Stripe(s)] = Nobody
  /\ holder' = [holder EXCEPT ![Stripe(s)] = [by |-> by, id |-> s]]
Unlock(s) == holder' = [holder EXCEPT ![Stripe(s)] = Nobody]

Goto(s, step) == setup' = [setup EXCEPT ![s] = step]

------------------------------------------------------------------------------
(* The setup of a Worktree Session, from the record to the last cleanup.   *)

(* A session without a configured hook stays at "none".                    *)
CreateRecord(s, hooked) ==
  /\ session[s] = "unborn"
  /\ session' = [session EXCEPT ![s] = "live"]
  /\ IF hooked THEN Goto(s, "recorded") ELSE UNCHANGED setup
  /\ UNCHANGED <<holder, hooks, leases, granted, request>>

(* The token is random, so it is not registered yet.                       *)
BeginHook(s) ==
  /\ setup[s] = "recorded"
  /\ hooks' = hooks \cup {s}
  /\ Goto(s, "starting")
  /\ UNCHANGED <<session, holder, leases, granted, request>>

(* A script that could not be started has acquired nothing: its token ends *)
(* and the session is cleaned up.                                          *)
HookStarts(s, ok) ==
  /\ setup[s] = "starting"
  /\ IF ok
       THEN Goto(s, "running") /\ UNCHANGED hooks
       ELSE Goto(s, "removing") /\ EndHook(s)
  /\ UNCHANGED <<session, holder, leases, granted, request>>

(* The script fails or times out: the setup window waits for the user.     *)

HookFails(s) ==
  /\ setup[s] = "running"
  /\ Goto(s, "failed")
  /\ UNCHANGED <<session, holder, hooks, leases, granted, request>>

HookSucceeds(s) ==
  /\ setup[s] = "running"
  /\ Goto(s, "exited")
  /\ UNCHANGED <<session, holder, hooks, leases, granted, request>>

(* WaitForAcknowledgement: the user confirms or the window is gone; on an  *)
(* error reading its file the goroutine returns and cleans nothing up.     *)
Acknowledge(s) ==
  /\ setup[s] = "failed"
  /\ Goto(s, "releasing")
  /\ UNCHANGED <<session, holder, hooks, leases, granted, request>>

AcknowledgementFails(s) ==
  /\ setup[s] = "failed"
  /\ Goto(s, "abandoned")
  /\ UNCHANGED <<session, holder, hooks, leases, granted, request>>

(* Mutant: finalize without the lifecycle lock.                            *)
FinalizeUnlocked(s) ==
  /\ setup[s] = "exited"
  /\ Goto(s, IF session[s] = "live" THEN "checked" ELSE "missing")
  /\ UNCHANGED <<session, holder, hooks, leases, granted, request>>

(* finalize: look the session up, promote, end the token, materialize.     *)
Finalize(s) ==
  /\ setup[s] = "exited"
  /\ IF session[s] = "live"
       THEN Lock("setup", s) /\ Goto(s, "checked")
       ELSE holder[Stripe(s)] = Nobody /\ Goto(s, "missing") /\ UNCHANGED holder
  /\ UNCHANGED <<session, hooks, leases, granted, request>>

(* PromoteHookLeases fails on a token that is not registered.              *)
Promote(s) ==
  /\ setup[s] = "checked"
  /\ IF s \in hooks
       THEN PromoteHookLeases(s) /\ Goto(s, "promoted") /\ UNCHANGED holder
       ELSE Unlock(s) /\ Goto(s, "releasing") /\ UNCHANGED leases
  /\ UNCHANGED <<session, hooks, granted, request>>

EndAfterPromotion(s) ==
  /\ setup[s] = "promoted"
  /\ EndHook(s)
  /\ Goto(s, "ended")
  /\ UNCHANGED <<session, holder, leases, granted, request>>

(* Mutant: the cleanup runs inside WithSessionLifecycle.                   *)
MaterializeKeepsLock(s, ok) ==
  /\ setup[s] = "ended"
  /\ IF ok THEN Unlock(s) /\ Goto(s, "done") ELSE Goto(s, "releasing") /\ UNCHANGED holder
  /\ UNCHANGED <<session, hooks, leases, granted, request>>

(* Materializing the declared secondaries ends finalize; when it fails the *)
(* whole setup is cleaned up, after the lock is given back.                *)
Materialize(s, ok) ==
  /\ setup[s] = "ended"
  /\ Unlock(s)
  /\ Goto(s, IF ok THEN "done" ELSE "releasing")
  /\ UNCHANGED <<session, hooks, leases, granted, request>>

(* Mutant: the session is gone, so only the token is dropped.              *)
DropWithoutRelease(s) ==
  /\ setup[s] = "missing"
  /\ Goto(s, "dropped")
  /\ UNCHANGED <<session, holder, hooks, leases, granted, request>>

(* finalize found no session: release the leases, then end the token.      *)
DropLeases(s) ==
  /\ setup[s] = "missing"
  /\ ReleaseHookLeases(s)
  /\ Goto(s, "dropped")
  /\ UNCHANGED <<session, holder, hooks, granted, request>>

DropToken(s) ==
  /\ setup[s] = "dropped"
  /\ EndHook(s)
  /\ Goto(s, "done")
  /\ UNCHANGED <<session, holder, leases, granted, request>>

(* cleanupFailedWorktreeSetup: the same two calls, then DeleteSession.     *)
CleanupLeases(s) ==
  /\ setup[s] = "releasing"
  /\ ReleaseHookLeases(s)
  /\ Goto(s, "ending")
  /\ UNCHANGED <<session, holder, hooks, granted, request>>

CleanupToken(s) ==
  /\ setup[s] = "ending"
  /\ EndHook(s)
  /\ Goto(s, "removing")
  /\ UNCHANGED <<session, holder, leases, granted, request>>

CleanupLocks(s) ==
  /\ setup[s] = "removing"
  /\ Lock("setup", s)
  /\ Goto(s, "deleting")
  /\ UNCHANGED <<session, hooks, leases, granted, request>>

(* The deletion may fail (git or tmux), and its error is only logged.      *)
CleanupRemoves(s, ok) ==
  /\ setup[s] = "deleting"
  /\ Unlock(s)
  /\ IF ok THEN RemoveRecords({s}) ELSE UNCHANGED <<session, leases>>
  /\ Goto(s, "done")
  /\ UNCHANGED <<hooks, granted, request>>

------------------------------------------------------------------------------
(* Removals that are not part of a setup.                                  *)

(* DeleteSession.Execute: everything between its lock and its final write  *)
(* leaves leases and this record alone.                                    *)
DeleteLocks(s) ==
  /\ "DeleteSession" \in Deleters
  /\ session[s] = "live"
  /\ Lock("delete", s)
  /\ UNCHANGED <<session, setup, hooks, leases, granted, request>>

DeleteWrites(s, ok) ==
  /\ Holds("delete", s)
  /\ Unlock(s)
  /\ IF ok THEN RemoveRecords({s}) ELSE UNCHANGED <<session, leases>>
  /\ UNCHANGED <<setup, hooks, granted, request>>

(* A reconcile prunes worktrees whose directory is gone, and any removal   *)
(* cascades to secondaries, without the lifecycle lock of those sessions;  *)
(* so does the rollback of a creation.                                     *)
Reconcile(ids) ==
  /\ "Reconcile" \in Deleters
  /\ ids # {}
  /\ \A s \in ids : session[s] = "live"
  /\ RemoveRecords(ids)
  /\ UNCHANGED <<setup, holder, hooks, granted, request>>

(* DeleteProject removes the records of a snapshot of the project's        *)
(* sessions; it has no lease repository and takes no lifecycle lock.       *)
DeleteProject(project, ids) ==
  /\ "DeleteProject" \in Deleters
  /\ ids # {}
  /\ \A s \in ids : session[s] = "live" /\ ProjectOf[s] = project
  /\ session' = [s \in SessionID |-> IF s \in ids THEN "gone" ELSE session[s]]
  /\ UNCHANGED <<setup, holder, hooks, leases, granted, request>>

------------------------------------------------------------------------------
SetupWorks(s) ==
  \/ BeginHook(s)
  \/ \E ok \in BOOLEAN : HookStarts(s, ok)
  \/ Promote(s)
  \/ EndAfterPromotion(s)
  \/ \E ok \in BOOLEAN : Materialize(s, ok)
  \/ DropLeases(s)
  \/ DropToken(s)
  \/ CleanupLeases(s)
  \/ CleanupToken(s)
  \/ \E ok \in BOOLEAN : CleanupRemoves(s, ok)

HookEnds(s) == HookFails(s) \/ HookSucceeds(s)

Next ==
  \/ \E s \in SessionID :
       \/ \E hooked \in BOOLEAN : CreateRecord(s, hooked)
       \/ SetupWorks(s)
       \/ HookEnds(s)
       \/ Acknowledge(s)
       \/ AcknowledgementFails(s)
       \/ Finalize(s)
       \/ CleanupLocks(s)
       \/ DeleteLocks(s)
       \/ \E ok \in BOOLEAN : DeleteWrites(s, ok)
       \/ \E key \in Key, range \in Range : HookAcquires(s, key, range)
  \/ \E c \in Caller :
       \/ \E s \in SessionID, key \in Key, range \in Range : SessionFound(c, s, key, range)
       \/ SessionAcquires(c)
  \/ \E ids \in SUBSET SessionID : Reconcile(ids)
  \/ \E project \in ProjectID, ids \in SUBSET SessionID : DeleteProject(project, ids)

Spec == Init /\ [][Next]_vars

(* The goroutines run; whoever is in WithSessionLifecycle leaves it; a     *)
(* waiter of a Go mutex is served, even against newcomers, because the     *)
(* mutex hands over to it when starved.  Nothing is owed by a script.      *)
Fairness ==
  \A s \in SessionID :
    /\ WF_vars(SetupWorks(s))
    /\ WF_vars(\E ok \in BOOLEAN : DeleteWrites(s, ok))
    /\ SF_vars(Finalize(s) \/ CleanupLocks(s))

FairSpec == Spec /\ Fairness

------------------------------------------------------------------------------
(* Within a project no two leases name one port, whoever owns them and     *)
(* however a lease changed its owner (AcquirePort's used set).             *)
PortsUnique ==
  \A l, m \in leases : l.project = m.project /\ l.port = m.port => l = m

(* A hook's lease has a registered token: it is only through a registered  *)
(* token that a lease is promoted, and the setup that will release it is   *)
(* still to come (create_session.go:533-534, 584-585, 600-601).            *)
HookLeaseRegistered == \A l \in leases : l.kind = "hook" => l.owner \in hooks

(* A hook or a session is answered from one lease per key, so that asking  *)
(* again gives the same port ("remembers it for the session's lifetime").  *)
OneLeasePer(kind) ==
  \A l, m \in leases :
    l.kind = kind /\ m.kind = kind /\ l.owner = m.owner /\ l.key = m.key => l = m
HookKeyHasOnePort == OneLeasePer("hook")
SessionKeyHasOnePort == OneLeasePer("session")

(* From the lookup of its session to the last secondary a finalization is  *)
(* not overtaken by the deletion of that session: the lifecycle lock       *)
(* "serializes deletion with post-hook finalization"                       *)
(* (delete_session.go:58), also when sessions share a stripe.              *)
FinalizeExcludesDeletion ==
  [][\A s \in SessionID, ok \in BOOLEAN : DeleteWrites(s, ok) => setup[s] \notin Finalizing]_vars

(* So finalize promotes to a session that has its record, and the promoted *)
(* leases have somebody to release them, as long as nothing but            *)
(* DeleteSession removes records.                                          *)
PromotesToLive ==
  [][\A s \in SessionID : setup[s] = "checked" /\ setup'[s] = "promoted" => session[s] = "live"]_vars

(* No lease of a session outlives its record.                              *)
SessionLeaseHasSession == \A l \in leases : l.kind = "session" => session[l.owner] # "gone"

(* While a session keeps its record it keeps its leases, and what its hook *)
(* acquired it keeps under the same key and port through a setup that      *)
(* succeeds; only a setup that is cleaned up gives them back.              *)
LeasesOutlastSetup ==
  [][\A l \in leases :
       \/ \E m \in leases' : m.owner = l.owner /\ m.key = l.key /\ m.port = l.port
       \/ session'[l.owner] = "gone"
       \/ l.kind = "hook" /\ setup[l.owner] = "releasing"]_vars

(* A hook that ends well, and one whose failure was acknowledged, comes to *)
(* the end of its setup, with its token ended, whatever is deleted         *)
(* meanwhile and however the lifecycle lock is contended.                  *)
SetupSettles ==
  \A s \in SessionID :
    setup[s] \in {"exited", "releasing", "removing"} ~> setup[s] = "done" /\ s \notin hooks
==============================================================================
