# tmux-coder in TLA+

tmux-coder is a daemon (`tmux-coderd`) that owns, for a git repository opened as
a *Project*, a tree of *Sessions*: each wraps a tmux session, a Worktree Session
also a git worktree. Clients (a TUI, menus, scripts, agents' plugins) talk HTTP to
it. All its records are in memory; what git and tmux know is outside, and changes
on its own. This directory models the parts whose correctness depends on the order
of things, checks them with TLC on small instances, and proves with TLAPS what can
be proved for every instance. Paths below are relative to the repository.

1. [Inventory](#1-inventory)  2. [Modules and the code](#2-modules-and-the-code)
3. [Runs](#3-runs)  4. [Fairness](#4-fairness)  5. [Proofs](#5-proofs)
6. [Disagreements found](#6-disagreements-found)  7. [Not modelled](#7-not-modelled)
8. [Plan](#8-plan)

## 1. Inventory

| component | state | operations | what makes it correct |
|---|---|---|---|
| Session Topology planner `internal/domain/session_topology.go` | none: pure | plan the removal of a worktree, of a secondary, the prune of vanished worktrees | the tree stays a tree; survivors hang under their nearest surviving ancestor; children are deleted before parents |
| Session use cases `create_session`, `delete_session`, `session_reconcile`, `materialize_secondary` | reserved names, striped lifecycle mutexes, setup goroutines | create (fresh, existing branch, adopt), create a nested secondary, delete, reconcile, finish or clean up a setup | all or nothing; records match worktrees and tmux sessions; nobody blocks for ever |
| Project use cases `create_project`, `delete_project` | Project records, names reserved with the record | open, adopt worktrees, heal the Main Session, roll back, delete | one Project per directory, with one Main Session; a worktree is adopted once; no name denotes two sessions |
| Port leases `resource_lease_repo`, `acquire_port` | hook tokens, lease list | begin/end a hook, acquire, promote, release | no port twice; every lease has someone who will release it |
| Hook runner `infra/hookexec` | two files per setup, a tmux window | start, wait, wait for acknowledgement | success only for success; confirmation before cleanup; the wait ends |
| Memory repositories, state lock `infra/memory` | sessions, projects, agents, one RWMutex | CRUD | sections are atomic; ids are not reused |
| Git and tmux gateways | outside the daemon | add/remove worktrees, branches; create/kill sessions | a name denotes what the caller thinks it does |
| Agent use cases `create_agent`, `agent_event`, `delete_agent`, `report_opencode_session`, ... | agent records with a status, a pid, a pane | create, report activity/exit, delete, rename, subscribe | what runs is registered, what ended is not; stale reports are ignored; nobody waits for ever |
| OpenCode setup `opencode_setup.go` | a setup per agent, with its channels, deadline and prompt | register, set pane, ready, opened, wait, cancel, forget | a success is complete; the prompt goes to the verified session only; the pane gets its input back on every path; everybody who waits returns |
| OpenCode server `infra/opencodeserver` | child process, port, generation | ensure, close | one server; a dead one is replaced |
| Agent wrapper `agentwrapper` | a child process | run, forward signals, report | exit is reported once and last |
| Reporter plugin `integrations/opencode/tui.js` | where `setupSession` is; sequence numbers | prepare and verify the startup session; report the current conversation | no session before the daemon is ready for it; the last report wins |
| Terminal client `client/tui/model.go` | a copy of the daemon's lists; tab, selections, folds, finder; prompts and what they hold; the requests in flight | poll, move, fold, find; create, rename, notify, delete | what it was told stays on the screen; the selection survives a refresh; a name reaches the Agent it was meant for; the screen catches up |
| Daemon auto-start `client/daemon`, `cmd/tmux-coder` | daemons that were started | probe, launch, poll, ask about worktrees, send again | one daemon whoever starts it; every command ends |
| Menu, `tmuxattach`, dashboard | none beyond one call | | |
| HTTP adapter, configuration, notifiers, observability | none worth modelling | | |

How they interact: a request takes `Project` and `Session` records under the state
lock (`memory/state.go`), *releases it*, calls git and tmux, and takes it again to
write (ADR-0003). Deletion and the finalization of a setup also hold a lifecycle
mutex, one of 32 chosen by the session's id (`WithSessionLifecycle`); creation holds
a reservation of the name. A creation with a hook returns when the script's window
is open; a goroutine waits for the script, by polling files and the pane, and then
promotes the hook's port leases and materializes the declared secondaries, or cleans
the session up. The lease repository has its own mutex and knows nothing of sessions.

The hard behaviours follow from that: everything read in the first section may be
stale in the second; each git or tmux call may fail half-way through; worktrees and
tmux sessions disappear without the daemon; the goroutine of a setup runs against
deletions of its session. `PROJECT.json` lists these hazards at their lines, with
the properties that watch them, including those nothing watches yet.

## 2. Modules and the code

    SessionTopology   the planner, pure operators
      SessionTree         the tree of records under atomic operations  (abstract specification)
        MCSessionTree, SessionTreeProofs
      SessionLifecycle    the same operations, step by step, concurrently, with git and tmux
        MCSessionLifecycle, SessionLifecycleProofs  (refinement of SessionTree)
    ResourceLeases    leases, setups, deletions      MCResourceLeases, ResourceLeasesProofs
    HookExec          the setup window and its poller  HookExecProofs
    AgentLifecycle    an Agent from its creation to its exit   MCAgentLifecycle, AgentLifecycleProofs
      OpenCodeSetup       the inside of its startup setup        MCOpenCodeSetup, OpenCodeSetupProofs
      AgentReports        what it reports while it runs          MCAgentReports, AgentReportsProofs
    ProjectLifecycle  open, adopt, heal, delete; daemons that start and stop   MCProjectLifecycle
    TerminalRows      what the terminal client lists, and where its cursor is: pure operators
      TerminalClient      the client, its requests and the daemon behind them   MCTerminalClient, TerminalClientProofs

**SessionTopology.** `PlanWorktreeRemoval`, `PlanWorktreePrune`,
`PlanSecondaryRemoval` of `session_topology.go`, over a snapshot that is a function from
ids to records. The closures of the code are least fixed points (`Ancestors`,
`SecondaryDescendants`) so that they can be proved about; the walks themselves, which
fix the *order* of deletes, are written again as recursive functions and compared
with the sets on every tree TLC reaches; a child comes before its parent (`WalksAgree`).

**SessionTree.** What the records promise: one Main Session, and creations, deletions
and prunes each in one step, with worktree directories that may vanish in between
(`missing`). It is the abstract specification of the session use cases.

**SessionLifecycle.** Every critical section of the state lock is an action, every
git or tmux call another, and a request's local variables are in `act[a]`: its
program counter `pc`, what it read (`snap`, `plan`, `names`) and what it made (`made`).
The actors are requests and setup goroutines. Correspondence:

| code | actions |
|---|---|
| `CreateSession.Execute` | `StartWorktree`, reconcile, `ReadState`, `Reserve`, `CheckGit`, `AddWorktree`, `CreateTmux`, `WriteRecord`, `StartHook`; `Rollback`, `Undo`, `UndoRecord` on the way back |
| `materializeSecondarySessions` | `Materialize`, `Declare`; `Unwind`, `UnwindRecord` |
| `finishWorktreeSetup`, `cleanupFailedWorktreeSetup` | `HookSucceeds`, `HookFails`, `Finalize`, `CleanUp`, the deletion, `DeleteBranch` |
| `createSecondary` | `Nest`, `NestTmux`, `NestRecord` |
| `DeleteSession` | `DeleteLocks`, reconcile, `DeletePlan`, `RemoveWorktree`, `Kill`, `Write` |
| `reconcileWorktreeSessions` | `ReconcileRead`, `ReconcileStat`, `PruneKill`, `PruneWrite` |
| `DeleteProject` | `ProjectRead`, `ProjectKill`, `ProjectWrite` |
| the user, other programs | `DirectoryVanishes`, `TmuxExits` |

Abstractions: a branch names its directory and its tmux session; a tmux name is a
sequence, so that "begins with" is prefix of sequences, which is what makes
`Killed` able to take a session by prefix as `kill-session -t` does; a row of kills is one step, in
which any of them may fail (`KillsSome`); the questions put
to git before a creation are answered in one step, and so are those about all directories to the file system (or one of them fails); declared secondaries are flat and
cascade (`decl.Parent` and `onDelete` of the Config File are left to the nested
secondaries a user creates); agents are absent.

What a rollback takes back it takes back with its best effort: its kills and its `git worktree remove` may fail, and it goes on
(`create_session.go:644`). `stray` remembers the worktrees that stayed so, `abandoned` the branches of failed setups whose acknowledgement
never came, for which nothing is cleaned up (`create_session.go:555`). Both are history, which only properties read.

**ResourceLeases.** The lease repository, its callers and the life of a setup, with
sessions reduced to *unborn, live, gone*. A hook token is named by its session. The
three locks (state, lifecycle stripes, lease mutex) cut the actions: `DropLeases`
and `DropToken`, say, are two because the code makes two calls.

**HookExec.** The bash of the setup window on one side (`code`, `output`, `shell`), the
polling goroutine on the other (`waiter`), and nothing between them but the two files
and the existence of the pane. A poll looks at the file in one step and at the pane in
the next, as `waitForFile` does. A list of panes that tmux fails to give counts as a closed pane (`runner.go:200`): `ListErrors` allows
them, and `missed` remembers those that mattered. The module is coupled to the others by what it
reports: `succeeded` is the `HookSucceeds` of ResourceLeases and SessionLifecycle,
`confirming` their `HookFails`.

**AgentLifecycle.** Four parties that meet only in the Registry and in the coordinator's map of setups:
the creation (`create`, and `undo`, what it has still to do when it fails), the deletion (`delete`, and
`seen`, the record it read), the wrapper in the pane with the agent process under it (`wrapper`, `child`,
`answer`), and the deletion of the Session. Each call to tmux and each section of the state lock is a step:

| code | actions |
|---|---|
| `CreateAgent.Execute` | `BeginCreate`, `WriteRecord`, `Register`, `OpenWindow` / `WindowFails` / `CommandFails`, `RecordPane`, `GivePane`, `LookUp`, `WaitReturns` / `Disconnect` |
| its four failure paths, `stopFailedOwnedAgent` | `UndoDelete`, `UndoCancel`, `UndoForget`, `Stop`, `UndoTerminate`, in the order the path has them |
| `AgentController.Delete`, `DeleteAgent.Execute` | `BeginDelete`, `DeleteCancels`, `DeleteForgets`, `DeleteReads`, `DeleteKills` or `DeleteAwaits` and `DeleteTerminates`, `DeleteErases` |
| `agentwrapper.Run`, `reportSetupFailure` | `BecomeWrapper`, `StartChild` / `BootFails`, `ReportRefusal`, `ReportStarted`, `AskSetup`, `WrapperSees`, `ReportExited` |
| `AgentController.Event`, `WaitOpenCodeSetup` | the daemon's half of `ReportStarted` and `ReportExited`; `Settle`; `SetupAnswers` |
| `OpenCodeSetupCoordinator` | `Register`, `GivePane`, `Cancelled`, `Forget`, and a run that ends: `SetupSucceeds`, `SetupFails` |
| `DeleteSession` | `KillSession`, `RemoveSession` |

Of a record only what removal depends on is kept: is the pane recorded, is the process group. What goes wrong
is listed in `faults` when it does: a deletion that overlaps the creation (`early`), a call to tmux that
fails, or is cut off by a client that hangs up, whether or not tmux did as told (`tmux`), a call of the wrapper that gets
no answer (`lost`). Properties say which of them they tolerate. A signal to the process group may fail, and then a creation keeps the
record (`UndoTerminate`). One deletion of an Agent runs at a time. A
deletion of the Project acts on an Agent as that of its Session does.

**OpenCodeSetup.** What AgentLifecycle keeps of a setup is that it runs and ends; this module has the inside: the
coordinator's goroutine (`setup.run`), its buffered channels (`chan`) and what it took out of them (`got`), the map entry, the context
(`expired`), the plugin in the pane, who waits (`waiter`: the creation or the wrapper's request) and who deletes (`deleter`).

| code | actions |
|---|---|
| `OpenCodeSetupCoordinator.run` | `Collect`, `Disable`, `Verified`, `CheckPrompt`, `Paste`, `Enter`, `Restore`; `Deadline` |
| `Register`, `SetPane`, `Wait`, `Cancel`, `Forget` | `Register`, `GivePane`, `LookUp` and `WaitReturns`, `WaiterCancels` / `DeleterCancels`, `WaiterForgets` / `DeleterForgets` |
| `Ready`, `Opened`, and `setupSession` of the plugin | `StartPlugin`, `PostReady`, `PostExcuse`, `ReadyReturns`, `ReadyLost`, `CreateSession`, `VerifySession`, `PostOpened`, `PostWithdrawal` |
| `CreateAgent.Execute`, `AgentController.Delete` and `WaitOpenCodeSetup` around them | `OpenWindow`, `HangUp`, `WaiterStops`; `BeginDelete` |

The prompt is entered with one call of three tmux commands, which enable the input, paste and disable the input: a failing call may have stopped
behind any of them, with the input left enabled or the text pasted (`CallTmux`).

`Forget` writes the prompt that `run` reads, and nothing orders the two: `CheckPrompt` and `Paste` are two steps, and `Panic` is what the
second is when the prompt has gone in between. It takes a deletion that ran ahead of the registration (`early`) to get there, and
`PromptStays` says that nothing else does.

**AgentReports.** An Agent of OpenCode between its start and its end, which AgentLifecycle does not look into: the plugin in its TUI
(`plugin`, everything its closure holds), the record (`agent`), the requests between them (`net`, a set: any of them may be served next, or be
lost), what the TUI displays and what the server does. A step of JavaScript is an action; a request of the daemon is one, since it is one section of the state lock.

| code | actions |
|---|---|
| `observe`, its interval, `sendIdentity` with its timeout and its retries | `ObserveRoute`, `AnswerArrives`, `ReportFails`, `RetryDue` |
| the setup of the plugin, and its disposal before another | `Load`: a later epoch, and nothing of what the old one knew |
| `report`, `aggregate`, `related` and the handlers of events | `Reacts` at the end of `ExecutionStarts`, `ExecutionEnds`, `AsksUser`, `UserReplies`, `ConversationDeleted`; `AsksPlugin`, `PluginReplies` and `ReplyFails` for permissions it grants itself |
| `ReportOpenCodeSession.Execute` | `ReportOpenCodeSession`, `RefuseReport` |
| `AgentEvent`: `handleStarted`, `handleActivity` | `HandleStarted`, `HandleActivity` |

A conversation is what the code of the plugin calls a session. Times are left out: a retry is due at any time after it was set, and a request is given
up at any time. `view` and `posted` number what was displayed and what was posted; no action of the code reads them. `excuses` lists what
has happened of the things after which the code does not promise a true status, `StatusIsTrue` names them.

**ProjectLifecycle.** Clients (`tmux-coder open`, a deletion from a list) that find a daemon or start one, and
the two use cases cut at every lock and every call to tmux. The request's locals are in `command[c]`. A name is
(base, branch, number): two directories with one last element compete for names, and a target names a session that its
name begins, as for tmux.

| code | actions |
|---|---|
| `daemon.Ensure`, the `open` command | `Probe`, `Launch`, `Poll`, `GiveUp`, `Refused`, `Answer`; `Boot` |
| `CreateProject.Execute` | `SendOpen`, `Reserve`, `CreateMain`, `Declare`, `Undo`, `Forget` |
| `reconcile`, `mainSession` | `Targets`, `Heal`, `Mend`, `MainOf` |
| `adoptWorktrees` | `Names`, `Adopt`, `Record`, `Reply` |
| `DeleteProject.Execute` | `SendDelete`, `LookForOne`, `KillOne`, `RemoveRecords` |
| a daemon that stops, a user | `Crash`, which keeps the tmux sessions and loses the records; `UserEnds` |

What goes wrong is listed in `mishaps` only when it excuses an inconsistency: a kill that fails or takes another session, two requests about
one directory, a restart, a session that the user ends. A refusal of git, tmux or the configuration excuses nothing.

**TerminalRows, TerminalClient.** The first computes the rows of every tab from a copy of the lists, with the cursor
(`visibleRows`, `projectSessionRows`, `normalizeSelection` and what they call); the second is the `Update` function, one action per message and per key
with a state change, together with a daemon that serves each request in one step and answers in a later one, and other clients and Agents that change
its records. The daemon refuses a request, or serves it, and of the answer to what it has served the client may see an error (`Outcomes`). A listing is three requests, each a snapshot of its own. Of listings only the one started last counts
(`listSeq`), so `list` holds one. `acked` is the memory of what the client was told, `wishes` of the names
typed, `muddled` that two creations have overlapped; no action reads them.

| code | actions |
|---|---|
| `tickMsg`, `listCmd`, `listMsg` | `Tick`, `ReadProjects`, `ReadSessions`, `ReadAgents`, `ListReply`, `ListFails` |
| `deleteMsg`, `createSessionMsg`, `createAgentMsg`, `renameAgentMsg`, `setDiscordNotificationMsg` | `DeleteReply`; `SessionMade`, `SessionConflict`, `SessionFailed`; `AgentMade`, `AgentFailed`; `RenameReply`; `DiscordReply` |
| the keys of `Update` and the handlers of its prompts | `Keys`: movement, folds, finder, and for each prompt its start, its steps, its submission and its cancellation |
| the daemon and what else talks to it | `Serve`; `StatusChanges`, `AgentEnds`, `SessionGoes` |

In every module an operator commented *Mutant* is no part of the specification: it is a
plausible bug, kept to show that a property notices it.

## 3. Runs

Passing runs:

| run | question | instance |
|---|---|---|
| `tree` | do the plans keep the tree, whatever is created, deleted and pruned in whatever order, and do the sets equal the walks? | 5 ids, depth 4: chains of three secondaries, so that the parent of a deleted one is not the root, and of four worktrees, so that a prune climbs over two that vanished to a third; branching trees |
| `leases` | are ports unique, is no provisional lease forgotten, do finalization and deletion exclude each other, does every setup end? | 2 sessions of one project on *one* stripe, so that they contend for a mutex and a goroutine that waited for itself would; a client, 2 ports, 1 key, 2 leases; every remover of records |
| `sessions` | what do two overlapping requests leave? | 2 branches, 3 ids, worktrees, nested worktrees, secondaries, deletions; requests are symmetric; tmux fails to create sessions, and rollbacks fail to remove worktrees |
| `session_creation` | is a creation all or nothing when any call may fail? | all modes, with a script or without, one branch with a worktree and one without, 2 declared secondaries (one may be unwound after another succeeded), 10 ids for three creations; a request and a setup goroutine at a time; the additions to git, tmux creations, setups and the acknowledgement of failed ones fail |
| `session_refines_tree` | do the steps of a request add up to the atomic operation? | 1 request, vanishing directories, failing materialization, 5 ids |
| `session_outside` | what survives when things fail and vanish, and does every request end? | 1 request and 1 goroutine; looks at directories, removals, any of several kills and setups fail, directories and tmux sessions vanish, the Project is deleted |
| `hook_window` | is what the waiter reports true, and does it report? | 2 windows, lingering processes, closed windows, read errors, failing lists of panes |
| `agents` | who loses track of an Agent, who waits for ever? | 1 Agent of any shape (a pane of its own or the client's, with a setup or without), its Session, every fault at any time |
| `setup` | is a success complete, does the input come back, does anybody wait for ever? | 1 setup of any shape (a pane of its own or the client's, with a prompt or without), every fault at any time, a deletion at any time |
| `reports` | does the conversation on display arrive and never an older one after it, and is the status so? | a conversation and one it started, any on display at first; four `Bounds`: two moves with two losses, a second load with a move and a loss, three works (executions, questions, deletions) with a failing reply, a move with two works |
| `terminal` | does what the client was told stay on its screen, its cursor on its row, and a name with its Agent? | a Project with a worktree, two secondaries under it and two Agents; 2 requests in flight beside the listing; 7 habits |
| `projects` | what is left of Projects when opens and deletions overlap, calls fail and daemons stop? | 2 clients, 3 commands, 2 directories of one base name, a worktree of the first; 1 fault of any kind |

The type invariants hold under the same configurations and are not listed with the runs; for SessionTree, ResourceLeases, HookExec, AgentLifecycle, OpenCodeSetup and AgentReports
section 5 proves them.

In `reports` identities and statuses have little to do with each other, so that their product is what makes it large: a behaviour keeps to one of the
`Bounds`, and the interesting combinations are one each. Two displays, two epochs and one report given up are what it takes to serve a report after its
successor; a question of a started conversation below a busy one is what it takes to tell the three statuses apart.

A setup is alone in `setup` because setups share nothing but the map, whose keys differ. A *habit* of `terminal` is a set of gestures, keys and outside
events, that a behaviour keeps to, with the number of them (3 to 5): all of a prompt's steps and what competes with it fit in one,
and the product of all gestures does not fit in five minutes. Ticks, listings, failures and answers are not counted. Three commands
in `projects` are an open, an open or a deletion that overlaps it, and one after both; two clients are what it takes to start two daemons.

One Agent is enough in `agents`: Agents share nothing but the Session's end, and the empty target of a
kill, which may hit any pane. The theorems cover any number.

Outside the list, `ProjectNames.cfg` has TLC check `NamesUnique` with four commands that always adopt, where one of the directories has a worktree
on the branch "main" that the property excepts: the names of all other sessions stay unique beside it.

The bounds on ids and leases (`MaxSessions`, `MaxLeases`) are the only ones the code lacks; a request
starts only when the ids it may come to need are left (`Room`), so the bound stops none
half-way. Two actors are enough for the races the runs show. Races of three requests, such as the
late adoption of section 6 (row `SessionTwoPerWorktree`), are covered by no run; the theorems of
`SessionLifecycleProofs` cover any number of requests and workers.

`AllOrNothing` is checked for one request and the goroutine of an earlier one, without deletions.
With a second request it fails: while the cleanup of a failed setup removes a session, one request may
adopt the worktree and another create the branch anew, and the cleanup kills the new tmux session by name (section 6,
`SessionRaces`). The theorem of section 5 covers any number of goroutines, branches and declarations.
`RollbackTakesItsOwn` and `NothingStray` are what requests that overlap do keep.

Deadlock checking is off everywhere: the ids run out, and a tree without work to do has stopped
legitimately. Configurations that expect a violation are in section 6.

## 4. Fairness

*ResourceLeases, SessionLifecycle:* weak fairness for what a goroutine does between
blocking calls, and for a deletion that is inside its critical section: the Go scheduler runs them. Strong fairness for taking a mutex: `sync.Mutex`
goes into starvation mode and hands itself to a waiter of more than 1 ms, so a waiter
is not overtaken for ever. None for the start of a request, the end of a script, or the
acknowledgement of a failure: nobody owes those, and the properties
(`SetupSettles`, `RequestsFinish`) start after them or allow for them.

*HookExec:* weak fairness for the end of the script (`timeout` kills it), for the shell and
for the polling loop. None for the user and for processes the script left behind.

*AgentLifecycle:* weak fairness for the daemon's goroutines and for the wrapper; for the setup, whose context has a deadline
from `Register` on; for the end of an agent whose pane has closed, since the wrapper passes the
hangup on. None for clients, users, an agent in an open pane, or the disconnection of a client.

*OpenCodeSetup:* weak fairness for the goroutine, the handlers of the daemon and the deadline, which is a timer. None for the plugin, the user, the client, the end
of the TUI: `NobodyWaitsForever` needs none of them.

*AgentReports:* weak fairness of the first load of the plugin, of its interval, its timers and its answers, of the daemon's serving what reaches it and of the record
of the pane. Losses are bounded, which is the assumption that a report gets through in the end. None for the user, the server, a second load.

*TerminalClient:* weak fairness of the tick; strong fairness of the three reads of a listing and of taking its result, which says that the daemon does
not, for ever, fail or answer later than the next tick (1 s). Without it `ScreenCatchesUp` fails, see `TerminalLate` in section 6. None for keys.

*ProjectLifecycle:* weak fairness of each client and its request, and of a daemon that was started: it listens, or ends because another does. A client gives up only when no
daemon is starting: that one listens within the two seconds of `daemon.go` is an assumption. None for users: `CommandsFinish` stops at the question about worktrees.

## 5. Proofs

TLAPS checks these for every value of the constants, under the named assumptions only
(each module's, which give the constants their types: that bounds are numbers, that a conversation was started by another or by none, that the records a
terminal client starts with have their fields, and Agents numbered below the next id). A module of proofs begins with the parts of its inductive invariant, has a lemma for
each operator that changes state and one for each action, or group of actions that are alike, and ends in the theorems. TLC has checked each invariant under the configuration of a run before it was proved.

* `TreeStaysWellFormed` (SessionTreeProofs): `Spec => [](TypeOK /\ WellFormed)`. `WellFormed`
  is inductive with `TypeOK`, because it says that a parent is *older* than its child; that
  makes cycles impossible without an argument about paths. The lemmas bound what the least
  fixed points contain (`SecondaryDescendantsClosed`, `WorktreeAncestors`), show that carrying
  out any plan whose new parents are older and kept is safe (`CarryKeepsWellFormed`), and then
  that each of the three plans is such a plan.
* `SurvivorsAlwaysInherit`, `RemovalsAreExact` (SessionTreeProofs): two action properties, from the same invariant and one lemma per plan. A survivor whose ancestors all stay keeps its parent
  because the climb from a session begins with its parent (`AncestorsClosed`); one that loses some gets what the planner computed, which is the nearest that is left because what goes with a removed session hangs below it.
* `Types`, `PortsStayUnique`, `HookKeysStaySingle` (ResourceLeasesProofs): the invariant is
  `LeaseInv`, which adds to the properties that a lease is in its owner's project
  (`LeaseInProject`): without it a promotion, which writes the session's project into the
  lease, could create a duplicate. One lemma per repository operation.
* `HookLeasesStayRegistered` (ResourceLeasesProofs): assumes `LateCalls = FALSE`, that is, no
  process of a script outlives it and calls; `LeaseLateCall.cfg` shows the assumption is needed.
  The invariant `HookInv` says in which steps of its setup a session may still have
  provisional leases.
* `LeasesAlwaysOutlastSetup` (ResourceLeasesProofs): an action property; beside `LeaseInv` it needs that a setup which found no session found it gone for good (`MissingIsGone`).
* `DeletionsWaitForFinalize`, `LockProtectsPromotion` (ResourceLeasesProofs): the invariant `LockInv` says
  that a setup in `Finalizing` holds its stripe, and `OneHolder` that a stripe has one holder whoever shares
  it. The first theorem holds for every remover; the second assumes `Deleters = {"DeleteSession"}`, and concludes with
  `CheckedIsLive` that leases are promoted to a session that is recorded.
* `FailuresNeverSucceed`, `CleanupsAreConfirmed` (HookExecProofs): invariant `FilesAreTrue`, what
  is in a file was put there by the window, so what the waiter concludes from it is so. A cleanup without a confirmation follows only
  a pane that tmux failed to list (`missed`).
* `TypeCorrect`, `Tracks`, `KeepsSetups`, `StaysGone` (AgentLifecycleProofs): the inductive invariant `IInv` has, beside the
  types, three parts. `Structured` says how the positions of the four parties go together (a process under a wrapper that runs, a
  recorded group only after the start) and holds whatever goes wrong. `CalmTracked` is what `OnlyFaultsOrphan` needs
  while neither `early` nor `tmux` has happened: every Agent whose pane is open, and whose process may still come, is registered, *and*
  whoever is about to remove a record (`erase`, a plan with a `delete`) has closed the pane or ended the process.
  `AllKept` says that a setup is in the map while its one reader (`Unasked`: the creation for a pane of the daemon's, the wrapper
  for a client's) has not asked. `Plans` and `PlanTail` follow what a failing creation has left to do.

* `TopologyAlwaysValid` (SessionLifecycleProofs): overlapping requests cannot give the records a cycle, or a worktree under a secondary, which `newTopologyIndex` refuses and with it every
  later deletion. The planner also refuses a chain of parents with a gap, and that they do leave (section 6, `NoDanglingParent`). The difficulty is that
  a plan is made from one snapshot and carried out on other records, and that a new session's parent was looked up in a third. `Sound` (parents are older, no worktree under a secondary)
  is therefore inductive only together with `Actors`, which follows what each request carries across the lock: a snapshot whose types agree with the records on what both still hold
  (`Remembered`), a plan that moves a session only under a parent it may have at any time (`Executable`, `MayHang`), a parent that is no secondary while a worktree is created. All of
  it stays true because ids are never issued again and sessions never change their type (`KeepsActors`). Nothing is assumed of failures, of other programs, or of the number of requests.
* `WorktreesAlwaysRecorded`, `NothingLeftStray`, `NothingLeftAtAll` (SessionLifecycleProofs): `Owned` says who answers for a worktree on disk that no failing rollback has left (`OwnWorktrees`), a record that no actor is about to take away (`Condemns`) or a creation that
  records it or takes it back (`Making`); `Named` says the same of the names on the tmux server (`Forgets`, `Bears`), which every deletion of a record kills first. Both rest on `Knowing`, an invariant of its own:
  that the names and branches which an actor carries across the lock are still those of the records it speaks of, that the secondaries a setup takes back are its own, that
  a prune deletes no worktree it did not find missing. The first theorem assumes nothing: a deletion keeps the record of a worktree that it could not remove, and only a rollback gives one up.
  The second assumes that kills do not fail (a deletion goes on without a kill, and forgets the name) and concludes
  `project => NothingStray`: `DeleteProject` leaves worktrees behind on purpose. The third assumes that removals do not fail either; then `stray` is empty, and every worktree on disk has its record or its creation.
* `RollbackAlwaysTakesItsOwn` (SessionLifecycleProofs): `Apart` says that a request holds the reservation of its branch (`Holds`) from the questions to git to its last rollback, and two never that of one branch. The cleanup of
  a setup that could not start is a deletion, which takes its branch from the record it finds: `Sure` says that this is the branch reserved, so that none but it is released. TLC found what one would have liked to state instead,
  that no rollback takes the worktree of a recorded session, to fail with three requests (section 6, `SessionTwoPerWorktree`).
* `ImplementsTree` (SessionLifecycleProofs): for one request, `Request = {r} /\ Worker = {}`, without `DeleteProject` (of which SessionTree knows nothing) and with `MaxDepth > 1` (5 in the code, which
  does not check declared secondaries against it), `Spec => RefinesTree`, whatever calls fail and whatever directories disappear. SessionTree's operators on `Shape` are first shown to be
  the planner's on the records. `Orderly`, inductive under `Knowing`, says that what the request has in hand is still good: its snapshot is the records, its plan the one the planner makes from them
  (for a prune: of directories that are still missing), its new branch has no session, the session it sets up has no children but those it made, which are leaves. Then a write is the operation of the tree,
  the removal of a worktree is the vanishing of its directory, and every other step a stutter. That no plan leaves a session under a deleted one (`Covers`) is proved for each plan.
* `AloneNothingDangles` (SessionLifecycleProofs): from `Orderly`, what overlapping requests break (section 6, `NoDanglingParent`, `OneSessionPerWorktree`) holds of one request at a time.
* `CreationsAreAllOrNothing` (SessionLifecycleProofs): `Spec => []AllOrNothing` under `SoleCreator(r)`: one creation at a time, any number of setup goroutines of earlier ones, no deletions but those of the cleanups, nothing
  that disappears from outside, and neither kills, removals nor looks at directories fail (after such a failure what the code could not take back stays); additions, tmux creations, setups and acknowledgements may. A failed
  setup that nobody acknowledged is excepted (`abandoned`): the code leaves its session without the declared secondaries. `AllOrNothing` speaks of the state when all is quiet, and what it says
  of a setup is false all the time that one runs, so that the invariant, `Proper`, follows each actor: git is what the directories say (`Intact`); who has a session in hand (`Tends`), to set it up or to
  take it back, finds under it exactly the secondaries it made, under the names declared (`Filled`), and no two have the same one in hand; every other worktree session is on disk and has all its declared secondaries (`Served`). A session without its directory is therefore
  one that its own cleanup is removing: a prune that another actor made from an older look at the disk finds nothing else to take (`Viewing`). With a second creation it is false (section 3).
* `InputAlwaysComesBack`, `PromptAlwaysStays`, `SuccessIsAlwaysComplete`, `PromptAlwaysGoesToVerified` (OpenCodeSetupProofs): `Stages` and `PaneKnown` tie the stage of the goroutine to
  the pane, to the map and to the waiter; `PromptKept` and `ForgottenLast` say that whoever forgets a setup has seen its end or came before the registration; `Displayed` and `Typing` say, stage by
  stage, what the plugin has verified and what is in the pane.
* `ConversationNeverReturns` (AgentReportsProofs): `Ordered` says that of two reports with comparable numbers, among those under way and the record's own, the later number has the later display,
  although epochs come from different plugins and requests are served in any order.
* `StatusIsAlwaysTrue` (AgentReportsProofs): `Follows` (the plugin knows, or has in hand, what executes and is asked on display, and said so last) and `Delivered` (its last word is under way or in the
  record, with nothing older under way) hold while `excuses` is empty; `Numbered` tells statuses apart, which the code does not, as history.
* `AcknowledgedAlwaysStays` (TerminalClientProofs): `AcknowledgedStays` speaks of the listing that counts; it is inductive once what the client was told is true of the daemon (`TrueClaims`: the daemon's
  steps drop what they contradict) and the answers that the notification prompt may still take agree with it (`Sequenced`, `Truthful`, `Current`: a prompt takes only answers under its own
  number, and none of those is older than what was told since). For any records, any number of requests under way and any order of their answers.
* `NamesAlwaysReachTheirAgent` (TerminalClientProofs): `NamesReachTheirAgent` says where a name is when all is answered; `Naming` says where it is at any time. `Numbered` gives prompts and Agents numbers that are not
  used before; while Agents are created one after the other (`~ muddled`), the open prompt has one creation under way or knows its Agent (`OneComing`, `AnswerKnown`), nothing else has named that one
  until the name is given (`NameKept`), and from then on each wish is `Granted`: the Agent has the name, or a renaming under way brings it, or it is still in the prompt and the Agent has none. A renaming by hand, a renaming or
  a creation that is answered with an error, ends the wish: the daemon may have done what it was asked for or not. That Agents end, listings arrive and rows move meanwhile disturbs none of it (`Undisturbed`). With two creations under way it is false (section 6, `TerminalNames`).

Only model-checked: liveness (fairness is out of the prover's reach); `WalksAgree`, the equality of the sets with
the walks, and the rows under the cursor (`SelectionSurvives`), inductions over a tree or a list; and ProjectLifecycle: its `NamesUnique` excepts the worktrees of a branch called "main", whose session may be given the name of a Main Session while it is adopted,
because that name is reserved among the records only (`create_project.go:263`).

## 6. Disagreements found

Each has one property, taken from a document, and a configuration under which TLC finds a short trace that
breaks it (`tlc -config <name>.cfg <module>`; with `-continue` where a configuration has several properties). They are kept for reference, by the side of the runs: most repeat one of a few causes (state read before git or tmux and used after, or a name that
has come to denote something else), or depend on how a document is read.

| configuration | what happens |
|---|---|
| `SessionRaces`: `NoDanglingParent` | a worktree is cut from a session while that is deleted: its record has a parent that is gone, and the strict planner refuses to delete it ever after |
| `SessionRaces`: `RecordsAlwaysRemoved` | a deletion plans to reparent a child that is deleted meanwhile: the write fails, the worktree is gone and the record stays |
| `SessionKillPrefix` | `kill-session -t` of a session that has exited takes its only child |
| `LeaseRaces`: `SessionLeaseHasSession` | a lease is recorded for a session deleted since it was looked up |
| `HookSuccessLost` | the script succeeds between the look at the file and the look at the pane: reported as a failure, and cleaned up without confirmation |
| `SessionRaces`: `SessionsHaveWorktree`; `SessionTwoPerWorktree` | adoptions do not ask git again before they record: a session for a removed worktree, two sessions for one; with a third request, a session for the worktree that another creation makes next, and takes back when it fails |
| `SessionRaces`: `SessionsHaveTmux` | kills are by name: a late one takes the tmux session of a new session of that name |
| `SessionSuccessUndone` | a secondary the user made during the setup collides with a declared one: a successful setup is cleaned up with everything in it |
| `SessionProjectDeleted` | a creation in flight outlives its Project |
| `LeaseRaces`: `SessionKeyHasOnePort` | session and hook each get a port under one key, the promotion keeps both |
| `LeaseLateCall` | a call between the release of a hook's leases and the end of its token leaves a lease behind |
| `AgentEnded` | the wrapper of an Agent without a setup finds no OpenCode server, or no binary: it ends without a report, and the Agent stays listed as starting; in a client's pane it cannot even be deleted |
| `AgentOrphaned` | a deletion between the write of the record and that of the pane kills the empty target, erases the record, and the agent runs on unregistered ("Registration is guaranteed", ADR-0002) |
| `ProjectRollback` | "a kill of a never-created session is a harmless no-op" (create_project.go:350): a Project whose Main Session could not be created, because a tmux session of that name outlived the last daemon, is rolled back by killing that session |
| `ProjectRaces`: `QuietlyConsistent` | a worktree on a branch "main" competes for the name of another directory's Main Session: the adoption or the open that comes second fails on it |
| `ProjectRaces`: `AdoptedOnce` | two opens of a directory overlap, both find a worktree without a session, and each adopts it: the second under another name, with a tmux session of its own |
| `OpenCodeSetupSession` | `Ready` returns without an error also when the setup has ended, so that the plugin goes on and creates a session that nobody wants, behind an input that is enabled ("after the Daemon disables pane input", ADR-0019) |
| `ReportsDisagree`: `StatusesInOrder` | "ordering guaranteed by the plugin sending serially" (ADR-0008): it posts a status without waiting for the one before, and the daemon keeps the one served last |
| `ReportsDisagree`: `StatusFollowsDisplay` | the plugin drops what conversations do that are not on display: one that executes and is displayed then is idle, one that ended meanwhile stays busy |
| `TerminalConflict` | the question about an existing branch goes by the fields of the prompt, and these may have been cleared or filled again since the creation was sent: the answer creates another branch, or none |
| `TerminalNames` | two quick creations overlap: the name typed for the second goes to the Agent of the first |
| `TerminalLate` | a daemon that answers every listing, but later than the next tick: the screen never changes |
| `HookUnbounded` | a background process that keeps the output open holds `tee`, and the setup, beyond its timeout |

Met while modelling, and visible in the modules without a property of its own:

* Two opens of one directory: the second finds the record of the first, *heals* its Main Session by creating it, and the first, whose own creation now
  fails on the duplicate name, rolls back and deletes the Project that the second was told of. ADR-0003 calls the race harmless.
* An adoption records sessions for a Project that is deleted meanwhile. After a restart, and between two directories of one base name that have the
  same branch, the name of the tmux session is taken, and the worktree is silently not adopted (`Adopt`).
* A deletion kills the tmux sessions before it removes the records: for that time a name may be given out twice (`Leaving` in `NamesUnique`).
* The client's guard against a second creation of a worktree is `loading`, which the reply to a poll clears: a second Enter sends it again. A deletion's reply
  closes the question about another deletion, and a rename's the prompt of another rename (`DeleteReply`, `RenameReply`).

## 7. Not modelled

* The notifications that a status raises, and the one-shot Discord subscription but for its switch, in TerminalClient: delivery is best-effort, after the lock. The statuses
  of other kinds of Agent come by `tmux-coder agent-event`, a request each, as `HandleActivity` serves it.
* A clock that goes back between two loads of the plugin in different processes: its epochs would be stale (`nextEpoch` guards one process).
* Where in a deleted conversation's family the plugin still climbs: in AgentReports what was started last is deleted first. The removal of the Agent under its reports.
* The OpenCode server: `Ensure` runs under one mutex and only a wrapper that starts waits for it; planned. Its failure is `BootFails` in AgentLifecycle.
* A wrapper killed before it listens to signals, or by SIGKILL, reports nothing, as after `AgentEnded`.
* A daemon that stops while an OpenCode setup has the input of a pane disabled: nobody enables it again. Otherwise a stop is the `Crash` of ProjectLifecycle: all
  records are lost, worktrees and tmux sessions stay, and the next open meets them. The other modules assume one daemon that lives.
* Of the terminal client: rendering, the text of filters (a query is the set of rows it matches), the status line, keys that only move. Of listings: that worktrees whose
  directories are gone are left out of a listing of Sessions.
* In ProjectLifecycle an open heals the Main Session only (`create_project.go:303` does the same to recorded secondaries), and the declared secondaries are one step that leaves all or nothing (SessionLifecycle has the steps), and names of different
  branches never collide, although `session_name.go` maps several characters to one.
* `DeleteProject` releases no leases; that is modelled, and only excluded from `LeasesOutlastSetup` by its statement, since no document promises otherwise.
* `git worktree add` that fails half-way and leaves a directory.
* Menu, `tmuxattach`, dashboard, HTTP decoding, configuration, notifiers, event parsing, logging: no state that other parts depend on, or pure parsing and rendering.

## 8. Plan

Done, in this order: SessionTopology, SessionTree with its proof, ResourceLeases with its proofs,
SessionLifecycle with its refinement, HookExec with its proofs, AgentLifecycle with its proofs, OpenCodeSetup, TerminalClient,
ProjectLifecycle, AgentReports; then the proofs of OpenCodeSetup, AgentReports, SessionLifecycle and TerminalClient. Next:

1. **OpenCodeServer**: one server, replaced when dead, Close ends it.
2. AgentLifecycle's abstract setup as the specification that OpenCodeSetup implements.
