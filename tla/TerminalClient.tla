---------------------------- MODULE TerminalClient ----------------------------
(***************************************************************************)
(* The terminal client: one Update function that takes keys, ticks and the *)
(* answers of requests that run beside it, in the order they come.  The    *)
(* client keeps a copy of the daemon's records, refreshed by a listing of  *)
(* three requests; of two listings only the later one started counts, so   *)
(* `list` holds that one alone.  The other requests are in `calls`, each   *)
(* served by the daemon in a step, and answered to the client in another.  *)
(*                                                                         *)
(* Left out: rendering, the wording of the status line, the text of names. *)
(* `acked`, `wishes` and `muddled`, `of` in a record of an Agent and       *)
(* `prompt` in a creation, are history: no action of the client reads them. *)
(***************************************************************************)
EXTENDS TerminalRows, Bags

LOCAL INSTANCE SequencesExt

CONSTANTS World,        \* the records of the daemon when the client starts
          Initial,      \* the Session the client is started in
          Branches,     \* the names of branches a user types
          Names,        \* and those of Agents, Blank among them
          Habits,       \* sets of gestures, keys and outside events: a behaviour
                        \* keeps to one of them; bound: `most` of its gestures
          MaxCalls      \* bound: requests in flight besides the listing

Blank == ""  \* no name, no branch, no conflict

ASSUME BoundsAssumption ==
  (\A h \in Habits : h.most \in Nat) /\ MaxCalls \in Nat /\ Blank \in Names

(* The records have their fields, and Agents their ids in the order in      *)
(* which they were made; a prompt has made none yet.                       *)
ASSUME WorldAssumption ==
  /\ DOMAIN World = {"projects", "sessions", "agents", "recent", "nextSession", "nextAgent",
                     "branches", "worktrees"}
  /\ World.nextAgent \in Nat \ {0} /\ DOMAIN World.agents \subseteq 1 .. (World.nextAgent - 1)
  /\ \A a \in DOMAIN World.agents :
       /\ DOMAIN World.agents[a] = {"project", "session", "rank", "name", "armed", "of"}
       /\ World.agents[a].of = 0

VARIABLES
  daemon,   \* its records, next ids, branches and the worktrees without Session
  shown,    \* the client's copy
  view,     \* tab, selections, folds, finder, Sessions to go to
  form,     \* the prompts and their fields
  loading,  \* what holds back the creation of a second worktree
  list,     \* the listing that counts
  calls,    \* the other requests
  exit,     \* NoRow, or what the client ended with
  habit, left,
  acked,    \* what the client was told and is still so at the daemon
  wishes,   \* the name given to the Agent of a quick prompt
  muddled   \* an Agent prompt was opened while a creation was under way

vars == <<daemon, shown, view, form, loading, list, calls, exit, habit, left,
          acked, wishes, muddled>>
history == <<acked, wishes, muddled>>

------------------------------------------------------------------------------
NoListing == [at |-> "none", copy |-> NoCopy]
NewListing == [at |-> "projects", copy |-> NoCopy]

Closed ==
  [worktree |-> [on |-> FALSE, branch |-> Blank, project |-> 0, parent |-> 0, conflict |-> Blank],
   base |-> [step |-> "none", project |-> 0, branch |-> Blank],
   secondary |-> [step |-> "none", parent |-> 0],
   agent |-> [on |-> FALSE, step |-> "none", session |-> 0, name |-> Blank, quick |-> FALSE,
              made |-> 0, named |-> FALSE],
   rename |-> 0,
   discord |-> [on |-> FALSE, agent |-> 0, enable |-> FALSE, sent |-> FALSE, seq |-> 0],
   confirm |-> NoRow,
   prompts |-> 0]                               \* history: quick prompts so far

Init ==
  /\ daemon = World
  /\ shown = NoCopy
  /\ view = [tab |-> "overview", sel |-> [k \in Kind |-> [id |-> 0, idx |-> 0]],
             over |-> "session", grouped |-> FALSE, folded |-> {}, loaded |-> FALSE,
             finding |-> FALSE, query |-> {}, initial |-> Initial, created |-> 0]
  /\ form = Closed
  /\ loading = TRUE
  /\ list = NewListing
  /\ calls = EmptyBag
  /\ exit = NoRow
  /\ habit \in Habits
  /\ left = habit.most
  /\ acked = {} /\ wishes = <<>> /\ muddled = FALSE

------------------------------------------------------------------------------
Exists(d, row) ==
  CASE row[1] = "project" -> row[2] \in d.projects
    [] row[1] = "session" -> row[2] \in DOMAIN d.sessions
    [] OTHER -> row[2] \in DOMAIN d.agents

(* What the client was told of a row, as far as these records go.          *)
Claim(kind, row, value) == [kind |-> kind, row |-> row, value |-> value]
Holds(d, claim) ==
  CASE claim.kind = "gone" -> ~ Exists(d, claim.row)
    [] claim.kind = "made" -> Exists(d, claim.row)
    [] claim.kind = "named" -> Exists(d, claim.row) => d.agents[claim.row[2]].name = claim.value
    [] OTHER -> Exists(d, claim.row) => d.agents[claim.row[2]].armed = claim.value

(* The Agent is named for another reason, or not at all: no wish counts.    *)
Unwished(a) ==
  IF a \notin DOMAIN daemon.agents THEN wishes
  ELSE [p \in DOMAIN wishes \ {daemon.agents[a].of} |-> wishes[p]]

Told(claim) == acked' = IF Holds(daemon, claim) THEN acked \cup {claim} ELSE acked

------------------------------------------------------------------------------
(* The daemon                                                              *)

(* An answer: how it went, and the record that was made or changed.        *)
NoRecord == [project |-> 0]
Answer(code, id, record) == [code |-> code, id |-> id, record |-> record]
NoAnswer == Answer("none", 0, NoRecord)
Error(code) == Answer(code, 0, NoRecord)

DropAgents(d, gone) ==
  [d EXCEPT !.agents = [a \in DOMAIN d.agents \ gone |-> d.agents[a]],
            !.recent = SelectSeq(@, LAMBDA a : a \notin gone)]

(* Secondaries go with what they hang on; worktrees move up.               *)
DropSessions(d, gone) ==
  LET nearest(s) == LET keep == SelectSeq(Paths(d)[s], LAMBDA a : a \notin gone)
                    IN IF Len(keep) < 2 THEN 0 ELSE keep[Len(keep) - 1]
  IN [DropAgents(d, {a \in DOMAIN d.agents : d.agents[a].session \in gone}) EXCEPT
        !.sessions = [s \in DOMAIN d.sessions \ gone |-> [d.sessions[s] EXCEPT !.parent = nearest(s)]]]

(* The Secondaries of a Session: those of a worktree that hang on another   *)
(* worktree below it are not among them.                                   *)
Below(d, s) ==
  LET between(t) == {u \in Ancestors(d, t) \ {s} : s \in Ancestors(d, u)}
  IN {t \in DOMAIN d.sessions :
        s \in Ancestors(d, t) /\ \A u \in {t} \cup between(t) : d.sessions[u].type = "secondary"}

DeleteSession(d, s) ==
  [DropSessions(d, {s} \cup Below(d, s)) EXCEPT !.worktrees = @ \ {d.sessions[s].branch}]

DeleteProject(d, p) ==
  [DropSessions(d, {s \in DOMAIN d.sessions : d.sessions[s].project = p})
     EXCEPT !.projects = @ \ {p}]

Removed(d, what) ==
  CASE what[1] = "agent" -> DropAgents(d, {what[2]})
    [] what[1] = "session" -> DeleteSession(d, what[2])
    [] OTHER -> DeleteProject(d, what[2])

Added(records, id, record) ==
  [i \in DOMAIN records \cup {id} |-> IF i = id THEN record ELSE records[i]]

AddSession(d, project, type, parent, branch) ==
  [d EXCEPT !.sessions = Added(@, d.nextSession,
              [project |-> project, type |-> type, parent |-> parent, branch |-> branch]),
            !.nextSession = @ + 1]

(* What a creation of a worktree fails with; "none" when it does not.       *)
Refusal(d, ask) ==
  IF \/ ask.project \notin d.projects \/ ask.branch = Blank
     \/ ask.branch \in {d.sessions[s].branch : s \in DOMAIN d.sessions}
     \/ ask.parent # 0 /\ (\/ ask.parent \notin DOMAIN d.sessions
                           \/ d.sessions[ask.parent].type = "secondary") THEN "failed"
  ELSE IF ask.newWorktree /\ ask.branch \in d.worktrees THEN "worktree_exists"
  ELSE IF ask.newBranch /\ ask.branch \in d.branches THEN "branch_exists"
  ELSE IF ask.newWorktree /\ ~ ask.newBranch /\ ask.branch \notin d.branches THEN "failed"
  ELSE IF ~ ask.newWorktree /\ ask.branch \notin d.worktrees THEN "failed"
  ELSE "none"

(* Made from the Main Session, a worktree has no parent.                   *)
AddWorktree(d, ask) ==
  LET main == ask.parent # 0 /\ d.sessions[ask.parent].type = "main"
  IN [AddSession(d, ask.project, "worktree", IF main THEN 0 ELSE ask.parent, ask.branch) EXCEPT
        !.branches = @ \cup {ask.branch}, !.worktrees = @ \cup {ask.branch}]

AddAgent(d, ask) ==
  [d EXCEPT !.agents = Added(@, d.nextAgent,
              [project |-> d.sessions[ask.session].project, session |-> ask.session, rank |-> 4,
               name |-> ask.name, armed |-> FALSE, of |-> ask.prompt]),
            !.recent = <<d.nextAgent>> \o @,
            !.nextAgent = @ + 1]

Made(d) == <<d, Answer("ok", d.nextSession - 1, d.sessions[d.nextSession - 1])>>
Changed(d, a) == <<d, Answer("ok", a, d.agents[a])>>

(* What the handlers do with the records, and answer.                      *)
Refused(d, code) == <<d, Error(code)>>
Delete(d, ask) ==
  IF Exists(d, ask.what) THEN <<Removed(d, ask.what), Answer("ok", 0, NoRecord)>>
  ELSE Refused(d, "failed")

CreateSecondary(d, ask) ==
  IF ask.parent \in DOMAIN d.sessions
  THEN Made(AddSession(d, d.sessions[ask.parent].project, "secondary", ask.parent, Blank))
  ELSE Refused(d, "failed")

CreateWorktree(d, ask) ==
  IF Refusal(d, ask) = "none" THEN Made(AddWorktree(d, ask)) ELSE Refused(d, Refusal(d, ask))

CreateAgent(d, ask) ==
  IF ask.session \in DOMAIN d.sessions THEN Changed(AddAgent(d, ask), d.nextAgent)
  ELSE Refused(d, "failed")

RenameAgent(d, ask) ==
  IF ask.id \in DOMAIN d.agents
  THEN Changed([d EXCEPT !.agents[ask.id].name = ask.name], ask.id)
  ELSE Refused(d, "failed")

SetDiscordNotification(d, ask) ==
  IF ask.id \in DOMAIN d.agents
  THEN Changed([d EXCEPT !.agents[ask.id].armed = ask.enable], ask.id)
  ELSE Refused(d, "failed")

Effect(d, ask) ==
  CASE ask.kind = "delete" -> Delete(d, ask)
    [] ask.kind = "secondary" -> CreateSecondary(d, ask)
    [] ask.kind = "worktree" -> CreateWorktree(d, ask)
    [] ask.kind = "agent" -> CreateAgent(d, ask)
    [] ask.kind = "rename" -> RenameAgent(d, ask)
    [] OTHER -> SetDiscordNotification(d, ask)

(* What the commands ask of the daemon.                                    *)
Deletion(row) == [kind |-> "delete", what |-> row]
Secondary(s) == [kind |-> "secondary", parent |-> s]
Creation(s, name, prompt) == [kind |-> "agent", session |-> s, name |-> name, prompt |-> prompt]
Renaming(a, name) == [kind |-> "rename", id |-> a, name |-> name]
Notifying(a, enable, seq) == [kind |-> "discord", id |-> a, enable |-> enable, seq |-> seq]
Worktree(ask, newWorktree, newBranch) ==
  [kind |-> "worktree", project |-> ask.project, parent |-> ask.parent, branch |-> ask.branch,
   newWorktree |-> newWorktree, newBranch |-> newBranch]

Send(others, ask) ==
  /\ BagCardinality(others) < MaxCalls
  /\ calls' = others (+) SetToBag({[ask |-> ask, answer |-> NoAnswer]})

(* A request may also fail and leave everything as it was, or its answer   *)
(* be lost after it was served.                                            *)
Outcomes(d, ask) ==
  {Effect(d, ask), Refused(d, "failed"), Refused(Effect(d, ask)[1], "failed")}

Serve == \E c \in BagToSet(calls) :
  /\ exit = NoRow /\ c.answer = NoAnswer
  /\ \E effect \in Outcomes(daemon, c.ask) :
       /\ daemon' = effect[1]
       /\ calls' = (calls (-) SetToBag({c})) (+) SetToBag({[c EXCEPT !.answer = effect[2]]})
  /\ acked' = {claim \in acked : Holds(daemon', claim)}
  /\ UNCHANGED <<shown, view, form, loading, list, exit, habit, left, wishes, muddled>>

(* What others do: an Agent reports a status, and is disarmed when idle;   *)
(* an Agent ends; another client deletes a Session.                        *)
Outside(gesture, new) ==
  /\ exit = NoRow /\ gesture \in habit.gestures /\ left > 0 /\ left' = left - 1
  /\ daemon' = new
  /\ acked' = {claim \in acked : Holds(new, claim)}
  /\ UNCHANGED <<shown, view, form, loading, list, calls, exit, habit, wishes, muddled>>

Reported(d, a, rank) ==
  LET agent == [d.agents[a] EXCEPT !.rank = rank, !.armed = @ /\ rank # 1]
      recent == IF rank = d.agents[a].rank THEN d.recent
                ELSE <<a>> \o SelectSeq(d.recent, LAMBDA b : b # a)
  IN [d EXCEPT !.agents[a] = agent, !.recent = recent]

StatusChanges == \E a \in DOMAIN daemon.agents : \E rank \in {0, 1, 2} :
  Outside("status", Reported(daemon, a, rank))

AgentEnds == \E a \in DOMAIN daemon.agents : Outside("ends", Removed(daemon, Row("agent", a)))

SessionGoes == \E s \in DOMAIN daemon.sessions :
  daemon.sessions[s].type # "main" /\ Outside("gone", Removed(daemon, Row("session", s)))

------------------------------------------------------------------------------
(* The listing, and the tick that starts another                           *)

Listing(at, copy) ==
  /\ exit = NoRow
  /\ list' = [at |-> at, copy |-> copy]
  /\ UNCHANGED <<daemon, shown, view, form, loading, calls, exit, habit, left, history>>

ReadProjects == list.at = "projects" /\ Listing("sessions", [list.copy EXCEPT !.projects = daemon.projects])
ReadSessions == list.at = "sessions" /\ Listing("agents", [list.copy EXCEPT !.sessions = daemon.sessions])
ReadAgents ==
  list.at = "agents" /\ Listing("read", [list.copy EXCEPT !.agents = daemon.agents, !.recent = daemon.recent])
(* Mutant: no poll while something is loading.                             *)
TickUnlessLoading == ~ loading /\ Listing("projects", NoCopy)
Tick == Listing("projects", NoCopy)

(* The copy is taken over whole, and the selections follow what they chose. *)
TakeCopy == exit = NoRow /\ list.at = "read" /\ list' = NoListing /\ shown' = list.copy
ListReply ==
  /\ TakeCopy
  /\ view' = Refreshed(view, list.copy)
  /\ loading' = FALSE
  /\ UNCHANGED <<daemon, form, calls, exit, habit, left, history>>

ListFails ==
  /\ exit = NoRow /\ list.at # "none"
  /\ list' = NoListing
  /\ loading' = FALSE
  /\ UNCHANGED <<daemon, shown, view, form, calls, exit, habit, left, history>>

------------------------------------------------------------------------------
(* The answers of the other requests                                       *)

Replies(kinds, c) ==
  /\ exit = NoRow
  /\ c.ask.kind \in kinds /\ c.answer # NoAnswer
  /\ UNCHANGED <<daemon, exit, habit, left, muddled>>

Others(c) == calls (-) SetToBag({c})
Relist == loading' = TRUE /\ list' = NewListing

DeleteReply(c) ==
  /\ Replies({"delete"}, c) /\ calls' = Others(c)
  /\ loading' = FALSE
  /\ form' = [form EXCEPT !.confirm = NoRow]
  /\ IF c.answer.code = "ok"
     THEN list' = NewListing /\ Told(Claim("gone", c.ask.what, Blank))
     ELSE UNCHANGED <<list, acked>>
  /\ UNCHANGED <<shown, view, wishes>>

AskAbout(code) ==
  [form EXCEPT !.worktree.on = FALSE, !.worktree.conflict = code, !.base = Closed.base]

(* A branch or a worktree that exists already leads to a question; the      *)
(* fields of the creation are kept for its answer.                         *)
SessionConflict(c) ==
  /\ Replies({"worktree"}, c) /\ calls' = Others(c)
  /\ c.answer.code \in {"branch_exists", "worktree_exists"}
  /\ form' = AskAbout(c.answer.code)
  /\ loading' = FALSE
  /\ UNCHANGED <<shown, view, list, acked, wishes>>

SessionFailed(c) ==
  /\ Replies({"worktree", "secondary"}, c) /\ calls' = Others(c)
  /\ c.answer.code = "failed"
  /\ loading' = FALSE
  /\ UNCHANGED <<shown, view, form, list, acked, wishes>>

SessionMade(c) ==
  LET parent == IF c.answer.record.parent # 0 THEN c.answer.record.parent ELSE form.secondary.parent
  IN /\ Replies({"worktree", "secondary"}, c) /\ calls' = Others(c)
     /\ c.answer.code = "ok"
     /\ form' = [form EXCEPT !.worktree = Closed.worktree, !.base = Closed.base,
                             !.secondary = Closed.secondary]
     /\ view' = [view EXCEPT !.tab = "sessions", !.created = c.answer.id, !.folded = @ \ {parent}]
     /\ Relist /\ Told(Claim("made", Row("session", c.answer.id), Blank))
     /\ UNCHANGED <<shown, wishes>>

AgentFailed(c) ==
  /\ Replies({"agent"}, c) /\ calls' = Others(c)
  /\ c.answer.code # "ok"
  /\ form' = IF form.agent.quick THEN [form EXCEPT !.agent = Closed.agent] ELSE form
  /\ loading' = FALSE
  /\ wishes' = [p \in DOMAIN wishes \ {c.ask.prompt} |-> wishes[p]]
  /\ UNCHANGED <<shown, view, list, acked>>

(* Mutant: only while the prompt is open.                                  *)
NamedOpen == form.agent.quick /\ form.agent.on /\ form.agent.named
Named == form.agent.quick /\ form.agent.named

(* To a quick prompt whose name is given, or is still to come; or else the  *)
(* prompt closes.                                                          *)
AgentMade(c) ==
  LET a == c.answer.id
  IN /\ Replies({"agent"}, c)
     /\ c.answer.code = "ok"
     /\ view' = [view EXCEPT !.tab = "agents", !.sel["agent"] = [id |-> a, idx |-> 0]]
     /\ form' = IF form.agent.quick /\ ~ Named THEN [form EXCEPT !.agent.made = a]
                ELSE [form EXCEPT !.agent = Closed.agent]
     /\ IF Named /\ form.agent.name # Blank
        THEN /\ Send(Others(c), Renaming(a, form.agent.name))
             /\ loading' = TRUE
             /\ UNCHANGED <<list, acked>>
        ELSE calls' = Others(c) /\ Relist /\ Told(Claim("made", Row("agent", a), Blank))
     /\ UNCHANGED <<shown, wishes>>

RenameReply(c) ==
  /\ Replies({"rename"}, c) /\ calls' = Others(c)
  /\ IF c.answer.code = "ok"
     THEN /\ form' = [form EXCEPT !.rename = 0]
          /\ view' = [view EXCEPT !.sel["agent"] = [id |-> c.ask.id, idx |-> 0]]
          /\ Relist /\ Told(Claim("named", Row("agent", c.ask.id), c.ask.name))
          /\ UNCHANGED wishes
     ELSE /\ loading' = FALSE
          /\ wishes' = Unwished(c.ask.id)
          /\ UNCHANGED <<form, view, list, acked>>
  /\ UNCHANGED shown

(* Mutant: the listing under way goes on.                                  *)
OvertakeNothing == UNCHANGED list
Overtake == list' = NoListing

(* Answered to the prompt that asked: the record is put into the copy, and  *)
(* a listing already under way counts no more.                             *)
DiscordReply(c) ==
  LET a == c.ask.id
      mine == form.discord.on /\ c.ask.seq = form.discord.seq
  IN /\ Replies({"discord"}, c) /\ calls' = Others(c)
     /\ IF mine /\ c.answer.code = "ok"
        THEN /\ shown' = IF a \in DOMAIN shown.agents
                         THEN [shown EXCEPT !.agents[a] = c.answer.record] ELSE shown
             /\ form' = [form EXCEPT !.discord = [Closed.discord EXCEPT !.seq = form.discord.seq]]
             /\ Overtake
             /\ Told(Claim("armed", Row("agent", a), c.ask.enable))
        ELSE /\ form' = IF mine THEN [form EXCEPT !.discord.sent = FALSE] ELSE form
             /\ UNCHANGED <<shown, list, acked>>
     /\ UNCHANGED <<view, loading, wishes>>

Reply == \E c \in BagToSet(calls) :
  \/ DeleteReply(c) \/ SessionConflict(c) \/ SessionFailed(c) \/ SessionMade(c)
  \/ AgentFailed(c) \/ AgentMade(c) \/ RenameReply(c) \/ DiscordReply(c)

------------------------------------------------------------------------------
(* Keys                                                                    *)

(* What a key goes to: a question, a prompt, the finder, or the rows.      *)
Focus ==
  IF form.worktree.conflict # Blank THEN "conflict"
  ELSE IF form.secondary.step # "none" THEN "secondary"
  ELSE IF form.worktree.on THEN "worktree"
  ELSE IF form.base.step # "none" THEN "base"
  ELSE IF form.agent.on THEN "agent"
  ELSE IF form.rename # 0 THEN "rename"
  ELSE IF form.discord.on THEN "discord"
  ELSE IF view.finding THEN "finder"
  ELSE "rows"

Key(gesture, focus) ==
  /\ exit = NoRow /\ Focus = focus
  /\ gesture \in habit.gestures /\ left > 0 /\ left' = left - 1
  /\ UNCHANGED <<daemon, shown, habit, acked>>

(* A key changes what is looked at, what is filled in, or asks something.  *)
Look(w) == view' = w /\ UNCHANGED <<form, loading, list, calls, exit, wishes, muddled>>
Fill(f) == form' = f /\ UNCHANGED <<view, loading, list, calls, exit, wishes, muddled>>
Ask(f, ask) ==
  /\ form' = f /\ loading' = TRUE /\ Send(calls, ask)
  /\ UNCHANGED <<view, list, exit, wishes, muddled>>
Leave(row) == exit' = row /\ UNCHANGED <<view, form, loading, list, calls, wishes, muddled>>

(* The Session and the Project of a row; 0 when they are not listed.       *)
SessionOf(row) ==
  LET least(ss) == IF ss = {} THEN 0 ELSE CHOOSE s \in ss : \A t \in ss : s <= t
  IN CASE row[1] = "session" -> row[2]
       [] row[1] = "agent" -> least({shown.agents[row[2]].session} \cap DOMAIN shown.sessions)
       [] row[1] = "project" -> least(MainOf(shown, row[2]))
       [] OTHER -> 0

ProjectOf(row) ==
  CASE row[1] = "session" -> shown.sessions[row[2]].project
    [] row[1] = "agent" -> shown.agents[row[2]].project
    [] row[1] = "project" -> row[2]
    [] OTHER -> 0

(* One row up or down, and to the first or the last.                       *)
Steps(rows) == {MoveIn(view, rows, -1), MoveIn(view, rows, 1)}
Ends(rows) == {SelectIndex(view, rows, 1), SelectIndex(view, rows, Len(rows))}
Moves(rows, far) == Steps(rows) \cup (IF far THEN Ends(rows) ELSE {})

MoveCursor == Key("move", "rows") /\ \E w \in Moves(Rows(view, shown), TRUE) : Look(w)

SwitchTab == Key("tab", "rows") /\ \E tab \in Tab \ {view.tab} :
  Look(Normalized([view EXCEPT !.tab = tab], shown))

Group ==
  /\ Key("group", "rows") /\ view.tab = "agents"
  /\ Look(Normalized([view EXCEPT !.grouped = ~ @], shown))

FoldAll ==
  LET all == Foldable(shown)
  IN /\ Key("fold", "rows") /\ all # {}
     /\ Look(AfterFold([view EXCEPT !.folded =
                          IF all \subseteq @ THEN @ \ all ELSE @ \cup all], shown))

Fold(row) ==
  LET s == SessionOf(row)
  IN /\ Key("fold", "rows") /\ s \in Foldable(shown)
     /\ Look(AfterFold([view EXCEPT !.folded =
                          IF s \in @ THEN @ \ {s} ELSE @ \cup {s}], shown))

Refresh ==
  /\ Key("refresh", "rows") /\ Relist
  /\ UNCHANGED <<view, form, calls, exit, wishes, muddled>>

StartFilter == Key("find", "rows") /\ Look([view EXCEPT !.finding = TRUE, !.query = {}])

(* What is typed matches some row or none; the cursor goes to the first.   *)
Typed(q) == [view EXCEPT !.query = q]
TypeQuery ==
  /\ Key("find", "finder")
  /\ \E q \in {{}, {NoRow}} \cup {{row} : row \in ToSet(Rows(Typed({}), shown))} :
       Look(SelectIndex(Typed(q), Rows(Typed(q), shown), 1))

MoveInFinder == Key("find", "finder") /\ \E w \in Moves(Rows(view, shown), FALSE) : Look(w)

EndFilter == Key("find", "finder") /\
  Look(Normalized([view EXCEPT !.finding = FALSE, !.query = {}], shown))

(* An Agent is gone to in the Session it is in, if that is listed.         *)
Attach(row) == \E focus \in {"rows", "finder"} :
  /\ Key("attach", focus) /\ row # NoRow
  /\ row[1] = "agent" => SessionOf(row) # 0
  /\ Leave(row)

Quit == Key("quit", Focus) /\ Leave(Row("quit", 0))

------------------------------------------------------------------------------
(* Worktrees                                                               *)

StartWorktree(row) ==
  LET s == SessionOf(row)
  IN /\ Key("worktree", "rows") /\ view.tab # "agents"
     /\ s # 0 /\ shown.sessions[s].type # "secondary"
     /\ Fill([form EXCEPT !.worktree = [on |-> TRUE, branch |-> Blank, conflict |-> Blank,
                project |-> shown.sessions[s].project, parent |-> s]])

(* Also while a creation is under way.                                     *)
TypeBranch == \E b \in Branches \ {form.worktree.branch} :
  /\ exit = NoRow /\ Focus = "worktree"
  /\ Fill([form EXCEPT !.worktree.branch = b])
  /\ UNCHANGED <<daemon, shown, habit, left, acked>>

(* The prompt stays until the answer.                                      *)
SubmitWorktree ==
  /\ Key("worktree", "worktree") /\ ~ loading /\ form.worktree.branch # Blank
  /\ Ask(form, Worktree(form.worktree, TRUE, TRUE))

CancelWorktree == Key("worktree", "worktree") /\ Fill([form EXCEPT !.worktree = Closed.worktree])

StartBase(row) ==
  /\ Key("base", "rows") /\ view.tab # "agents" /\ ProjectOf(row) # 0
  /\ Fill([form EXCEPT !.base = [step |-> "branch", project |-> ProjectOf(row), branch |-> Blank]])

EnterBaseBranch == \E b \in Branches :
  /\ Key("base", "base") /\ form.base.step = "branch"
  /\ Fill([form EXCEPT !.base.branch = b, !.base.step = "ref"])

(* The fields of the other prompt keep it for a conflict.                  *)
SubmitBase ==
  LET kept == [form.worktree EXCEPT !.project = form.base.project, !.parent = 0,
                                    !.branch = form.base.branch]
  IN /\ Key("base", "base") /\ form.base.step = "ref" /\ ~ loading
     /\ Ask([form EXCEPT !.worktree = kept], Worktree(kept, TRUE, TRUE))

CancelBase == Key("base", "base") /\ Fill([form EXCEPT !.base = Closed.base])

ConflictYes == \E gesture \in {"worktree", "base"} :
  /\ Key(gesture, "conflict") /\ ~ loading
  /\ Ask([form EXCEPT !.worktree.conflict = Blank],
         Worktree(form.worktree, form.worktree.conflict = "branch_exists", FALSE))

ConflictNo == \E gesture \in {"worktree", "base"} :
  Key(gesture, "conflict") /\ Fill([form EXCEPT !.worktree = Closed.worktree])

------------------------------------------------------------------------------
(* Secondaries and deletions                                               *)

StartSecondary(row) ==
  /\ Key("secondary", "rows") /\ view.tab = "sessions" /\ row # NoRow
  /\ Fill([form EXCEPT !.secondary = [step |-> "directory", parent |-> row[2]]])

EnterDirectory ==
  /\ Key("secondary", "secondary") /\ form.secondary.step = "directory"
  /\ Fill([form EXCEPT !.secondary.step = "name"])

SubmitSecondary ==
  /\ Key("secondary", "secondary") /\ form.secondary.step = "name"
  /\ Ask(form, Secondary(form.secondary.parent))

CancelSecondary ==
  Key("secondary", "secondary") /\ Fill([form EXCEPT !.secondary = Closed.secondary])

(* A Main Session is not deleted; asking so ends an earlier question.      *)
RequestDelete(row) ==
  LET allowed == row[1] = "session" => shown.sessions[row[2]].type # "main"
  IN Key("delete", "rows") /\ Fill([form EXCEPT !.confirm = IF allowed THEN row ELSE NoRow])

ConfirmYes ==
  /\ Key("delete", "rows") /\ form.confirm # NoRow
  /\ Ask(form, Deletion(form.confirm))

ConfirmNo ==
  /\ Key("delete", "rows") /\ form.confirm # NoRow
  /\ Fill([form EXCEPT !.confirm = NoRow])

------------------------------------------------------------------------------
(* Agents                                                                  *)

Creating == \E c \in BagToSet(calls) : c.ask.kind = "agent"

Prompt(s, quick) ==
  [on |-> TRUE, step |-> "name", session |-> s, name |-> Blank, quick |-> quick,
   made |-> 0, named |-> FALSE]

(* The creation is under way before its Agent has a name.                  *)
StartQuickAgent(row) ==
  LET s == SessionOf(row)
  IN /\ Key("quick", "rows") /\ s # 0
     /\ form' = [form EXCEPT !.agent = Prompt(s, TRUE), !.prompts = @ + 1]
     /\ loading' = TRUE
     /\ Send(calls, Creation(s, Blank, form.prompts + 1))
     /\ muddled' = (muddled \/ Creating)
     /\ UNCHANGED <<view, list, exit, wishes>>

(* By Enter, or by Esc for no name: for the Agent that is made, or kept     *)
(* for the one still to come.                                              *)
FinishQuickName == \E name \in Names :
  /\ Key("quick", "agent") /\ form.agent.quick
  /\ wishes' = Added(wishes, form.prompts, name)
  /\ IF form.agent.made = 0
     THEN /\ form' = [form EXCEPT !.agent.on = FALSE, !.agent.named = TRUE, !.agent.name = name]
          /\ UNCHANGED <<loading, list, calls>>
     ELSE /\ form' = [form EXCEPT !.agent = Closed.agent]
          /\ loading' = TRUE
          /\ IF name = Blank THEN list' = NewListing /\ UNCHANGED calls
             ELSE /\ Send(calls, Renaming(form.agent.made, name))
                  /\ UNCHANGED list
  /\ UNCHANGED <<view, exit, muddled>>

StartAdvancedAgent(row) ==
  LET s == SessionOf(row)
  IN /\ Key("advanced", "rows") /\ s # 0
     /\ form' = [form EXCEPT !.agent = Prompt(s, FALSE)]
     /\ muddled' = (muddled \/ Creating)
     /\ UNCHANGED <<view, loading, list, calls, exit, wishes>>

EnterAgentName == \E name \in Names :
  /\ Key("advanced", "agent") /\ ~ form.agent.quick /\ form.agent.step = "name"
  /\ Fill([form EXCEPT !.agent.name = name, !.agent.step = "executable"])

(* OpenCode is asked about in a step more.                                 *)
EnterExecutable ==
  /\ Key("advanced", "agent") /\ form.agent.step = "executable"
  /\ \/ Fill([form EXCEPT !.agent.step = "yolo"])
     \/ Ask(form, Creation(form.agent.session, form.agent.name, 0))

EnterYolo ==
  /\ Key("advanced", "agent") /\ form.agent.step = "yolo"
  /\ Ask(form, Creation(form.agent.session, form.agent.name, 0))

CancelAgent ==
  /\ Key("advanced", "agent") /\ ~ form.agent.quick
  /\ Fill([form EXCEPT !.agent = Closed.agent])

StartRename(row) ==
  /\ Key("rename", "rows") /\ view.tab = "agents"
  /\ row[1] = "agent" /\ row[2] \in DOMAIN shown.agents
  /\ Fill([form EXCEPT !.rename = row[2]])

SubmitRename == \E name \in Names \ {Blank} :
  /\ Key("rename", "rename")
  /\ wishes' = Unwished(form.rename)
  /\ loading' = TRUE /\ Send(calls, Renaming(form.rename, name))
  /\ UNCHANGED <<view, form, list, exit, muddled>>

CancelRename == Key("rename", "rename") /\ Fill([form EXCEPT !.rename = 0])

StartDiscord(row) ==
  /\ Key("notify", "rows") /\ form.confirm = NoRow /\ row[1] = "agent"
  /\ Fill([form EXCEPT !.discord = [on |-> TRUE, agent |-> row[2], sent |-> FALSE, seq |-> @.seq + 1,
                                    enable |-> ~ shown.agents[row[2]].armed]])

SubmitDiscord ==
  /\ Key("notify", "discord") /\ ~ form.discord.sent
  /\ form' = [form EXCEPT !.discord.sent = TRUE]
  /\ Send(calls, Notifying(form.discord.agent, form.discord.enable, form.discord.seq))
  /\ UNCHANGED <<view, loading, list, exit, wishes, muddled>>

CancelDiscord == Key("notify", "discord") /\
  Fill([form EXCEPT !.discord = [Closed.discord EXCEPT !.seq = form.discord.seq]])

------------------------------------------------------------------------------
(* The row under the cursor is what many keys are about.                   *)
RowKeys(row) ==
  \/ Fold(row) \/ Attach(row) \/ StartWorktree(row) \/ StartBase(row) \/ StartSecondary(row)
  \/ RequestDelete(row) \/ StartQuickAgent(row) \/ StartAdvancedAgent(row)
  \/ StartRename(row) \/ StartDiscord(row)

Keys ==
  \/ \E row \in {Cursor(view, shown)} : RowKeys(row)
  \/ MoveCursor \/ SwitchTab \/ Group \/ FoldAll \/ Refresh
  \/ StartFilter \/ TypeQuery \/ MoveInFinder \/ EndFilter \/ Quit
  \/ TypeBranch \/ SubmitWorktree \/ CancelWorktree
  \/ EnterBaseBranch \/ SubmitBase \/ CancelBase \/ ConflictYes \/ ConflictNo
  \/ EnterDirectory \/ SubmitSecondary \/ CancelSecondary \/ ConfirmYes \/ ConfirmNo
  \/ FinishQuickName \/ EnterAgentName \/ EnterExecutable \/ EnterYolo \/ CancelAgent
  \/ SubmitRename \/ CancelRename \/ SubmitDiscord \/ CancelDiscord

Next ==
  \/ Tick \/ ReadProjects \/ ReadSessions \/ ReadAgents \/ ListReply \/ ListFails
  \/ Serve \/ Reply \/ Keys
  \/ StatusChanges \/ AgentEnds \/ SessionGoes

(* The tick comes, and the daemon does not fail, or answer later than the   *)
(* next tick, for ever.                                                    *)
Fairness ==
  /\ WF_list(Tick)
  /\ SF_list(ReadProjects) /\ SF_list(ReadSessions) /\ SF_list(ReadAgents) /\ SF_list(TakeCopy)

Spec == Init /\ [][Next]_vars /\ Fairness

------------------------------------------------------------------------------
(* Properties                                                              *)

(* Every variable keeps to its type, and the parts that depend on one       *)
(* another do: the finder and the copy have a query and rows of known kinds, *)
(* and no more requests are under way than the bound allows.               *)
TypeOK ==
  /\ daemon.nextSession \in Nat /\ DOMAIN daemon.sessions \subseteq 1..(daemon.nextSession - 1)
  /\ daemon.nextAgent \in Nat /\ DOMAIN daemon.agents \subseteq 1..(daemon.nextAgent - 1)
  /\ daemon.worktrees \subseteq daemon.branches
  /\ shown.projects \subseteq World.projects
  /\ DOMAIN shown.sessions \subseteq 1..(daemon.nextSession - 1)
  /\ DOMAIN shown.agents \subseteq 1..(daemon.nextAgent - 1)
  /\ view.tab \in Tab /\ view.over \in {"session", "agent"} /\ view.folded \subseteq Nat
  /\ \A k \in Kind : view.sel[k].id \in Nat /\ view.sel[k].idx \in Nat
  /\ view.query # {} => view.finding
  /\ form.worktree.conflict \in {Blank, "branch_exists", "worktree_exists"}
  /\ form.worktree.conflict # Blank => ~ form.worktree.on /\ form.base.step = "none"
  /\ form.agent.made # 0 => form.agent.quick /\ ~ form.agent.named
  /\ loading \in BOOLEAN /\ muddled \in BOOLEAN
  /\ list.at \in {"none", "projects", "sessions", "agents", "read"}
  /\ BagCardinality(calls) \in 0..MaxCalls
  /\ left \in 0..habit.most

(* What the client was told of a creation, a deletion, a name or a          *)
(* notification, the listing it waits for knows too, so that it cannot put  *)
(* an older state back on the screen; and a notification it was told of is  *)
(* on the screen from then on.  (The listing restarted by deleteMsg,        *)
(* createSessionMsg, createAgentMsg and renameAgentMsg, and the sequence    *)
(* number advanced by setDiscordNotificationMsg.)                          *)
AcknowledgedStays ==
  \A claim \in acked :
    /\ (\/ list.at = "read"
        \/ list.at = "agents" /\ claim.row[1] = "session"
        \/ list.at \in {"agents", "sessions"} /\ claim.row[1] = "project")
         => Holds(list.copy, claim)
    /\ claim.kind = "armed" => Holds(shown, claim)

(* A refresh does not move the cursor to something else while what it was   *)
(* on is still listed, however the rows were sorted, folded or shortened    *)
(* meanwhile, unless a Session that was just created, or that the client    *)
(* was started in, takes it.  (normalizeSelection after a listMsg.)        *)
SelectionSurvives ==
  [][shown' # shown /\ view.created = 0 /\ view.initial = 0 /\ view'.tab = view.tab
       /\ Selected(view)[2] # 0 /\ Selected(view) \in ToSet(Rows(view', shown'))
     => Cursor(view', shown') = Selected(view)]_vars

(* The name typed into a quick prompt is in the end the name of the Agent   *)
(* created by it, whether the name or the creation came first, as long as   *)
(* Agents are created one after the other and neither the creation nor the *)
(* renaming is answered with an error: one whose answer was lost leaves an *)
(* Agent that the client does not know.  (createAgentMsg and               *)
(* finishQuickAgentName meet in agentQuickID and agentNameDone.)           *)
NamesReachTheirAgent ==
  ~ muddled /\ (\A c \in BagToSet(calls) : c.ask.kind \notin {"agent", "rename"}) =>
    \A a \in DOMAIN daemon.agents :
      daemon.agents[a].of \in DOMAIN wishes => daemon.agents[a].name = wishes[daemon.agents[a].of]

(* When keys and events stop, the screen gets to show what the daemon has,  *)
(* and nothing is left loading.  (pollInterval and tickMsg.)               *)
ScreenCatchesUp ==
  <>[](\/ exit # NoRow
       \/ /\ ~ loading
          /\ shown = [projects |-> daemon.projects, sessions |-> daemon.sessions,
                      agents |-> daemon.agents, recent |-> daemon.recent])

(* Does not hold of the code: the question about a conflict, when it comes   *)
(* up, is about the creation that conflicted, so that its answer creates    *)
(* that branch, in its Project and from its Session.  (A prompt that was    *)
(* left with Esc, or another one that was opened, while the creation was    *)
(* under way has taken the fields that worktreeConflict goes by.)          *)
ConflictKeepsItsCreation ==
  [][\A c \in BagToSet(calls) : SessionConflict(c) =>
       /\ form'.worktree.branch = c.ask.branch
       /\ form'.worktree.project = c.ask.project
       /\ form'.worktree.parent = c.ask.parent]_vars

(* Does not hold of the code: NamesReachTheirAgent whatever else is created  *)
(* meanwhile.  (Two creations under way share one agentQuickID.)           *)
NamesNeverCross ==
  (\A c \in BagToSet(calls) : c.ask.kind \notin {"agent", "rename"}) =>
    \A a \in DOMAIN daemon.agents :
      daemon.agents[a].of \in DOMAIN wishes => daemon.agents[a].name = wishes[daemon.agents[a].of]

(* Does not give ScreenCatchesUp: a daemon that answers every request of a   *)
(* listing, and well, however late.  (The next tick overtakes it.)         *)
SpecLate ==
  /\ Init /\ [][Next /\ ~ ListFails]_vars
  /\ WF_list(Tick)
  /\ WF_list(ReadProjects) /\ WF_list(ReadSessions) /\ WF_list(ReadAgents) /\ WF_list(TakeCopy)
==============================================================================
