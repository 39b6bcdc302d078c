----------------------------- MODULE AgentReports -----------------------------
(***************************************************************************)
(* What an Agent that runs OpenCode tells the daemon of itself: the plugin *)
(* in its TUI reports which conversation is on display, with an epoch and  *)
(* a sequence number, again and again until that is answered; and whether  *)
(* it is busy, idle or waiting, once and without a number.  The wrapper    *)
(* has reported the start.  Reports are requests of their own: they may be *)
(* delayed, overtaken, lost, and given up by one side and served by the    *)
(* other.  Before and after this the Agent is AgentLifecycle's.            *)
(***************************************************************************)
EXTENDS Integers

CONSTANTS
  Conversation, \* those of the OpenCode server
  Parent,       \* of each the one that started it, or Home
  Yolo,         \* does the plugin grant permissions by itself?
  Bounds        \* bounds: one of these is what a behaviour may spend on each Kind

Home == "home"        \* no conversation is on display: null in a report
Nothing == "nothing"  \* no report is pending: undefined
Silence == ""         \* no status was reported: lastStatus

(* The plugin is loaded; a user looks at another conversation; a           *)
(* conversation begins, asks or is deleted; a report is lost, given up, or  *)
(* comes before the pane is recorded; a reply of the plugin fails.         *)
Kind == {"loads", "moves", "works", "losses", "failures"}

ASSUME AgentReportsAssumption ==
  /\ Conversation \cap {Home, Nothing} = {}
  /\ Parent \in [Conversation -> Conversation \cup {Home}]
  /\ Yolo \in BOOLEAN
  /\ Bounds \subseteq [Kind -> Nat]

VARIABLES
  agent,    \* the record: status, and the conversation with its epoch and number
  plugin,   \* the instance that is loaded
  net,      \* the requests that the daemon has not served
  shown,    \* what the TUI displays
  server,   \* the conversations that execute, what is asked, and those deleted
  left,     \* what may still be spent
  excuses   \* what has happened that a status does not get over

outside == <<shown, server>>
vars == <<agent, plugin, net, outside, left, excuses>>

------------------------------------------------------------------------------
(* The plugin: conversations                                               *)

NoReport == [seq |-> 0, conversation |-> Home, view |-> 0, answer |-> "none"]

(* A report to come: `view` counts the displays that were observed, and is  *)
(* history, as is `posted`, which numbers the statuses.                    *)
Fresh(epoch) ==
  [epoch |-> epoch, seq |-> 0,
   route |-> Nothing,           \* lastRoute
   pending |-> Nothing, view |-> plugin.view,
   sent |-> NoReport,           \* the request under way
   retry |-> FALSE,             \* is the timer of a retry set?
   busy |-> {},                 \* the conversations that are true in `active`
   waits |-> {},                \* the requests in `waits`
   replies |-> {},              \* those that a reply of ours is under way for
   last |-> Silence, posted |-> plugin.posted]

Identity(p) ==
  [kind |-> "identity", epoch |-> p.epoch, seq |-> p.seq + 1,
   conversation |-> p.pending, view |-> p.view]

(* sendIdentity: one at a time, and not before a retry is due.             *)
MaySend(p) == p.sent = NoReport /\ ~ p.retry /\ p.pending # Nothing
Sending(p) ==
  IF MaySend(p)
  THEN [p EXCEPT !.seq = @ + 1, !.pending = Nothing,
                 !.sent = [seq |-> p.seq + 1, conversation |-> p.pending, view |-> p.view,
                           answer |-> "none"]]
  ELSE p
Sends(p) == IF MaySend(p) THEN {Identity(p)} ELSE {}

(* Mutant: a report that failed is forgotten.                              *)
FailedForgets(p) == [p EXCEPT !.sent = NoReport, !.retry = TRUE]
Failed(p) ==
  [p EXCEPT !.sent = NoReport, !.retry = TRUE,
            !.pending = IF @ = Nothing THEN p.sent.conversation ELSE @]

------------------------------------------------------------------------------
(* The plugin: statuses                                                    *)

(* A conversation, and all that were started for it.                       *)
Family(c) ==
  LET above[d \in Conversation] ==
        {d} \cup (IF Parent[d] \in Conversation THEN above[Parent[d]] ELSE {})
  IN {d \in Conversation : c \in above[d]}

(* A request is what a conversation asks, and the event it is told from    *)
(* others by.                                                              *)
Doing(busy, waits, family) ==
  IF \E r \in waits : r.of \in family THEN "waiting"
  ELSE IF busy \cap family # {} THEN "busy" ELSE "idle"

(* aggregate and report: a status is posted when it is another, and nobody *)
(* looks at what becomes of it.                                            *)
Status(p) == Doing(p.busy, p.waits, Family(shown') \ server'.gone)
Aggregated(p) ==
  IF Status(p) = p.last THEN p ELSE [p EXCEPT !.last = Status(p), !.posted = @ + 1]
Posts(p) ==
  IF Status(p) = p.last THEN {}
  ELSE {[kind |-> "status", status |-> Status(p), number |-> p.posted + 1]}

Reacts(p) == plugin' = Aggregated(p) /\ net' = net \cup Posts(p)

------------------------------------------------------------------------------
Init ==
  /\ agent = [status |-> "starting", pane |-> FALSE, epoch |-> 0, seq |-> 0,
              conversation |-> Home, view |-> 0, report |-> 0]
  /\ plugin = [epoch |-> 0, seq |-> 0, route |-> Nothing, pending |-> Nothing, view |-> 0,
               sent |-> NoReport, retry |-> FALSE, busy |-> {}, waits |-> {}, replies |-> {},
               last |-> Silence, posted |-> 0]
  /\ net = {[kind |-> "started"]}
  /\ shown \in Conversation \cup {Home}
  /\ server = [busy |-> {}, asking |-> {}, gone |-> {}]
  /\ left \in Bounds /\ excuses = {}

Loaded == plugin.epoch > 0
Fine == UNCHANGED left
Spend(kind) == left[kind] > 0 /\ left' = [left EXCEPT ![kind] = @ - 1]
Excuse(what, holds) == excuses' = IF holds THEN excuses \cup {what} ELSE excuses

(* observe, at once and then every 250 ms.                                 *)
Observed(p) == [p EXCEPT !.route = shown, !.pending = shown, !.view = @ + 1]
Observe(p) ==
  LET seen == Observed(p)
  IN /\ plugin' = Aggregated(Sending(seen))
     /\ net' = net \cup Sends(seen) \cup Posts(seen)

(* The plugin is loaded, or loaded again: with a later epoch, and without  *)
(* what it knew.  What the old instance had under way it gives up.         *)
Load ==
  /\ Spend("loads")
  /\ UNCHANGED <<agent, outside>>
  /\ Observe(Fresh(plugin.epoch + 1))
  /\ Excuse("loaded", server.busy # {} \/ server.asking # {})

ObserveRoute ==
  /\ Loaded /\ plugin.route # shown
  /\ UNCHANGED <<agent, outside, excuses>> /\ Fine
  /\ Observe(plugin)

RetryDue ==
  LET due == [plugin EXCEPT !.retry = FALSE]
  IN /\ plugin.retry
     /\ plugin' = Sending(due) /\ net' = net \cup Sends(due)
     /\ UNCHANGED <<agent, outside, excuses>> /\ Fine

(* An answer; none within a second; or nothing to wait for.                *)
AnswerArrives ==
  LET free == [plugin EXCEPT !.sent = NoReport]
  IN /\ plugin.sent.answer = "ok"
     /\ plugin' = Sending(free) /\ net' = net \cup Sends(free)
     /\ UNCHANGED <<agent, outside, excuses>> /\ Fine

Underway == \E m \in net : m.kind = "identity" /\ m.epoch = plugin.epoch /\ m.seq = plugin.sent.seq
ReportFails ==
  /\ plugin.sent # NoReport
  /\ \/ plugin.sent.answer = "refused" /\ Fine
     \/ plugin.sent.answer = "none" /\ ~ Underway /\ Fine
     \/ plugin.sent.answer # "refused" /\ Spend("losses")
  /\ plugin' = Failed(plugin)
  /\ UNCHANGED <<agent, net, outside, excuses>>

------------------------------------------------------------------------------
(* The daemon                                                              *)

(* CreateAgent gets to know the pane after the TUI has started in it.      *)
RecordPane ==
  /\ ~ agent.pane
  /\ agent' = [agent EXCEPT !.pane = TRUE]
  /\ UNCHANGED <<plugin, net, outside, excuses>> /\ Fine

Serves(m) == net' = net \ {m} /\ UNCHANGED outside

Answered(m, answer) ==
  plugin' = IF plugin.epoch = m.epoch /\ plugin.sent.seq = m.seq
            THEN [plugin EXCEPT !.sent.answer = answer] ELSE plugin

(* Mutant: the number alone tells a stale report.                          *)
StaleByNumber(m) == m.epoch = agent.epoch /\ m.seq <= agent.seq
Stale(m) ==
  \/ m.epoch < agent.epoch
  \/ m.epoch = agent.epoch /\ m.seq <= agent.seq

ReportOpenCodeSession(m) ==
  /\ m.kind = "identity" /\ agent.pane
  /\ Serves(m) /\ Answered(m, "ok")
  /\ agent' = IF Stale(m) THEN agent
              ELSE [agent EXCEPT !.epoch = m.epoch, !.seq = m.seq,
                                 !.conversation = m.conversation, !.view = m.view]
  /\ UNCHANGED excuses /\ Fine

(* Of a pane that is not the Agent's, as far as the daemon knows.          *)
RefuseReport(m) ==
  /\ m.kind = "identity" /\ ~ agent.pane
  /\ Serves(m) /\ Answered(m, "refused")
  /\ UNCHANGED <<agent, excuses>> /\ Spend("losses")

(* Mutant: whatever the plugin has said.                                   *)
Running(status) == "running"
Promoted(status) == IF status = "starting" THEN "running" ELSE status
HandleStarted(m) ==
  /\ m.kind = "started"
  /\ Serves(m)
  /\ agent' = [agent EXCEPT !.status = Promoted(@)]
  /\ UNCHANGED <<plugin, excuses>> /\ Fine

(* The last one wins.                                                      *)
HandleActivity(m) ==
  /\ m.kind = "status"
  /\ Serves(m)
  /\ agent' = [agent EXCEPT !.status = m.status, !.report = m.number]
  /\ Excuse("crossed", \E n \in net : n.kind = "status" /\ n.number < m.number)
  /\ UNCHANGED plugin /\ Fine

(* A request that does not arrive.                                         *)
Lose(m) ==
  /\ net' = net \ {m} /\ Spend("losses")
  /\ Excuse("lost", m.kind = "status")
  /\ UNCHANGED <<agent, plugin, outside>>

------------------------------------------------------------------------------
(* The user and the OpenCode server, which tells the plugin                *)

Living == Conversation \ server.gone

Navigate == \E c \in Living \cup {Home} :
  /\ c # shown /\ shown' = c
  /\ Spend("moves")
  /\ Excuse("moved", server.busy # {} \/ server.asking # {})
  /\ UNCHANGED <<agent, plugin, net, server>>

(* Of a conversation that is not on display the plugin takes no notice.    *)
Tells(c, p) ==
  IF Loaded /\ c \in Family(shown) THEN Reacts(p) ELSE UNCHANGED <<plugin, net>>

ExecutionStarts(c) ==
  /\ c \in Living \ server.busy
  /\ server' = [server EXCEPT !.busy = @ \cup {c}]
  /\ Spend("works") /\ UNCHANGED <<agent, shown, excuses>>
  /\ Tells(c, [plugin EXCEPT !.busy = @ \cup {c}])

(* It succeeds, fails or is interrupted.                                   *)
ExecutionEnds(c) ==
  /\ c \in server.busy /\ \A r \in server.asking : r.of # c
  /\ server' = [server EXCEPT !.busy = @ \ {c}]
  /\ UNCHANGED <<agent, shown, left, excuses>>
  /\ Tells(c, [plugin EXCEPT !.busy = @ \ {c}])

(* For a permission, or with a form.  The plugin may grant the permissions *)
(* of the conversation on display itself, and then says nothing.           *)
Asked(r) ==
  /\ r.of \in server.busy
  /\ server' = [server EXCEPT !.asking = @ \cup {r}]
  /\ Spend("works") /\ UNCHANGED <<agent, shown, excuses>>
Request(c) == [of |-> c, event |-> left.works]
AsksUser(c) == Asked(Request(c)) /\ Tells(c, [plugin EXCEPT !.waits = @ \cup {Request(c)}])
AsksPlugin(c) ==
  /\ Yolo /\ Loaded /\ c \in Family(shown)
  /\ Asked(Request(c)) /\ UNCHANGED net
  /\ plugin' = [plugin EXCEPT !.replies = @ \cup {Request(c)}]

(* By the user here, or in another TUI of the server.                      *)
Replied(r, p) ==
  /\ r \in server.asking
  /\ server' = [server EXCEPT !.asking = @ \ {r}]
  /\ UNCHANGED <<agent, shown, left, excuses>>
  /\ IF Loaded THEN Reacts(p) ELSE UNCHANGED <<plugin, net>>
UserReplies(r) == Replied(r, [plugin EXCEPT !.waits = @ \ {r}])
PluginReplies(r) ==
  r \in plugin.replies /\ Replied(r, [plugin EXCEPT !.waits = @ \ {r}, !.replies = @ \ {r}])

(* Then the user has to; unless that has been done, and then for ever.     *)
ReplyFails(r) ==
  /\ r \in plugin.replies
  /\ IF r \in server.asking THEN Spend("failures") ELSE Fine
  /\ Excuse("replied", r \notin server.asking)
  /\ UNCHANGED <<agent, outside>>
  /\ Reacts([plugin EXCEPT !.replies = @ \ {r}, !.waits = @ \cup {r}])

(* The last one that was started is deleted first.                         *)
ConversationDeleted(c) ==
  LET kept(requests) == {r \in requests : r.of # c}
  IN /\ c \in Living /\ c # shown
     /\ Family(c) \ {c} \subseteq server.gone
     /\ server' = [busy |-> server.busy \ {c}, asking |-> kept(server.asking),
                   gone |-> server.gone \cup {c}]
     /\ Spend("works") /\ UNCHANGED <<agent, shown, excuses>>
     /\ IF Loaded THEN Reacts([plugin EXCEPT !.busy = @ \ {c}, !.waits = kept(@)])
        ELSE UNCHANGED <<plugin, net>>

------------------------------------------------------------------------------

Plugin == Load \/ ObserveRoute \/ RetryDue \/ AnswerArrives \/ ReportFails
Daemon(m) ==
  ReportOpenCodeSession(m) \/ RefuseReport(m) \/ HandleStarted(m) \/ HandleActivity(m)
OpenCode(c) ==
  \/ ExecutionStarts(c) \/ ExecutionEnds(c) \/ ConversationDeleted(c)
  \/ AsksUser(c) \/ AsksPlugin(c)
  \/ \E r \in server.asking : r.of = c /\ (UserReplies(r) \/ PluginReplies(r))
  \/ \E r \in plugin.replies : r.of = c /\ ReplyFails(r)

Next ==
  \/ Plugin \/ RecordPane \/ Navigate
  \/ \E m \in net : Daemon(m) \/ Lose(m)
  \/ \E c \in Conversation : OpenCode(c)

(* The plugin's timers fire, and the daemon serves what reaches it: with   *)
(* finitely many faults a report is answered in the end.  Users and the    *)
(* server owe nothing.                                                     *)
Spec ==
  /\ Init /\ [][Next]_vars
  /\ WF_vars(~ Loaded /\ Load) /\ WF_vars(ObserveRoute) /\ WF_vars(RetryDue)
  /\ WF_vars(AnswerArrives) /\ WF_vars(ReportFails) /\ WF_vars(RecordPane)
  /\ WF_vars(\E m \in net : Daemon(m))

------------------------------------------------------------------------------
(* Properties                                                              *)

Doings == {"busy", "idle", "waiting"}
Route == Conversation \cup {Home, Nothing}
Asking == [of : Conversation, event : Nat]
Message ==
  [kind : {"started"}] \cup [kind : {"status"}, status : Doings, number : Nat] \cup
  [kind : {"identity"}, epoch : Nat, seq : Nat, conversation : Route \ {Nothing}, view : Nat]
Instance ==
  [epoch : Nat, seq : Nat, route : Route, pending : Route, view : Nat,
   sent : [seq : Nat, conversation : Route \ {Nothing}, view : Nat,
           answer : {"none", "ok", "refused"}],
   retry : BOOLEAN, busy : SUBSET Conversation, waits : SUBSET Asking,
   replies : SUBSET Asking, last : Doings \cup {Silence}, posted : Nat]

TypeOK ==
  /\ agent \in [status : Doings \cup {"starting", "running"}, pane : BOOLEAN, epoch : Nat, seq : Nat,
                conversation : Route \ {Nothing}, view : Nat, report : Nat]
  /\ plugin \in Instance
  /\ net \subseteq Message
  /\ shown \in Route \ {Nothing}
  /\ server \in [busy : SUBSET Conversation, asking : SUBSET Asking, gone : SUBSET Conversation]
  /\ left \in [Kind -> Nat]

(* The conversation that a link leads to is never replaced by one that was *)
(* on display earlier, though a report that was given up may be served     *)
(* after its repetition, after a later one, and after those of a plugin    *)
(* that was loaded since.                                                  *)
ConversationNeverGoesBack == [][agent'.view >= agent.view]_vars

(* When the user stays with a conversation, the daemon gets to know it and *)
(* keeps to it, whatever was lost, refused before the pane was recorded,   *)
(* or answered too late: a failed report is repeated, unless a later one   *)
(* takes its place.                                                        *)
ConversationArrives == <>[](agent.conversation = shown)

(* When all is said, the status of the Agent is that of the conversation   *)
(* on display and those below it, also when the start is reported after    *)
(* the plugin's first status.  What the code does not get over is listed:  *)
(* a status that was lost or overtaken; a plugin that was loaded, or a     *)
(* conversation that was left or entered, while something went on; and a   *)
(* permission that somebody else has granted.                              *)
StatusIsTrue ==
  /\ Loaded /\ plugin.route = shown
  /\ plugin.replies = {}
  /\ \A m \in net : m.kind = "identity"
  /\ excuses = {}
  => agent.status = Doing(server.busy, server.asking, Family(shown))

(* ADR 0008: "ordering guaranteed by the plugin sending serially".         *)
StatusesInOrder == [][agent'.report >= agent.report]_vars

(* StatusIsTrue, if one looks at another conversation while one executes.  *)
StatusFollowsDisplay ==
  /\ Loaded /\ plugin.route = shown
  /\ plugin.replies = {}
  /\ \A m \in net : m.kind = "identity"
  /\ excuses \subseteq {"moved"}
  => agent.status = Doing(server.busy, server.asking, Family(shown))
==============================================================================
