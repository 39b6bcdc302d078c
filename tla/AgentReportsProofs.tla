--------------------------- MODULE AgentReportsProofs ---------------------------
(***************************************************************************)
(* Proofs about AgentReports, for any conversations, however often the     *)
(* plugin is loaded, the user moves, and reports are lost or given up.     *)
(***************************************************************************)
EXTENDS AgentReports, TLAPS

------------------------------------------------------------------------------
(* The inductive invariant                                                 *)

(* What reports of conversations are numbered with.                        *)
Told == {m \in net : m.kind = "identity"}
Before(m, n) == m.epoch < n.epoch \/ (m.epoch = n.epoch /\ m.seq < n.seq)
UpTo(m, n) == Before(m, n) \/ (m.epoch = n.epoch /\ m.seq = n.seq)

(* A later number never goes with an earlier display, neither among the    *)
(* reports that are still to be served nor between them and the record.    *)
Ordered ==
  /\ \A m \in Told : UpTo(m, plugin) /\ m.view <= plugin.view
  /\ UpTo(agent, plugin) /\ agent.view <= plugin.view
  /\ \A m, n \in Told : Before(m, n) => m.view <= n.view
  /\ \A m \in Told : Before(agent, m) => agent.view <= m.view

(* What the server knows of its conversations, that an event is new, and   *)
(* that only a plugin that is loaded replies.                              *)
ServerSound ==
  /\ \A r \in server.asking : r.of \in server.busy
  /\ server.busy \cap server.gone = {}
  /\ \A r \in server.asking \cup plugin.waits \cup plugin.replies : r.event > left["works"]
  /\ plugin.replies # {} => Loaded

(* As long as nothing has gone wrong, the plugin knows what executes and   *)
(* what is asked on display, or has it in hand, and has said so last.      *)
Follows ==
  excuses = {} /\ Loaded =>
    /\ plugin.busy = server.busy \cap Family(shown)
    /\ plugin.waits \subseteq server.asking
    /\ plugin.waits \cup (plugin.replies \cap server.asking)
         = {r \in server.asking : r.of \in Family(shown)}
    /\ plugin.last = Doing(plugin.busy, plugin.waits, Family(shown) \ server.gone)

(* The statuses on their way have numbers of their own.                    *)
Said == {m \in net : m.kind = "status"}
Numbered ==
  /\ \A m \in Said : m.number <= plugin.posted
  /\ agent.report <= plugin.posted
  /\ \A m, n \in Said : m.number = n.number => m = n
  /\ Loaded => plugin.last # Silence /\ plugin.posted > 0

(* As long as nothing has gone wrong, the last one is on its way or the    *)
(* record has it, and none is on its way that is older than the record.    *)
Delivered ==
  excuses = {} =>
    /\ \A m \in Said : m.number > agent.report
    /\ Loaded => \/ agent.report = plugin.posted /\ agent.status = plugin.last
                 \/ \E m \in Said : m.number = plugin.posted /\ m.status = plugin.last

IInv ==
  /\ TypeOK
  /\ Ordered
  /\ ServerSound
  /\ Follows
  /\ Numbered
  /\ Delivered

------------------------------------------------------------------------------
(* What the plugin's operators do                                          *)

(* Silence is not a status.                                                *)
LEMMA SilenceIsNone == Silence \notin Doings
  BY Zenon DEF Silence, Doings

(* What is done is one of three things.                                    *)
LEMMA DoingType ==
  ASSUME NEW busy, NEW waits, NEW family
  PROVE  Doing(busy, waits, family) \in Doings
  BY DEF Doing, Doings

(* A report that may be sent takes the next number; one that may not       *)
(* leaves everything as it was.                                            *)
LEMMA SendingFields ==
  ASSUME NEW p \in Instance
  PROVE  /\ Sending(p) \in Instance
         /\ Sending(p).epoch = p.epoch /\ Sending(p).view = p.view
         /\ Sending(p).busy = p.busy /\ Sending(p).waits = p.waits
         /\ Sending(p).replies = p.replies
         /\ Sending(p).last = p.last /\ Sending(p).posted = p.posted
         /\ \/ Sending(p).seq = p.seq /\ Sends(p) = {}
            \/ Sending(p).seq = p.seq + 1 /\ Sends(p) = {Identity(p)}
  <1>1. CASE MaySend(p)
    <2> DEFINE sent == [seq |-> p.seq + 1, conversation |-> p.pending, view |-> p.view,
                        answer |-> "none"]
    <2>1. sent \in [seq : Nat, conversation : Route \ {Nothing}, view : Nat,
                    answer : {"none", "ok", "refused"}]
      <3>1. p.seq + 1 \in Nat /\ p.pending \in Route \ {Nothing} /\ p.view \in Nat
        BY <1>1 DEF MaySend, Instance
      <3> QED
        BY <3>1
    <2>2. Sending(p) = [p EXCEPT !.seq = p.seq + 1, !.pending = Nothing, !.sent = sent]
      BY <1>1 DEF Sending, Instance
    <2>3. Nothing \in Route
      BY DEF Route
    <2>4. Sends(p) = {Identity(p)}
      BY <1>1 DEF Sends
    <2>5. p.seq + 1 \in Nat
      BY DEF Instance
    <2> HIDE DEF sent
    <2>6. Sending(p) \in Instance
      BY <2>1, <2>2, <2>3, <2>5 DEF Instance
    <2> QED
      BY <2>2, <2>4, <2>6 DEF Instance
  <1>2. CASE ~ MaySend(p)
    BY <1>2 DEF Sending, Sends
  <1> QED
    BY <1>1, <1>2

(* The report itself.                                                      *)
LEMMA SendsFields ==
  ASSUME NEW p \in Instance
  PROVE  /\ Sends(p) \subseteq Message
         /\ \A m \in Sends(p) : /\ m.kind = "identity" /\ m.epoch = p.epoch
                                /\ m.seq = p.seq + 1 /\ m.view = p.view
  <1>1. CASE MaySend(p)
    <2>1. p.epoch \in Nat /\ p.seq + 1 \in Nat /\ p.pending \in Route \ {Nothing} /\ p.view \in Nat
      BY <1>1 DEF MaySend, Instance
    <2>2. Identity(p) \in Message
      BY <2>1 DEF Identity, Message
    <2> QED
      BY <1>1, <2>2 DEF Sends, Identity
  <1>2. CASE ~ MaySend(p)
    BY <1>2 DEF Sends
  <1> QED
    BY <1>1, <1>2

(* A status that is another than the last takes the next number.           *)
LEMMA AggregatedFields ==
  ASSUME NEW p \in Instance
  PROVE  /\ Aggregated(p) \in Instance
         /\ Aggregated(p).epoch = p.epoch /\ Aggregated(p).view = p.view
         /\ Aggregated(p).seq = p.seq
         /\ Aggregated(p).busy = p.busy /\ Aggregated(p).waits = p.waits
         /\ Aggregated(p).replies = p.replies
         /\ Aggregated(p).last = Status(p) /\ Status(p) \in Doings
         /\ \/ Aggregated(p).posted = p.posted /\ Status(p) = p.last
            \/ Aggregated(p).posted = p.posted + 1 /\ Status(p) # p.last
  <1>1. Status(p) \in Doings
    BY DoingType DEF Status
  <1>2. CASE Status(p) = p.last
    BY <1>1, <1>2 DEF Aggregated
  <1>3. CASE Status(p) # p.last
    <2>1. Aggregated(p) = [p EXCEPT !.last = Status(p), !.posted = p.posted + 1]
      BY <1>3 DEF Aggregated, Instance
    <2>2. p.posted + 1 \in Nat
      BY DEF Instance
    <2>3. Aggregated(p) \in Instance
      BY <1>1, <2>1, <2>2 DEF Instance
    <2> QED
      BY <1>1, <1>3, <2>1, <2>3 DEF Instance
  <1> QED
    BY <1>2, <1>3

(* The request that says so.                                               *)
LEMMA PostsFields ==
  ASSUME NEW p \in Instance
  PROVE  /\ Posts(p) \subseteq Message
         /\ \A m \in Posts(p) : /\ m.kind = "status" /\ m.number = p.posted + 1
                                /\ m.status = Status(p)
         /\ Status(p) = p.last => Posts(p) = {}
         /\ Status(p) # p.last => \E m \in Posts(p) : TRUE
         /\ \A m, n \in Posts(p) : m = n
  <1>1. Status(p) \in Doings /\ p.posted + 1 \in Nat
    BY AggregatedFields DEF Instance
  <1>2. [kind |-> "status", status |-> Status(p), number |-> p.posted + 1] \in Message
    BY <1>1 DEF Message
  <1> QED
    BY <1>2 DEF Posts

------------------------------------------------------------------------------
(* What keeps the order                                                    *)

(* A report with the next number, of the latest display.                   *)
LEMMA OrderedSends ==
  ASSUME TypeOK, Ordered, NEW p \in Instance,
         UpTo(plugin, p), plugin.view <= p.view,
         plugin' \in Instance, plugin'.epoch = p.epoch, plugin'.view = p.view,
         plugin'.seq = Sending(p).seq, Told' = Told \cup Sends(p), UNCHANGED agent
  PROVE  Ordered'
  <1>1. /\ plugin.epoch \in Nat /\ plugin.seq \in Nat /\ plugin.view \in Nat
        /\ p.epoch \in Nat /\ p.seq \in Nat /\ p.view \in Nat
        /\ agent.epoch \in Nat /\ agent.seq \in Nat /\ agent.view \in Nat
    BY DEF TypeOK, Instance
  <1>2. \A m \in Told : m.epoch \in Nat /\ m.seq \in Nat /\ m.view \in Nat
    BY DEF TypeOK, Told, Message
  <1>3. \A m \in Sends(p) : /\ m.epoch = p.epoch /\ m.seq = p.seq + 1 /\ m.view = p.view
                            /\ plugin'.seq = m.seq
    BY SendingFields, SendsFields
  <1>4. plugin'.seq \in {p.seq, p.seq + 1}
    BY SendingFields
  <1>5. \A m \in Told \cup {agent} : UpTo(m, p) /\ m.view <= p.view
    BY <1>1, <1>2 DEF Ordered, Before, UpTo
  <1>6. (UpTo(agent, plugin) /\ agent.view <= plugin.view)'
    BY <1>1, <1>4, <1>5 DEF Before, UpTo
  <1>7. ASSUME NEW m \in Told'
        PROVE  (UpTo(m, plugin) /\ m.view <= plugin.view)'
    BY <1>1, <1>2, <1>3, <1>4, <1>5, <1>7 DEF Before, UpTo
  <1>8. ASSUME NEW m \in Told', NEW n \in Told', Before(m, n)
        PROVE  m.view <= n.view
    BY <1>1, <1>2, <1>3, <1>5, <1>8 DEF Ordered, Before, UpTo
  <1>9. ASSUME NEW m \in Told', Before(agent, m)
        PROVE  agent.view <= m.view
    BY <1>1, <1>2, <1>3, <1>5, <1>9 DEF Ordered, Before, UpTo
  <1> QED
    BY <1>6, <1>7, <1>8, <1>9 DEF Ordered, Before

(* Anything that leaves the numbers of the plugin alone and brings no new  *)
(* report.                                                                 *)
LEMMA OrderedStays ==
  ASSUME Ordered, plugin'.epoch = plugin.epoch, plugin'.seq = plugin.seq,
         plugin'.view = plugin.view, Told' \subseteq Told,
         agent'.epoch = agent.epoch, agent'.seq = agent.seq, agent'.view = agent.view
  PROVE  Ordered'
  BY DEF Ordered, Before, UpTo

------------------------------------------------------------------------------
(* What keeps the statuses                                                 *)

(* A status that is posted, or need not be.                                *)
LEMMA StatusPosts ==
  ASSUME TypeOK, Numbered, Delivered, NEW p \in Instance,
         p.posted = plugin.posted, p.last = Silence \/ (p.last = plugin.last /\ Loaded),
         plugin'.last = Aggregated(p).last, plugin'.posted = Aggregated(p).posted,
         Said' = Said \cup Posts(p), UNCHANGED agent, excuses' = {} => excuses = {}
  PROVE  Numbered' /\ Delivered'
  <1>1. plugin.posted \in Nat /\ agent.report \in Nat /\ plugin'.posted \in Nat
    BY AggregatedFields DEF TypeOK, Instance
  <1>2. \A m \in Said : m.number \in Nat /\ m.number <= plugin.posted
    BY DEF TypeOK, Said, Message, Numbered
  <1>3. plugin'.last = Status(p) /\ Status(p) # Silence
    BY AggregatedFields, SilenceIsNone
  <1>4. CASE Status(p) = p.last
    <2>1. /\ Loaded /\ plugin'.last = plugin.last /\ plugin'.posted = plugin.posted
          /\ Said' = Said
      BY <1>1, <1>3, <1>4, AggregatedFields, PostsFields
    <2> QED
      BY <1>1, <2>1 DEF Numbered, Delivered, Loaded
  <1>5. CASE Status(p) # p.last
    <2>1. plugin'.posted = plugin.posted + 1
      BY <1>1, <1>3, <1>5, AggregatedFields
    <2>2. PICK m : /\ Posts(p) = {m} /\ m.number = plugin.posted + 1 /\ m.status = plugin'.last
      BY <1>3, <1>5, PostsFields
    <2>3. Said' = Said \cup {m}
      BY <2>2
    <2>4. Numbered'
      BY <1>1, <1>2, <1>3, <2>1, <2>2, <2>3 DEF Numbered
    <2>5. agent.report <= plugin.posted
      BY DEF Numbered
    <2>6. Delivered'
      BY <1>1, <1>2, <2>1, <2>2, <2>3, <2>5 DEF Delivered
    <2> QED
      BY <2>4, <2>6
  <1> QED
    BY <1>4, <1>5

(* Anything that posts nothing and loses nothing.                          *)
LEMMA StatusStays ==
  ASSUME Numbered, Delivered,
         plugin'.last = plugin.last, plugin'.posted = plugin.posted, Said' = Said,
         plugin'.epoch = plugin.epoch,
         agent'.report = agent.report,
         agent'.status # agent.status => agent.status = "starting" /\ plugin.last # "starting",
         excuses' = {} => excuses = {}
  PROVE  Numbered' /\ Delivered'
  BY DEF Numbered, Delivered, Loaded, Said

------------------------------------------------------------------------------
(* What a step makes of the plugin and of the requests                     *)

(* What may be spent becomes less.                                         *)
LEMMA Spending ==
  ASSUME left \in [Kind -> Nat], NEW kind \in Kind, Spend(kind)
  PROVE  /\ left' \in [Kind -> Nat]
         /\ left'["works"] = IF kind = "works" THEN left["works"] - 1 ELSE left["works"]
         /\ left'["works"] <= left["works"] /\ left[kind] > 0
  BY DEF Spend, Kind

(* The requests are added to one by one.                                   *)
LEMMA Requests ==
  ASSUME NEW p \in Instance, net \subseteq Message
  PROVE  /\ net' = net \cup Sends(p) =>
              /\ net' \subseteq Message /\ Told' = Told \cup Sends(p) /\ Said' = Said
         /\ net' = net \cup Posts(p) =>
              /\ net' \subseteq Message /\ Told' = Told /\ Said' = Said \cup Posts(p)
         /\ net' = net \cup Sends(p) \cup Posts(p) =>
              /\ net' \subseteq Message
              /\ Told' = Told \cup Sends(p) /\ Said' = Said \cup Posts(p)
  BY SendsFields, PostsFields DEF Told, Said

(* The display is observed, reported and what it is doing, too.            *)
LEMMA ObserveFields ==
  ASSUME TypeOK, NEW p \in Instance, Observe(p)
  PROVE  /\ Observed(p) \in Instance
         /\ Observed(p).epoch = p.epoch /\ Observed(p).seq = p.seq
         /\ Observed(p).view = p.view + 1
         /\ Observed(p).last = p.last /\ Observed(p).posted = p.posted
         /\ plugin' \in Instance /\ net' \subseteq Message
         /\ plugin'.epoch = p.epoch /\ plugin'.view = p.view + 1
         /\ plugin'.seq = Sending(Observed(p)).seq
         /\ plugin'.busy = p.busy /\ plugin'.waits = p.waits /\ plugin'.replies = p.replies
         /\ plugin'.last = Aggregated(Observed(p)).last
         /\ plugin'.last = Doing(p.busy, p.waits, Family(shown') \ server'.gone)
         /\ plugin'.posted = Aggregated(Observed(p)).posted
         /\ Told' = Told \cup Sends(Observed(p)) /\ Said' = Said \cup Posts(Observed(p))
  <1> DEFINE seen == Observed(p)
             sent == Sending(seen)
  <1>1. /\ seen \in Instance
        /\ seen.epoch = p.epoch /\ seen.seq = p.seq /\ seen.view = p.view + 1
        /\ seen.last = p.last /\ seen.posted = p.posted
        /\ seen.busy = p.busy /\ seen.waits = p.waits /\ seen.replies = p.replies
    <2>1. shown \in Route /\ p.view + 1 \in Nat
      BY DEF TypeOK, Instance
    <2> QED
      BY <2>1 DEF Observed, Instance
  <1>2. plugin' = Aggregated(sent) /\ net' = net \cup Sends(seen) \cup Posts(seen)
    BY DEF Observe
  <1>3. net \subseteq Message
    BY DEF TypeOK
  <1>4. net' \subseteq Message /\ Told' = Told \cup Sends(seen) /\ Said' = Said \cup Posts(seen)
    BY <1>1, <1>2, <1>3, Requests
  <1> HIDE DEF seen
  <1>5. /\ sent \in Instance /\ sent.epoch = seen.epoch /\ sent.view = seen.view
        /\ sent.busy = seen.busy /\ sent.waits = seen.waits /\ sent.replies = seen.replies
        /\ sent.last = seen.last /\ sent.posted = seen.posted
    BY <1>1, SendingFields
  <1>6. /\ Status(sent) = Status(seen)
        /\ Status(seen) = Doing(p.busy, p.waits, Family(shown') \ server'.gone)
    BY <1>1, <1>5 DEF Status
  <1>7. Aggregated(sent).posted = Aggregated(seen).posted
    BY <1>1, <1>5, <1>6 DEF Aggregated, Instance
  <1> HIDE DEF sent
  <1>8. /\ plugin' \in Instance
        /\ plugin'.epoch = sent.epoch /\ plugin'.view = sent.view /\ plugin'.seq = sent.seq
        /\ plugin'.busy = sent.busy /\ plugin'.waits = sent.waits
        /\ plugin'.replies = sent.replies /\ plugin'.last = Status(sent)
        /\ Aggregated(seen).last = Status(seen)
    BY <1>1, <1>2, <1>5, AggregatedFields
  <1> QED
    BY <1>1, <1>2, <1>4, <1>5, <1>6, <1>7, <1>8 DEF seen, sent

(* What the plugin learns changes its status only.                         *)
LEMMA ReactsFields ==
  ASSUME TypeOK, NEW p \in Instance, Reacts(p)
  PROVE  /\ plugin' \in Instance /\ net' \subseteq Message
         /\ plugin'.epoch = p.epoch /\ plugin'.seq = p.seq /\ plugin'.view = p.view
         /\ plugin'.busy = p.busy /\ plugin'.waits = p.waits /\ plugin'.replies = p.replies
         /\ plugin'.last = Aggregated(p).last /\ plugin'.posted = Aggregated(p).posted
         /\ plugin'.last = Doing(p.busy, p.waits, Family(shown') \ server'.gone)
         /\ Told' = Told /\ Said' = Said \cup Posts(p)
  BY AggregatedFields, Requests DEF Reacts, TypeOK, Status

------------------------------------------------------------------------------
(* The steps of the plugin                                                 *)

(* A plugin that is loaded knows nothing, and counts on.                   *)
LEMMA LoadStep ==
  ASSUME IInv, Load
  PROVE  IInv'
  <1> DEFINE fresh == Fresh(plugin.epoch + 1)
             seen == Observed(fresh)
  <1> USE DEF IInv
  <1>1. /\ fresh \in Instance /\ fresh.epoch = plugin.epoch + 1 /\ fresh.view = plugin.view
        /\ fresh.busy = {} /\ fresh.waits = {} /\ fresh.replies = {}
        /\ fresh.last = Silence /\ fresh.posted = plugin.posted
    <2>1. plugin.epoch + 1 \in Nat /\ plugin.view \in Nat /\ plugin.posted \in Nat
      BY DEF TypeOK, Instance
    <2>2. /\ NoReport \in [seq : Nat, conversation : Route \ {Nothing}, view : Nat,
                           answer : {"none", "ok", "refused"}]
          /\ Nothing \in Route
      BY DEF NoReport, Route, Home, Nothing
    <2> QED
      BY <2>1, <2>2 DEF Fresh, Instance
  <1>2. Observe(fresh) /\ Spend("loads") /\ UNCHANGED <<agent, shown, server>>
    BY DEF Load, outside
  <1>3. excuses' = {} => excuses = {} /\ server.busy = {} /\ server.asking = {}
    BY DEF Load, Excuse
  <1> HIDE DEF fresh
  <1>4. TypeOK'
    BY <1>1, <1>2, ObserveFields, Spending DEF TypeOK, Kind
  <1>5. Ordered'
    <2>1. UpTo(plugin, seen) /\ plugin.view <= seen.view
      BY <1>1, <1>2, ObserveFields DEF TypeOK, Instance, UpTo, Before
    <2> QED
      BY <1>1, <1>2, <2>1, ObserveFields, OrderedSends
  <1>6. ServerSound'
    <2>1. left'["works"] = left["works"]
      BY <1>2, Spending DEF TypeOK, Kind
    <2> QED
      BY <1>1, <1>2, <2>1, ObserveFields DEF ServerSound, Loaded
  <1>7. Follows'
    BY <1>1, <1>2, <1>3, ObserveFields DEF Follows
  <1>8. Numbered' /\ Delivered'
    BY <1>1, <1>2, <1>3, ObserveFields, StatusPosts
  <1> QED
    BY <1>4, <1>5, <1>6, <1>7, <1>8

(* Another display is observed.                                            *)
LEMMA ObserveRouteStep ==
  ASSUME IInv, ObserveRoute
  PROVE  IInv'
  <1> DEFINE seen == Observed(plugin)
  <1> USE DEF IInv
  <1>1. /\ plugin \in Instance /\ Observe(plugin) /\ Loaded
        /\ UNCHANGED <<agent, shown, server, left, excuses>>
    BY DEF ObserveRoute, TypeOK, outside, Fine
  <1>2. TypeOK'
    BY <1>1, ObserveFields DEF TypeOK
  <1>3. Ordered'
    <2>1. UpTo(plugin, seen) /\ plugin.view <= seen.view
      BY <1>1, ObserveFields DEF Instance, UpTo, Before
    <2> QED
      BY <1>1, <2>1, ObserveFields, OrderedSends
  <1>4. ServerSound' /\ Follows'
    BY <1>1, ObserveFields DEF ServerSound, Follows, Loaded
  <1>5. Numbered' /\ Delivered'
    BY <1>1, ObserveFields, StatusPosts
  <1> QED
    BY <1>2, <1>3, <1>4, <1>5

(* A timer that fires, or an answer, lets the next report go.              *)
LEMMA SendingStep ==
  ASSUME IInv, RetryDue \/ AnswerArrives
  PROVE  IInv'
  <1> USE DEF IInv
  <1>1. PICK p \in {[plugin EXCEPT !.retry = FALSE], [plugin EXCEPT !.sent = NoReport]} :
          plugin' = Sending(p) /\ net' = net \cup Sends(p)
    BY DEF RetryDue, AnswerArrives
  <1>2. UNCHANGED <<agent, shown, server, left, excuses>>
    BY DEF RetryDue, AnswerArrives, outside, Fine
  <1>3. /\ p \in Instance /\ p.epoch = plugin.epoch /\ p.seq = plugin.seq /\ p.view = plugin.view
        /\ p.busy = plugin.busy /\ p.waits = plugin.waits /\ p.replies = plugin.replies
        /\ p.last = plugin.last /\ p.posted = plugin.posted
    <2>1. NoReport \in [seq : Nat, conversation : Route \ {Nothing}, view : Nat,
                        answer : {"none", "ok", "refused"}]
      BY DEF NoReport, Route, Home, Nothing
    <2>2. plugin \in Instance
      BY DEF TypeOK
    <2>3. CASE p = [plugin EXCEPT !.retry = FALSE]
      BY <2>2, <2>3 DEF Instance
    <2>4. CASE p = [plugin EXCEPT !.sent = NoReport]
      BY <2>1, <2>2, <2>4 DEF Instance
    <2> QED
      BY <2>3, <2>4
  <1>4. net \subseteq Message /\ plugin \in Instance
    BY DEF TypeOK
  <1>5. net' \subseteq Message /\ Told' = Told \cup Sends(p) /\ Said' = Said
    BY <1>1, <1>3, <1>4, Requests
  <1>6. /\ plugin' \in Instance /\ plugin'.epoch = plugin.epoch /\ plugin'.view = plugin.view
        /\ plugin'.busy = plugin.busy /\ plugin'.waits = plugin.waits
        /\ plugin'.replies = plugin.replies
        /\ plugin'.last = plugin.last /\ plugin'.posted = plugin.posted
        /\ plugin'.seq = Sending(p).seq
    BY <1>1, <1>3, SendingFields
  <1>7. TypeOK'
    BY <1>2, <1>5, <1>6 DEF TypeOK
  <1>8. Ordered'
    <2>1. UpTo(plugin, p) /\ plugin.view <= p.view
      BY <1>3, <1>4 DEF Instance, UpTo, Before
    <2> QED
      BY <1>2, <1>3, <1>5, <1>6, <2>1, OrderedSends
  <1>9. ServerSound' /\ Follows'
    BY <1>2, <1>6 DEF ServerSound, Follows, Loaded
  <1>10. Numbered' /\ Delivered'
    BY <1>2, <1>5, <1>6, StatusStays
  <1> QED
    BY <1>7, <1>8, <1>9, <1>10

(* A report that failed is to be repeated.                                 *)
LEMMA ReportFailsStep ==
  ASSUME IInv, ReportFails
  PROVE  IInv'
  <1> USE DEF IInv
  <1>1. /\ plugin \in Instance /\ plugin' = Failed(plugin)
        /\ UNCHANGED <<agent, net, shown, server, excuses>>
    BY DEF ReportFails, TypeOK, outside
  <1>2. left' \in [Kind -> Nat] /\ left'["works"] = left["works"]
    BY Spending DEF ReportFails, Fine, TypeOK, Kind
  <1>3. /\ plugin' \in Instance /\ plugin'.epoch = plugin.epoch /\ plugin'.view = plugin.view
        /\ plugin'.seq = plugin.seq
        /\ plugin'.busy = plugin.busy /\ plugin'.waits = plugin.waits
        /\ plugin'.replies = plugin.replies
        /\ plugin'.last = plugin.last /\ plugin'.posted = plugin.posted
    <2>1. NoReport \in [seq : Nat, conversation : Route \ {Nothing}, view : Nat,
                        answer : {"none", "ok", "refused"}]
      BY DEF NoReport, Route, Home, Nothing
    <2>2. plugin.sent.conversation \in Route
      BY <1>1 DEF Instance
    <2>3. PICK pending \in Route :
            plugin' = [plugin EXCEPT !.sent = NoReport, !.retry = TRUE, !.pending = pending]
      BY <1>1, <2>2 DEF Failed, Instance
    <2>4. plugin' \in Instance
      BY <1>1, <2>1, <2>3 DEF Instance
    <2> QED
      BY <1>1, <2>3, <2>4 DEF Instance
  <1>4. TypeOK'
    BY <1>1, <1>2, <1>3 DEF TypeOK
  <1>5. Ordered'
    BY <1>1, <1>3, OrderedStays DEF Told
  <1>6. ServerSound' /\ Follows'
    BY <1>1, <1>2, <1>3 DEF ServerSound, Follows, Loaded
  <1>7. Numbered' /\ Delivered'
    BY <1>1, <1>3, StatusStays DEF Said
  <1> QED
    BY <1>4, <1>5, <1>6, <1>7

------------------------------------------------------------------------------
(* The steps of the daemon                                                 *)

(* An answer changes nothing but the report under way.                     *)
LEMMA AnsweredFields ==
  ASSUME plugin \in Instance, NEW m, NEW answer \in {"ok", "refused"}, Answered(m, answer)
  PROVE  /\ plugin' \in Instance /\ plugin'.epoch = plugin.epoch /\ plugin'.view = plugin.view
         /\ plugin'.seq = plugin.seq
         /\ plugin'.busy = plugin.busy /\ plugin'.waits = plugin.waits
         /\ plugin'.replies = plugin.replies
         /\ plugin'.last = plugin.last /\ plugin'.posted = plugin.posted
  <1>1. [plugin.sent EXCEPT !.answer = answer]
          \in [seq : Nat, conversation : Route \ {Nothing}, view : Nat,
               answer : {"none", "ok", "refused"}]
    BY DEF Instance
  <1>2. [plugin EXCEPT !.sent.answer = answer]
          = [plugin EXCEPT !.sent = [plugin.sent EXCEPT !.answer = answer]]
    BY DEF Instance
  <1>3. PICK sent \in [seq : Nat, conversation : Route \ {Nothing}, view : Nat,
                       answer : {"none", "ok", "refused"}] :
          plugin' \in {plugin, [plugin EXCEPT !.sent = sent]}
    BY <1>1, <1>2 DEF Answered
  <1> QED
    BY <1>3 DEF Instance

(* The daemon gets to know the pane.                                       *)
LEMMA RecordPaneStep ==
  ASSUME IInv, RecordPane
  PROVE  IInv'
  <1> USE DEF IInv
  <1>1. /\ UNCHANGED <<plugin, net, shown, server, excuses, left>>
        /\ agent' = [agent EXCEPT !.pane = TRUE]
    BY DEF RecordPane, outside, Fine
  <1>2. /\ TypeOK' /\ agent'.epoch = agent.epoch /\ agent'.seq = agent.seq
        /\ agent'.view = agent.view /\ agent'.report = agent.report /\ agent'.status = agent.status
    BY <1>1 DEF TypeOK
  <1>3. Ordered'
    BY <1>1, <1>2, OrderedStays DEF Told
  <1>4. ServerSound' /\ Follows'
    BY <1>1 DEF ServerSound, Follows, Loaded
  <1>5. Numbered' /\ Delivered'
    BY <1>1, <1>2 DEF Numbered, Delivered, Said, Loaded
  <1> QED
    BY <1>2, <1>3, <1>4, <1>5

(* The report of a conversation, which is served.                          *)
LEMMA ReportStep ==
  ASSUME IInv, NEW m \in net, ReportOpenCodeSession(m)
  PROVE  IInv'
  <1> USE DEF IInv
  <1>1. /\ m.kind = "identity" /\ net' = net \ {m} /\ Answered(m, "ok")
        /\ UNCHANGED <<shown, server, excuses, left>>
        /\ agent' = IF Stale(m) THEN agent
                    ELSE [agent EXCEPT !.epoch = m.epoch, !.seq = m.seq,
                                       !.conversation = m.conversation, !.view = m.view]
    BY DEF ReportOpenCodeSession, Serves, outside, Fine
  <1>2. m \in Told /\ Told' = Told \ {m} /\ Said' = Said
    BY <1>1 DEF Told, Said
  <1>3. /\ m.epoch \in Nat /\ m.seq \in Nat /\ m.view \in Nat
        /\ m.conversation \in Route \ {Nothing}
    BY <1>1 DEF TypeOK, Message
  <1>4. plugin \in Instance
    BY DEF TypeOK
  <1>5. /\ plugin' \in Instance /\ plugin'.epoch = plugin.epoch /\ plugin'.view = plugin.view
        /\ plugin'.seq = plugin.seq
        /\ plugin'.busy = plugin.busy /\ plugin'.waits = plugin.waits
        /\ plugin'.replies = plugin.replies
        /\ plugin'.last = plugin.last /\ plugin'.posted = plugin.posted
    BY <1>1, <1>4, AnsweredFields
  <1>6. CASE Stale(m)
    <2>1. agent' = agent
      BY <1>1, <1>6
    <2>2. TypeOK'
      BY <1>1, <1>5, <2>1 DEF TypeOK
    <2>3. Ordered'
      BY <1>2, <1>5, <2>1, OrderedStays
    <2>4. Numbered' /\ Delivered'
      BY <1>1, <1>2, <1>5, <2>1, StatusStays
    <2> QED
      BY <1>1, <1>5, <2>2, <2>3, <2>4 DEF ServerSound, Follows, Loaded
  <1>7. CASE ~ Stale(m)
    <2>1. agent' = [agent EXCEPT !.epoch = m.epoch, !.seq = m.seq,
                                 !.conversation = m.conversation, !.view = m.view]
      BY <1>1, <1>7
    <2>2. /\ TypeOK' /\ agent'.epoch = m.epoch /\ agent'.seq = m.seq /\ agent'.view = m.view
          /\ agent'.report = agent.report /\ agent'.status = agent.status
      BY <1>1, <1>3, <1>5, <2>1 DEF TypeOK
    <2>3. Ordered'
      BY <1>2, <1>5, <2>2 DEF Ordered, Before, UpTo
    <2>4. Numbered' /\ Delivered'
      BY <1>1, <1>2, <1>5, <2>2, StatusStays
    <2> QED
      BY <1>1, <1>5, <2>2, <2>3, <2>4 DEF ServerSound, Follows, Loaded
  <1> QED
    BY <1>6, <1>7

(* One that is refused, and the start.                                     *)
LEMMA OtherServed ==
  ASSUME IInv, NEW m \in net, RefuseReport(m) \/ HandleStarted(m)
  PROVE  IInv'
  <1> USE DEF IInv
  <1>1. /\ net' = net \ {m} /\ UNCHANGED <<shown, server, excuses>> /\ m.kind # "status"
        /\ plugin' = plugin \/ Answered(m, "refused")
    BY DEF RefuseReport, HandleStarted, Serves, outside
  <1>2. left' \in [Kind -> Nat] /\ left'["works"] = left["works"]
    BY Spending DEF RefuseReport, HandleStarted, Fine, TypeOK, Kind
  <1>3. agent' = agent \/ agent' = [agent EXCEPT !.status = Promoted(agent.status)]
    BY DEF RefuseReport, HandleStarted, TypeOK
  <1>4. /\ agent'.epoch = agent.epoch /\ agent'.seq = agent.seq /\ agent'.view = agent.view
        /\ agent'.report = agent.report
        /\ agent'.status # agent.status => agent.status = "starting"
        /\ agent' \in [status : Doings \cup {"starting", "running"}, pane : BOOLEAN, epoch : Nat,
                       seq : Nat, conversation : Route \ {Nothing}, view : Nat, report : Nat]
    BY <1>3 DEF TypeOK, Promoted
  <1>5. plugin \in Instance
    BY DEF TypeOK
  <1>6. /\ plugin' \in Instance /\ plugin'.epoch = plugin.epoch /\ plugin'.view = plugin.view
        /\ plugin'.seq = plugin.seq
        /\ plugin'.busy = plugin.busy /\ plugin'.waits = plugin.waits
        /\ plugin'.replies = plugin.replies
        /\ plugin'.last = plugin.last /\ plugin'.posted = plugin.posted
    BY <1>1, <1>5, AnsweredFields
  <1>7. Told' \subseteq Told /\ Said' = Said /\ net' \subseteq Message
    BY <1>1 DEF Told, Said, TypeOK
  <1>8. TypeOK'
    BY <1>1, <1>2, <1>4, <1>6, <1>7 DEF TypeOK
  <1>9. Ordered'
    BY <1>4, <1>6, <1>7, OrderedStays
  <1>10. plugin.last # "starting"
    BY <1>5, Zenon DEF Instance, Doings, Silence
  <1>11. Numbered' /\ Delivered'
    BY <1>1, <1>4, <1>6, <1>7, <1>10, StatusStays
  <1> QED
    BY <1>1, <1>2, <1>6, <1>8, <1>9, <1>11 DEF ServerSound, Follows, Loaded

(* The status that was sent last of those still to be served.              *)
LEMMA ActivityStep ==
  ASSUME IInv, NEW m \in net, HandleActivity(m)
  PROVE  IInv'
  <1> USE DEF IInv
  <1>1. /\ m.kind = "status" /\ net' = net \ {m} /\ UNCHANGED <<plugin, shown, server, left>>
        /\ agent' = [agent EXCEPT !.status = m.status, !.report = m.number]
    BY DEF HandleActivity, Serves, outside, Fine
  <1>2. excuses' = {} => excuses = {} /\ \A n \in Said : ~ (n.number < m.number)
    BY DEF HandleActivity, Excuse, Said
  <1>3. m.number \in Nat /\ m.status \in Doings
    BY <1>1 DEF TypeOK, Message
  <1>4. /\ TypeOK' /\ agent'.epoch = agent.epoch /\ agent'.seq = agent.seq
        /\ agent'.view = agent.view /\ agent'.status = m.status /\ agent'.report = m.number
    BY <1>1, <1>3 DEF TypeOK
  <1>5. m \in Said /\ Said' = Said \ {m} /\ Told' = Told
    BY <1>1 DEF Told, Said
  <1>6. Ordered'
    BY <1>1, <1>4, <1>5, OrderedStays
  <1>7. \A n \in Said : n.number \in Nat
    BY DEF Said, TypeOK, Message
  <1>8. plugin.posted \in Nat /\ agent.report \in Nat
    BY DEF TypeOK, Instance
  <1>9. Numbered'
    BY <1>1, <1>4, <1>5 DEF Numbered, Loaded
  <1>10. Delivered'
    BY <1>1, <1>2, <1>3, <1>4, <1>5, <1>7, <1>8 DEF Numbered, Delivered, Loaded
  <1> QED
    BY <1>1, <1>2, <1>4, <1>6, <1>9, <1>10 DEF ServerSound, Follows, Loaded

(* A request that does not arrive.                                         *)
LEMMA LoseStep ==
  ASSUME IInv, NEW m \in net, Lose(m)
  PROVE  IInv'
  <1> USE DEF IInv
  <1>1. /\ net' = net \ {m} /\ UNCHANGED <<agent, plugin, shown, server>>
        /\ excuses' = {} => excuses = {} /\ m.kind # "status"
    BY DEF Lose, Excuse, outside
  <1>2. left' \in [Kind -> Nat] /\ left'["works"] = left["works"]
    BY Spending DEF Lose, TypeOK, Kind
  <1>3. TypeOK'
    BY <1>1, <1>2 DEF TypeOK
  <1>4. Ordered'
    BY <1>1, OrderedStays DEF Told
  <1>5. Numbered' /\ Delivered'
    BY <1>1 DEF Numbered, Delivered, Said, Loaded
  <1> QED
    BY <1>1, <1>2, <1>3, <1>4, <1>5 DEF ServerSound, Follows, Loaded

------------------------------------------------------------------------------
(* The steps of the user and the server                                    *)

(* Another conversation is on display; none executes or asks, or it is an  *)
(* excuse.                                                                 *)
LEMMA NavigateStep ==
  ASSUME IInv, Navigate
  PROVE  IInv'
  <1> USE DEF IInv
  <1>1. /\ shown' \in Conversation \cup {Home} /\ UNCHANGED <<agent, plugin, net, server>>
        /\ excuses' = {} => excuses = {} /\ server.busy = {} /\ server.asking = {}
    BY DEF Navigate, Living, Excuse
  <1>2. left' \in [Kind -> Nat] /\ left'["works"] = left["works"]
    BY Spending DEF Navigate, TypeOK, Kind
  <1>3. shown' \in Route \ {Nothing}
    <2>1. Home # Nothing /\ Nothing \notin Conversation
      BY AgentReportsAssumption DEF Home, Nothing
    <2> QED
      BY <1>1, <2>1 DEF Route
  <1>4. TypeOK'
    BY <1>1, <1>2, <1>3 DEF TypeOK
  <1>5. Follows'
    BY <1>1 DEF Follows, Loaded, Doing
  <1> QED
    BY <1>1, <1>2, <1>4, <1>5
    DEF Ordered, Before, UpTo, Told, ServerSound, Numbered, Delivered, Said, Loaded

(* What the plugin makes of the news: it has a new state and status, or    *)
(* takes no notice.                                                        *)
LEMMA NewsStep ==
  ASSUME IInv, NEW p \in Instance, UNCHANGED <<agent, shown>>, excuses' = {} => excuses = {},
         p.epoch = plugin.epoch, p.seq = plugin.seq, p.view = plugin.view,
         p.last = plugin.last, p.posted = plugin.posted,
         (Loaded /\ Reacts(p)) \/ UNCHANGED <<plugin, net>>,
         server' \in [busy : SUBSET Conversation, asking : SUBSET Asking,
                      gone : SUBSET Conversation],
         left' \in [Kind -> Nat], ServerSound', Follows'
  PROVE  IInv'
  <1> USE DEF IInv
  <1>1. CASE Loaded /\ Reacts(p)
    <2>1. TypeOK'
      BY <1>1, ReactsFields DEF TypeOK
    <2>2. Ordered'
      BY <1>1, ReactsFields, OrderedStays
    <2>3. Numbered' /\ Delivered'
      BY <1>1, ReactsFields, StatusPosts
    <2> QED
      BY <2>1, <2>2, <2>3
  <1>2. CASE UNCHANGED <<plugin, net>>
    BY <1>2 DEF TypeOK, Ordered, Before, UpTo, Told, Numbered, Delivered, Said, Loaded
  <1> QED
    BY <1>1, <1>2

(* The events of the past stay in the past.                                *)
LEMMA EventsStay ==
  ASSUME TypeOK, ServerSound, left' \in [Kind -> Nat], left'["works"] <= left["works"]
  PROVE  \A r \in server.asking \cup plugin.waits \cup plugin.replies : r.event > left'["works"]
  <1>1. \A r \in server.asking \cup plugin.waits \cup plugin.replies : r.event \in Nat
    BY DEF TypeOK, Instance, Asking
  <1>2. left["works"] \in Nat /\ left'["works"] \in Nat
    BY DEF TypeOK, Kind
  <1> QED
    BY <1>1, <1>2 DEF ServerSound, Loaded

(* A conversation begins.                                                  *)
LEMMA ExecutionStartsStep ==
  ASSUME IInv, NEW c \in Conversation, ExecutionStarts(c)
  PROVE  IInv'
  <1> DEFINE p == [plugin EXCEPT !.busy = @ \cup {c}]
  <1> USE DEF IInv
  <1>1. /\ c \notin server.gone /\ server' = [server EXCEPT !.busy = @ \cup {c}]
        /\ Spend("works") /\ UNCHANGED <<agent, shown, excuses>> /\ Tells(c, p)
    BY DEF ExecutionStarts, Living
  <1>2. /\ p \in Instance /\ p.epoch = plugin.epoch /\ p.seq = plugin.seq /\ p.view = plugin.view
        /\ p.last = plugin.last /\ p.posted = plugin.posted
        /\ p.busy = plugin.busy \cup {c} /\ p.waits = plugin.waits /\ p.replies = plugin.replies
    BY DEF TypeOK, Instance
  <1>3. /\ server' \in [busy : SUBSET Conversation, asking : SUBSET Asking,
                        gone : SUBSET Conversation]
        /\ server'.busy = server.busy \cup {c} /\ server'.asking = server.asking
        /\ server'.gone = server.gone
    BY <1>1 DEF TypeOK
  <1>4. left' \in [Kind -> Nat] /\ left'["works"] <= left["works"]
    BY <1>1, Spending DEF TypeOK, Kind
  <1> HIDE DEF p
  <1>5. CASE Loaded /\ c \in Family(shown)
    <2>1. Reacts(p)
      BY <1>1, <1>5 DEF Tells
    <2>2. /\ plugin'.epoch = plugin.epoch
          /\ plugin'.busy = plugin.busy \cup {c} /\ plugin'.waits = plugin.waits
          /\ plugin'.replies = plugin.replies
          /\ plugin'.last = Doing(plugin'.busy, plugin'.waits, Family(shown') \ server'.gone)
      BY <1>2, <2>1, ReactsFields
    <2>3. ServerSound'
      BY <1>1, <1>3, <1>4, <2>2, EventsStay DEF ServerSound, TypeOK, Loaded
    <2>4. Follows'
      BY <1>1, <1>3, <1>5, <2>2 DEF Follows, Loaded
    <2> QED
      BY <1>1, <1>2, <1>3, <1>4, <1>5, <2>1, <2>3, <2>4, NewsStep
  <1>6. CASE ~ (Loaded /\ c \in Family(shown))
    <2>1. UNCHANGED <<plugin, net>>
      BY <1>1, <1>6 DEF Tells
    <2>2. ServerSound'
      BY <1>1, <1>3, <1>4, <2>1, EventsStay DEF ServerSound, TypeOK, Loaded
    <2>3. Follows'
      BY <1>1, <1>3, <1>6, <2>1 DEF Follows, Loaded
    <2> QED
      BY <1>1, <1>2, <1>3, <1>4, <2>1, <2>2, <2>3, NewsStep
  <1> QED
    BY <1>5, <1>6

(* A conversation that asks nothing ends.                                  *)
LEMMA ExecutionEndsStep ==
  ASSUME IInv, NEW c \in Conversation, ExecutionEnds(c)
  PROVE  IInv'
  <1> DEFINE p == [plugin EXCEPT !.busy = @ \ {c}]
  <1> USE DEF IInv
  <1>1. /\ \A r \in server.asking : r.of # c
        /\ server' = [server EXCEPT !.busy = @ \ {c}]
        /\ UNCHANGED <<agent, shown, excuses, left>> /\ Tells(c, p)
    BY DEF ExecutionEnds
  <1>2. /\ p \in Instance /\ p.epoch = plugin.epoch /\ p.seq = plugin.seq /\ p.view = plugin.view
        /\ p.last = plugin.last /\ p.posted = plugin.posted
        /\ p.busy = plugin.busy \ {c} /\ p.waits = plugin.waits /\ p.replies = plugin.replies
    BY DEF TypeOK, Instance
  <1>3. /\ server' \in [busy : SUBSET Conversation, asking : SUBSET Asking,
                        gone : SUBSET Conversation]
        /\ server'.busy = server.busy \ {c} /\ server'.asking = server.asking
        /\ server'.gone = server.gone
    BY <1>1 DEF TypeOK
  <1>4. left' \in [Kind -> Nat]
    BY <1>1 DEF TypeOK
  <1> HIDE DEF p
  <1>5. CASE Loaded /\ c \in Family(shown)
    <2>1. Reacts(p)
      BY <1>1, <1>5 DEF Tells
    <2>2. /\ plugin'.epoch = plugin.epoch
          /\ plugin'.busy = plugin.busy \ {c} /\ plugin'.waits = plugin.waits
          /\ plugin'.replies = plugin.replies
          /\ plugin'.last = Doing(plugin'.busy, plugin'.waits, Family(shown') \ server'.gone)
      BY <1>2, <2>1, ReactsFields
    <2>3. ServerSound'
      BY <1>1, <1>3, <2>2 DEF ServerSound, Loaded
    <2>4. Follows'
      BY <1>1, <1>3, <1>5, <2>2 DEF Follows, Loaded
    <2> QED
      BY <1>1, <1>2, <1>3, <1>4, <1>5, <2>1, <2>3, <2>4, NewsStep
  <1>6. CASE ~ (Loaded /\ c \in Family(shown))
    <2>1. UNCHANGED <<plugin, net>>
      BY <1>1, <1>6 DEF Tells
    <2>2. ServerSound'
      BY <1>1, <1>3, <2>1 DEF ServerSound, Loaded
    <2>3. Follows'
      BY <1>1, <1>3, <1>6, <2>1 DEF Follows, Loaded
    <2> QED
      BY <1>1, <1>2, <1>3, <1>4, <2>1, <2>2, <2>3, NewsStep
  <1> QED
    BY <1>5, <1>6

(* A request that no one has made before.                                  *)
LEMMA RequestNew ==
  ASSUME TypeOK, ServerSound, NEW c \in Conversation, Spend("works")
  PROVE  /\ Request(c) \in Asking /\ Request(c).of = c
         /\ Request(c) \notin server.asking \cup plugin.waits \cup plugin.replies
         /\ left' \in [Kind -> Nat] /\ left'["works"] <= left["works"]
         /\ Request(c).event > left'["works"]
  <1>1. left["works"] \in Nat
    BY DEF TypeOK, Kind
  <1>2. /\ left' \in [Kind -> Nat] /\ left'["works"] = left["works"] - 1
    BY Spending DEF TypeOK, Kind
  <1>3. Request(c) \in Asking /\ Request(c).of = c /\ Request(c).event = left["works"]
    BY <1>1 DEF Request, Asking
  <1> QED
    BY <1>1, <1>2, <1>3 DEF ServerSound, Loaded

(* A request the user has to reply to.                                     *)
LEMMA AsksUserStep ==
  ASSUME IInv, NEW c \in Conversation, AsksUser(c)
  PROVE  IInv'
  <1> DEFINE r == Request(c)
             p == [plugin EXCEPT !.waits = @ \cup {r}]
  <1> USE DEF IInv
  <1>1. /\ c \in server.busy /\ server' = [server EXCEPT !.asking = @ \cup {r}]
        /\ Spend("works") /\ UNCHANGED <<agent, shown, excuses>> /\ Tells(c, p)
    BY RequestNew DEF AsksUser, Asked
  <1>2. /\ r \in Asking /\ r.of = c /\ r \notin server.asking \cup plugin.waits \cup plugin.replies
        /\ left' \in [Kind -> Nat] /\ left'["works"] <= left["works"] /\ r.event > left'["works"]
    BY <1>1, RequestNew
  <1> HIDE DEF r
  <1>3. /\ p \in Instance /\ p.epoch = plugin.epoch /\ p.seq = plugin.seq /\ p.view = plugin.view
        /\ p.last = plugin.last /\ p.posted = plugin.posted
        /\ p.busy = plugin.busy /\ p.waits = plugin.waits \cup {r} /\ p.replies = plugin.replies
    BY <1>2 DEF TypeOK, Instance
  <1>4. /\ server' \in [busy : SUBSET Conversation, asking : SUBSET Asking,
                        gone : SUBSET Conversation]
        /\ server'.busy = server.busy /\ server'.asking = server.asking \cup {r}
        /\ server'.gone = server.gone
    BY <1>1, <1>2 DEF TypeOK
  <1> HIDE DEF p
  <1>5. CASE Loaded /\ c \in Family(shown)
    <2>1. Reacts(p)
      BY <1>1, <1>5 DEF Tells
    <2>2. /\ plugin'.epoch = plugin.epoch
          /\ plugin'.busy = plugin.busy /\ plugin'.waits = plugin.waits \cup {r}
          /\ plugin'.replies = plugin.replies
          /\ plugin'.last = Doing(plugin'.busy, plugin'.waits, Family(shown') \ server'.gone)
      BY <1>3, <2>1, ReactsFields
    <2>3. ServerSound'
      BY <1>1, <1>2, <1>4, <2>2, EventsStay DEF ServerSound, Loaded
    <2>4. Follows'
      BY <1>1, <1>2, <1>4, <1>5, <2>2 DEF Follows, Loaded
    <2> QED
      BY <1>1, <1>2, <1>3, <1>4, <1>5, <2>1, <2>3, <2>4, NewsStep
  <1>6. CASE ~ (Loaded /\ c \in Family(shown))
    <2>1. UNCHANGED <<plugin, net>>
      BY <1>1, <1>6 DEF Tells
    <2>2. ServerSound'
      BY <1>1, <1>2, <1>4, <2>1, EventsStay DEF ServerSound, Loaded
    <2>3. Follows'
      BY <1>1, <1>2, <1>4, <1>6, <2>1 DEF Follows, Loaded
    <2> QED
      BY <1>1, <1>2, <1>3, <1>4, <2>1, <2>2, <2>3, NewsStep
  <1> QED
    BY <1>5, <1>6

(* The plugin has the request in hand and says nothing.                    *)
LEMMA AsksPluginStep ==
  ASSUME IInv, NEW c \in Conversation, AsksPlugin(c)
  PROVE  IInv'
  <1> DEFINE r == Request(c)
  <1> USE DEF IInv
  <1>1. /\ c \in server.busy /\ server' = [server EXCEPT !.asking = @ \cup {r}]
        /\ Spend("works") /\ UNCHANGED <<agent, shown, excuses, net>>
        /\ Loaded /\ c \in Family(shown)
        /\ plugin' = [plugin EXCEPT !.replies = @ \cup {r}]
    BY RequestNew DEF AsksPlugin, Asked
  <1>2. /\ r \in Asking /\ r.of = c /\ r \notin server.asking \cup plugin.waits \cup plugin.replies
        /\ left' \in [Kind -> Nat] /\ left'["works"] <= left["works"] /\ r.event > left'["works"]
    BY <1>1, RequestNew
  <1> HIDE DEF r
  <1>3. /\ plugin' \in Instance /\ plugin'.epoch = plugin.epoch /\ plugin'.seq = plugin.seq
        /\ plugin'.view = plugin.view
        /\ plugin'.last = plugin.last /\ plugin'.posted = plugin.posted
        /\ plugin'.busy = plugin.busy /\ plugin'.waits = plugin.waits
        /\ plugin'.replies = plugin.replies \cup {r}
    BY <1>1, <1>2 DEF TypeOK, Instance
  <1>4. /\ server' \in [busy : SUBSET Conversation, asking : SUBSET Asking,
                        gone : SUBSET Conversation]
        /\ server'.busy = server.busy /\ server'.asking = server.asking \cup {r}
        /\ server'.gone = server.gone
    BY <1>1, <1>2 DEF TypeOK
  <1>5. TypeOK'
    BY <1>1, <1>2, <1>3, <1>4 DEF TypeOK
  <1>6. Ordered'
    BY <1>1, <1>3, OrderedStays DEF Told
  <1>7. ServerSound'
    BY <1>1, <1>2, <1>3, <1>4, EventsStay DEF ServerSound, Loaded
  <1>8. Follows'
    BY <1>1, <1>2, <1>3, <1>4 DEF Follows, Loaded
  <1>9. Numbered' /\ Delivered'
    BY <1>1, <1>3, StatusStays DEF Said
  <1> QED
    BY <1>5, <1>6, <1>7, <1>8, <1>9

(* A reply, of the user or of the plugin.                                  *)
LEMMA RepliesStep ==
  ASSUME IInv, NEW r, UserReplies(r) \/ PluginReplies(r)
  PROVE  IInv'
  <1> USE DEF IInv
  <1>1. PICK p \in {[plugin EXCEPT !.waits = @ \ {r}],
                    [plugin EXCEPT !.waits = @ \ {r}, !.replies = @ \ {r}]} : Replied(r, p)
    BY DEF UserReplies, PluginReplies
  <1>2. /\ r \in server.asking /\ server' = [server EXCEPT !.asking = @ \ {r}]
        /\ UNCHANGED <<agent, shown, excuses, left>>
        /\ IF Loaded THEN Reacts(p) ELSE UNCHANGED <<plugin, net>>
    BY <1>1 DEF Replied
  <1>3. /\ p \in Instance /\ p.epoch = plugin.epoch /\ p.seq = plugin.seq /\ p.view = plugin.view
        /\ p.last = plugin.last /\ p.posted = plugin.posted
        /\ p.busy = plugin.busy /\ p.waits = plugin.waits \ {r}
        /\ p.replies \in {plugin.replies, plugin.replies \ {r}}
    <2>1. plugin \in Instance
      BY DEF TypeOK
    <2>2. CASE p = [plugin EXCEPT !.waits = @ \ {r}]
      BY <2>1, <2>2 DEF Instance
    <2>3. CASE p = [plugin EXCEPT !.waits = @ \ {r}, !.replies = @ \ {r}]
      BY <2>1, <2>3 DEF Instance
    <2> QED
      BY <1>1, <2>2, <2>3
  <1>4. /\ server' \in [busy : SUBSET Conversation, asking : SUBSET Asking,
                        gone : SUBSET Conversation]
        /\ server'.busy = server.busy /\ server'.asking = server.asking \ {r}
        /\ server'.gone = server.gone
    BY <1>2 DEF TypeOK
  <1>5. left' \in [Kind -> Nat]
    BY <1>2 DEF TypeOK
  <1>6. CASE Loaded
    <2>1. /\ plugin'.epoch = plugin.epoch
          /\ plugin'.busy = plugin.busy /\ plugin'.waits = plugin.waits \ {r}
          /\ plugin'.replies \in {plugin.replies, plugin.replies \ {r}}
          /\ plugin'.last = Doing(plugin'.busy, plugin'.waits, Family(shown') \ server'.gone)
      BY <1>2, <1>3, <1>6, ReactsFields
    <2>2. ServerSound'
      BY <1>2, <1>4, <2>1 DEF ServerSound, Loaded
    <2>3. Follows'
      BY <1>2, <1>4, <1>6, <2>1 DEF Follows, Loaded
    <2> QED
      BY <1>2, <1>3, <1>4, <1>5, <1>6, <2>2, <2>3, NewsStep
  <1>7. CASE ~ Loaded
    <2>1. ServerSound'
      BY <1>2, <1>4, <1>7 DEF ServerSound, Loaded
    <2>2. Follows'
      BY <1>2, <1>7 DEF Follows, Loaded
    <2> QED
      BY <1>2, <1>3, <1>4, <1>5, <1>7, <2>1, <2>2, NewsStep
  <1> QED
    BY <1>6, <1>7

(* The plugin leaves the request to the user.                              *)
LEMMA ReplyFailsStep ==
  ASSUME IInv, NEW r \in plugin.replies, ReplyFails(r)
  PROVE  IInv'
  <1> DEFINE p == [plugin EXCEPT !.replies = @ \ {r}, !.waits = @ \cup {r}]
  <1> USE DEF IInv
  <1>1. /\ UNCHANGED <<agent, shown, server>> /\ Reacts(p)
        /\ excuses' = {} => excuses = {} /\ r \in server.asking
    BY DEF ReplyFails, outside, Excuse
  <1>2. Loaded
    BY DEF ServerSound
  <1>3. left' \in [Kind -> Nat] /\ left'["works"] = left["works"]
    BY Spending DEF ReplyFails, Fine, TypeOK, Kind
  <1>4. r \in Asking
    BY DEF TypeOK, Instance
  <1>5. /\ p \in Instance /\ p.epoch = plugin.epoch /\ p.seq = plugin.seq /\ p.view = plugin.view
        /\ p.last = plugin.last /\ p.posted = plugin.posted
        /\ p.busy = plugin.busy /\ p.waits = plugin.waits \cup {r}
        /\ p.replies = plugin.replies \ {r}
    BY <1>4 DEF TypeOK, Instance
  <1> HIDE DEF p
  <1>6. /\ plugin'.epoch = plugin.epoch
        /\ plugin'.busy = plugin.busy /\ plugin'.waits = plugin.waits \cup {r}
        /\ plugin'.replies = plugin.replies \ {r}
        /\ plugin'.last = Doing(plugin'.busy, plugin'.waits, Family(shown') \ server'.gone)
    BY <1>1, <1>5, ReactsFields
  <1>7. ServerSound'
    BY <1>1, <1>2, <1>3, <1>6 DEF ServerSound, Loaded
  <1>8. Follows'
    BY <1>1, <1>6 DEF Follows, Loaded
  <1> QED
    BY <1>1, <1>2, <1>3, <1>5, <1>7, <1>8, NewsStep DEF TypeOK

(* What a conversation asked goes with it.                                 *)
LEMMA ConversationDeletedStep ==
  ASSUME IInv, NEW c \in Conversation, ConversationDeleted(c)
  PROVE  IInv'
  <1> DEFINE kept(requests) == {r \in requests : r.of # c}
             p == [plugin EXCEPT !.busy = @ \ {c}, !.waits = kept(@)]
  <1> USE DEF IInv
  <1>1. /\ server' = [busy |-> server.busy \ {c}, asking |-> kept(server.asking),
                      gone |-> server.gone \cup {c}]
        /\ Spend("works") /\ UNCHANGED <<agent, shown, excuses>>
        /\ IF Loaded THEN Reacts(p) ELSE UNCHANGED <<plugin, net>>
    BY DEF ConversationDeleted
  <1>2. left' \in [Kind -> Nat] /\ left'["works"] <= left["works"]
    BY <1>1, Spending DEF TypeOK, Kind
  <1>3. /\ p \in Instance /\ p.epoch = plugin.epoch /\ p.seq = plugin.seq /\ p.view = plugin.view
        /\ p.last = plugin.last /\ p.posted = plugin.posted
        /\ p.busy = plugin.busy \ {c} /\ p.waits = kept(plugin.waits)
        /\ p.replies = plugin.replies
    BY DEF TypeOK, Instance
  <1>4. /\ server' \in [busy : SUBSET Conversation, asking : SUBSET Asking,
                        gone : SUBSET Conversation]
        /\ server'.busy = server.busy \ {c} /\ server'.asking = kept(server.asking)
        /\ server'.gone = server.gone \cup {c}
    BY <1>1 DEF TypeOK
  <1> HIDE DEF p
  <1>5. CASE Loaded
    <2>1. /\ plugin'.epoch = plugin.epoch
          /\ plugin'.busy = plugin.busy \ {c} /\ plugin'.waits = kept(plugin.waits)
          /\ plugin'.replies = plugin.replies
          /\ plugin'.last = Doing(plugin'.busy, plugin'.waits, Family(shown') \ server'.gone)
      BY <1>1, <1>3, <1>5, ReactsFields
    <2>2. ServerSound'
      BY <1>1, <1>2, <1>4, <2>1, EventsStay DEF ServerSound, Loaded
    <2>3. Follows'
      BY <1>1, <1>4, <1>5, <2>1 DEF Follows, Loaded
    <2> QED
      BY <1>1, <1>2, <1>3, <1>4, <1>5, <2>2, <2>3, NewsStep
  <1>6. CASE ~ Loaded
    <2>1. ServerSound'
      BY <1>1, <1>2, <1>4, <1>6, EventsStay DEF ServerSound, Loaded
    <2>2. Follows'
      BY <1>1, <1>6 DEF Follows, Loaded
    <2> QED
      BY <1>1, <1>2, <1>3, <1>4, <1>6, <2>1, <2>2, NewsStep
  <1> QED
    BY <1>5, <1>6

------------------------------------------------------------------------------

(* Every step keeps the invariant.                                         *)
LEMMA EveryStep == IInv /\ [Next]_vars => IInv'
  <1> SUFFICES ASSUME IInv, [Next]_vars
               PROVE  IInv'
    OBVIOUS
  <1>1. CASE Plugin
    BY <1>1, LoadStep, ObserveRouteStep, SendingStep, ReportFailsStep DEF Plugin
  <1>2. CASE RecordPane
    BY <1>2, RecordPaneStep
  <1>3. CASE Navigate
    BY <1>3, NavigateStep
  <1>4. ASSUME NEW m \in net, Daemon(m) \/ Lose(m)
        PROVE  IInv'
    BY <1>4, ReportStep, OtherServed, ActivityStep, LoseStep DEF Daemon
  <1>5. ASSUME NEW c \in Conversation, OpenCode(c)
        PROVE  IInv'
    BY <1>5, ExecutionStartsStep, ExecutionEndsStep, ConversationDeletedStep, AsksUserStep,
       AsksPluginStep, RepliesStep, ReplyFailsStep
    DEF OpenCode
  <1>6. CASE UNCHANGED vars
    BY <1>6 DEF vars, outside, IInv, TypeOK, Ordered, Before, UpTo, Told, ServerSound, Follows,
                Numbered, Delivered, Said, Loaded
  <1> QED
    BY <1>1, <1>2, <1>3, <1>4, <1>5, <1>6 DEF Next

(* IInv is an invariant.                                                   *)
THEOREM Inductive == Spec => []IInv
  <1>1. Init => IInv
    <2> SUFFICES ASSUME Init
                 PROVE  IInv
      OBVIOUS
    <2>1. TypeOK
      <3>1. /\ {Home, Nothing} \subseteq Route /\ Home # Nothing /\ Nothing \notin Conversation
        BY AgentReportsAssumption DEF Route, Home, Nothing
      <3>2. shown \in Route \ {Nothing}
        BY <3>1 DEF Init, Route
      <3>3. NoReport \in [seq : Nat, conversation : Route \ {Nothing}, view : Nat,
                          answer : {"none", "ok", "refused"}]
        BY <3>1 DEF NoReport
      <3>4. plugin \in Instance
        BY <3>1, <3>3 DEF Init, Instance
      <3>5. net \subseteq Message
        BY DEF Init, Message
      <3> QED
        BY <3>1, <3>2, <3>4, <3>5, AgentReportsAssumption DEF Init, TypeOK
    <2>2. Told = {} /\ Said = {}
      BY DEF Init, Told, Said
    <2>3. Ordered
      BY <2>2 DEF Init, Ordered, UpTo, Before
    <2> QED
      BY <2>1, <2>2, <2>3
      DEF Init, IInv, ServerSound, Follows, Numbered, Delivered, Loaded
  <1> QED
    BY <1>1, EveryStep, PTL DEF Spec

------------------------------------------------------------------------------
(* What it says                                                            *)

(* The variables have their types.                                         *)
THEOREM TypesHold == Spec => []TypeOK
  <1>1. IInv => TypeOK
    BY DEF IInv
  <1> QED
    BY <1>1, Inductive, PTL

(* The conversation a link leads to is never replaced by one that was on   *)
(* display earlier.                                                        *)
THEOREM ConversationNeverReturns == Spec => ConversationNeverGoesBack
  <1>1. IInv /\ [Next]_vars => [agent'.view >= agent.view]_vars
    <2> SUFFICES ASSUME IInv, [Next]_vars
                 PROVE  agent'.view >= agent.view
      OBVIOUS
    <2>1. agent.view \in Nat /\ agent.epoch \in Nat /\ agent.seq \in Nat
      BY DEF IInv, TypeOK
    <2>2. ASSUME NEW m \in net, ReportOpenCodeSession(m), ~ Stale(m)
          PROVE  agent'.view >= agent.view
      <3>1. m \in Told /\ m.epoch \in Nat /\ m.seq \in Nat /\ m.view \in Nat
        BY <2>2 DEF ReportOpenCodeSession, Told, IInv, TypeOK, Message
      <3>2. agent'.view = m.view
        BY <2>2 DEF ReportOpenCodeSession, IInv, TypeOK
      <3>3. Before(agent, m)
        BY <2>1, <2>2, <3>1 DEF Stale, Before
      <3> QED
        BY <2>1, <3>1, <3>2, <3>3 DEF IInv, Ordered
    <2>3. ASSUME NEW m \in net, ReportOpenCodeSession(m), Stale(m)
          PROVE  agent'.view >= agent.view
      BY <2>1, <2>3 DEF ReportOpenCodeSession
    <2>4. ASSUME NEW m \in net,
                 RefuseReport(m) \/ HandleStarted(m) \/ HandleActivity(m) \/ Lose(m)
          PROVE  agent'.view >= agent.view
      <3>1. agent'.view = agent.view
        BY <2>4 DEF RefuseReport, HandleStarted, HandleActivity, Lose, IInv, TypeOK
      <3> QED
        BY <2>1, <3>1
    <2>5. CASE Plugin \/ Navigate
      BY <2>1, <2>5 DEF Plugin, Load, ObserveRoute, RetryDue, AnswerArrives, ReportFails, Navigate
    <2>6. CASE RecordPane
      BY <2>1, <2>6 DEF RecordPane, IInv, TypeOK
    <2>7. ASSUME NEW c \in Conversation, OpenCode(c)
          PROVE  agent'.view >= agent.view
      <3>1. UNCHANGED agent
        BY <2>7
        DEF OpenCode, ExecutionStarts, ExecutionEnds, ConversationDeleted, AsksUser, AsksPlugin,
            Asked, UserReplies, PluginReplies, Replied, ReplyFails
      <3> QED
        BY <2>1, <3>1
    <2>8. CASE UNCHANGED vars
      BY <2>1, <2>8 DEF vars
    <2> QED
      BY <2>2, <2>3, <2>4, <2>5, <2>6, <2>7, <2>8 DEF Next, Daemon
  <1> QED
    BY <1>1, Inductive, PTL DEF Spec, ConversationNeverGoesBack

(* When all is said, the status of the Agent is that of the conversation   *)
(* on display and those below it.                                          *)
THEOREM StatusIsAlwaysTrue == Spec => []StatusIsTrue
  <1>1. IInv => StatusIsTrue
    <2> SUFFICES ASSUME IInv, Loaded, plugin.replies = {}, excuses = {},
                        \A m \in net : m.kind = "identity"
                 PROVE  agent.status = Doing(server.busy, server.asking, Family(shown))
      BY DEF StatusIsTrue
    <2>1. Said = {}
      BY DEF Said
    <2>2. agent.status = plugin.last
      BY <2>1 DEF IInv, Delivered
    <2>3. /\ plugin.waits = {r \in server.asking : r.of \in Family(shown)}
          /\ plugin.busy = server.busy \cap Family(shown)
          /\ plugin.last = Doing(plugin.busy, plugin.waits, Family(shown) \ server.gone)
      BY DEF IInv, Follows
    <2>4. /\ \A r \in server.asking : r.of \notin server.gone
          /\ server.busy \cap server.gone = {}
      BY DEF IInv, ServerSound, Loaded
    <2> QED
      BY <2>2, <2>3, <2>4 DEF Doing
  <1> QED
    BY <1>1, Inductive, PTL
==============================================================================
