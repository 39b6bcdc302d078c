------------------------- MODULE TerminalClientProofs -------------------------
(***************************************************************************)
(* What the terminal client was told stays told, for every set of records, *)
(* habits and bounds: no listing that counts can put an older state back,  *)
(* and a notification stays on the screen.  What makes it inductive is     *)
(* that a listing restarts, or is dropped, in the very step that tells the *)
(* client something, and that a prompt for a notification takes only the   *)
(* answers to its own sequence number, of which none is older than what    *)
(* the client has been told since.                                         *)
(*                                                                         *)
(* And the name of a quick prompt reaches the Agent made for it, as long   *)
(* as Agents are created one after the other.  What makes that inductive   *)
(* is that there is one creation under way for an open prompt, that until  *)
(* its name is given nothing else can name its Agent, and that from then   *)
(* on the name is in the prompt, in a renaming under way, or in the Agent. *)
(***************************************************************************)
EXTENDS TerminalClient, TLAPS

Lists == {"projects", "sessions", "agents", "recent"}

(* The records have the fields that the steps change.                      *)
Recorded(d) ==
  /\ DOMAIN d = DOMAIN World
  /\ \A a \in DOMAIN d.agents :
       DOMAIN d.agents[a] = {"project", "session", "rank", "name", "armed", "of"}
Shaped ==
  /\ Recorded(daemon)
  /\ DOMAIN shown = Lists /\ DOMAIN list.copy = Lists
  /\ DOMAIN form = DOMAIN Closed /\ DOMAIN form.discord = DOMAIN Closed.discord
  /\ form.discord.seq \in Int

(* What the client was told is so, and only Agents have names and          *)
(* notifications.                                                          *)
Sensible(claim) ==
  \/ claim.kind \in {"gone", "made"}
  \/ claim.kind \in {"named", "armed"} /\ claim.row[1] = "agent"
TrueClaims == \A claim \in acked : Sensible(claim) /\ Holds(daemon, claim)

(* An answer about a notification says what was asked; a request is not    *)
(* newer than the prompt; and what the prompt still waits for has not been *)
(* contradicted since.                                                     *)
Answered(c) == c.ask.kind = "discord" /\ c.answer.code = "ok"
Awaited(c) == form.discord.on /\ c.ask.seq = form.discord.seq
Truthful == \A c \in BagToSet(calls) : Answered(c) => c.answer.record.armed = c.ask.enable
Sequenced ==
  \A c \in BagToSet(calls) :
    /\ DOMAIN c = {"ask", "answer"}
    /\ c.ask.kind = "discord" => c.ask.seq \in Int /\ c.ask.seq <= form.discord.seq
Current ==
  \A c \in BagToSet(calls) : Answered(c) /\ Awaited(c) =>
    \A claim \in acked :
      claim.kind = "armed" /\ claim.row[2] = c.ask.id => claim.value = c.ask.enable

(* The inductive invariant.                                                *)
IInv == Shaped /\ TrueClaims /\ Truthful /\ Sequenced /\ Current /\ AcknowledgedStays

------------------------------------------------------------------------------
(* Requests under way: one more, one less.                                 *)

LEMMA OneMore ==
  ASSUME NEW bag, NEW x
  PROVE  BagToSet(bag (+) SetToBag({x})) \subseteq BagToSet(bag) \cup {x}
BY DEF BagToSet, (+), SetToBag

LEMMA OneLess ==
  ASSUME NEW bag, NEW x
  PROVE  BagToSet(bag (-) SetToBag({x})) \subseteq BagToSet(bag)
BY DEF BagToSet, (-), SetToBag

------------------------------------------------------------------------------
(* What the daemon does to its records.                                    *)

LEMMA DropAgentsRecorded ==
  ASSUME NEW d, Recorded(d), NEW gone
  PROVE  Recorded(DropAgents(d, gone))
<1> DEFINE recent == SelectSeq(d.recent, LAMBDA a : a \notin gone)
           agents == [a \in DOMAIN d.agents \ gone |-> d.agents[a]]
           new == [d EXCEPT !.agents = agents, !.recent = recent]
<1> HIDE DEF recent
<1>1. DOMAIN new = DOMAIN World /\ new.agents = agents
  BY WorldAssumption DEF Recorded
<1>2. \A a \in DOMAIN agents : agents[a] = d.agents[a] /\ a \in DOMAIN d.agents
  OBVIOUS
<1>3. DropAgents(d, gone) = new
  BY DEF DropAgents, recent
<1> HIDE DEF new, agents
<1>4. Recorded(new)
  BY <1>1, <1>2 DEF Recorded
<1>5. QED
  BY <1>3, <1>4

(* A change of another part of the records.                                *)
LEMMA ElsewhereRecorded ==
  ASSUME NEW d, Recorded(d), NEW value
  PROVE  /\ Recorded([d EXCEPT !.sessions = value])
         /\ Recorded([d EXCEPT !.projects = value])
         /\ Recorded([d EXCEPT !.worktrees = value])
         /\ Recorded([d EXCEPT !.branches = value])
         /\ Recorded([d EXCEPT !.recent = value])
         /\ Recorded([d EXCEPT !.nextSession = value])
         /\ Recorded([d EXCEPT !.nextAgent = value])
BY WorldAssumption DEF Recorded

LEMMA RemovedRecorded ==
  ASSUME NEW d, Recorded(d), NEW what
  PROVE  Recorded(Removed(d, what))
<1>1. ASSUME NEW gone PROVE Recorded(DropSessions(d, gone))
  <2>1. Recorded(DropAgents(d, {a \in DOMAIN d.agents : d.agents[a].session \in gone}))
    BY DropAgentsRecorded
  <2>2. QED
    BY <2>1, ElsewhereRecorded DEF DropSessions
<1>2. ASSUME NEW s PROVE Recorded(DeleteSession(d, s))
  <2>1. Recorded(DropSessions(d, {s} \cup Below(d, s)))
    BY <1>1
  <2>2. QED
    BY <2>1, ElsewhereRecorded DEF DeleteSession
<1>3. ASSUME NEW p PROVE Recorded(DeleteProject(d, p))
  <2>1. Recorded(DropSessions(d, {s \in DOMAIN d.sessions : d.sessions[s].project = p}))
    BY <1>1
  <2>2. QED
    BY <2>1, ElsewhereRecorded DEF DeleteProject
<1>4. QED
  BY <1>2, <1>3, DropAgentsRecorded DEF Removed

LEMMA AddSessionRecorded ==
  ASSUME NEW d, Recorded(d), NEW project, NEW type, NEW parent, NEW branch
  PROVE  Recorded(AddSession(d, project, type, parent, branch))
<1> DEFINE added == Added(d.sessions, d.nextSession,
              [project |-> project, type |-> type, parent |-> parent, branch |-> branch])
<1>1. AddSession(d, project, type, parent, branch)
        = [d EXCEPT !.sessions = added, !.nextSession = d.nextSession + 1]
  BY DEF AddSession
<1> HIDE DEF added
<1>2. QED
  BY <1>1, WorldAssumption DEF Recorded

LEMMA AddAgentRecorded ==
  ASSUME NEW d, Recorded(d), NEW ask
  PROVE  Recorded(AddAgent(d, ask))
<1> DEFINE agent == [project |-> d.sessions[ask.session].project, session |-> ask.session,
                     rank |-> 4,
                     name |-> ask.name, armed |-> FALSE, of |-> ask.prompt]
           agents == Added(d.agents, d.nextAgent, agent)
           recent == <<d.nextAgent>> \o d.recent
           new == [d EXCEPT !.agents = agents, !.recent = recent, !.nextAgent = d.nextAgent + 1]
<1>1. AddAgent(d, ask) = new
  BY DEF AddAgent
<1>2. DOMAIN agent = {"project", "session", "rank", "name", "armed", "of"}
  OBVIOUS
<1> HIDE DEF agent
<1>3. \A a \in DOMAIN agents :
        agents[a] = agent \/ (a \in DOMAIN d.agents /\ agents[a] = d.agents[a])
  <2>1. agents = [i \in DOMAIN d.agents \cup {d.nextAgent} |->
                    IF i = d.nextAgent THEN agent ELSE d.agents[i]]
    BY DEF Added
  <2> HIDE DEF agents
  <2>2. QED
    BY <2>1
<1> HIDE DEF agents, recent
<1>4. DOMAIN new = DOMAIN World /\ new.agents = agents
  BY WorldAssumption DEF Recorded
<1> HIDE DEF new
<1>5. Recorded(new)
  BY <1>2, <1>3, <1>4 DEF Recorded
<1>6. QED
  BY <1>1, <1>5

(* One field of one Agent.                                                 *)
LEMMA ChangedAgentRecorded ==
  ASSUME NEW d, Recorded(d), NEW a \in DOMAIN d.agents, NEW agent,
         DOMAIN agent = DOMAIN d.agents[a],
         NEW new, new = [d EXCEPT !.agents = [d.agents EXCEPT ![a] = agent]]
  PROVE  Recorded(new) /\ a \in DOMAIN new.agents /\ new.agents[a] = agent
<1> DEFINE agents == [d.agents EXCEPT ![a] = agent]
<1>1. DOMAIN agents = DOMAIN d.agents /\ agents[a] = agent
      /\ \A b \in DOMAIN agents : DOMAIN agents[b] = DOMAIN d.agents[b]
  OBVIOUS
<1>2. new = [d EXCEPT !.agents = agents]
  OBVIOUS
<1> HIDE DEF agents
<1>3. DOMAIN new = DOMAIN World /\ new.agents = agents
  BY <1>2, WorldAssumption DEF Recorded
<1>4. QED
  BY <1>1, <1>3 DEF Recorded

(* Whatever the daemon is asked, its records keep their fields, and of a   *)
(* notification it answers with what it has set.                           *)
LEMMA EffectRecorded ==
  ASSUME NEW d, Recorded(d), NEW ask, NEW effect, effect = Effect(d, ask)
  PROVE  /\ Recorded(effect[1])
         /\ ask.kind = "discord" /\ effect[2].code = "ok" =>
              /\ ask.id \in DOMAIN effect[1].agents
              /\ effect[1].agents[ask.id].armed = ask.enable
              /\ effect[2].record.armed = ask.enable
<1>1. ASSUME NEW code PROVE Refused(d, code)[1] = d /\ Refused(d, code)[2].code = code
  BY DEF Refused, Error, Answer
<1>2. CASE ask.kind = "delete"
  <2>1. effect = Delete(d, ask)
    BY <1>2 DEF Effect
  <2>2. QED
    BY <1>1, <1>2, <2>1, RemovedRecorded DEF Delete
<1>3. CASE ask.kind = "secondary"
  <2>1. effect = CreateSecondary(d, ask)
    BY <1>3 DEF Effect
  <2>2. QED
    BY <1>1, <1>3, <2>1, AddSessionRecorded DEF CreateSecondary, Made
<1>4. CASE ask.kind = "worktree"
  <2>1. effect = CreateWorktree(d, ask)
    BY <1>4 DEF Effect
  <2>2. Recorded(AddWorktree(d, ask))
    <3> DEFINE main == ask.parent # 0 /\ d.sessions[ask.parent].type = "main"
               added == AddSession(d, ask.project, "worktree", IF main THEN 0 ELSE ask.parent,
                                   ask.branch)
    <3>1. Recorded(added)
      BY AddSessionRecorded
    <3>2. AddWorktree(d, ask) = [added EXCEPT !.branches = added.branches \cup {ask.branch},
                                              !.worktrees = added.worktrees \cup {ask.branch}]
      BY DEF AddWorktree
    <3> HIDE DEF added
    <3>3. QED
      BY <3>1, <3>2, WorldAssumption DEF Recorded
  <2>3. QED
    BY <1>1, <1>4, <2>1, <2>2 DEF CreateWorktree, Made
<1>5. CASE ask.kind = "agent"
  <2>1. effect = CreateAgent(d, ask)
    BY <1>5 DEF Effect
  <2>2. QED
    BY <1>1, <1>5, <2>1, AddAgentRecorded DEF CreateAgent, Changed
<1>6. CASE ask.kind = "rename"
  <2>1. effect = RenameAgent(d, ask)
    BY <1>6 DEF Effect
  <2>2. CASE ask.id \in DOMAIN d.agents
    <3> DEFINE agent == [d.agents[ask.id] EXCEPT !.name = ask.name]
               new == [d EXCEPT !.agents = [d.agents EXCEPT ![ask.id] = agent]]
    <3>1. effect = Changed(new, ask.id)
      BY <2>1, <2>2 DEF RenameAgent
    <3>2. DOMAIN agent = DOMAIN d.agents[ask.id]
      OBVIOUS
    <3> HIDE DEF agent
    <3>3. Recorded(new)
      BY <2>2, <3>2, ChangedAgentRecorded
    <3> HIDE DEF new
    <3>4. QED
      BY <1>6, <3>1, <3>3 DEF Changed
  <2>3. CASE ask.id \notin DOMAIN d.agents
    BY <1>1, <1>6, <2>1, <2>3 DEF RenameAgent
  <2>4. QED
    BY <2>2, <2>3
<1>7. CASE ask.kind \notin {"delete", "secondary", "worktree", "agent", "rename"}
  <2>1. effect = SetDiscordNotification(d, ask)
    BY <1>7 DEF Effect
  <2>2. CASE ask.id \in DOMAIN d.agents
    <3> DEFINE agent == [d.agents[ask.id] EXCEPT !.armed = ask.enable]
               new == [d EXCEPT !.agents = [d.agents EXCEPT ![ask.id] = agent]]
    <3>1. effect = Changed(new, ask.id)
      BY <2>1, <2>2 DEF SetDiscordNotification
    <3>2. DOMAIN agent = DOMAIN d.agents[ask.id] /\ agent.armed = ask.enable
      BY <2>2 DEF Recorded
    <3> HIDE DEF agent
    <3>3. Recorded(new) /\ new.agents[ask.id] = agent /\ ask.id \in DOMAIN new.agents
      BY <2>2, <3>2, ChangedAgentRecorded
    <3> HIDE DEF new
    <3>4. effect[1] = new /\ effect[2].record = new.agents[ask.id]
      BY <3>1 DEF Changed, Answer
    <3>5. QED
      BY <3>2, <3>3, <3>4
  <2>3. CASE ask.id \notin DOMAIN d.agents
    BY <1>1, <2>1, <2>3 DEF SetDiscordNotification
  <2>4. QED
    BY <2>2, <2>3
<1>8. QED
  BY <1>2, <1>3, <1>4, <1>5, <1>6, <1>7

------------------------------------------------------------------------------
(* The steps that tell the client nothing: the daemon, the copy and what   *)
(* was told stay, the listing goes on or restarts, and the prompt for a    *)
(* notification waits for what it waited for.                              *)
PromptStaysOpen ==
  /\ DOMAIN form' = DOMAIN form /\ DOMAIN form'.discord = DOMAIN form.discord
  /\ form'.discord.on = form.discord.on /\ form'.discord.seq = form.discord.seq
AsksElsewhere ==
  \A c \in BagToSet(calls') :
    \/ c \in BagToSet(calls)
    \/ DOMAIN c = {"ask", "answer"} /\ c.answer = NoAnswer /\ c.ask.kind # "discord"
Quietly ==
  /\ UNCHANGED <<daemon, shown, acked>>
  /\ list' = list \/ list' = NewListing
  /\ PromptStaysOpen /\ AsksElsewhere

LEMMA NewListingShape ==
  /\ DOMAIN NewListing.copy = Lists /\ NewListing.at = "projects"
  /\ DOMAIN NoListing.copy = Lists /\ NoListing.at = "none"
BY DEF NewListing, NoListing, NoCopy, Lists

LEMMA NoAnswerIsNone == ASSUME NEW c, c.answer = NoAnswer PROVE ~ Answered(c)
BY DEF Answered, NoAnswer, Answer

(* Of requests and prompt, what the invariant says stays when nothing more *)
(* is told about notifications.                                            *)
LEMMA RequestsStay ==
  ASSUME Truthful, Sequenced, Current, PromptStaysOpen, AsksElsewhere,
         \A claim \in acked' : claim \in acked \/ claim.kind # "armed"
  PROVE  Truthful' /\ Sequenced' /\ Current'
<1>1. ASSUME NEW c \in BagToSet(calls')
      PROVE  \/ c \in BagToSet(calls)
             \/ DOMAIN c = {"ask", "answer"} /\ ~ Answered(c) /\ c.ask.kind # "discord"
  BY NoAnswerIsNone DEF AsksElsewhere
<1>2. Truthful'
  BY <1>1 DEF Truthful, Answered
<1>3. Sequenced'
  BY <1>1 DEF Sequenced, PromptStaysOpen
<1>4. Current'
  BY <1>1 DEF Current, Answered, Awaited, PromptStaysOpen
<1>5. QED
  BY <1>2, <1>3, <1>4

LEMMA QuietStep == IInv /\ Quietly => IInv'
<1> SUFFICES ASSUME IInv, Quietly PROVE IInv'
  OBVIOUS
<1>1. daemon' = daemon /\ shown' = shown /\ acked' = acked
  BY DEF Quietly
<1>2. Shaped'
  BY <1>1, NewListingShape DEF IInv, Shaped, Recorded, Quietly, PromptStaysOpen
<1>3. TrueClaims'
  BY <1>1 DEF IInv, TrueClaims, Sensible, Holds, Exists
<1>4. AcknowledgedStays'
  <2>1. CASE list' = list
    BY <1>1, <2>1 DEF IInv, AcknowledgedStays, Holds, Exists
  <2>2. CASE list' = NewListing
    BY <1>1, <2>2, NewListingShape DEF IInv, AcknowledgedStays, Holds, Exists
  <2>3. QED
    BY <2>1, <2>2 DEF Quietly
<1>5. Truthful' /\ Sequenced' /\ Current'
  BY <1>1, RequestsStay DEF IInv, Quietly
<1>6. QED
  BY <1>2, <1>3, <1>4, <1>5 DEF IInv

(* The steps that tell it something, and restart the listing.              *)
Telling(claim) ==
  /\ UNCHANGED <<daemon, shown>>
  /\ Told(claim) /\ list' = NewListing
  /\ PromptStaysOpen /\ AsksElsewhere

LEMMA TellingStep ==
  ASSUME IInv, NEW claim, Telling(claim), Sensible(claim), claim.kind # "armed"
  PROVE  IInv'
<1>1. daemon' = daemon /\ shown' = shown /\ list' = NewListing
  BY DEF Telling
<1>2. \A other \in acked' : other \in acked \/ (other = claim /\ Holds(daemon, claim))
  BY DEF Telling, Told
<1>3. Shaped'
  BY <1>1, NewListingShape DEF IInv, Shaped, Recorded, Telling, PromptStaysOpen
<1>4. TrueClaims'
  BY <1>1, <1>2 DEF IInv, TrueClaims, Sensible, Holds, Exists
<1>5. AcknowledgedStays'
  BY <1>1, <1>2, NewListingShape DEF IInv, AcknowledgedStays, Holds, Exists
<1>6. Truthful' /\ Sequenced' /\ Current'
  BY <1>2, RequestsStay DEF IInv, Telling
<1>7. QED
  BY <1>3, <1>4, <1>5, <1>6 DEF IInv

------------------------------------------------------------------------------
(* The daemon                                                              *)

(* A change of the records takes back what it contradicts; the copies the  *)
(* client holds are as good as they were.                                  *)
LEMMA RecordsChange ==
  ASSUME IInv, Recorded(daemon)', acked' = {claim \in acked : Holds(daemon', claim)},
         shown' = shown, list' = list, form' = form,
         Truthful', Sequenced', Current'
  PROVE  IInv'
<1>1. Shaped'
  BY DEF IInv, Shaped
<1>2. TrueClaims'
  <2>1. \A claim \in acked' : Sensible(claim) /\ Holds(daemon', claim)
    BY DEF IInv, TrueClaims
  <2>2. QED
    BY <2>1 DEF TrueClaims, Sensible, Holds, Exists
<1>3. AcknowledgedStays'
  BY DEF IInv, AcknowledgedStays, Holds, Exists
<1>4. QED
  BY <1>1, <1>2, <1>3 DEF IInv

LEMMA ServeStep == IInv /\ Serve => IInv'
<1> SUFFICES ASSUME IInv, Serve PROVE IInv'
  OBVIOUS
<1>1. PICK c \in BagToSet(calls) :
        \E effect \in Outcomes(daemon, c.ask) :
          /\ daemon' = effect[1]
          /\ calls' = (calls (-) SetToBag({c})) (+) SetToBag({[c EXCEPT !.answer = effect[2]]})
  BY DEF Serve
<1>2. PICK effect \in Outcomes(daemon, c.ask) :
        /\ daemon' = effect[1]
        /\ calls' = (calls (-) SetToBag({c})) (+) SetToBag({[c EXCEPT !.answer = effect[2]]})
  BY <1>1
<1> DEFINE served == [c EXCEPT !.answer = effect[2]]
<1>3. /\ acked' = {claim \in acked : Holds(daemon', claim)}
      /\ shown' = shown /\ list' = list /\ form' = form
  BY DEF Serve
<1>4. \A d : Refused(d, "failed")[1] = d /\ Refused(d, "failed")[2].code = "failed"
  BY DEF Refused, Error, Answer
<1>5. Recorded(effect[1])
  <2>1. Recorded(daemon) /\ Recorded(Effect(daemon, c.ask)[1])
    BY EffectRecorded DEF IInv, Shaped
  <2>2. effect[1] \in {daemon, Effect(daemon, c.ask)[1]}
    BY <1>2, <1>4 DEF Outcomes
  <2>3. QED
    BY <2>1, <2>2
<1>6. c.ask.kind = "discord" /\ effect[2].code = "ok" =>
        /\ c.ask.id \in DOMAIN daemon'.agents
        /\ daemon'.agents[c.ask.id].armed = c.ask.enable
        /\ effect[2].record.armed = c.ask.enable
  <2>1. Recorded(daemon)
    BY DEF IInv, Shaped
  <2>2. CASE effect = Effect(daemon, c.ask)
    <3>1. c.ask.kind = "discord" /\ effect[2].code = "ok" =>
            /\ c.ask.id \in DOMAIN effect[1].agents
            /\ effect[1].agents[c.ask.id].armed = c.ask.enable
            /\ effect[2].record.armed = c.ask.enable
      <4> DEFINE ask == c.ask
      <4>1. effect = Effect(daemon, ask)
        BY <2>2
      <4> HIDE DEF ask
      <4>2. ask.kind = "discord" /\ effect[2].code = "ok" =>
              /\ ask.id \in DOMAIN effect[1].agents
              /\ effect[1].agents[ask.id].armed = ask.enable
              /\ effect[2].record.armed = ask.enable
        BY <2>1, <4>1, EffectRecorded
      <4>3. QED
        BY <4>2 DEF ask
    <3>2. QED
      BY <1>2, <3>1
  <2>3. CASE effect[2].code = "failed"
    BY <2>3
  <2>4. QED
    BY <1>4, <2>2, <2>3 DEF Outcomes
<1>7. /\ DOMAIN served = {"ask", "answer"} /\ served.ask = c.ask /\ served.answer = effect[2]
      /\ calls' = (calls (-) SetToBag({c})) (+) SetToBag({served})
  BY <1>2 DEF IInv, Sequenced
<1> HIDE DEF served
<1>8. \A x \in BagToSet(calls') : x \in BagToSet(calls) \/ x = served
  <2> DEFINE rest == calls (-) SetToBag({c})
  <2>1. BagToSet(rest) \subseteq BagToSet(calls)
    BY OneLess
  <2>2. calls' = rest (+) SetToBag({served})
    BY <1>7
  <2> HIDE DEF rest
  <2>3. BagToSet(calls') \subseteq BagToSet(rest) \cup {served}
    BY <2>2, OneMore
  <2>4. QED
    BY <2>1, <2>3
<1>9. Recorded(daemon)'
  BY <1>2, <1>5 DEF Recorded
<1>10. Truthful'
  BY <1>6, <1>7, <1>8 DEF IInv, Truthful, Answered
<1>11. Sequenced'
  BY <1>1, <1>3, <1>7, <1>8 DEF IInv, Sequenced
<1>12. Current'
  <2>1. ASSUME NEW x \in BagToSet(calls'), Answered(x), Awaited(x),
               NEW claim \in acked', claim.kind = "armed", claim.row[2] = x.ask.id
        PROVE  claim.value = x.ask.enable
    <3>1. claim \in acked /\ Holds(daemon', claim) /\ claim.row[1] = "agent"
      BY <1>3, <2>1 DEF IInv, TrueClaims, Sensible
    <3>2. CASE x \in BagToSet(calls)
      BY <2>1, <3>1, <3>2 DEF IInv, Current
    <3>3. CASE x = served
      <4>1. /\ x.ask.id \in DOMAIN daemon'.agents
            /\ daemon'.agents[x.ask.id].armed = x.ask.enable
        BY <1>6, <1>7, <2>1, <3>3 DEF Answered
      <4>2. QED
        BY <2>1, <3>1, <4>1 DEF Holds, Exists
    <3>4. QED
      BY <1>8, <3>2, <3>3
  <2>2. QED
    BY <1>3, <2>1 DEF Current, Answered, Awaited
<1>13. QED
  BY <1>3, <1>9, <1>10, <1>11, <1>12, RecordsChange

LEMMA OutsideStep ==
  ASSUME IInv, NEW gesture, NEW new, Outside(gesture, new), Recorded(new)
  PROVE  IInv'
<1>1. /\ acked' = {claim \in acked : Holds(daemon', claim)} /\ daemon' = new
      /\ shown' = shown /\ list' = list /\ form' = form /\ calls' = calls
  BY DEF Outside
<1>2. PromptStaysOpen /\ AsksElsewhere
  BY <1>1 DEF PromptStaysOpen, AsksElsewhere
<1>3. Truthful' /\ Sequenced' /\ Current'
  BY <1>1, <1>2, RequestsStay DEF IInv
<1>4. Recorded(daemon)'
  BY <1>1 DEF Recorded
<1>5. QED
  BY <1>1, <1>3, <1>4, RecordsChange

LEMMA ReportedRecorded ==
  ASSUME NEW d, Recorded(d), NEW a \in DOMAIN d.agents, NEW rank
  PROVE  Recorded(Reported(d, a, rank))
<1> DEFINE agent == [d.agents[a] EXCEPT !.rank = rank, !.armed = d.agents[a].armed /\ rank # 1]
           recent == IF rank = d.agents[a].rank THEN d.recent
                     ELSE <<a>> \o SelectSeq(d.recent, LAMBDA b : b # a)
           agents == [d.agents EXCEPT ![a] = agent]
           moved == [d EXCEPT !.agents = agents]
<1>1. Reported(d, a, rank) = [d EXCEPT !.agents = agents, !.recent = recent]
  BY DEF Reported
<1>2. DOMAIN agent = DOMAIN d.agents[a]
  OBVIOUS
<1> HIDE DEF agent
<1>3. Recorded(moved)
  BY <1>2, ChangedAgentRecorded
<1> HIDE DEF agents, recent
<1>4. [moved EXCEPT !.recent = recent] = [d EXCEPT !.agents = agents, !.recent = recent]
  BY WorldAssumption DEF Recorded
<1> HIDE DEF moved
<1>5. Recorded([moved EXCEPT !.recent = recent])
  BY <1>3, ElsewhereRecorded
<1> HIDE DEF Recorded
<1>6. QED
  BY <1>1, <1>4, <1>5

LEMMA OthersStep == IInv /\ (StatusChanges \/ AgentEnds \/ SessionGoes) => IInv'
<1> SUFFICES ASSUME IInv, StatusChanges \/ AgentEnds \/ SessionGoes PROVE IInv'
  OBVIOUS
<1>1. Recorded(daemon)
  BY DEF IInv, Shaped
<1>2. CASE AgentEnds
  BY <1>1, <1>2, RemovedRecorded, OutsideStep DEF AgentEnds
<1>3. CASE SessionGoes
  BY <1>1, <1>3, RemovedRecorded, OutsideStep DEF SessionGoes
<1>4. CASE StatusChanges
  BY <1>1, <1>4, ReportedRecorded, OutsideStep DEF StatusChanges
<1>5. QED
  BY <1>2, <1>3, <1>4

------------------------------------------------------------------------------
(* The listing                                                             *)

LEMMA ListingStep ==
  ASSUME IInv, ReadProjects \/ ReadSessions \/ ReadAgents \/ Tick
  PROVE  IInv'
<1>1. PICK at, copy : /\ list' = [at |-> at, copy |-> copy]
                      /\ \/ /\ list.at = "projects" /\ at = "sessions"
                            /\ copy = [list.copy EXCEPT !.projects = daemon.projects]
                         \/ /\ list.at = "sessions" /\ at = "agents"
                            /\ copy = [list.copy EXCEPT !.sessions = daemon.sessions]
                         \/ /\ list.at = "agents" /\ at = "read"
                            /\ copy = [list.copy EXCEPT !.agents = daemon.agents,
                                                        !.recent = daemon.recent]
                         \/ at = "projects" /\ copy = NoCopy
  BY DEF ReadProjects, ReadSessions, ReadAgents, Tick, Listing
<1>2. UNCHANGED <<daemon, shown, form, calls, acked>>
  BY DEF ReadProjects, ReadSessions, ReadAgents, Tick, Listing, history
<1>3. DOMAIN list.copy = Lists
  BY DEF IInv, Shaped
<1>4. DOMAIN copy = Lists
  BY <1>1, <1>3 DEF NoCopy, Lists
<1>5. Shaped'
  BY <1>1, <1>2, <1>4 DEF IInv, Shaped, Recorded
<1>6. TrueClaims' /\ Truthful' /\ Sequenced' /\ Current'
  BY <1>2 DEF IInv, TrueClaims, Sensible, Holds, Exists, Truthful, Sequenced, Current,
              Answered, Awaited
<1>7. ASSUME NEW claim \in acked,
             \/ at = "read"
             \/ at = "agents" /\ claim.row[1] = "session"
             \/ at \in {"agents", "sessions"} /\ claim.row[1] = "project"
      PROVE  Holds(copy, claim)
  <2>1. Holds(daemon, claim) /\ Sensible(claim)
    BY DEF IInv, TrueClaims
  <2>2. CASE list.at = "projects" /\ at = "sessions"
    <3>1. copy.projects = daemon.projects /\ claim.row[1] = "project"
      BY <1>1, <1>3, <1>7, <2>2 DEF Lists
    <3>2. QED
      BY <2>1, <3>1 DEF Holds, Exists, Sensible
  <2>3. CASE list.at = "sessions" /\ at = "agents"
    <3>1. copy.projects = list.copy.projects /\ copy.sessions = daemon.sessions
      BY <1>1, <1>3, <2>3 DEF Lists
    <3>2. CASE claim.row[1] = "session"
      BY <2>1, <3>1, <3>2 DEF Holds, Exists, Sensible
    <3>3. CASE claim.row[1] = "project"
      <4>1. Holds(list.copy, claim)
        BY <2>3, <3>3 DEF IInv, AcknowledgedStays
      <4>2. QED
        BY <2>1, <3>1, <3>3, <4>1 DEF Holds, Exists, Sensible
    <3>4. QED
      BY <1>7, <2>3, <3>2, <3>3
  <2>4. CASE list.at = "agents" /\ at = "read"
    <3>1. /\ copy.projects = list.copy.projects /\ copy.sessions = list.copy.sessions
          /\ copy.agents = daemon.agents
      BY <1>1, <1>3, <2>4 DEF Lists
    <3>2. CASE claim.row[1] \in {"session", "project"}
      <4>1. Holds(list.copy, claim)
        BY <2>4, <3>2 DEF IInv, AcknowledgedStays
      <4>2. QED
        BY <2>1, <3>1, <3>2, <4>1 DEF Holds, Exists, Sensible
    <3>3. CASE claim.row[1] \notin {"session", "project"}
      BY <2>1, <3>1, <3>3 DEF Holds, Exists
    <3>4. QED
      BY <3>2, <3>3
  <2>5. QED
    BY <1>1, <1>7, <2>2, <2>3, <2>4
<1>8. AcknowledgedStays'
  BY <1>1, <1>2, <1>7 DEF IInv, AcknowledgedStays, Holds, Exists
<1>9. QED
  BY <1>5, <1>6, <1>8 DEF IInv

LEMMA ListReplyStep == IInv /\ ListReply => IInv'
<1> SUFFICES ASSUME IInv, ListReply PROVE IInv'
  OBVIOUS
<1>1. /\ list.at = "read" /\ list' = NoListing /\ shown' = list.copy
      /\ UNCHANGED <<daemon, form, calls, acked>>
  BY DEF ListReply, TakeCopy, history
<1>2. Shaped'
  BY <1>1, NewListingShape DEF IInv, Shaped, Recorded
<1>3. TrueClaims' /\ Truthful' /\ Sequenced' /\ Current'
  BY <1>1 DEF IInv, TrueClaims, Sensible, Holds, Exists, Truthful, Sequenced, Current,
              Answered, Awaited
<1>4. AcknowledgedStays'
  BY <1>1, NewListingShape DEF IInv, AcknowledgedStays, Holds, Exists
<1>5. QED
  BY <1>2, <1>3, <1>4 DEF IInv

LEMMA ListFailsStep == IInv /\ ListFails => IInv'
<1> SUFFICES ASSUME IInv, ListFails PROVE IInv'
  OBVIOUS
<1>1. list' = NoListing /\ UNCHANGED <<daemon, shown, form, calls, acked>>
  BY DEF ListFails, history
<1>2. Shaped'
  BY <1>1, NewListingShape DEF IInv, Shaped, Recorded
<1>3. TrueClaims' /\ Truthful' /\ Sequenced' /\ Current'
  BY <1>1 DEF IInv, TrueClaims, Sensible, Holds, Exists, Truthful, Sequenced, Current,
              Answered, Awaited
<1>4. AcknowledgedStays'
  BY <1>1, NewListingShape DEF IInv, AcknowledgedStays, Holds, Exists
<1>5. QED
  BY <1>2, <1>3, <1>4 DEF IInv


------------------------------------------------------------------------------
(* The answers                                                             *)

LEMMA ClosedParts ==
  /\ DOMAIN Closed = {"worktree", "base", "secondary", "agent", "rename", "discord", "confirm",
                      "prompts"}
  /\ DOMAIN Closed.discord = {"on", "agent", "enable", "sent", "seq"}
  /\ Closed.discord.on = FALSE
BY DEF Closed

(* The other prompts are other fields of the form.                         *)
OtherPrompts == DOMAIN form' = DOMAIN form /\ form'.discord = form.discord

LEMMA OtherPromptsStay == OtherPrompts => PromptStaysOpen
BY DEF OtherPrompts, PromptStaysOpen

LEMMA FewerAsks == ASSUME NEW c, calls' = Others(c) PROVE AsksElsewhere
<1>1. BagToSet(calls') \subseteq BagToSet(calls)
  BY OneLess DEF Others
<1>2. QED
  BY <1>1 DEF AsksElsewhere

(* Another request, and not about a notification.                          *)
LEMMA AnotherAsk ==
  ASSUME NEW others, BagToSet(others) \subseteq BagToSet(calls),
         NEW ask, ask.kind # "discord", Send(others, ask)
  PROVE  AsksElsewhere
<1> DEFINE call == [ask |-> ask, answer |-> NoAnswer]
<1>1. calls' = others (+) SetToBag({call})
  BY DEF Send
<1>2. DOMAIN call = {"ask", "answer"} /\ call.answer = NoAnswer /\ call.ask.kind # "discord"
  OBVIOUS
<1> HIDE DEF call
<1>3. BagToSet(calls') \subseteq BagToSet(others) \cup {call}
  BY <1>1, OneMore
<1>4. QED
  BY <1>2, <1>3 DEF AsksElsewhere

LEMMA DeleteReplyStep == ASSUME IInv, NEW c, DeleteReply(c) PROVE IInv'
<1>1. /\ daemon' = daemon /\ shown' = shown /\ AsksElsewhere
      /\ form' = [form EXCEPT !.confirm = NoRow]
  BY FewerAsks DEF DeleteReply, Replies
<1>2. PromptStaysOpen
  BY <1>1, ClosedParts, OtherPromptsStay DEF OtherPrompts, IInv, Shaped
<1>3. CASE c.answer.code = "ok"
  <2> DEFINE claim == Claim("gone", c.ask.what, Blank)
  <2>1. list' = NewListing /\ Told(claim)
    BY <1>3 DEF DeleteReply
  <2>2. Sensible(claim) /\ claim.kind # "armed"
    BY DEF Claim, Sensible
  <2> HIDE DEF claim
  <2>3. QED
    BY <1>1, <1>2, <2>1, <2>2, TellingStep DEF Telling
<1>4. CASE c.answer.code # "ok"
  BY <1>1, <1>2, <1>4, QuietStep DEF DeleteReply, Quietly
<1>5. QED
  BY <1>3, <1>4

LEMMA SessionReplyStep ==
  ASSUME IInv, NEW c, SessionConflict(c) \/ SessionFailed(c) \/ SessionMade(c)
  PROVE  IInv'
<1>1. daemon' = daemon /\ shown' = shown /\ AsksElsewhere
  BY FewerAsks DEF SessionConflict, SessionFailed, SessionMade, Replies
<1>2. PromptStaysOpen
  <2>1. CASE SessionConflict(c)
    BY <2>1, ClosedParts, OtherPromptsStay DEF SessionConflict, AskAbout, OtherPrompts, IInv, Shaped
  <2>2. CASE SessionFailed(c)
    BY <2>2, OtherPromptsStay DEF SessionFailed, OtherPrompts
  <2>3. CASE SessionMade(c)
    BY <2>3, ClosedParts, OtherPromptsStay DEF SessionMade, OtherPrompts, IInv, Shaped
  <2>4. QED
    BY <2>1, <2>2, <2>3
<1>3. CASE SessionConflict(c) \/ SessionFailed(c)
  BY <1>1, <1>2, <1>3, QuietStep DEF SessionConflict, SessionFailed, Quietly
<1>4. CASE SessionMade(c)
  <2> DEFINE claim == Claim("made", Row("session", c.answer.id), Blank)
  <2>1. list' = NewListing /\ Told(claim)
    BY <1>4 DEF SessionMade, Relist
  <2>2. Sensible(claim) /\ claim.kind # "armed"
    BY DEF Claim, Sensible
  <2> HIDE DEF claim
  <2>3. QED
    BY <1>1, <1>2, <2>1, <2>2, TellingStep DEF Telling
<1>5. QED
  BY <1>3, <1>4

LEMMA AgentReplyStep == ASSUME IInv, NEW c, AgentFailed(c) \/ AgentMade(c) PROVE IInv'
<1>1. daemon' = daemon /\ shown' = shown
  BY DEF AgentFailed, AgentMade, Replies
<1>2. PromptStaysOpen
  <2>1. CASE AgentFailed(c)
    BY <2>1, ClosedParts, OtherPromptsStay DEF AgentFailed, OtherPrompts, IInv, Shaped
  <2>2. CASE AgentMade(c)
    <3>1. \/ form' = [form EXCEPT !.agent = Closed.agent]
          \/ form' = [form EXCEPT !.agent = [form.agent EXCEPT !.made = c.answer.id]]
      BY <2>2 DEF AgentMade
    <3>2. QED
      BY <3>1, ClosedParts, OtherPromptsStay DEF OtherPrompts, IInv, Shaped
  <2>3. QED
    BY <2>1, <2>2
<1>3. CASE AgentFailed(c)
  BY <1>1, <1>2, <1>3, FewerAsks, QuietStep DEF AgentFailed, Quietly
<1>4. CASE AgentMade(c) /\ Named /\ form.agent.name # Blank
  <2> DEFINE ask == Renaming(c.answer.id, form.agent.name)
  <2>1. Send(Others(c), ask) /\ list' = list /\ acked' = acked
    BY <1>4 DEF AgentMade
  <2>2. ask.kind # "discord"
    BY DEF Renaming
  <2>3. BagToSet(Others(c)) \subseteq BagToSet(calls)
    BY OneLess DEF Others
  <2> HIDE DEF ask
  <2>4. AsksElsewhere
    BY <2>1, <2>2, <2>3, AnotherAsk
  <2>5. QED
    BY <1>1, <1>2, <2>1, <2>4, QuietStep DEF Quietly
<1>5. CASE AgentMade(c) /\ ~ (Named /\ form.agent.name # Blank)
  <2> DEFINE claim == Claim("made", Row("agent", c.answer.id), Blank)
  <2>1. list' = NewListing /\ Told(claim) /\ AsksElsewhere
    BY <1>5, FewerAsks DEF AgentMade, Relist
  <2>2. Sensible(claim) /\ claim.kind # "armed"
    BY DEF Claim, Sensible
  <2> HIDE DEF claim
  <2>3. QED
    BY <1>1, <1>2, <2>1, <2>2, TellingStep DEF Telling
<1>6. QED
  BY <1>3, <1>4, <1>5

LEMMA RenameReplyStep == ASSUME IInv, NEW c, RenameReply(c) PROVE IInv'
<1>1. daemon' = daemon /\ shown' = shown /\ AsksElsewhere
  BY FewerAsks DEF RenameReply, Replies
<1>2. PromptStaysOpen
  BY ClosedParts, OtherPromptsStay DEF RenameReply, OtherPrompts, IInv, Shaped
<1>3. CASE c.answer.code = "ok"
  <2> DEFINE claim == Claim("named", Row("agent", c.ask.id), c.ask.name)
  <2>1. list' = NewListing /\ Told(claim)
    BY <1>3 DEF RenameReply, Relist
  <2>2. Sensible(claim) /\ claim.kind # "armed"
    BY DEF Claim, Sensible, Row
  <2> HIDE DEF claim
  <2>3. QED
    BY <1>1, <1>2, <2>1, <2>2, TellingStep DEF Telling
<1>4. CASE c.answer.code # "ok"
  BY <1>1, <1>2, <1>4, QuietStep DEF RenameReply, Quietly
<1>5. QED
  BY <1>3, <1>4

(* The answer the prompt waits for: what it says is put on the screen, and *)
(* agrees with what else is known of that Agent.                           *)
LEMMA DiscordReplyStep == ASSUME IInv, NEW c \in BagToSet(calls), DiscordReply(c) PROVE IInv'
<1> DEFINE a == c.ask.id
           mine == form.discord.on /\ c.ask.seq = form.discord.seq
<1>1. /\ daemon' = daemon /\ AsksElsewhere /\ c.ask.kind = "discord"
      /\ BagToSet(calls') \subseteq BagToSet(calls)
  BY FewerAsks, OneLess DEF DiscordReply, Replies, Others
<1>2. CASE ~ (mine /\ c.answer.code = "ok")
  <2>1. shown' = shown /\ list' = list /\ acked' = acked
    BY <1>2 DEF DiscordReply
  <2>2. form' = form \/ form' = [form EXCEPT !.discord = [form.discord EXCEPT !.sent = FALSE]]
    BY <1>2 DEF DiscordReply
  <2>3. PromptStaysOpen
    BY <2>2, ClosedParts DEF PromptStaysOpen, IInv, Shaped
  <2>4. QED
    BY <1>1, <2>1, <2>3, QuietStep DEF Quietly
<1>3. CASE mine /\ c.answer.code = "ok"
  <2> DEFINE claim == Claim("armed", Row("agent", a), c.ask.enable)
             prompt == [Closed.discord EXCEPT !.seq = form.discord.seq]
  <2>1. /\ shown' = IF a \in DOMAIN shown.agents
                    THEN [shown EXCEPT !.agents = [shown.agents EXCEPT ![a] = c.answer.record]]
                    ELSE shown
        /\ form' = [form EXCEPT !.discord = prompt]
        /\ list' = NoListing
        /\ Told(claim)
    BY <1>3 DEF DiscordReply, Overtake
  <2>2. /\ claim.kind = "armed" /\ claim.row[1] = "agent" /\ claim.row[2] = a
        /\ claim.value = c.ask.enable /\ Sensible(claim)
    BY DEF Claim, Row, Sensible
  <2>3. /\ DOMAIN prompt = DOMAIN Closed.discord /\ prompt.on = FALSE
        /\ prompt.seq = form.discord.seq
    BY ClosedParts
  <2> HIDE DEF claim, prompt
  <2>4. /\ DOMAIN form' = DOMAIN form /\ form'.discord = prompt
        /\ DOMAIN shown' = DOMAIN shown
    BY <2>1, ClosedParts DEF IInv, Shaped
  <2>5. \A other \in acked' : other \in acked \/ (other = claim /\ Holds(daemon, claim))
    BY <2>1 DEF Told
  <2>6. c.answer.record.armed = c.ask.enable
    BY <1>1, <1>3 DEF IInv, Truthful, Answered
  <2>7. Shaped'
    BY <1>1, <2>1, <2>3, <2>4, NewListingShape DEF IInv, Shaped, Recorded
  <2>8. TrueClaims'
    BY <1>1, <2>2, <2>5 DEF IInv, TrueClaims, Sensible, Holds, Exists
  <2>9. Truthful' /\ Sequenced' /\ Current'
    BY <1>1, <2>3, <2>4 DEF IInv, Truthful, Sequenced, Current, Answered, Awaited
  <2>10. ASSUME NEW x \in acked', x.kind = "armed" PROVE Holds(shown', x)
    <3>1. x.row[1] = "agent"
      BY <2>2, <2>5, <2>10 DEF IInv, TrueClaims, Sensible
    <3>2. x.row[2] = a => x.value = c.ask.enable
      BY <1>1, <1>3, <2>2, <2>5, <2>10 DEF IInv, Current, Answered, Awaited
    <3>3. x \in acked => Holds(shown, x)
      BY <2>10 DEF IInv, AcknowledgedStays
    <3>4. /\ DOMAIN shown'.agents = DOMAIN shown.agents
          /\ \A b \in DOMAIN shown.agents :
               shown'.agents[b] = IF b = a THEN c.answer.record ELSE shown.agents[b]
      BY <2>1 DEF IInv, Shaped, Lists
    <3>5. CASE x.row[2] = a
      BY <2>6, <2>10, <3>1, <3>2, <3>4, <3>5 DEF Holds, Exists
    <3>6. CASE x.row[2] # a
      BY <2>2, <2>5, <2>10, <3>1, <3>3, <3>4, <3>6 DEF Holds, Exists
    <3>7. QED
      BY <3>5, <3>6
  <2>11. AcknowledgedStays'
    BY <2>1, <2>10, NewListingShape DEF AcknowledgedStays, Holds, Exists
  <2>12. QED
    BY <2>7, <2>8, <2>9, <2>11 DEF IInv
<1>4. QED
  BY <1>2, <1>3

LEMMA ReplyStep == IInv /\ Reply => IInv'
BY DeleteReplyStep, SessionReplyStep, AgentReplyStep, RenameReplyStep, DiscordReplyStep DEF Reply

------------------------------------------------------------------------------
(* The keys                                                                *)

(* A key looks elsewhere, fills in another prompt, or asks for something   *)
(* else than a notification: none of it says anything to the client.       *)
Elsewhere ==
  /\ UNCHANGED <<daemon, shown, acked>>
  /\ list' = list \/ list' = NewListing
  /\ OtherPrompts
  /\ calls' = calls \/ \E ask : ask.kind # "discord" /\ Send(calls, ask)

LEMMA ElsewhereStep == IInv /\ Elsewhere => IInv'
<1> SUFFICES ASSUME IInv, Elsewhere PROVE IInv'
  OBVIOUS
<1>1. AsksElsewhere
  <2>1. CASE calls' = calls
    BY <2>1 DEF AsksElsewhere
  <2>2. CASE \E ask : ask.kind # "discord" /\ Send(calls, ask)
    BY <2>2, AnotherAsk
  <2>3. QED
    BY <2>1, <2>2 DEF Elsewhere
<1>2. QED
  BY <1>1, OtherPromptsStay, QuietStep DEF Elsewhere, Quietly

LEMMA LookingStep ==
  IInv /\ (\/ MoveCursor \/ SwitchTab \/ Group \/ FoldAll \/ Refresh \/ StartFilter \/ TypeQuery
           \/ MoveInFinder \/ EndFilter \/ Quit)
    => IInv'
<1>1. ASSUME NEW w, NEW gesture, NEW focus, Key(gesture, focus), Look(w) PROVE Elsewhere
  BY <1>1 DEF Key, Look, Elsewhere, OtherPrompts
<1>2. ASSUME NEW row, NEW gesture, NEW focus, Key(gesture, focus), Leave(row) PROVE Elsewhere
  BY <1>2 DEF Key, Leave, Elsewhere, OtherPrompts
<1>3. Refresh => Elsewhere
  BY DEF Refresh, Key, Relist, Elsewhere, OtherPrompts
<1>4. MoveCursor \/ SwitchTab \/ Group \/ FoldAll => Elsewhere
  BY <1>1 DEF MoveCursor, SwitchTab, Group, FoldAll
<1>5. StartFilter \/ TypeQuery \/ MoveInFinder \/ EndFilter => Elsewhere
  BY <1>1 DEF StartFilter, TypeQuery, MoveInFinder, EndFilter
<1>6. Quit => Elsewhere
  BY <1>2 DEF Quit
<1>7. QED
  BY <1>3, <1>4, <1>5, <1>6, ElsewhereStep

(* What is filled in, of the other prompts.                                *)
LEMMA FillStep ==
  IInv /\ (\/ TypeBranch \/ CancelWorktree \/ EnterBaseBranch \/ CancelBase \/ ConflictNo
           \/ EnterDirectory \/ CancelSecondary \/ ConfirmNo \/ EnterAgentName \/ CancelAgent
           \/ CancelRename)
    => IInv'
<1> SUFFICES ASSUME IInv PROVE
      (\/ TypeBranch \/ CancelWorktree \/ EnterBaseBranch \/ CancelBase \/ ConflictNo
       \/ EnterDirectory \/ CancelSecondary \/ ConfirmNo \/ EnterAgentName \/ CancelAgent
       \/ CancelRename) => Elsewhere
  BY ElsewhereStep
<1>1. ASSUME NEW f, Fill(f), UNCHANGED <<daemon, shown, acked>>,
             DOMAIN f = DOMAIN form, f.discord = form.discord
      PROVE  Elsewhere
  BY <1>1 DEF Fill, Elsewhere, OtherPrompts
<1>2. DOMAIN form = DOMAIN Closed
  BY DEF IInv, Shaped
<1>3. /\ TypeBranch => Elsewhere
      /\ CancelWorktree => Elsewhere
      /\ ConflictNo => Elsewhere
  BY <1>1, <1>2, ClosedParts DEF TypeBranch, CancelWorktree, ConflictNo, Key
<1>4. /\ EnterBaseBranch => Elsewhere
      /\ CancelBase => Elsewhere
  BY <1>1, <1>2, ClosedParts DEF EnterBaseBranch, CancelBase, Key
<1>5. /\ EnterDirectory => Elsewhere
      /\ CancelSecondary => Elsewhere
      /\ ConfirmNo => Elsewhere
  BY <1>1, <1>2, ClosedParts DEF EnterDirectory, CancelSecondary, ConfirmNo, Key
<1>6. /\ EnterAgentName => Elsewhere
      /\ CancelAgent => Elsewhere
      /\ CancelRename => Elsewhere
  BY <1>1, <1>2, ClosedParts DEF EnterAgentName, CancelAgent, CancelRename, Key
<1>7. QED
  BY <1>3, <1>4, <1>5, <1>6

(* What is asked of the daemon, but for notifications.                     *)
LEMMA AskStep ==
  IInv /\ (\/ SubmitWorktree \/ SubmitBase \/ ConflictYes \/ SubmitSecondary \/ ConfirmYes
           \/ EnterExecutable \/ EnterYolo \/ FinishQuickName \/ SubmitRename)
    => IInv'
<1> SUFFICES ASSUME IInv PROVE
      (\/ SubmitWorktree \/ SubmitBase \/ ConflictYes \/ SubmitSecondary \/ ConfirmYes
       \/ EnterExecutable \/ EnterYolo \/ FinishQuickName \/ SubmitRename) => Elsewhere
  BY ElsewhereStep
<1>1. ASSUME NEW f, NEW ask, Ask(f, ask), UNCHANGED <<daemon, shown, acked>>,
             ask.kind # "discord", DOMAIN f = DOMAIN form, f.discord = form.discord
      PROVE  Elsewhere
  BY <1>1 DEF Ask, Elsewhere, OtherPrompts
<1>2. DOMAIN form = DOMAIN Closed
  BY DEF IInv, Shaped
<1>3. /\ \A ask, new1, new2 : Worktree(ask, new1, new2).kind # "discord"
      /\ \A s : Secondary(s).kind # "discord"
      /\ \A row : Deletion(row).kind # "discord"
      /\ \A s, name, prompt : Creation(s, name, prompt).kind # "discord"
      /\ \A b, name : Renaming(b, name).kind # "discord"
  BY DEF Worktree, Secondary, Deletion, Creation, Renaming
<1>4. SubmitWorktree => Elsewhere
  BY <1>1, <1>3 DEF SubmitWorktree, Key
<1>5. ASSUME SubmitBase PROVE Elsewhere
  <2> DEFINE kept == [form.worktree EXCEPT !.project = form.base.project, !.parent = 0,
                                           !.branch = form.base.branch]
             f == [form EXCEPT !.worktree = kept]
  <2>1. UNCHANGED <<daemon, shown, acked>> /\ Ask(f, Worktree(kept, TRUE, TRUE))
    BY <1>5 DEF SubmitBase, Key
  <2>2. DOMAIN f = DOMAIN form /\ f.discord = form.discord
    BY <1>2, ClosedParts
  <2> HIDE DEF kept, f
  <2>3. QED
    BY <1>1, <1>3, <2>1, <2>2
<1>6. ASSUME ConflictYes PROVE Elsewhere
  <2> DEFINE f == [form EXCEPT !.worktree.conflict = Blank]
             branch == form.worktree.conflict = "branch_exists"
  <2>1. UNCHANGED <<daemon, shown, acked>> /\ Ask(f, Worktree(form.worktree, branch, FALSE))
    BY <1>6 DEF ConflictYes, Key
  <2>2. DOMAIN f = DOMAIN form /\ f.discord = form.discord
    BY <1>2, ClosedParts
  <2> HIDE DEF branch, f
  <2>3. QED
    BY <1>1, <1>3, <2>1, <2>2
<1>7. SubmitSecondary => Elsewhere
  BY <1>1, <1>3 DEF SubmitSecondary, Key
<1>8. ConfirmYes => Elsewhere
  BY <1>1, <1>3 DEF ConfirmYes, Key
<1>9. ASSUME EnterExecutable \/ EnterYolo PROVE Elsewhere
  <2> DEFINE f == [form EXCEPT !.agent.step = "yolo"]
  <2>1. UNCHANGED <<daemon, shown, acked>>
    BY <1>9 DEF EnterExecutable, EnterYolo, Key
  <2>2. CASE Fill(f)
    <3>1. DOMAIN f = DOMAIN form /\ f.discord = form.discord
      BY <1>2, ClosedParts
    <3>2. QED
      BY <2>1, <2>2, <3>1 DEF Fill, Elsewhere, OtherPrompts
  <2>3. CASE Ask(form, Creation(form.agent.session, form.agent.name, 0))
    BY <1>1, <1>3, <2>1, <2>3
  <2>4. QED
    BY <1>9, <2>2, <2>3 DEF EnterExecutable, EnterYolo
<1>10. ASSUME FinishQuickName PROVE Elsewhere
  <2>1. PICK name \in Names :
          /\ UNCHANGED <<daemon, shown, acked>>
          /\ \/ /\ form' = [form EXCEPT !.agent.on = FALSE, !.agent.named = TRUE,
                                       !.agent.name = name]
                /\ UNCHANGED <<list, calls>>
             \/ /\ form' = [form EXCEPT !.agent = Closed.agent]
                /\ list' = NewListing /\ UNCHANGED calls
             \/ /\ form' = [form EXCEPT !.agent = Closed.agent]
                /\ Send(calls, Renaming(form.agent.made, name)) /\ UNCHANGED list
    BY <1>10 DEF FinishQuickName, Key
  <2>2. OtherPrompts
    BY <1>2, <2>1, ClosedParts DEF OtherPrompts
  <2>3. QED
    BY <1>3, <2>1, <2>2 DEF Elsewhere
<1>11. ASSUME SubmitRename PROVE Elsewhere
  <2>1. PICK name \in Names \ {Blank} : Send(calls, Renaming(form.rename, name))
    BY <1>11 DEF SubmitRename
  <2>2. UNCHANGED <<daemon, shown, acked, form, list>>
    BY <1>11 DEF SubmitRename, Key
  <2>3. QED
    BY <1>3, <2>1, <2>2 DEF Elsewhere, OtherPrompts
<1>12. QED
  BY <1>4, <1>5, <1>6, <1>7, <1>8, <1>9, <1>10, <1>11

(* What is opened on a row, but for notifications.                         *)
LEMMA RowStep ==
  ASSUME IInv, NEW row,
         \/ Fold(row) \/ Attach(row) \/ StartWorktree(row) \/ StartBase(row) \/ StartSecondary(row)
         \/ RequestDelete(row) \/ StartQuickAgent(row) \/ StartAdvancedAgent(row)
         \/ StartRename(row)
  PROVE  IInv'
<1> SUFFICES Elsewhere
  BY ElsewhereStep
<1>1. ASSUME NEW f, Fill(f), UNCHANGED <<daemon, shown, acked>>,
             DOMAIN f = DOMAIN form, f.discord = form.discord
      PROVE  Elsewhere
  BY <1>1 DEF Fill, Elsewhere, OtherPrompts
<1>2. DOMAIN form = DOMAIN Closed
  BY DEF IInv, Shaped
<1>3. Fold(row) \/ Attach(row) => Elsewhere
  BY DEF Fold, Attach, Key, Look, Leave, Elsewhere, OtherPrompts
<1>4. /\ StartWorktree(row) => Elsewhere
      /\ StartBase(row) => Elsewhere
      /\ StartSecondary(row) => Elsewhere
  BY <1>1, <1>2, ClosedParts DEF StartWorktree, StartBase, StartSecondary, Key
<1>5. /\ RequestDelete(row) => Elsewhere
      /\ StartRename(row) => Elsewhere
  BY <1>1, <1>2, ClosedParts DEF RequestDelete, StartRename, Key
<1>6. ASSUME StartAdvancedAgent(row) PROVE Elsewhere
  <2>1. /\ UNCHANGED <<daemon, shown, acked, list, calls>>
        /\ form' = [form EXCEPT !.agent = Prompt(SessionOf(row), FALSE)]
    BY <1>6 DEF StartAdvancedAgent, Key
  <2>2. OtherPrompts
    BY <1>2, <2>1, ClosedParts DEF OtherPrompts
  <2>3. QED
    BY <2>1, <2>2 DEF Elsewhere
<1>7. ASSUME StartQuickAgent(row) PROVE Elsewhere
  <2> DEFINE ask == Creation(SessionOf(row), Blank, form.prompts + 1)
  <2>1. /\ UNCHANGED <<daemon, shown, acked, list>> /\ Send(calls, ask)
        /\ form' = [form EXCEPT !.agent = Prompt(SessionOf(row), TRUE),
                                !.prompts = form.prompts + 1]
    BY <1>7 DEF StartQuickAgent, Key
  <2>2. OtherPrompts
    BY <1>2, <2>1, ClosedParts DEF OtherPrompts
  <2>3. ask.kind # "discord"
    BY DEF Creation
  <2> HIDE DEF ask
  <2>4. QED
    BY <2>1, <2>2, <2>3 DEF Elsewhere
<1>8. QED
  BY <1>3, <1>4, <1>5, <1>6, <1>7

(* A notification: the prompt opens with a sequence number that no request *)
(* has yet, asks under it, and is closed without giving it back.           *)
LEMMA StartDiscordStep == ASSUME IInv, NEW row, StartDiscord(row) PROVE IInv'
<1> DEFINE prompt == [on |-> TRUE, agent |-> row[2], sent |-> FALSE, seq |-> form.discord.seq + 1,
                      enable |-> ~ shown.agents[row[2]].armed]
<1>1. /\ UNCHANGED <<daemon, shown, list, calls, acked>>
      /\ form' = [form EXCEPT !.discord = prompt]
  BY DEF StartDiscord, Key, Fill
<1>2. DOMAIN prompt = DOMAIN Closed.discord /\ prompt.seq = form.discord.seq + 1
  BY ClosedParts
<1> HIDE DEF prompt
<1>3. DOMAIN form' = DOMAIN form /\ form'.discord = prompt
  BY <1>1, ClosedParts DEF IInv, Shaped
<1>4. Shaped'
  BY <1>1, <1>2, <1>3 DEF IInv, Shaped, Recorded
<1>5. TrueClaims' /\ Truthful'
  BY <1>1 DEF IInv, TrueClaims, Sensible, Holds, Exists, Truthful, Answered
<1>6. Sequenced'
  BY <1>1, <1>2, <1>3 DEF IInv, Shaped, Sequenced
<1>7. Current'
  <2>1. \A c \in BagToSet(calls) : Answered(c) => c.ask.seq \in Int /\ c.ask.seq <= form.discord.seq
    BY DEF IInv, Sequenced, Answered
  <2>2. \A c \in BagToSet(calls') : ~ (Answered(c) /\ Awaited(c)')
    BY <1>1, <1>2, <1>3, <2>1 DEF IInv, Shaped, Awaited
  <2>3. QED
    BY <1>1, <2>2 DEF Current, Answered, Awaited
<1>8. AcknowledgedStays'
  BY <1>1 DEF IInv, AcknowledgedStays, Holds, Exists
<1>9. QED
  BY <1>4, <1>5, <1>6, <1>7, <1>8 DEF IInv

LEMMA SubmitDiscordStep == IInv /\ SubmitDiscord => IInv'
<1> SUFFICES ASSUME IInv, SubmitDiscord PROVE IInv'
  OBVIOUS
<1> DEFINE ask == Notifying(form.discord.agent, form.discord.enable, form.discord.seq)
           call == [ask |-> ask, answer |-> NoAnswer]
<1>1. /\ UNCHANGED <<daemon, shown, list, acked>>
      /\ form' = [form EXCEPT !.discord = [form.discord EXCEPT !.sent = TRUE]]
      /\ calls' = calls (+) SetToBag({call})
  BY DEF SubmitDiscord, Key, Send
<1>2. /\ DOMAIN call = {"ask", "answer"} /\ call.ask.kind = "discord"
      /\ call.ask.seq = form.discord.seq /\ ~ Answered(call)
  BY NoAnswerIsNone DEF Notifying
<1> HIDE DEF call
<1>3. BagToSet(calls') \subseteq BagToSet(calls) \cup {call}
  BY <1>1, OneMore
<1>4. PromptStaysOpen
  BY <1>1, ClosedParts DEF PromptStaysOpen, IInv, Shaped
<1>5. Shaped'
  BY <1>1, <1>4 DEF IInv, Shaped, Recorded, PromptStaysOpen
<1>6. TrueClaims'
  BY <1>1 DEF IInv, TrueClaims, Sensible, Holds, Exists
<1>7. Truthful'
  BY <1>2, <1>3 DEF IInv, Truthful, Answered
<1>8. Sequenced'
  BY <1>2, <1>3, <1>4 DEF IInv, Shaped, Sequenced, PromptStaysOpen
<1>9. Current'
  BY <1>1, <1>2, <1>3, <1>4 DEF IInv, Current, Answered, Awaited, PromptStaysOpen
<1>10. AcknowledgedStays'
  BY <1>1 DEF IInv, AcknowledgedStays, Holds, Exists
<1>11. QED
  BY <1>5, <1>6, <1>7, <1>8, <1>9, <1>10 DEF IInv

LEMMA CancelDiscordStep == IInv /\ CancelDiscord => IInv'
<1> SUFFICES ASSUME IInv, CancelDiscord PROVE IInv'
  OBVIOUS
<1> DEFINE prompt == [Closed.discord EXCEPT !.seq = form.discord.seq]
<1>1. /\ UNCHANGED <<daemon, shown, list, calls, acked>>
      /\ form' = [form EXCEPT !.discord = prompt]
  BY DEF CancelDiscord, Key, Fill
<1>2. /\ DOMAIN prompt = DOMAIN Closed.discord /\ prompt.on = FALSE
      /\ prompt.seq = form.discord.seq
  BY ClosedParts
<1> HIDE DEF prompt
<1>3. DOMAIN form' = DOMAIN form /\ form'.discord = prompt
  BY <1>1, ClosedParts DEF IInv, Shaped
<1>4. Shaped'
  BY <1>1, <1>2, <1>3 DEF IInv, Shaped, Recorded
<1>5. TrueClaims' /\ Truthful' /\ Sequenced' /\ Current'
  BY <1>1, <1>2, <1>3 DEF IInv, TrueClaims, Sensible, Holds, Exists, Truthful, Sequenced, Current,
                          Answered, Awaited
<1>6. AcknowledgedStays'
  BY <1>1 DEF IInv, AcknowledgedStays, Holds, Exists
<1>7. QED
  BY <1>4, <1>5, <1>6 DEF IInv

------------------------------------------------------------------------------
LEMMA InitHolds == Init => IInv
<1> SUFFICES ASSUME Init PROVE IInv
  OBVIOUS
<1>1. daemon = World /\ shown = NoCopy /\ form = Closed /\ list = NewListing /\ acked = {}
  BY DEF Init
<1>2. BagToSet(calls) = {}
  BY DEF Init, EmptyBag, SetToBag, BagToSet
<1>3. Shaped
  <2>1. Recorded(World)
    BY WorldAssumption DEF Recorded
  <2>2. Closed.discord.seq = 0
    BY DEF Closed
  <2>3. QED
    BY <1>1, <2>1, <2>2, NewListingShape DEF Shaped, NoCopy, Lists
<1>4. TrueClaims /\ AcknowledgedStays
  BY <1>1 DEF TrueClaims, AcknowledgedStays
<1>5. Truthful /\ Sequenced /\ Current
  BY <1>2 DEF Truthful, Sequenced, Current
<1>6. QED
  BY <1>3, <1>4, <1>5 DEF IInv

LEMMA StutterStep == IInv /\ UNCHANGED vars => IInv'
<1> SUFFICES ASSUME IInv, UNCHANGED vars PROVE IInv'
  OBVIOUS
<1>1. Elsewhere
  BY DEF vars, Elsewhere, OtherPrompts
<1>2. QED
  BY <1>1, ElsewhereStep

LEMMA KeysStep == IInv /\ Keys => IInv'
BY RowStep, StartDiscordStep, LookingStep, FillStep, AskStep, SubmitDiscordStep, CancelDiscordStep
   DEF Keys, RowKeys

LEMMA EveryStep == IInv /\ [Next]_vars => IInv'
BY ListingStep, ListReplyStep, ListFailsStep, ServeStep, ReplyStep, KeysStep, OthersStep,
   StutterStep
   DEF Next

(* In every behaviour of the client the invariant holds.                   *)
THEOREM Inductive == Spec => []IInv
<1>1. Init => IInv
  BY InitHolds
<1>2. IInv /\ [Next]_vars => IInv'
  BY EveryStep
<1>3. QED
  BY <1>1, <1>2, PTL DEF Spec

(* What the client was told of a creation, a deletion, a name or a         *)
(* notification is never undone by a listing, and a notification stays on  *)
(* the screen, however requests, answers, listings and what others do      *)
(* overtake each other.  (model.go: the listing that deleteMsg,            *)
(* createSessionMsg, createAgentMsg and renameAgentMsg restart, and the    *)
(* sequence number that setDiscordNotificationMsg advances.)               *)
THEOREM AcknowledgedAlwaysStays == Spec => []AcknowledgedStays
<1>1. IInv => AcknowledgedStays
  BY DEF IInv
<1>2. QED
  BY <1>1, Inductive, PTL

------------------------------------------------------------------------------
(* The name of a quick prompt.  Whatever happens: prompts and Agents are   *)
(* numbered, no number is used before its time, and a prompt that has its  *)
(* Agent still waits for the name.                                         *)
Issued == 1 .. (daemon.nextAgent - 1)
Numbered ==
  /\ form.prompts \in Nat /\ daemon.nextAgent \in Nat \ {0} /\ DOMAIN wishes \subseteq 1 .. form.prompts
  /\ DOMAIN daemon.agents \subseteq Issued
  /\ \A a \in DOMAIN daemon.agents : daemon.agents[a].of \in 0 .. form.prompts
  /\ DOMAIN shown.agents \subseteq Issued /\ DOMAIN list.copy.agents \subseteq Issued
  /\ form.rename \in Issued \cup {0} /\ form.agent.made \in Issued \cup {0}
  /\ \A c \in BagToSet(calls) :
       /\ c.ask.kind = "rename" => c.ask.id \in Issued \cup {0}
       /\ c.ask.kind = "agent" => c.ask.prompt \in 0 .. form.prompts
       /\ c.ask.kind = "agent" /\ c.answer.code = "ok" => c.answer.id \in Issued

Quick == form.agent.quick
Prompted ==
  /\ DOMAIN form.agent = DOMAIN Closed.agent
  /\ Quick => /\ form.prompts # 0 /\ form.agent.step = "name"
              /\ form.agent.on <=> ~ form.agent.named
  /\ form.agent.made # 0 => Quick /\ ~ form.agent.named

(* As long as Agents are created one after the other, a creation under way *)
(* is that of the prompt, or of no quick prompt while there is none; and   *)
(* the Agent, once there is one, is the one answered.                      *)
Creates(c) == c.ask.kind = "agent"
Coming(c) == Creates(c) /\ c.ask.prompt # 0
Own == {a \in DOMAIN daemon.agents : daemon.agents[a].of = form.prompts}
OneComing ==
  \A c, d \in BagToSet(calls) :
    /\ Creates(c) /\ ~ Coming(c) => ~ Quick
    /\ Coming(c) => /\ c.ask.prompt = form.prompts /\ c.ask.name = Blank
                    /\ Quick /\ form.agent.made = 0 /\ calls[c] = 1
                    /\ \A a \in DOMAIN daemon.agents :
                         /\ c.answer = NoAnswer => a \notin Own
                         /\ c.answer.code = "ok" => (a \in Own <=> a = c.answer.id)
    /\ Coming(c) /\ Coming(d) => c = d
AnswerKnown ==
  Quick => IF form.agent.made = 0 THEN \E c \in BagToSet(calls) : Coming(c)
           ELSE \A a \in DOMAIN daemon.agents : a \in Own <=> a = form.agent.made

(* Until it is named, nothing has named its Agent; then the prompt keeps   *)
(* the name.                                                               *)
Renames(c, a) == c.ask.kind = "rename" /\ c.ask.id = a
NameKept ==
  Quick =>
    IF form.agent.named
    THEN form.prompts \in DOMAIN wishes => wishes[form.prompts] = form.agent.name
    ELSE /\ form.prompts \notin DOMAIN wishes
         /\ \A a \in Own : /\ daemon.agents[a].name = Blank
                           /\ \A c \in BagToSet(calls) : ~ Renames(c, a)

(* Every Agent that is to have a name has it, or a renaming is under way,  *)
(* or the prompt still has to send it.                                     *)
Granted(a, name) ==
  /\ \A c \in BagToSet(calls) : Renames(c, a) => c.ask.name = name
  /\ \/ daemon.agents[a].name = name
     \/ \E c \in BagToSet(calls) : Renames(c, a) /\ c.answer.code # "ok"
     \/ /\ daemon.agents[a].name = Blank /\ a \in Own
        /\ Quick /\ form.agent.named /\ form.agent.name = name
WishesGranted ==
  \A a \in DOMAIN daemon.agents :
    daemon.agents[a].of \in DOMAIN wishes => Granted(a, wishes[daemon.agents[a].of])

Orderly == OneComing /\ AnswerKnown /\ NameKept /\ WishesGranted
Naming == IsABag(calls) /\ Numbered /\ Prompted /\ (~ muddled => Orderly)

------------------------------------------------------------------------------
(* Requests under way, counted: one more, one less.                        *)
LEMMA OneMoreCounted ==
  ASSUME NEW bag, IsABag(bag), NEW x
  PROVE  /\ IsABag(bag (+) SetToBag({x}))
         /\ BagToSet(bag (+) SetToBag({x})) = BagToSet(bag) \cup {x}
         /\ \A e \in BagToSet(bag) : e # x => (bag (+) SetToBag({x}))[e] = bag[e]
         /\ x \in BagToSet(bag) \/ (bag (+) SetToBag({x}))[x] = 1
<1> DEFINE more == bag (+) SetToBag({x})
<1>1. more = [e \in DOMAIN bag \cup {x} |->
                (IF e \in DOMAIN bag THEN bag[e] ELSE 0) + (IF e \in {x} THEN 1 ELSE 0)]
  BY DEF (+), SetToBag
<1>2. \A e \in DOMAIN bag : bag[e] \in Nat /\ bag[e] > 0
  BY DEF IsABag
<1>3. /\ DOMAIN more = DOMAIN bag \cup {x}
      /\ \A e \in DOMAIN bag : e # x => more[e] = bag[e] + 0
      /\ x \in DOMAIN bag => more[x] = bag[x] + 1
      /\ x \notin DOMAIN bag => more[x] = 0 + 1
  BY <1>1
<1> HIDE DEF more
<1>4. \A e \in DOMAIN bag : e # x => more[e] = bag[e]
  BY <1>2, <1>3
<1>5. ASSUME NEW e \in DOMAIN more PROVE more[e] \in {n \in Nat : n > 0}
  <2>1. CASE e \in DOMAIN bag /\ e # x
    BY <1>2, <1>4, <2>1
  <2>2. CASE e = x /\ x \in DOMAIN bag
    <3>1. bag[x] \in Nat /\ more[x] = bag[x] + 1
      BY <1>2, <1>3, <2>2
    <3>2. QED
      BY <2>2, <3>1
  <2>3. CASE e = x /\ x \notin DOMAIN bag
    BY <1>3, <2>3
  <2>4. QED
    BY <1>3, <2>1, <2>2, <2>3
<1>6. more \in [DOMAIN more -> {n \in Nat : n > 0}]
  BY <1>1, <1>5
<1>7. /\ IsABag(more) /\ BagToSet(more) = BagToSet(bag) \cup {x}
      /\ \A e \in BagToSet(bag) : e # x => more[e] = bag[e]
      /\ x \in BagToSet(bag) \/ more[x] = 1
  BY <1>3, <1>4, <1>6 DEF IsABag, BagToSet
<1>8. QED
  BY <1>7 DEF more

(* The same of the requests in flight.                                     *)
LEMMA CallsMore ==
  ASSUME NEW bag, IsABag(bag), NEW x, calls' = bag (+) SetToBag({x})
  PROVE  /\ IsABag(calls') /\ BagToSet(calls') = BagToSet(bag) \cup {x}
         /\ \A e \in BagToSet(bag) : e # x => calls'[e] = bag[e]
         /\ x \in BagToSet(bag) \/ calls'[x] = 1
<1>1. IsABag(bag (+) SetToBag({x}))
  BY OneMoreCounted
<1>2. BagToSet(bag (+) SetToBag({x})) = BagToSet(bag) \cup {x}
  BY OneMoreCounted
<1>3. \A e \in BagToSet(bag) : e # x => (bag (+) SetToBag({x}))[e] = bag[e]
  BY OneMoreCounted
<1>4. x \in BagToSet(bag) \/ (bag (+) SetToBag({x}))[x] = 1
  BY OneMoreCounted
<1>5. QED
  BY <1>1, <1>2, <1>3, <1>4

(* One less: the others are counted as before.                             *)
LEMMA OneLessCounted ==
  ASSUME NEW bag, IsABag(bag), NEW x \in BagToSet(bag), NEW less, less = bag (-) SetToBag({x})
  PROVE  /\ IsABag(less) /\ BagToSet(less) \subseteq BagToSet(bag)
         /\ \A e \in BagToSet(bag) : e # x => e \in BagToSet(less) /\ less[e] = bag[e]
         /\ bag[x] = 1 => x \notin BagToSet(less)
<1> DEFINE count == [e \in DOMAIN bag |-> IF e \in {x} THEN bag[e] - 1 ELSE bag[e]]
<1>1. \A e \in DOMAIN bag : bag[e] \in Nat /\ bag[e] > 0
  BY DEF IsABag
<1>2. less = [e \in {d \in DOMAIN count : count[d] > 0} |-> count[e]]
  BY DEF (-), SetToBag
<1>3. /\ DOMAIN count = DOMAIN bag /\ x \in DOMAIN bag /\ count[x] = bag[x] - 1
      /\ \A e \in DOMAIN bag : e # x => count[e] = bag[e]
  BY DEF BagToSet
<1> HIDE DEF count
<1>4. \A e \in DOMAIN less : e \in DOMAIN bag /\ less[e] = count[e] /\ less[e] \in Nat /\ less[e] > 0
  BY <1>1, <1>2, <1>3
<1>5. \A e \in DOMAIN bag : e # x => e \in DOMAIN less /\ less[e] = bag[e]
  BY <1>1, <1>2, <1>3
<1>6. bag[x] = 1 => x \notin DOMAIN less
  BY <1>2, <1>3
<1>7. less \in [DOMAIN less -> {n \in Nat : n > 0}]
  BY <1>2, <1>4
<1>8. QED
  BY <1>4, <1>5, <1>6, <1>7 DEF IsABag, BagToSet

------------------------------------------------------------------------------
(* The steps that have nothing to do with names: Agents may end, listings  *)
(* go on, and a renaming may be asked for of one that is listed.           *)
AboutNames(c) == c.ask.kind \in {"agent", "rename"}
NamingAsksStay ==
  /\ IsABag(calls')
  /\ \A c : AboutNames(c) =>
       /\ c \in BagToSet(calls') <=> c \in BagToSet(calls)
       /\ c \in BagToSet(calls) => calls'[c] = calls[c]
SameNames(d, new) ==
  /\ new.nextAgent = d.nextAgent
  /\ \A a \in DOMAIN new.agents :
       /\ a \in DOMAIN d.agents
       /\ new.agents[a].of = d.agents[a].of /\ new.agents[a].name = d.agents[a].name
AgentsStay == SameNames(daemon, daemon')
CopiesStay ==
  /\ DOMAIN shown'.agents \subseteq DOMAIN shown.agents \cup DOMAIN list.copy.agents
  /\ DOMAIN list'.copy.agents \subseteq DOMAIN list.copy.agents \cup DOMAIN daemon.agents
  /\ form'.rename \in {form.rename, 0} \cup DOMAIN shown.agents
Undisturbed ==
  /\ muddled' = muddled /\ wishes' = wishes
  /\ form'.agent = form.agent /\ form'.prompts = form.prompts
  /\ NamingAsksStay /\ AgentsStay /\ CopiesStay

(* Such a step keeps the naming as it was.                                 *)
LEMMA UndisturbedStep == Naming /\ Undisturbed => Naming'
<1> SUFFICES ASSUME Naming, Undisturbed PROVE Naming'
  OBVIOUS
<1>1. IsABag(calls)' /\ Prompted'
  BY DEF Naming, Undisturbed, NamingAsksStay, Prompted, Quick, IsABag
<1>2. Numbered'
  <2>1. Issued' = Issued
    BY DEF Undisturbed, AgentsStay, SameNames, Issued
  <2>2. \A c \in BagToSet(calls') :
          /\ c.ask.kind = "rename" => c.ask.id \in Issued \cup {0}
          /\ c.ask.kind = "agent" => c.ask.prompt \in 0 .. form.prompts
          /\ c.ask.kind = "agent" /\ c.answer.code = "ok" => c.answer.id \in Issued
    BY DEF Undisturbed, NamingAsksStay, AboutNames, Naming, Numbered
  <2>3. QED
    BY <2>1, <2>2 DEF Naming, Numbered, Undisturbed, AgentsStay, SameNames, CopiesStay
<1>3. ASSUME ~ muddled PROVE Orderly'
  <2>1. /\ Orderly /\ Own' \subseteq Own
        /\ \A a \in DOMAIN daemon'.agents : a \in DOMAIN daemon.agents /\ (a \in Own' <=> a \in Own)
    BY <1>3 DEF Naming, Own, Undisturbed, AgentsStay, SameNames
  <2>2. \A c : Creates(c) \/ c.ask.kind = "rename" =>
          /\ c \in BagToSet(calls') <=> c \in BagToSet(calls)
          /\ c \in BagToSet(calls) => calls'[c] = calls[c]
    BY DEF Undisturbed, NamingAsksStay, AboutNames, Creates
  <2>3. /\ form'.agent = form.agent /\ form'.prompts = form.prompts /\ wishes' = wishes
        /\ Quick' = Quick
    BY DEF Undisturbed, Quick
  <2>4. OneComing'
    BY <2>1, <2>2, <2>3 DEF Orderly, OneComing, Coming, Creates
  <2>5. AnswerKnown'
    BY <2>1, <2>2, <2>3 DEF Orderly, AnswerKnown, Coming, Creates
  <2>6. NameKept'
    BY <2>1, <2>2, <2>3 DEF Orderly, NameKept, Renames, Undisturbed, AgentsStay, SameNames, Own
  <2>7. WishesGranted'
    <3> SUFFICES ASSUME NEW a \in DOMAIN daemon'.agents, daemon'.agents[a].of \in DOMAIN wishes'
                 PROVE  Granted(a, wishes[daemon.agents[a].of])'
      BY DEF WishesGranted
    <3>1. /\ a \in DOMAIN daemon.agents /\ daemon.agents[a].of \in DOMAIN wishes
          /\ daemon'.agents[a].name = daemon.agents[a].name /\ daemon'.agents[a].of = daemon.agents[a].of
      BY <2>3 DEF Undisturbed, AgentsStay, SameNames
    <3>2. Granted(a, wishes[daemon.agents[a].of])
      BY <2>1, <3>1 DEF Orderly, WishesGranted
    <3>3. a \in Own => a \in Own'
      BY <2>3, <3>1 DEF Own
    <3>4. QED
      BY <2>2, <2>3, <3>1, <3>2, <3>3 DEF Granted, Renames
  <2>8. QED
    BY <2>4, <2>5, <2>6, <2>7 DEF Orderly
<1>4. QED
  BY <1>1, <1>2, <1>3 DEF Naming, Undisturbed

(* What the daemon does names no Agent but for a creation and a renaming.  *)
LEMMA DropAgentsSameNames ==
  ASSUME NEW d, Recorded(d), NEW gone
  PROVE  SameNames(d, DropAgents(d, gone))
<1> DEFINE recent == SelectSeq(d.recent, LAMBDA a : a \notin gone)
           agents == [a \in DOMAIN d.agents \ gone |-> d.agents[a]]
<1>1. DropAgents(d, gone) = [d EXCEPT !.agents = agents, !.recent = recent]
  BY DEF DropAgents
<1>2. \A a \in DOMAIN agents : a \in DOMAIN d.agents /\ agents[a] = d.agents[a]
  OBVIOUS
<1> HIDE DEF recent, agents
<1>3. QED
  BY <1>1, <1>2, WorldAssumption DEF SameNames, Recorded

(* A change of another part of the records names nobody.                   *)
LEMMA ElsewhereSameNames ==
  ASSUME NEW d, Recorded(d), NEW value, NEW more
  PROVE  /\ SameNames(d, [d EXCEPT !.sessions = value])
         /\ SameNames(d, [d EXCEPT !.projects = value])
         /\ SameNames(d, [d EXCEPT !.worktrees = value])
         /\ SameNames(d, [d EXCEPT !.recent = value])
         /\ SameNames(d, [d EXCEPT !.branches = value, !.worktrees = more])
BY WorldAssumption DEF SameNames, Recorded

LEMMA SameNamesTwice ==
  ASSUME NEW d, NEW e, NEW f, SameNames(d, e), SameNames(e, f)
  PROVE  SameNames(d, f)
BY DEF SameNames

(* What goes takes its names along, and leaves the others.                 *)
LEMMA RemovedSameNames ==
  ASSUME NEW d, Recorded(d), NEW what
  PROVE  SameNames(d, Removed(d, what))
<1>1. ASSUME NEW gone PROVE /\ SameNames(d, DropSessions(d, gone))
                            /\ Recorded(DropSessions(d, gone))
  <2> DEFINE less == DropAgents(d, {a \in DOMAIN d.agents : d.agents[a].session \in gone})
  <2>1. Recorded(less) /\ SameNames(d, less)
    BY DropAgentsRecorded, DropAgentsSameNames
  <2>2. PICK value : DropSessions(d, gone) = [less EXCEPT !.sessions = value]
    BY DEF DropSessions
  <2> HIDE DEF less
  <2>3. Recorded(DropSessions(d, gone))
    BY <2>1, <2>2, WorldAssumption DEF Recorded
  <2>4. SameNames(less, DropSessions(d, gone))
    BY <2>1, <2>2, WorldAssumption DEF SameNames, Recorded
  <2>5. QED
    BY <2>1, <2>3, <2>4, SameNamesTwice
<1>2. ASSUME NEW s PROVE SameNames(d, DeleteSession(d, s))
  <2> DEFINE less == DropSessions(d, {s} \cup Below(d, s))
  <2>1. Recorded(less) /\ SameNames(d, less)
    BY <1>1
  <2>2. PICK value : DeleteSession(d, s) = [less EXCEPT !.worktrees = value]
    BY DEF DeleteSession
  <2> HIDE DEF less
  <2>3. QED
    BY <2>1, <2>2, ElsewhereSameNames, SameNamesTwice
<1>3. ASSUME NEW p PROVE SameNames(d, DeleteProject(d, p))
  <2> DEFINE less == DropSessions(d, {s \in DOMAIN d.sessions : d.sessions[s].project = p})
  <2>1. Recorded(less) /\ SameNames(d, less)
    BY <1>1
  <2>2. PICK value : DeleteProject(d, p) = [less EXCEPT !.projects = value]
    BY DEF DeleteProject
  <2> HIDE DEF less
  <2>3. QED
    BY <2>1, <2>2, ElsewhereSameNames, SameNamesTwice
<1>4. QED
  BY <1>2, <1>3, DropAgentsSameNames DEF Removed

(* A Session more names nobody.                                            *)
LEMMA AddSessionSameNames ==
  ASSUME NEW d, Recorded(d), NEW project, NEW type, NEW parent, NEW branch
  PROVE  SameNames(d, AddSession(d, project, type, parent, branch))
<1> DEFINE added == Added(d.sessions, d.nextSession,
              [project |-> project, type |-> type, parent |-> parent, branch |-> branch])
<1>1. AddSession(d, project, type, parent, branch)
        = [d EXCEPT !.sessions = added, !.nextSession = d.nextSession + 1]
  BY DEF AddSession
<1> HIDE DEF added
<1>2. QED
  BY <1>1, WorldAssumption DEF SameNames, Recorded

(* One field of one Agent, which is not its name.                          *)
LEMMA ChangedAgentSameNames ==
  ASSUME NEW d, Recorded(d), NEW a \in DOMAIN d.agents, NEW agent,
         agent.of = d.agents[a].of, agent.name = d.agents[a].name
  PROVE  SameNames(d, [d EXCEPT !.agents = [d.agents EXCEPT ![a] = agent]])
<1> DEFINE agents == [d.agents EXCEPT ![a] = agent]
<1>1. \A b \in DOMAIN agents : /\ b \in DOMAIN d.agents /\ agents[b].of = d.agents[b].of
                               /\ agents[b].name = d.agents[b].name
  OBVIOUS
<1> HIDE DEF agents
<1>2. QED
  BY <1>1, WorldAssumption DEF SameNames, Recorded

(* Nor does what any other request does.                                   *)
LEMMA EffectSameNames ==
  ASSUME NEW d, Recorded(d), NEW ask, ask.kind \notin {"agent", "rename"}
  PROVE  SameNames(d, Effect(d, ask)[1])
<1>1. SameNames(d, d) /\ \A code : Refused(d, code)[1] = d
  BY DEF SameNames, Refused
<1>2. CASE ask.kind = "delete"
  BY <1>1, <1>2, RemovedSameNames DEF Effect, Delete
<1>3. CASE ask.kind = "secondary"
  BY <1>1, <1>3, AddSessionSameNames DEF Effect, CreateSecondary, Made
<1>4. CASE ask.kind = "worktree"
  <2>1. SameNames(d, AddWorktree(d, ask))
    <3> DEFINE main == ask.parent # 0 /\ d.sessions[ask.parent].type = "main"
               added == AddSession(d, ask.project, "worktree", IF main THEN 0 ELSE ask.parent,
                                   ask.branch)
    <3>1. Recorded(added) /\ SameNames(d, added)
      BY AddSessionRecorded, AddSessionSameNames
    <3>2. AddWorktree(d, ask) = [added EXCEPT !.branches = added.branches \cup {ask.branch},
                                              !.worktrees = added.worktrees \cup {ask.branch}]
      BY DEF AddWorktree
    <3> HIDE DEF added
    <3>3. QED
      BY <3>1, <3>2, ElsewhereSameNames, SameNamesTwice
  <2>2. QED
    BY <1>1, <1>4, <2>1 DEF Effect, CreateWorktree, Made
<1>5. CASE ask.kind \notin {"delete", "secondary", "worktree"}
  <2>1. Effect(d, ask) = SetDiscordNotification(d, ask)
    BY <1>5 DEF Effect
  <2>2. CASE ask.id \in DOMAIN d.agents
    <3> DEFINE agent == [d.agents[ask.id] EXCEPT !.armed = ask.enable]
               new == [d EXCEPT !.agents = [d.agents EXCEPT ![ask.id] = agent]]
    <3>1. Effect(d, ask)[1] = new
      BY <2>1, <2>2 DEF SetDiscordNotification, Changed
    <3>2. agent.of = d.agents[ask.id].of /\ agent.name = d.agents[ask.id].name
      BY <2>2 DEF Recorded
    <3> HIDE DEF agent
    <3>3. SameNames(d, new)
      BY <2>2, <3>2, ChangedAgentSameNames
    <3>4. QED
      BY <3>1, <3>3
  <2>3. CASE ask.id \notin DOMAIN d.agents
    BY <1>1, <2>1, <2>3 DEF SetDiscordNotification
  <2>4. QED
    BY <2>2, <2>3
<1>6. QED
  BY <1>2, <1>3, <1>4, <1>5

(* Nor a status.                                                           *)
LEMMA ReportedSameNames ==
  ASSUME NEW d, Recorded(d), NEW a \in DOMAIN d.agents, NEW rank
  PROVE  SameNames(d, Reported(d, a, rank))
<1> DEFINE agent == [d.agents[a] EXCEPT !.rank = rank, !.armed = d.agents[a].armed /\ rank # 1]
           recent == IF rank = d.agents[a].rank THEN d.recent
                     ELSE <<a>> \o SelectSeq(d.recent, LAMBDA b : b # a)
           agents == [d.agents EXCEPT ![a] = agent]
           moved == [d EXCEPT !.agents = agents]
<1>1. Reported(d, a, rank) = [d EXCEPT !.agents = agents, !.recent = recent]
  BY DEF Reported
<1>2. DOMAIN agent = DOMAIN d.agents[a] /\ agent.of = d.agents[a].of /\ agent.name = d.agents[a].name
  BY DEF Recorded
<1> HIDE DEF agent
<1>3. SameNames(d, moved) /\ Recorded(moved)
  BY <1>2, ChangedAgentSameNames, ChangedAgentRecorded
<1> HIDE DEF agents, recent
<1>4. [moved EXCEPT !.recent = recent] = [d EXCEPT !.agents = agents, !.recent = recent]
  BY WorldAssumption DEF Recorded
<1> HIDE DEF moved
<1>5. QED
  BY <1>1, <1>3, <1>4, ElsewhereSameNames, SameNamesTwice

(* What is asked or answered about other things leaves the rest.           *)
LEMMA NoAskNaming == ASSUME IsABag(calls), calls' = calls PROVE NamingAsksStay
BY DEF NamingAsksStay

LEMMA OtherReplyNaming ==
  ASSUME IsABag(calls), NEW c \in BagToSet(calls), ~ AboutNames(c), calls' = Others(c)
  PROVE  NamingAsksStay
<1>1. calls' = calls (-) SetToBag({c})
  BY DEF Others
<1>2. /\ IsABag(calls') /\ BagToSet(calls') \subseteq BagToSet(calls)
      /\ \A e \in BagToSet(calls) : e # c => e \in BagToSet(calls') /\ calls'[e] = calls[e]
  BY <1>1, OneLessCounted
<1>3. QED
  BY <1>2 DEF NamingAsksStay

LEMMA OtherAskNaming ==
  ASSUME IsABag(calls), NEW ask, ask.kind \notin {"agent", "rename"}, Send(calls, ask)
  PROVE  NamingAsksStay
<1> DEFINE call == [ask |-> ask, answer |-> NoAnswer]
<1>1. calls' = calls (+) SetToBag({call})
  BY DEF Send
<1>2. ~ AboutNames(call)
  BY DEF AboutNames
<1> HIDE DEF call
<1>3. /\ IsABag(calls') /\ BagToSet(calls') = BagToSet(calls) \cup {call}
      /\ \A e \in BagToSet(calls) : e # call => calls'[e] = calls[e]
  BY <1>1, CallsMore
<1>4. QED
  BY <1>2, <1>3 DEF NamingAsksStay

(* A call served is one call less and one more.                            *)
LEMMA ServedCounted ==
  ASSUME IsABag(calls), NEW c \in BagToSet(calls), NEW served, served # c,
         calls' = (calls (-) SetToBag({c})) (+) SetToBag({served})
  PROVE  /\ IsABag(calls') /\ BagToSet(calls') \subseteq BagToSet(calls) \cup {served}
         /\ served \in BagToSet(calls')
         /\ \A e \in BagToSet(calls) : e \notin {c, served} =>
              e \in BagToSet(calls') /\ calls'[e] = calls[e]
         /\ calls[c] = 1 => c \notin BagToSet(calls')
         /\ served \notin BagToSet(calls) => calls'[served] = 1
<1> DEFINE rest == calls (-) SetToBag({c})
<1>1. /\ IsABag(rest) /\ BagToSet(rest) \subseteq BagToSet(calls)
      /\ \A e \in BagToSet(calls) : e # c => e \in BagToSet(rest) /\ rest[e] = calls[e]
      /\ calls[c] = 1 => c \notin BagToSet(rest)
  BY OneLessCounted
<1>2. calls' = rest (+) SetToBag({served})
  OBVIOUS
<1> HIDE DEF rest
<1>3. /\ IsABag(calls') /\ BagToSet(calls') = BagToSet(rest) \cup {served}
      /\ \A e \in BagToSet(rest) : e # served => calls'[e] = rest[e]
      /\ served \in BagToSet(rest) \/ calls'[served] = 1
  BY <1>1, <1>2, CallsMore
<1>4. QED
  BY <1>1, <1>3

------------------------------------------------------------------------------
(* The steps that leave the daemon and names alone.                        *)
Aside ==
  /\ UNCHANGED <<daemon, shown, wishes, muddled>>
  /\ form'.agent = form.agent /\ form'.prompts = form.prompts
  /\ form'.rename \in {form.rename, 0} \cup DOMAIN shown.agents
  /\ list' = list \/ list' = NewListing \/ list' = NoListing
  /\ calls' = calls \/ NamingAsksStay

(* They keep the naming.                                                   *)
LEMMA AsideStep == Naming /\ Aside => Naming'
<1> SUFFICES ASSUME Naming, Aside PROVE Naming'
  OBVIOUS
<1>1. DOMAIN NewListing.copy.agents = {} /\ DOMAIN NoListing.copy.agents = {}
  BY DEF NewListing, NoListing, NoCopy
<1>2. NamingAsksStay
  BY NoAskNaming DEF Aside, Naming
<1>3. AgentsStay
  BY DEF Aside, AgentsStay, SameNames
<1>4. CopiesStay
  BY <1>1 DEF Aside, CopiesStay
<1>5. QED
  BY <1>2, <1>3, <1>4, UndisturbedStep DEF Undisturbed, Aside

(* Keys that change what is looked at.                                     *)
LEMMA LookingNaming ==
  IInv /\ Naming /\ (\/ MoveCursor \/ SwitchTab \/ Group \/ FoldAll \/ Refresh \/ StartFilter
                     \/ TypeQuery \/ MoveInFinder \/ EndFilter \/ Quit)
    => Naming'
<1>1. ASSUME NEW w, NEW gesture, NEW focus, Key(gesture, focus), Look(w) PROVE Aside
  BY <1>1 DEF Key, Look, Aside
<1>2. ASSUME NEW row, NEW gesture, NEW focus, Key(gesture, focus), Leave(row) PROVE Aside
  BY <1>2 DEF Key, Leave, Aside
<1>3. Refresh => Aside
  BY DEF Refresh, Key, Relist, Aside
<1>4. MoveCursor \/ SwitchTab \/ Group \/ FoldAll => Aside
  BY <1>1 DEF MoveCursor, SwitchTab, Group, FoldAll
<1>5. StartFilter \/ TypeQuery \/ MoveInFinder \/ EndFilter => Aside
  BY <1>1 DEF StartFilter, TypeQuery, MoveInFinder, EndFilter
<1>6. Quit => Aside
  BY <1>2 DEF Quit
<1>7. QED
  BY <1>3, <1>4, <1>5, <1>6, AsideStep

(* What is filled in.                                                      *)
FilledAside(f) ==
  /\ f.agent = form.agent /\ f.prompts = form.prompts
  /\ f.rename \in {form.rename, 0} \cup DOMAIN shown.agents

LEMMA FillNaming ==
  IInv /\ Naming /\ (\/ TypeBranch \/ CancelWorktree \/ EnterBaseBranch \/ CancelBase
                     \/ ConflictNo \/ EnterDirectory \/ CancelSecondary \/ ConfirmNo
                     \/ CancelRename \/ CancelDiscord)
    => Naming'
<1> SUFFICES ASSUME IInv, Naming PROVE
      (\/ TypeBranch \/ CancelWorktree \/ EnterBaseBranch \/ CancelBase \/ ConflictNo
       \/ EnterDirectory \/ CancelSecondary \/ ConfirmNo \/ CancelRename \/ CancelDiscord) => Aside
  BY AsideStep
<1>1. ASSUME NEW f, Fill(f), UNCHANGED <<daemon, shown>>, FilledAside(f) PROVE Aside
  BY <1>1 DEF Fill, Aside, FilledAside
<1>2. DOMAIN form = DOMAIN Closed
  BY DEF IInv, Shaped
<1>3. /\ TypeBranch => Aside
      /\ CancelWorktree => Aside
      /\ ConflictNo => Aside
  BY <1>1, <1>2, ClosedParts DEF TypeBranch, CancelWorktree, ConflictNo, Key, FilledAside
<1>4. /\ EnterBaseBranch => Aside
      /\ CancelBase => Aside
  BY <1>1, <1>2, ClosedParts DEF EnterBaseBranch, CancelBase, Key, FilledAside
<1>5. /\ EnterDirectory => Aside
      /\ CancelSecondary => Aside
      /\ ConfirmNo => Aside
  BY <1>1, <1>2, ClosedParts DEF EnterDirectory, CancelSecondary, ConfirmNo, Key, FilledAside
<1>6. /\ CancelRename => Aside
      /\ CancelDiscord => Aside
  BY <1>1, <1>2, ClosedParts DEF CancelRename, CancelDiscord, Key, FilledAside
<1>7. QED
  BY <1>3, <1>4, <1>5, <1>6

(* What is asked for.                                                      *)
LEMMA AskNaming ==
  IInv /\ Naming /\ (\/ SubmitWorktree \/ SubmitBase \/ ConflictYes \/ SubmitSecondary
                     \/ ConfirmYes \/ SubmitDiscord)
    => Naming'
<1> SUFFICES ASSUME IInv, Naming PROVE
      (\/ SubmitWorktree \/ SubmitBase \/ ConflictYes \/ SubmitSecondary \/ ConfirmYes
       \/ SubmitDiscord) => Aside
  BY AsideStep
<1>1. ASSUME NEW f, NEW ask, form' = f, Send(calls, ask), ask.kind \notin {"agent", "rename"},
             UNCHANGED <<daemon, shown, wishes, muddled, list>>, FilledAside(f)
      PROVE  Aside
  <2>1. NamingAsksStay
    BY <1>1, OtherAskNaming DEF Naming
  <2>2. QED
    BY <1>1, <2>1 DEF Aside, FilledAside
<1>2. DOMAIN form = DOMAIN Closed /\ FilledAside(form)
  BY DEF IInv, Shaped, FilledAside
<1>3. /\ \A ask, new1, new2 : Worktree(ask, new1, new2).kind \notin {"agent", "rename"}
      /\ \A s : Secondary(s).kind \notin {"agent", "rename"}
      /\ \A row : Deletion(row).kind \notin {"agent", "rename"}
      /\ \A b, enable, seq : Notifying(b, enable, seq).kind \notin {"agent", "rename"}
  BY DEF Worktree, Secondary, Deletion, Notifying
<1>4. SubmitWorktree => Aside
  BY <1>1, <1>2, <1>3 DEF SubmitWorktree, Key, Ask
<1>5. ASSUME SubmitBase PROVE Aside
  <2> DEFINE kept == [form.worktree EXCEPT !.project = form.base.project, !.parent = 0,
                                           !.branch = form.base.branch]
             f == [form EXCEPT !.worktree = kept]
  <2>1. /\ UNCHANGED <<daemon, shown, wishes, muddled, list>>
        /\ form' = f /\ Send(calls, Worktree(kept, TRUE, TRUE))
    BY <1>5 DEF SubmitBase, Key, Ask
  <2>2. FilledAside(f)
    BY <1>2, ClosedParts DEF FilledAside
  <2> HIDE DEF kept, f
  <2>3. QED
    BY <1>1, <1>3, <2>1, <2>2
<1>6. ASSUME ConflictYes PROVE Aside
  <2> DEFINE f == [form EXCEPT !.worktree.conflict = Blank]
             branch == form.worktree.conflict = "branch_exists"
  <2>1. /\ UNCHANGED <<daemon, shown, wishes, muddled, list>>
        /\ form' = f /\ Send(calls, Worktree(form.worktree, branch, FALSE))
    BY <1>6 DEF ConflictYes, Key, Ask
  <2>2. FilledAside(f)
    BY <1>2, ClosedParts DEF FilledAside
  <2> HIDE DEF branch, f
  <2>3. QED
    BY <1>1, <1>3, <2>1, <2>2
<1>7. SubmitSecondary => Aside
  BY <1>1, <1>2, <1>3 DEF SubmitSecondary, Key, Ask
<1>8. ConfirmYes => Aside
  BY <1>1, <1>2, <1>3 DEF ConfirmYes, Key, Ask
<1>9. ASSUME SubmitDiscord PROVE Aside
  <2> DEFINE f == [form EXCEPT !.discord.sent = TRUE]
  <2>1. /\ UNCHANGED <<daemon, shown, wishes, muddled, list>> /\ form' = f
        /\ Send(calls, Notifying(form.discord.agent, form.discord.enable, form.discord.seq))
    BY <1>9 DEF SubmitDiscord, Key
  <2>2. FilledAside(f)
    BY <1>2, ClosedParts DEF FilledAside
  <2> HIDE DEF f
  <2>3. QED
    BY <1>1, <1>3, <2>1, <2>2
<1>10. QED
  BY <1>4, <1>5, <1>6, <1>7, <1>8, <1>9

(* Keys about the row under the cursor, but for the quick and the advanced *)
(* one.                                                                    *)
LEMMA RowNaming ==
  ASSUME IInv, Naming, NEW row,
         \/ Fold(row) \/ Attach(row) \/ StartWorktree(row) \/ StartBase(row) \/ StartSecondary(row)
         \/ RequestDelete(row) \/ StartRename(row) \/ StartDiscord(row)
  PROVE  Naming'
<1> SUFFICES Aside
  BY AsideStep
<1>1. ASSUME NEW f, Fill(f), UNCHANGED <<daemon, shown>>, FilledAside(f) PROVE Aside
  BY <1>1 DEF Fill, Aside, FilledAside
<1>2. DOMAIN form = DOMAIN Closed
  BY DEF IInv, Shaped
<1>3. Fold(row) \/ Attach(row) => Aside
  BY DEF Fold, Attach, Key, Look, Leave, Aside
<1>4. /\ StartWorktree(row) => Aside
      /\ StartBase(row) => Aside
      /\ StartSecondary(row) => Aside
  BY <1>1, <1>2, ClosedParts DEF StartWorktree, StartBase, StartSecondary, Key, FilledAside
<1>5. /\ RequestDelete(row) => Aside
      /\ StartRename(row) => Aside
  BY <1>1, <1>2, ClosedParts DEF RequestDelete, StartRename, Key, FilledAside
<1>6. StartDiscord(row) => Aside
  BY <1>1, <1>2, ClosedParts DEF StartDiscord, Key, FilledAside
<1>7. QED
  BY <1>3, <1>4, <1>5, <1>6

(* Listings take over the ids of Agents that the daemon has given out.     *)
LEMMA ListingNaming ==
  ASSUME IInv, Naming, ReadProjects \/ ReadSessions \/ ReadAgents \/ Tick \/ ListReply \/ ListFails
  PROVE  Naming'
<1>1. UNCHANGED <<daemon, form, calls, wishes, muddled>>
  BY DEF ReadProjects, ReadSessions, ReadAgents, Tick, Listing, ListReply, TakeCopy, ListFails,
         history
<1>2. NamingAsksStay /\ AgentsStay
  BY <1>1, NoAskNaming DEF Naming, AgentsStay, SameNames
<1>3. DOMAIN list.copy = Lists /\ DOMAIN NoCopy.agents = {}
  BY DEF IInv, Shaped, NoCopy
<1>4. CopiesStay
  <2>1. CASE ReadProjects \/ ReadSessions
    <3>1. /\ shown' = shown
          /\ \/ list'.copy = [list.copy EXCEPT !.projects = daemon.projects]
             \/ list'.copy = [list.copy EXCEPT !.sessions = daemon.sessions]
      BY <2>1 DEF ReadProjects, ReadSessions, Listing
    <3>2. list'.copy.agents = list.copy.agents
      BY <1>3, <3>1 DEF Lists
    <3>3. QED
      BY <1>1, <3>1, <3>2 DEF CopiesStay
  <2>2. CASE ReadAgents
    <3>1. /\ shown' = shown
          /\ list'.copy = [list.copy EXCEPT !.agents = daemon.agents, !.recent = daemon.recent]
      BY <2>2 DEF ReadAgents, Listing
    <3>2. list'.copy.agents = daemon.agents
      BY <1>3, <3>1 DEF Lists
    <3>3. QED
      BY <1>1, <3>1, <3>2 DEF CopiesStay
  <2>3. CASE Tick
    <3>1. shown' = shown /\ list'.copy = NoCopy
      BY <2>3 DEF Tick, Listing
    <3>2. QED
      BY <1>1, <1>3, <3>1 DEF CopiesStay
  <2>4. CASE ListReply \/ ListFails
    <3>1. /\ shown' = shown \/ shown' = list.copy
          /\ list' = NoListing
      BY <2>4 DEF ListReply, TakeCopy, ListFails
    <3>2. list'.copy = NoCopy
      BY <3>1 DEF NoListing
    <3>3. QED
      BY <1>1, <1>3, <3>1, <3>2 DEF CopiesStay
  <2>5. QED
    BY <2>1, <2>2, <2>3, <2>4
<1>5. QED
  BY <1>1, <1>2, <1>4, UndisturbedStep DEF Undisturbed

(* What others do names nobody.                                            *)
LEMMA OthersNaming ==
  ASSUME IInv, Naming, StatusChanges \/ AgentEnds \/ SessionGoes
  PROVE  Naming'
<1>1. Recorded(daemon)
  BY DEF IInv, Shaped
<1>2. ASSUME NEW gesture, NEW new, Outside(gesture, new), SameNames(daemon, new) PROVE Naming'
  <2>1. UNCHANGED <<shown, form, list, calls, wishes, muddled>> /\ daemon' = new
    BY <1>2 DEF Outside
  <2>2. NamingAsksStay /\ AgentsStay /\ CopiesStay
    BY <1>2, <2>1, NoAskNaming DEF Naming, AgentsStay, SameNames, CopiesStay
  <2>3. QED
    BY <2>1, <2>2, UndisturbedStep DEF Undisturbed
<1>3. CASE StatusChanges
  BY <1>1, <1>2, <1>3, ReportedSameNames DEF StatusChanges
<1>4. CASE AgentEnds
  BY <1>1, <1>2, <1>4, RemovedSameNames DEF AgentEnds
<1>5. CASE SessionGoes
  BY <1>1, <1>2, <1>5, RemovedSameNames DEF SessionGoes
<1>6. QED
  BY <1>3, <1>4, <1>5

(* The answers about other things.                                         *)
LEMMA OtherReplyStep ==
  ASSUME IInv, Naming, NEW c \in BagToSet(calls),
         \/ DeleteReply(c) \/ SessionConflict(c) \/ SessionFailed(c) \/ SessionMade(c)
         \/ DiscordReply(c)
  PROVE  Naming'
<1>1. /\ UNCHANGED <<daemon, muddled, wishes>> /\ calls' = Others(c) /\ ~ AboutNames(c)
  BY DEF DeleteReply, SessionConflict, SessionFailed, SessionMade, DiscordReply, Replies,
         AboutNames
<1>2. NamingAsksStay /\ AgentsStay
  BY <1>1, OtherReplyNaming DEF Naming, AgentsStay, SameNames
<1>3. DOMAIN form = DOMAIN Closed /\ DOMAIN shown = Lists
  BY DEF IInv, Shaped
<1>4. form'.agent = form.agent /\ form'.prompts = form.prompts /\ form'.rename = form.rename
  <2>1. CASE DeleteReply(c)
    BY <1>3, <2>1, ClosedParts DEF DeleteReply
  <2>2. CASE SessionConflict(c)
    BY <1>3, <2>2, ClosedParts DEF SessionConflict, AskAbout
  <2>3. CASE SessionFailed(c)
    BY <2>3 DEF SessionFailed
  <2>4. CASE SessionMade(c)
    BY <1>3, <2>4, ClosedParts DEF SessionMade
  <2>5. CASE DiscordReply(c)
    BY <1>3, <2>5, ClosedParts DEF DiscordReply
  <2>6. QED
    BY <2>1, <2>2, <2>3, <2>4, <2>5
<1>5. list' = list \/ list' = NewListing \/ list' = NoListing
  BY DEF DeleteReply, SessionConflict, SessionFailed, SessionMade, DiscordReply, Relist, Overtake
<1>6. DOMAIN NewListing.copy.agents = {} /\ DOMAIN NoListing.copy.agents = {}
  BY DEF NewListing, NoListing, NoCopy
<1>7. DOMAIN shown'.agents = DOMAIN shown.agents
  <2>1. CASE shown' = shown
    BY <2>1
  <2>2. CASE shown' # shown
    <3> DEFINE agents == [shown.agents EXCEPT ![c.ask.id] = c.answer.record]
    <3>1. shown' = [shown EXCEPT !.agents = agents]
      BY <2>2 DEF DeleteReply, SessionConflict, SessionFailed, SessionMade, DiscordReply
    <3>2. DOMAIN agents = DOMAIN shown.agents
      OBVIOUS
    <3> HIDE DEF agents
    <3>3. QED
      BY <1>3, <3>1, <3>2 DEF Lists
  <2>3. QED
    BY <2>1, <2>2
<1>8. CopiesStay
  BY <1>1, <1>4, <1>5, <1>6, <1>7 DEF CopiesStay
<1>9. QED
  BY <1>1, <1>2, <1>4, <1>8, UndisturbedStep DEF Undisturbed

(* A call served that creates and renames no Agent.                        *)
LEMMA OtherServed ==
  ASSUME IInv, Naming, Serve,
         NEW c \in BagToSet(calls), ~ AboutNames(c), c.answer = NoAnswer,
         NEW effect, effect \in Outcomes(daemon, c.ask),
         daemon' = effect[1],
         calls' = (calls (-) SetToBag({c})) (+) SetToBag({[c EXCEPT !.answer = effect[2]]})
  PROVE  Naming'
<1> DEFINE served == [c EXCEPT !.answer = effect[2]]
<1>1. /\ UNCHANGED <<shown, form, list, wishes, muddled>>
      /\ Recorded(daemon) /\ DOMAIN c = {"ask", "answer"} /\ IsABag(calls)
  BY DEF Serve, IInv, Shaped, Sequenced, Naming
<1>2. served.ask = c.ask
  BY <1>1
<1>3. calls' = (calls (-) SetToBag({c})) (+) SetToBag({served})
  OBVIOUS
<1> HIDE DEF served
<1>4. NamingAsksStay
  <2>1. CASE served = c
    <3> DEFINE rest == calls (-) SetToBag({c})
    <3>1. /\ IsABag(rest) /\ BagToSet(rest) \subseteq BagToSet(calls)
          /\ \A e \in BagToSet(calls) : e # c => e \in BagToSet(rest) /\ rest[e] = calls[e]
      BY <1>1, OneLessCounted
    <3>2. calls' = rest (+) SetToBag({c})
      BY <1>3, <2>1
    <3> HIDE DEF rest
    <3>3. /\ IsABag(calls') /\ BagToSet(calls') = BagToSet(rest) \cup {c}
          /\ \A e \in BagToSet(rest) : e # c => calls'[e] = rest[e]
      BY <3>1, <3>2, CallsMore
    <3>4. QED
      BY <3>1, <3>3 DEF NamingAsksStay
  <2>2. CASE served # c
    <3>1. /\ IsABag(calls') /\ BagToSet(calls') \subseteq BagToSet(calls) \cup {served}
          /\ \A e \in BagToSet(calls) : e \notin {c, served} =>
               e \in BagToSet(calls') /\ calls'[e] = calls[e]
      BY <1>1, <1>3, <2>2, ServedCounted
    <3>2. ~ AboutNames(served)
      BY <1>2 DEF AboutNames
    <3>3. QED
      BY <3>1, <3>2 DEF NamingAsksStay
  <2>3. QED
    BY <2>1, <2>2
<1>5. AgentsStay
  <2> DEFINE ask == c.ask
  <2>1. ask.kind \notin {"agent", "rename"}
    BY DEF AboutNames
  <2>2. effect[1] \in {daemon, Effect(daemon, ask)[1]}
    BY DEF Outcomes, Refused
  <2> HIDE DEF ask
  <2>3. SameNames(daemon, daemon)
    BY DEF SameNames
  <2>4. SameNames(daemon, Effect(daemon, ask)[1])
    BY <1>1, <2>1, EffectSameNames
  <2>5. QED
    BY <2>2, <2>3, <2>4 DEF AgentsStay
<1>6. CopiesStay
  BY <1>1 DEF CopiesStay
<1>7. QED
  BY <1>1, <1>4, <1>5, <1>6, UndisturbedStep DEF Undisturbed

------------------------------------------------------------------------------
(* The keys of the Agent prompts                                           *)

(* Where the keys go while a prompt for an Agent is open, or not.          *)
LEMMA FocusOn ==
  /\ Focus = "rows" \/ Focus = "rename" => ~ form.agent.on
  /\ Focus = "agent" => form.agent.on
BY DEF Focus

LEMMA AgentClosed ==
  /\ DOMAIN Closed.agent = {"on", "step", "session", "name", "quick", "made", "named"}
  /\ ~ Closed.agent.quick /\ Closed.agent.made = 0
BY DEF Closed

(* From the rows no prompt is open, and none waits for its Agent, unless a *)
(* creation is under way.                                                  *)
LEMMA NoPromptOpen ==
  ASSUME Naming, ~ muddled, ~ Creating, ~ form.agent.on
  PROVE  /\ ~ Quick
         /\ \A c \in BagToSet(calls) : ~ Creates(c)
<1>1. \A c \in BagToSet(calls) : ~ Creates(c)
  BY DEF Creating, Creates
<1>2. ~ Quick
  BY <1>1 DEF Naming, Orderly, AnswerKnown, Coming, Prompted
<1>3. QED
  BY <1>1, <1>2

(* Where the prompt keeps no name, the wishes are as they were when the    *)
(* records and the renamings under way are.                                *)
LEMMA WishesStay ==
  ASSUME UNCHANGED <<daemon, wishes>>, WishesGranted, ~ (Quick /\ form.agent.named),
         \A c, a : Renames(c, a) => (c \in BagToSet(calls') <=> c \in BagToSet(calls))
  PROVE  WishesGranted'
<1> SUFFICES ASSUME NEW a \in DOMAIN daemon.agents, daemon.agents[a].of \in DOMAIN wishes
             PROVE  Granted(a, wishes[daemon.agents[a].of])'
  BY DEF WishesGranted
<1>1. Granted(a, wishes[daemon.agents[a].of])
  BY DEF WishesGranted
<1>2. \A c : Renames(c, a) => (c \in BagToSet(calls') <=> c \in BagToSet(calls))
  OBVIOUS
<1>3. QED
  BY <1>1, <1>2 DEF Granted, Renames

(* Another creation, of an Agent that no quick prompt waits for.           *)
Unprompted ==
  /\ UNCHANGED <<daemon, shown, wishes>> /\ list' = list
  /\ form'.prompts = form.prompts /\ form'.rename = form.rename
  /\ DOMAIN form'.agent = DOMAIN Closed.agent /\ form'.agent.made = 0 /\ ~ form'.agent.quick
  /\ \/ calls' = calls
     \/ \E s, name : Send(calls, Creation(s, name, 0))
  /\ muddled' \/ (~ muddled /\ ~ Quick)

(* It keeps the naming: the Agent is of no prompt, so that no wish counts  *)
(* for it.                                                                 *)
LEMMA UnpromptedStep == Naming /\ Unprompted => Naming'
<1> SUFFICES ASSUME Naming, Unprompted PROVE Naming'
  OBVIOUS
<1>1. PICK call : /\ call.ask.kind = "agent" /\ call.ask.prompt = 0 /\ call.answer.code # "ok"
                  /\ calls' = calls \/ calls' = calls (+) SetToBag({call})
  <2>1. \A s, name : /\ Creation(s, name, 0).kind = "agent" /\ Creation(s, name, 0).prompt = 0
    BY DEF Creation
  <2>2. NoAnswer.code # "ok"
    BY DEF NoAnswer, Answer
  <2>3. CASE calls' = calls
    <3> DEFINE call == [ask |-> Creation(0, Blank, 0), answer |-> NoAnswer]
    <3>1. call.ask.kind = "agent" /\ call.ask.prompt = 0 /\ call.answer.code # "ok"
      BY <2>1, <2>2
    <3>2. QED
      BY <2>3, <3>1
  <2>4. CASE \E s, name : Send(calls, Creation(s, name, 0))
    <3>1. PICK s, name : calls' = calls (+) SetToBag({[ask |-> Creation(s, name, 0), answer |-> NoAnswer]})
      BY <2>4 DEF Send
    <3> DEFINE call == [ask |-> Creation(s, name, 0), answer |-> NoAnswer]
    <3>2. call.ask.kind = "agent" /\ call.ask.prompt = 0 /\ call.answer.code # "ok"
      BY <2>1, <2>2
    <3>3. QED
      BY <3>1, <3>2
  <2>5. QED
    BY <2>3, <2>4 DEF Unprompted
<1>2. /\ IsABag(calls') /\ BagToSet(calls') \subseteq BagToSet(calls) \cup {call}
      /\ BagToSet(calls) \subseteq BagToSet(calls')
  <2>1. IsABag(calls)
    BY DEF Naming
  <2>2. CASE calls' = calls
    BY <2>1, <2>2 DEF IsABag
  <2>3. CASE calls' = calls (+) SetToBag({call})
    BY <2>1, <2>3, CallsMore
  <2>4. QED
    BY <1>1, <2>2, <2>3
<1>3. ~ Quick' /\ Prompted'
  BY DEF Unprompted, Quick, Prompted
<1>4. Numbered'
  <2>1. Issued' = Issued
    BY DEF Unprompted, Issued
  <2>2. \A c \in BagToSet(calls') : c \in BagToSet(calls) \/ c = call
    BY <1>2
  <2>3. form.prompts \in Nat
    BY DEF Naming, Numbered
  <2>4. QED
    BY <1>1, <2>1, <2>2, <2>3 DEF Naming, Numbered, Unprompted
<1>5. ASSUME ~ muddled' PROVE Orderly'
  <2>1. Orderly /\ ~ Quick
    BY <1>5 DEF Unprompted, Naming
  <2>2. \A c \in BagToSet(calls') : ~ Coming(c)
    BY <1>1, <1>2, <2>1 DEF Orderly, OneComing, Coming
  <2>3. OneComing' /\ AnswerKnown' /\ NameKept'
    BY <1>3, <2>2 DEF OneComing, AnswerKnown, NameKept, Coming, Creates
  <2>4. WishesGranted'
    <3>1. \A c, a : Renames(c, a) => (c \in BagToSet(calls') <=> c \in BagToSet(calls))
      BY <1>1, <1>2 DEF Renames
    <3>2. QED
      BY <2>1, <3>1, WishesStay DEF Orderly, Unprompted
  <2>5. QED
    BY <2>3, <2>4 DEF Orderly
<1>6. QED
  BY <1>2, <1>3, <1>4, <1>5 DEF Naming

(* The advanced prompt asks for such Agents.                               *)
LEMMA AdvancedNaming ==
  IInv /\ Naming /\ ((\E row : StartAdvancedAgent(row)) \/ EnterAgentName \/ EnterExecutable
                     \/ EnterYolo \/ CancelAgent)
    => Naming'
<1> SUFFICES ASSUME IInv, Naming,
                    (\E row : StartAdvancedAgent(row)) \/ EnterAgentName \/ EnterExecutable
                      \/ EnterYolo \/ CancelAgent
             PROVE  Unprompted
  BY UnpromptedStep
<1>1. DOMAIN form = DOMAIN Closed
  BY DEF IInv, Shaped
<1>2. CASE \E row : StartAdvancedAgent(row)
  <2>1. PICK s : /\ form' = [form EXCEPT !.agent = Prompt(s, FALSE)]
                 /\ Focus = "rows" /\ muddled' = (muddled \/ Creating)
                 /\ UNCHANGED <<daemon, shown, wishes, list, calls>>
    BY <1>2 DEF StartAdvancedAgent, Key
  <2>2. muddled' \/ (~ muddled /\ ~ Quick)
    BY <2>1, FocusOn, NoPromptOpen
  <2>3. /\ form'.agent = Prompt(s, FALSE) /\ form'.prompts = form.prompts
        /\ form'.rename = form.rename
    BY <1>1, <2>1, ClosedParts
  <2>4. /\ DOMAIN Prompt(s, FALSE) = DOMAIN Closed.agent /\ ~ Prompt(s, FALSE).quick
        /\ Prompt(s, FALSE).made = 0
    BY AgentClosed DEF Prompt
  <2>5. QED
    BY <2>1, <2>2, <2>3, <2>4 DEF Unprompted
<1>3. CASE EnterAgentName \/ EnterExecutable \/ EnterYolo \/ CancelAgent
  <2>1. /\ ~ Quick /\ UNCHANGED <<daemon, shown, wishes, list, muddled>>
        /\ calls' = calls \/ \E s, name : Send(calls, Creation(s, name, 0))
    BY <1>3 DEF EnterAgentName, EnterExecutable, EnterYolo, CancelAgent, Key, Fill, Ask, Quick,
                Naming, Prompted
  <2>2. form.agent.made = 0 /\ DOMAIN form.agent = DOMAIN Closed.agent
    BY <2>1 DEF Naming, Prompted
  <2> DEFINE Entered(agent) ==
               \/ agent = form.agent \/ agent = Closed.agent
               \/ \E step : agent = [form.agent EXCEPT !.step = step]
               \/ \E step, name : agent = [form.agent EXCEPT !.name = name, !.step = step]
  <2>3. PICK agent : /\ Entered(agent)
                     /\ \/ form' = form /\ agent = form.agent
                        \/ form' = [form EXCEPT !.agent = agent]
    <3>1. CASE form' = form
      BY <3>1
    <3>2. CASE EnterAgentName
      <4>1. PICK name \in Names : form' = [form EXCEPT !.agent.name = name, !.agent.step = "executable"]
        BY <3>2 DEF EnterAgentName, Fill
      <4> DEFINE entered == [form.agent EXCEPT !.name = name, !.step = "executable"]
      <4>2. form' = [form EXCEPT !.agent = entered]
        BY <4>1
      <4>3. Entered(entered)
        OBVIOUS
      <4> HIDE DEF entered, Entered
      <4>4. QED
        BY <4>2, <4>3
    <3>3. CASE EnterExecutable /\ form' # form
      <4> DEFINE entered == [form.agent EXCEPT !.step = "yolo"]
      <4>1. form' = [form EXCEPT !.agent = entered]
        BY <3>3 DEF EnterExecutable, Fill, Ask
      <4>2. Entered(entered)
        OBVIOUS
      <4> HIDE DEF entered, Entered
      <4>3. QED
        BY <4>1, <4>2
    <3>4. CASE CancelAgent
      BY <3>4 DEF CancelAgent, Fill
    <3>5. EnterYolo => form' = form
      BY DEF EnterYolo, Ask
    <3>6. QED
      BY <1>3, <3>1, <3>2, <3>3, <3>4, <3>5
  <2>4. DOMAIN agent = DOMAIN Closed.agent /\ agent.made = 0 /\ ~ agent.quick
    BY <2>1, <2>2, <2>3, AgentClosed DEF Quick
  <2>5. form'.agent = agent /\ form'.prompts = form.prompts /\ form'.rename = form.rename
    BY <1>1, <2>3, ClosedParts
  <2>6. CASE muddled
    BY <2>1, <2>4, <2>5, <2>6 DEF Unprompted
  <2>7. CASE ~ muddled
    BY <2>1, <2>4, <2>5, <2>7 DEF Unprompted
  <2>8. QED
    BY <2>6, <2>7
<1>4. QED
  BY <1>2, <1>3

------------------------------------------------------------------------------
(* A quick prompt opens: its number is new, and no Agent is of it yet.     *)
LEMMA StartQuickNaming == ASSUME IInv, Naming, NEW row, StartQuickAgent(row) PROVE Naming'
<1> DEFINE p == form.prompts + 1
           s == SessionOf(row)
           call == [ask |-> Creation(s, Blank, p), answer |-> NoAnswer]
           agent == Prompt(s, TRUE)
<1>1. /\ Focus = "rows" /\ UNCHANGED <<daemon, shown, wishes, list>>
      /\ form' = [form EXCEPT !.agent = agent, !.prompts = form.prompts + 1]
      /\ calls' = calls (+) SetToBag({call}) /\ muddled' = (muddled \/ Creating)
  BY DEF StartQuickAgent, Key, Send
<1>2. /\ call.ask.kind = "agent" /\ call.ask.prompt = p /\ call.ask.name = Blank
      /\ call.answer.code # "ok"
  BY DEF Creation, NoAnswer, Answer
<1>3. /\ DOMAIN agent = DOMAIN Closed.agent /\ agent.quick /\ agent.on /\ ~ agent.named
      /\ agent.made = 0 /\ agent.step = "name"
  BY AgentClosed DEF Prompt
<1>4. p \in Nat \ {0} /\ form.prompts \in Nat /\ 0 .. form.prompts \subseteq 0 .. p
      /\ p \notin 0 .. form.prompts
  BY DEF Naming, Numbered
<1>5. /\ form'.agent = agent /\ form'.prompts = p /\ form'.rename = form.rename
  BY <1>1, ClosedParts DEF IInv, Shaped
<1> HIDE DEF agent, call
<1>6. /\ IsABag(calls') /\ BagToSet(calls') = BagToSet(calls) \cup {call}
      /\ call \in BagToSet(calls) \/ calls'[call] = 1
  BY <1>1, CallsMore DEF Naming
<1>7. Prompted'
  BY <1>3, <1>4, <1>5 DEF Prompted, Quick
<1>8. Numbered'
  <2>1. Issued' = Issued
    BY <1>1 DEF Issued
  <2>2. DOMAIN wishes \subseteq 1 .. p
    BY <1>4 DEF Naming, Numbered
  <2>3. \A c \in BagToSet(calls') :
          /\ c.ask.kind = "rename" => c.ask.id \in Issued \cup {0}
          /\ c.ask.kind = "agent" => c.ask.prompt \in 0 .. p
          /\ c.ask.kind = "agent" /\ c.answer.code = "ok" => c.answer.id \in Issued
    <3>1. p \in 0 .. p
      BY <1>4
    <3>2. QED
      BY <1>2, <1>4, <1>6, <3>1 DEF Naming, Numbered
  <2>4. \A a \in DOMAIN daemon.agents : daemon.agents[a].of \in 0 .. p
    BY <1>4 DEF Naming, Numbered
  <2>5. QED
    BY <1>1, <1>3, <1>4, <1>5, <2>1, <2>2, <2>3, <2>4 DEF Naming, Numbered
<1> HIDE DEF p
<1>9. ASSUME ~ muddled' PROVE Orderly'
  <2>1. Orderly /\ ~ Quick /\ \A c \in BagToSet(calls) : ~ Creates(c)
    BY <1>1, <1>9, FocusOn, NoPromptOpen DEF Naming
  <2>2. Own' = {}
    BY <1>1, <1>4, <1>5 DEF Own, Naming, Numbered
  <2>3. \A c \in BagToSet(calls') : Creates(c) => c = call
    BY <1>6, <2>1
  <2>4. Coming(call) /\ Creates(call) /\ calls'[call] = 1 /\ call \in BagToSet(calls')
    BY <1>2, <1>4, <1>6, <2>1 DEF Coming, Creates
  <2>5. OneComing'
    BY <1>2, <1>3, <1>5, <2>2, <2>3, <2>4 DEF OneComing, Coming, Creates, Quick
  <2>6. AnswerKnown'
    BY <1>3, <1>5, <2>4 DEF AnswerKnown, Coming, Creates
  <2>7. NameKept'
    BY <1>1, <1>3, <1>4, <1>5, <2>2 DEF NameKept, Naming, Numbered
  <2>8. WishesGranted'
    <3>1. \A c, a : Renames(c, a) => (c \in BagToSet(calls') <=> c \in BagToSet(calls))
      BY <1>2, <1>6 DEF Renames
    <3>2. QED
      BY <1>1, <2>1, <3>1, WishesStay DEF Orderly
  <2>9. QED
    BY <2>5, <2>6, <2>7, <2>8 DEF Orderly
<1>10. QED
  BY <1>6, <1>7, <1>8, <1>9 DEF Naming

(* The name is given: it is kept for the Agent to come, or sent to the one *)
(* that is there, which nothing has named so far.                          *)
LEMMA WishMade ==
  ASSUME NEW p, NEW name, wishes' = Added(wishes, p, name)
  PROVE  /\ DOMAIN wishes' = DOMAIN wishes \cup {p} /\ wishes'[p] = name
         /\ \A q \in DOMAIN wishes : q # p => wishes'[q] = wishes[q]
BY DEF Added

LEMMA FinishQuickNaming == IInv /\ Naming /\ FinishQuickName => Naming'
<1> SUFFICES ASSUME IInv, Naming, FinishQuickName PROVE Naming'
  OBVIOUS
<1> DEFINE p == form.prompts
<1>1. PICK name \in Names :
        /\ Focus = "agent" /\ UNCHANGED <<daemon, shown, muddled>> /\ Quick
        /\ wishes' = Added(wishes, p, name)
        /\ IF form.agent.made = 0
           THEN /\ form' = [form EXCEPT !.agent.on = FALSE, !.agent.named = TRUE,
                                        !.agent.name = name]
                /\ UNCHANGED <<list, calls>>
           ELSE /\ form' = [form EXCEPT !.agent = Closed.agent]
                /\ IF name = Blank THEN list' = NewListing /\ UNCHANGED calls
                   ELSE Send(calls, Renaming(form.agent.made, name)) /\ UNCHANGED list
  BY DEF FinishQuickName, Key, Quick
<1>2. /\ DOMAIN wishes' = DOMAIN wishes \cup {p} /\ wishes'[p] = name
      /\ \A q \in DOMAIN wishes : q # p => wishes'[q] = wishes[q]
  BY <1>1, WishMade
<1>3. form.agent.on /\ ~ form.agent.named /\ p \in Nat \ {0} /\ form.agent.step = "name"
  BY <1>1, FocusOn DEF Naming, Prompted, Numbered
<1>4. Issued' = Issued /\ DOMAIN wishes' \subseteq 1 .. p
  BY <1>1, <1>2, <1>3 DEF Issued, Naming, Numbered
<1>5. DOMAIN form = DOMAIN Closed /\ DOMAIN form.agent = DOMAIN Closed.agent
  BY DEF IInv, Shaped, Naming, Prompted
<1>6. CASE form.agent.made = 0
  <2> DEFINE agent == [form.agent EXCEPT !.on = FALSE, !.named = TRUE, !.name = name]
  <2>1. form' = [form EXCEPT !.agent = agent] /\ UNCHANGED <<list, calls>>
    BY <1>1, <1>6
  <2>2. /\ DOMAIN agent = DOMAIN Closed.agent /\ agent.quick /\ ~ agent.on /\ agent.named
        /\ agent.made = 0 /\ agent.step = "name" /\ agent.name = name
    BY <1>1, <1>3, <1>5, <1>6, AgentClosed DEF Quick
  <2> HIDE DEF agent
  <2>3. form'.agent = agent /\ form'.prompts = p /\ form'.rename = form.rename
    BY <1>5, <2>1, ClosedParts
  <2>4. IsABag(calls') /\ Prompted'
    BY <1>3, <2>1, <2>2, <2>3 DEF Naming, Prompted, Quick, IsABag
  <2>5. Numbered'
    BY <1>1, <1>4, <2>1, <2>2, <2>3 DEF Naming, Numbered
  <2>6. ASSUME ~ muddled' PROVE Orderly'
    <3>1. Orderly /\ Own' = Own
      BY <1>1, <2>3, <2>6 DEF Naming, Own
    <3>2. OneComing' /\ AnswerKnown'
      BY <1>1, <1>6, <2>1, <2>2, <2>3, <3>1
         DEF Orderly, OneComing, AnswerKnown, Coming, Creates, Quick
    <3>3. NameKept'
      BY <1>2, <2>2, <2>3 DEF NameKept
    <3>4. WishesGranted'
      <4> SUFFICES ASSUME NEW a \in DOMAIN daemon.agents, daemon.agents[a].of \in DOMAIN wishes'
                   PROVE  Granted(a, wishes[daemon.agents[a].of])'
        BY <1>1 DEF WishesGranted
      <4>1. CASE a \in Own
        <5>1. /\ daemon.agents[a].name = Blank /\ daemon.agents[a].of = p
              /\ \A c \in BagToSet(calls) : ~ Renames(c, a)
          BY <1>1, <1>3, <3>1, <4>1 DEF Orderly, NameKept, Own
        <5>2. QED
          BY <1>1, <1>2, <2>1, <2>2, <2>3, <3>1, <4>1, <5>1 DEF Granted, Quick, Renames
      <4>2. CASE a \notin Own
        <5>1. daemon.agents[a].of # p
          BY <4>2 DEF Own
        <5>2. Granted(a, wishes[daemon.agents[a].of])
          BY <1>2, <3>1, <5>1 DEF Orderly, WishesGranted
        <5>3. wishes'[daemon.agents[a].of] = wishes[daemon.agents[a].of]
          BY <1>2, <5>1
        <5>4. QED
          BY <1>1, <2>1, <4>2, <5>2, <5>3 DEF Granted, Renames
      <4>3. QED
        BY <4>1, <4>2
    <3>5. QED
      BY <3>2, <3>3, <3>4 DEF Orderly
  <2>7. QED
    BY <2>4, <2>5, <2>6 DEF Naming
<1>7. CASE form.agent.made # 0
  <2> DEFINE made == form.agent.made
             call == [ask |-> Renaming(made, name), answer |-> NoAnswer]
  <2>1. /\ form' = [form EXCEPT !.agent = Closed.agent]
        /\ \/ name = Blank /\ calls' = calls /\ list' = NewListing
           \/ name # Blank /\ calls' = calls (+) SetToBag({call}) /\ list' = list
    BY <1>1, <1>7 DEF Send
  <2>2. form'.agent = Closed.agent /\ form'.prompts = p /\ form'.rename = form.rename
    BY <1>5, <2>1, ClosedParts
  <2>3. /\ call.ask.kind = "rename" /\ call.ask.id = made /\ call.ask.name = name
        /\ call.answer.code # "ok"
    BY DEF Renaming, NoAnswer, Answer
  <2> HIDE DEF call
  <2>4. /\ IsABag(calls') /\ BagToSet(calls) \subseteq BagToSet(calls')
        /\ BagToSet(calls') \subseteq BagToSet(calls) \cup {call}
        /\ name = Blank => BagToSet(calls') = BagToSet(calls)
        /\ name # Blank => call \in BagToSet(calls')
    <3>1. CASE calls' = calls /\ name = Blank
      BY <3>1 DEF Naming, IsABag
    <3>2. CASE calls' = calls (+) SetToBag({call}) /\ name # Blank
      BY <3>2, CallsMore DEF Naming
    <3>3. QED
      BY <2>1, <3>1, <3>2
  <2>5. ~ Quick' /\ Prompted'
    BY <2>2, AgentClosed DEF Prompted, Quick
  <2>6. Numbered'
    <3>1. /\ DOMAIN list'.copy.agents \subseteq Issued
      BY <2>1 DEF NewListing, NoCopy, Naming, Numbered
    <3>2. made \in Issued
      BY <1>7 DEF Naming, Numbered
    <3>3. QED
      BY <1>1, <1>4, <2>2, <2>3, <2>4, <3>1, <3>2, AgentClosed DEF Naming, Numbered
  <2>7. ASSUME ~ muddled' PROVE Orderly'
    <3>1. Orderly /\ \A c \in BagToSet(calls) : ~ Creates(c)
      BY <1>1, <1>7, <2>7 DEF Naming, Orderly, OneComing
    <3>2. \A c \in BagToSet(calls') : ~ Creates(c)
      BY <2>3, <2>4, <3>1 DEF Creates
    <3>3. OneComing' /\ AnswerKnown' /\ NameKept'
      BY <2>5, <3>2 DEF OneComing, AnswerKnown, NameKept, Coming, Creates
    <3>4. WishesGranted'
      <4> SUFFICES ASSUME NEW a \in DOMAIN daemon.agents, daemon.agents[a].of \in DOMAIN wishes'
                   PROVE  Granted(a, wishes[daemon.agents[a].of])'
        BY <1>1 DEF WishesGranted
      <4>1. a \in Own <=> a = made
        BY <1>1, <1>7, <3>1 DEF Orderly, AnswerKnown
      <4>2. CASE a \in Own
        <5>1. /\ daemon.agents[a].name = Blank /\ daemon.agents[a].of = p
              /\ \A c \in BagToSet(calls) : ~ Renames(c, a)
          BY <1>1, <1>3, <3>1, <4>2 DEF Orderly, NameKept, Own
        <5>2. QED
          BY <1>1, <1>2, <2>3, <2>4, <4>1, <4>2, <5>1 DEF Granted, Renames
      <4>3. CASE a \notin Own
        <5>1. daemon.agents[a].of # p
          BY <4>3 DEF Own
        <5>2. Granted(a, wishes[daemon.agents[a].of])
          BY <1>2, <3>1, <5>1 DEF Orderly, WishesGranted
        <5>3. wishes'[daemon.agents[a].of] = wishes[daemon.agents[a].of]
          BY <1>2, <5>1
        <5>4. \A c \in BagToSet(calls') : Renames(c, a) => c \in BagToSet(calls)
          BY <2>3, <2>4, <4>1, <4>3 DEF Renames
        <5>5. QED
          BY <1>1, <2>4, <4>3, <5>2, <5>3, <5>4 DEF Granted, Renames
      <4>4. QED
        BY <4>2, <4>3
    <3>5. QED
      BY <3>3, <3>4 DEF Orderly
  <2>8. QED
    BY <2>4, <2>5, <2>6, <2>7 DEF Naming
<1>8. QED
  BY <1>6, <1>7

(* The wish for an Agent that is renamed is given up.                      *)
LEMMA WishGivenUp ==
  ASSUME NEW b, wishes' = Unwished(b)
  PROVE  /\ DOMAIN wishes' \subseteq DOMAIN wishes
         /\ \A q \in DOMAIN wishes' : wishes'[q] = wishes[q]
         /\ \A a \in DOMAIN daemon.agents : daemon.agents[a].of \in DOMAIN wishes' => a # b
BY DEF Unwished

(* A renaming by hand is of no Agent that a wish still counts for.         *)
LEMMA SubmitRenameNaming == IInv /\ Naming /\ SubmitRename => Naming'
<1> SUFFICES ASSUME IInv, Naming, SubmitRename PROVE Naming'
  OBVIOUS
<1>1. PICK name \in Names \ {Blank} :
        /\ Focus = "rename" /\ UNCHANGED <<daemon, shown, form, list, muddled>>
        /\ wishes' = Unwished(form.rename) /\ Send(calls, Renaming(form.rename, name))
  BY DEF SubmitRename, Key
<1> DEFINE call == [ask |-> Renaming(form.rename, name), answer |-> NoAnswer]
<1>2. calls' = calls (+) SetToBag({call})
  BY <1>1 DEF Send
<1>3. call.ask.kind = "rename" /\ call.ask.id = form.rename
  BY DEF Renaming
<1> HIDE DEF call
<1>4. /\ IsABag(calls') /\ BagToSet(calls') = BagToSet(calls) \cup {call}
      /\ \A c \in BagToSet(calls) : c # call => calls'[c] = calls[c]
  BY <1>2, CallsMore DEF Naming
<1>5. /\ DOMAIN wishes' \subseteq DOMAIN wishes
      /\ \A q \in DOMAIN wishes' : wishes'[q] = wishes[q]
      /\ \A a \in DOMAIN daemon.agents : daemon.agents[a].of \in DOMAIN wishes' => a # form.rename
  BY <1>1, WishGivenUp
<1>6. Prompted' /\ Quick' = Quick
  BY <1>1 DEF Naming, Prompted, Quick
<1>7. Numbered'
  BY <1>1, <1>3, <1>4, <1>5 DEF Naming, Numbered, Issued
<1>8. ASSUME ~ muddled' PROVE Orderly'
  <2>1. Orderly /\ Own' = Own
    BY <1>1, <1>8 DEF Naming, Own
  <2>2. \A c : Creates(c) => /\ c \in BagToSet(calls') <=> c \in BagToSet(calls)
                             /\ c \in BagToSet(calls) => calls'[c] = calls[c]
    BY <1>3, <1>4 DEF Creates
  <2>3. OneComing'
    BY <1>1, <1>6, <2>1, <2>2 DEF Orderly, OneComing, Coming, Creates
  <2>4. AnswerKnown'
    BY <1>1, <1>6, <2>1, <2>2 DEF Orderly, AnswerKnown, Coming, Creates
  <2>5. Quick => form.agent.named
    BY <1>1, FocusOn DEF Naming, Prompted
  <2>6. NameKept'
    BY <1>1, <1>5, <1>6, <2>1, <2>5 DEF Orderly, NameKept
  <2>7. WishesGranted'
    <3> SUFFICES ASSUME NEW a \in DOMAIN daemon.agents, daemon.agents[a].of \in DOMAIN wishes'
                 PROVE  Granted(a, wishes[daemon.agents[a].of])'
      BY <1>1 DEF WishesGranted
    <3>1. /\ Granted(a, wishes[daemon.agents[a].of])
          /\ wishes'[daemon.agents[a].of] = wishes[daemon.agents[a].of]
      BY <1>5, <2>1 DEF Orderly, WishesGranted
    <3>2. \A c \in BagToSet(calls') : Renames(c, a) => c \in BagToSet(calls)
      BY <1>3, <1>4, <1>5 DEF Renames
    <3>3. QED
      BY <1>1, <1>4, <1>6, <2>1, <3>1, <3>2 DEF Granted, Renames
  <2>8. QED
    BY <2>3, <2>4, <2>6, <2>7 DEF Orderly
<1>9. QED
  BY <1>1, <1>4, <1>6, <1>7, <1>8 DEF Naming

------------------------------------------------------------------------------
(* The answers about Agents.                                               *)

(* The Agent that was asked for does not come, as far as the client knows, *)
(* and the wish of its prompt is given up.                                 *)
LEMMA AgentFailedNaming ==
  ASSUME IInv, Naming, NEW c \in BagToSet(calls), AgentFailed(c)
  PROVE  Naming'
<1>1. /\ UNCHANGED <<daemon, shown, list, muddled>>
      /\ DOMAIN wishes' = DOMAIN wishes \ {c.ask.prompt}
      /\ \A p \in DOMAIN wishes' : wishes'[p] = wishes[p]
      /\ Creates(c) /\ c.answer.code # "ok" /\ calls' = calls (-) SetToBag({c})
      /\ form' = IF Quick THEN [form EXCEPT !.agent = Closed.agent] ELSE form
  <2>1. wishes' = [p \in DOMAIN wishes \ {c.ask.prompt} |-> wishes[p]]
    BY DEF AgentFailed
  <2>2. /\ DOMAIN wishes' = DOMAIN wishes \ {c.ask.prompt}
        /\ \A p \in DOMAIN wishes' : wishes'[p] = wishes[p]
    BY <2>1
  <2>3. QED
    BY <2>2 DEF AgentFailed, Replies, Others, Creates, Quick
<1>2. /\ IsABag(calls') /\ BagToSet(calls') \subseteq BagToSet(calls)
      /\ \A e \in BagToSet(calls) : e # c => e \in BagToSet(calls')
      /\ calls[c] = 1 => c \notin BagToSet(calls')
  <2>1. IsABag(calls) /\ calls' = calls (-) SetToBag({c})
    BY <1>1 DEF Naming
  <2>2. QED
    BY <2>1, OneLessCounted
<1>3. /\ form'.prompts = form.prompts /\ form'.rename = form.rename
      /\ form'.agent = IF Quick THEN Closed.agent ELSE form.agent
  BY <1>1, ClosedParts DEF IInv, Shaped
<1>4. ~ Quick' /\ Prompted'
  BY <1>3, AgentClosed DEF Naming, Prompted, Quick
<1>5. Numbered'
  BY <1>1, <1>2, <1>3, AgentClosed DEF Naming, Numbered, Issued
<1>6. ASSUME ~ muddled' PROVE Orderly'
  <2>1. Orderly
    BY <1>1, <1>6 DEF Naming
  <2>2. Quick => Coming(c) /\ c.ask.prompt = form.prompts
    BY <1>1, <2>1 DEF Orderly, OneComing
  <2>3. \A d \in BagToSet(calls') : ~ Coming(d)
    <3>1. CASE Quick
      <4>1. calls[c] = 1 /\ \A d \in BagToSet(calls) : Coming(d) => d = c
        BY <2>1, <2>2, <3>1 DEF Orderly, OneComing
      <4>2. QED
        BY <1>2, <4>1
    <3>2. CASE ~ Quick
      BY <1>2, <2>1, <3>2 DEF Orderly, OneComing
    <3>3. QED
      BY <3>1, <3>2
  <2>4. OneComing' /\ AnswerKnown' /\ NameKept'
    BY <1>4, <2>3 DEF OneComing, AnswerKnown, NameKept, Coming, Creates
  <2>5. WishesGranted'
    <3> SUFFICES ASSUME NEW a \in DOMAIN daemon.agents, daemon.agents[a].of \in DOMAIN wishes'
                 PROVE  Granted(a, wishes[daemon.agents[a].of])'
      BY <1>1 DEF WishesGranted
    <3>1. \A d : Renames(d, a) => (d \in BagToSet(calls') <=> d \in BagToSet(calls))
      BY <1>1, <1>2 DEF Renames, Creates
    <3>2. /\ Granted(a, wishes[daemon.agents[a].of])
          /\ wishes'[daemon.agents[a].of] = wishes[daemon.agents[a].of]
      BY <1>1, <2>1 DEF Orderly, WishesGranted
    <3>3. ~ (Quick /\ a \in Own)
      BY <1>1, <2>2 DEF Own
    <3>4. QED
      BY <1>1, <3>1, <3>2, <3>3 DEF Granted, Renames
  <2>6. QED
    BY <2>4, <2>5 DEF Orderly
<1>7. QED
  BY <1>2, <1>4, <1>5, <1>6 DEF Naming

(* It comes for a quick prompt that is still to be named, and waits.       *)
LEMMA AgentAwaitsName ==
  ASSUME IInv, Naming, NEW c \in BagToSet(calls), AgentMade(c), Quick, ~ form.agent.named
  PROVE  Naming'
<1> DEFINE id == c.answer.id
           agent == [form.agent EXCEPT !.made = id]
<1>1. /\ UNCHANGED <<daemon, shown, wishes, muddled>> /\ list' = NewListing
      /\ Creates(c) /\ c.answer.code = "ok" /\ calls' = calls (-) SetToBag({c})
      /\ form' = [form EXCEPT !.agent = agent]
  BY DEF AgentMade, Replies, Others, Creates, Quick, Named, Relist
<1>2. /\ IsABag(calls') /\ BagToSet(calls') \subseteq BagToSet(calls)
      /\ \A e \in BagToSet(calls) : e # c => e \in BagToSet(calls')
      /\ calls[c] = 1 => c \notin BagToSet(calls')
  BY <1>1, OneLessCounted DEF Naming
<1>3. id \in Issued /\ id # 0
  BY <1>1 DEF Naming, Numbered, Creates, Issued
<1>4. /\ DOMAIN agent = DOMAIN Closed.agent /\ agent.made = id
      /\ agent.quick = form.agent.quick /\ agent.on = form.agent.on
      /\ agent.named = form.agent.named /\ agent.step = form.agent.step
  BY AgentClosed DEF Naming, Prompted
<1> HIDE DEF agent
<1>5. form'.agent = agent /\ form'.prompts = form.prompts /\ form'.rename = form.rename
  BY <1>1, ClosedParts DEF IInv, Shaped
<1>6. Quick' /\ ~ form'.agent.named /\ form'.agent.made = id /\ Prompted'
  BY <1>4, <1>5 DEF Naming, Prompted, Quick
<1>7. Numbered'
  <2>1. DOMAIN list'.copy.agents = {} /\ Issued' = Issued
    BY <1>1 DEF NewListing, NoCopy, Issued
  <2>2. form'.agent.made \in Issued
    BY <1>3, <1>4, <1>5
  <2>3. \A d \in BagToSet(calls') : d \in BagToSet(calls)
    BY <1>2
  <2>4. QED
    BY <1>1, <1>5, <2>1, <2>2, <2>3 DEF Naming, Numbered
<1>8. ASSUME ~ muddled' PROVE Orderly'
  <2>1. Orderly /\ Coming(c) /\ Own' = Own
    BY <1>1, <1>5, <1>8 DEF Naming, Orderly, OneComing, Own
  <2>2. /\ calls[c] = 1 /\ \A d \in BagToSet(calls) : Coming(d) => d = c
        /\ \A d \in BagToSet(calls) : Creates(d) => Coming(d)
        /\ \A a \in DOMAIN daemon.agents : a \in Own <=> a = id
    BY <1>1, <2>1 DEF Orderly, OneComing
  <2>3. \A d \in BagToSet(calls') : ~ Creates(d)
    BY <1>2, <2>2
  <2>4. OneComing' /\ AnswerKnown'
    BY <1>1, <1>3, <1>6, <2>1, <2>2, <2>3 DEF OneComing, AnswerKnown, Coming, Creates
  <2>5. NameKept'
    BY <1>1, <1>2, <1>5, <1>6, <2>1 DEF Orderly, NameKept, Renames
  <2>6. WishesGranted'
    <3>1. \A d, a : Renames(d, a) => (d \in BagToSet(calls') <=> d \in BagToSet(calls))
      BY <1>1, <1>2 DEF Renames, Creates
    <3>2. QED
      BY <1>1, <2>1, <3>1, WishesStay DEF Orderly
  <2>7. QED
    BY <2>4, <2>5, <2>6 DEF Orderly
<1>9. QED
  BY <1>2, <1>6, <1>7, <1>8 DEF Naming

(* It comes for any other prompt, or for one whose name is given: then the *)
(* renaming is asked for in the same step.                                 *)
LEMMA AgentTakesName ==
  ASSUME IInv, Naming, NEW c \in BagToSet(calls), AgentMade(c), ~ (Quick /\ ~ form.agent.named)
  PROVE  Naming'
<1> DEFINE id == c.answer.id
           name == form.agent.name
           call == [ask |-> Renaming(id, name), answer |-> NoAnswer]
           rest == calls (-) SetToBag({c})
           sent == Quick /\ form.agent.named /\ name # Blank
<1>1. /\ UNCHANGED <<daemon, shown, wishes, muddled>>
      /\ list' = list \/ list' = NewListing
      /\ Creates(c) /\ c.answer.code = "ok"
      /\ form' = [form EXCEPT !.agent = Closed.agent]
      /\ IF sent THEN calls' = rest (+) SetToBag({call}) ELSE calls' = rest
  BY DEF AgentMade, Replies, Others, Creates, Quick, Named, Relist, Send
<1>2. /\ IsABag(rest) /\ BagToSet(rest) \subseteq BagToSet(calls)
      /\ \A e \in BagToSet(calls) : e # c => e \in BagToSet(rest)
      /\ calls[c] = 1 => c \notin BagToSet(rest)
  BY OneLessCounted DEF Naming
<1>3. /\ call.ask.kind = "rename" /\ call.ask.id = id /\ call.ask.name = name
      /\ call.answer.code # "ok"
  BY DEF Renaming, NoAnswer, Answer
<1> HIDE DEF call, rest
<1>4. /\ IsABag(calls') /\ BagToSet(rest) \subseteq BagToSet(calls')
      /\ BagToSet(calls') \subseteq BagToSet(rest) \cup {call}
      /\ ~ sent => BagToSet(calls') = BagToSet(rest)
      /\ sent => call \in BagToSet(calls')
  <2>1. CASE sent
    <3>1. calls' = rest (+) SetToBag({call})
      BY <1>1, <2>1
    <3>2. IsABag(calls') /\ BagToSet(calls') = BagToSet(rest) \cup {call}
      BY <1>2, <3>1, CallsMore
    <3>3. QED
      BY <2>1, <3>2
  <2>2. CASE ~ sent
    <3>1. calls' = rest
      BY <1>1, <2>2
    <3>2. QED
      BY <1>2, <2>2, <3>1 DEF IsABag
  <2>3. QED
    BY <2>1, <2>2
<1>5. id \in Issued
  BY <1>1 DEF Naming, Numbered, Creates
<1>6. form'.agent = Closed.agent /\ form'.prompts = form.prompts /\ form'.rename = form.rename
  BY <1>1, ClosedParts DEF IInv, Shaped
<1>7. ~ Quick' /\ Prompted'
  BY <1>6, AgentClosed DEF Prompted, Quick
<1>8. Numbered'
  <2>1. \A d \in BagToSet(calls') : d \in BagToSet(calls) \/ d = call
    BY <1>2, <1>4
  <2>2. DOMAIN list'.copy.agents \subseteq Issued
    BY <1>1 DEF Naming, Numbered, NewListing, NoCopy
  <2>3. QED
    BY <1>1, <1>3, <1>5, <1>6, <2>1, <2>2, AgentClosed DEF Naming, Numbered, Issued
<1>9. ASSUME ~ muddled' PROVE Orderly'
  <2>1. Orderly
    BY <1>1, <1>9 DEF Naming
  <2>2. \A d \in BagToSet(rest) : ~ Coming(d)
    <3>1. CASE Coming(c)
      <4>1. calls[c] = 1 /\ \A d \in BagToSet(calls) : Coming(d) => d = c
        BY <2>1, <3>1 DEF Orderly, OneComing
      <4>2. QED
        BY <1>2, <4>1
    <3>2. CASE ~ Coming(c)
      BY <1>1, <1>2, <2>1, <3>2 DEF Orderly, OneComing
    <3>3. QED
      BY <3>1, <3>2
  <2>3. \A d \in BagToSet(calls') : ~ Coming(d)
    BY <1>3, <1>4, <2>2 DEF Coming, Creates
  <2>4. OneComing' /\ AnswerKnown' /\ NameKept'
    BY <1>7, <2>3 DEF OneComing, AnswerKnown, NameKept, Coming, Creates
  <2>5. WishesGranted'
    <3> SUFFICES ASSUME NEW a \in DOMAIN daemon.agents, daemon.agents[a].of \in DOMAIN wishes
                 PROVE  Granted(a, wishes[daemon.agents[a].of])'
      BY <1>1 DEF WishesGranted
    <3> DEFINE wish == wishes[daemon.agents[a].of]
    <3>1. Granted(a, wish)
      BY <2>1 DEF Orderly, WishesGranted
    <3>2. \A d \in BagToSet(calls) : Renames(d, a) => d \in BagToSet(calls')
      BY <1>1, <1>2, <1>4 DEF Renames, Creates
    <3>3. Quick => (a \in Own <=> a = id)
      BY <1>1, <2>1 DEF Orderly, OneComing
    <3>4. Quick /\ a \in Own => wish = name
      BY <2>1 DEF Orderly, NameKept, Own
    <3> HIDE DEF wish
    <3>5. \A d \in BagToSet(calls') : Renames(d, a) => d.ask.name = wish
      <4> SUFFICES ASSUME NEW d \in BagToSet(calls'), Renames(d, a) PROVE d.ask.name = wish
        OBVIOUS
      <4>1. CASE d \in BagToSet(rest)
        BY <1>2, <3>1, <4>1 DEF Granted
      <4>2. CASE d = call /\ sent
        BY <1>3, <3>3, <3>4, <4>2 DEF Renames
      <4>3. QED
        BY <1>4, <4>1, <4>2
    <3>6. \/ daemon.agents[a].name = wish
          \/ \E d \in BagToSet(calls') : Renames(d, a) /\ d.answer.code # "ok"
      <4>1. CASE daemon.agents[a].name = wish \/ \E d \in BagToSet(calls) :
                                                     Renames(d, a) /\ d.answer.code # "ok"
        BY <3>2, <4>1
      <4>2. CASE /\ daemon.agents[a].name = Blank /\ a \in Own
                 /\ Quick /\ form.agent.named /\ name = wish
        <5>1. CASE sent
          BY <1>3, <1>4, <3>3, <4>2, <5>1 DEF Renames
        <5>2. CASE ~ sent
          BY <4>2, <5>2
        <5>3. QED
          BY <5>1, <5>2
      <4>3. QED
        BY <3>1, <4>1, <4>2 DEF Granted
    <3>7. QED
      BY <1>1, <3>5, <3>6 DEF Granted, Renames, wish
  <2>6. QED
    BY <2>4, <2>5 DEF Orderly
<1>10. QED
  BY <1>4, <1>7, <1>8, <1>9 DEF Naming

(* A renaming that is answered has been done, or is not wished any more.   *)
LEMMA RenameReplyNaming ==
  ASSUME IInv, Naming, NEW c \in BagToSet(calls), RenameReply(c)
  PROVE  Naming'
<1>1. /\ UNCHANGED <<daemon, shown, muddled>> /\ c.ask.kind = "rename"
      /\ calls' = calls (-) SetToBag({c})
      /\ list' = list \/ list' = NewListing
      /\ \/ c.answer.code = "ok" /\ form' = [form EXCEPT !.rename = 0] /\ wishes' = wishes
         \/ c.answer.code # "ok" /\ form' = form /\ wishes' = Unwished(c.ask.id)
  BY DEF RenameReply, Replies, Others, Relist
<1>2. /\ IsABag(calls') /\ BagToSet(calls') \subseteq BagToSet(calls)
      /\ \A e \in BagToSet(calls) : e # c => e \in BagToSet(calls') /\ calls'[e] = calls[e]
  <2>1. IsABag(calls) /\ calls' = calls (-) SetToBag({c})
    BY <1>1 DEF Naming
  <2>2. QED
    BY <2>1, OneLessCounted
<1>3. /\ form'.agent = form.agent /\ form'.prompts = form.prompts
      /\ form'.rename \in {form.rename, 0}
  BY <1>1, ClosedParts DEF IInv, Shaped
<1>4. /\ DOMAIN wishes' \subseteq DOMAIN wishes
      /\ \A q \in DOMAIN wishes' : wishes'[q] = wishes[q]
      /\ c.answer.code # "ok" => \A a \in DOMAIN daemon.agents :
                                   daemon.agents[a].of \in DOMAIN wishes' => a # c.ask.id
  BY <1>1, WishGivenUp
<1>5. Prompted' /\ Quick' = Quick
  BY <1>3 DEF Naming, Prompted, Quick
<1>6. Numbered'
  <2>1. DOMAIN list'.copy.agents \subseteq Issued /\ Issued' = Issued
    BY <1>1 DEF Naming, Numbered, NewListing, NoCopy, Issued
  <2>2. \A d \in BagToSet(calls') : d \in BagToSet(calls)
    BY <1>2
  <2>3. DOMAIN wishes' \subseteq 1 .. form.prompts
    BY <1>4 DEF Naming, Numbered
  <2>4. QED
    BY <1>1, <1>3, <2>1, <2>2, <2>3 DEF Naming, Numbered
<1>7. ASSUME ~ muddled' PROVE Orderly'
  <2>1. Orderly /\ Own' = Own
    BY <1>1, <1>3, <1>7 DEF Naming, Own
  <2>2. \A d : Creates(d) => /\ d \in BagToSet(calls') <=> d \in BagToSet(calls)
                             /\ d \in BagToSet(calls) => calls'[d] = calls[d]
    BY <1>1, <1>2 DEF Creates
  <2>3. OneComing'
    <3> SUFFICES ASSUME NEW d \in BagToSet(calls'), NEW e \in BagToSet(calls')
                 PROVE  /\ Creates(d) /\ ~ Coming(d) => ~ Quick
                        /\ Coming(d) => /\ d.ask.prompt = form.prompts /\ d.ask.name = Blank
                                        /\ Quick /\ form.agent.made = 0 /\ calls'[d] = 1
                                        /\ \A a \in DOMAIN daemon.agents :
                                             /\ d.answer = NoAnswer => a \notin Own
                                             /\ d.answer.code = "ok" => (a \in Own <=> a = d.answer.id)
                        /\ Coming(d) /\ Coming(e) => d = e
      BY <1>1, <1>3, <1>5, <2>1 DEF OneComing, Coming, Creates
    <3>1. d \in BagToSet(calls) /\ e \in BagToSet(calls)
      BY <1>2
    <3>2. Creates(d) => calls'[d] = calls[d]
      BY <2>2, <3>1
    <3>3. QED
      BY <2>1, <3>1, <3>2 DEF Orderly, OneComing, Coming
  <2>4. AnswerKnown'
    BY <1>1, <1>3, <1>5, <2>1, <2>2 DEF Orderly, AnswerKnown, Coming, Creates
  <2>5. NameKept'
    BY <1>1, <1>2, <1>3, <1>4, <1>5, <2>1 DEF Orderly, NameKept, Renames
  <2>6. WishesGranted'
    <3> SUFFICES ASSUME NEW a \in DOMAIN daemon.agents, daemon.agents[a].of \in DOMAIN wishes'
                 PROVE  Granted(a, wishes[daemon.agents[a].of])'
      BY <1>1 DEF WishesGranted
    <3>1. /\ Granted(a, wishes[daemon.agents[a].of])
          /\ wishes'[daemon.agents[a].of] = wishes[daemon.agents[a].of]
      BY <1>4, <2>1 DEF Orderly, WishesGranted
    <3>2. \A d \in BagToSet(calls) : Renames(d, a) /\ d.answer.code # "ok" => d \in BagToSet(calls')
      BY <1>2, <1>4 DEF Renames
    <3>3. QED
      BY <1>1, <1>2, <1>3, <1>5, <2>1, <3>1, <3>2 DEF Granted, Renames
  <2>7. QED
    BY <2>3, <2>4, <2>5, <2>6 DEF Orderly
<1>8. QED
  BY <1>2, <1>5, <1>6, <1>7 DEF Naming

(* Every answer keeps the naming.                                          *)
LEMMA ReplyNaming == IInv /\ Naming /\ Reply => Naming'
<1>1. ASSUME IInv, Naming, NEW c \in BagToSet(calls), AgentMade(c) PROVE Naming'
  BY <1>1, AgentAwaitsName, AgentTakesName
<1>2. QED
  BY <1>1, AgentFailedNaming, RenameReplyNaming, OtherReplyStep DEF Reply

------------------------------------------------------------------------------
(* The daemon creates an Agent: it has a new number, and the name and the  *)
(* prompt of the request.                                                  *)
LEMMA AddAgentNames ==
  ASSUME NEW d, Recorded(d), NEW ask, NEW n, n = d.nextAgent, n \notin DOMAIN d.agents,
         NEW new, new = AddAgent(d, ask)
  PROVE  /\ new.nextAgent = n + 1 /\ DOMAIN new.agents = DOMAIN d.agents \cup {n}
         /\ new.agents[n].of = ask.prompt /\ new.agents[n].name = ask.name
         /\ \A a \in DOMAIN d.agents : new.agents[a] = d.agents[a]
<1> DEFINE agent == [project |-> d.sessions[ask.session].project, session |-> ask.session,
                     rank |-> 4,
                     name |-> ask.name, armed |-> FALSE, of |-> ask.prompt]
           agents == Added(d.agents, n, agent)
           recent == <<n>> \o d.recent
           agented == [d EXCEPT !.agents = agents]
           moved == [agented EXCEPT !.recent = recent]
<1>1. new = [d EXCEPT !.agents = agents, !.recent = recent, !.nextAgent = n + 1]
  BY DEF AddAgent
<1>2. /\ DOMAIN agents = DOMAIN d.agents \cup {n} /\ agents[n] = agent
      /\ \A a \in DOMAIN d.agents : agents[a] = d.agents[a]
  BY DEF Added
<1>3. agent.of = ask.prompt /\ agent.name = ask.name
  OBVIOUS
<1> HIDE DEF agents, recent, agent
<1>4. new.nextAgent = n + 1 /\ new.agents = agents
  BY <1>1, WorldAssumption DEF Recorded
<1>5. QED
  BY <1>2, <1>3, <1>4

(* The answer to a creation, and what it does.                             *)
LEMMA CreationServed ==
  ASSUME NEW d, NEW ask, ask.kind = "agent",
         NEW effect, effect \in Outcomes(d, ask)
  PROVE  \/ effect[2].code = "ok" /\ effect[2].id = d.nextAgent /\ effect[1] = AddAgent(d, ask)
         \/ effect[2].code = "failed" /\ effect[1] \in {d, AddAgent(d, ask)}
<1>1. Effect(d, ask) = CreateAgent(d, ask)
  BY DEF Effect
<1>2. \A e : Refused(e, "failed")[2].code = "failed" /\ Refused(e, "failed")[1] = e
  BY DEF Refused, Error, Answer
<1>3. \/ /\ CreateAgent(d, ask)[2].code = "ok" /\ CreateAgent(d, ask)[2].id = d.nextAgent
         /\ CreateAgent(d, ask)[1] = AddAgent(d, ask)
      \/ CreateAgent(d, ask) = Refused(d, "failed")
  BY DEF CreateAgent, Changed, Answer
<1>4. QED
  BY <1>1, <1>2, <1>3 DEF Outcomes

(* The Agent of the prompt is the one answered, and without a name so far. *)
LEMMA CreationNaming ==
  ASSUME IInv, Naming, Serve,
         NEW c \in BagToSet(calls), Creates(c), c.answer = NoAnswer,
         NEW effect, effect \in Outcomes(daemon, c.ask),
         daemon' = effect[1],
         calls' = (calls (-) SetToBag({c})) (+) SetToBag({[c EXCEPT !.answer = effect[2]]})
  PROVE  Naming'
<1> DEFINE served == [c EXCEPT !.answer = effect[2]]
           ask == c.ask
           n == daemon.nextAgent
           made == daemon' # daemon
<1>1. /\ UNCHANGED <<shown, form, list, wishes, muddled>>
      /\ Recorded(daemon) /\ DOMAIN c = {"ask", "answer"} /\ IsABag(calls)
  BY DEF Serve, IInv, Shaped, Sequenced, Naming
<1>2. served.ask = ask /\ served.answer = effect[2]
  BY <1>1
<1>3. n \in Nat \ {0} /\ n \notin Issued /\ DOMAIN daemon.agents \subseteq Issued
  BY DEF Naming, Numbered, Issued
<1>4. \/ effect[2].code = "ok" /\ effect[2].id = n /\ effect[1] = AddAgent(daemon, ask)
      \/ effect[2].code = "failed" /\ effect[1] \in {daemon, AddAgent(daemon, ask)}
  <2>1. ask.kind = "agent" /\ effect \in Outcomes(daemon, ask)
    BY DEF Creates
  <2>2. QED
    BY <2>1, CreationServed
<1>5. NoAnswer.code = "none"
  BY DEF NoAnswer, Answer
<1>6. served # c /\ c.answer.code # "ok"
  BY <1>2, <1>4, <1>5
<1>7. calls' = (calls (-) SetToBag({c})) (+) SetToBag({served})
  OBVIOUS
<1>8. /\ ~ made => daemon' = daemon
      /\ served.answer # NoAnswer
      /\ served.answer.code = "ok" => made /\ served.answer.id = n
      /\ made => /\ daemon'.nextAgent = n + 1
                 /\ DOMAIN daemon'.agents = DOMAIN daemon.agents \cup {n}
                 /\ daemon'.agents[n].of = ask.prompt /\ daemon'.agents[n].name = ask.name
                 /\ \A a \in DOMAIN daemon.agents : daemon'.agents[a] = daemon.agents[a]
  <2>1. CASE effect[2].code = "failed" /\ effect[1] = daemon
    BY <1>2, <1>5, <2>1
  <2>2. CASE /\ (effect[2].code = "ok" /\ effect[2].id = n) \/ effect[2].code = "failed"
             /\ effect[1] = AddAgent(daemon, ask)
    <3>1. daemon' = AddAgent(daemon, ask) /\ n \notin DOMAIN daemon.agents
      BY <1>3, <2>2
    <3>2. /\ daemon'.nextAgent = n + 1 /\ DOMAIN daemon'.agents = DOMAIN daemon.agents \cup {n}
          /\ daemon'.agents[n].of = ask.prompt /\ daemon'.agents[n].name = ask.name
          /\ \A a \in DOMAIN daemon.agents : daemon'.agents[a] = daemon.agents[a]
      BY <1>1, <3>1, AddAgentNames
    <3>3. daemon' # daemon
      BY <1>3, <3>2
    <3>4. QED
      BY <1>2, <1>5, <2>2, <3>2, <3>3
  <2>3. QED
    BY <1>4, <2>1, <2>2
<1> HIDE DEF served
<1>9. /\ IsABag(calls') /\ BagToSet(calls') \subseteq BagToSet(calls) \cup {served}
      /\ served \in BagToSet(calls')
      /\ \A e \in BagToSet(calls) : e \notin {c, served} =>
           e \in BagToSet(calls') /\ calls'[e] = calls[e]
      /\ calls[c] = 1 => c \notin BagToSet(calls')
      /\ served \notin BagToSet(calls) => calls'[served] = 1
  BY <1>1, <1>6, <1>7, ServedCounted
<1>10. Prompted' /\ Quick' = Quick
  BY <1>1 DEF Naming, Prompted, Quick
<1>11. \A d \in BagToSet(calls') : d \in BagToSet(calls) \/ d = served
  BY <1>9
<1> HIDE DEF made, n
<1>12. Numbered'
  <2>1. /\ Issued \subseteq Issued' /\ daemon'.nextAgent \in Nat \ {0}
        /\ made => n \in Issued'
        /\ DOMAIN daemon'.agents \subseteq Issued'
    BY <1>3, <1>8 DEF Issued, n
  <2>2. ask.kind = "agent" /\ ask.prompt \in 0 .. form.prompts
    BY DEF Naming, Numbered, Creates
  <2>3. \A a \in DOMAIN daemon'.agents : daemon'.agents[a].of \in 0 .. form.prompts
    BY <1>8, <2>2 DEF Naming, Numbered
  <2>4. \A d \in BagToSet(calls') :
          /\ d.ask.kind = "rename" => d.ask.id \in Issued' \cup {0}
          /\ d.ask.kind = "agent" => d.ask.prompt \in 0 .. form.prompts
          /\ d.ask.kind = "agent" /\ d.answer.code = "ok" => d.answer.id \in Issued'
    <3> SUFFICES ASSUME NEW d \in BagToSet(calls')
                 PROVE  /\ d.ask.kind = "rename" => d.ask.id \in Issued' \cup {0}
                        /\ d.ask.kind = "agent" => d.ask.prompt \in 0 .. form.prompts
                        /\ d.ask.kind = "agent" /\ d.answer.code = "ok" => d.answer.id \in Issued'
      OBVIOUS
    <3>1. CASE d \in BagToSet(calls)
      BY <2>1, <3>1 DEF Naming, Numbered
    <3>2. CASE d = served
      BY <1>2, <1>8, <2>1, <2>2, <3>2
    <3>3. QED
      BY <1>11, <3>1, <3>2
  <2>5. /\ form.prompts \in Nat /\ DOMAIN wishes \subseteq 1 .. form.prompts
        /\ DOMAIN shown.agents \subseteq Issued' /\ DOMAIN list.copy.agents \subseteq Issued'
        /\ form.rename \in Issued' \cup {0} /\ form.agent.made \in Issued' \cup {0}
    BY <2>1 DEF Naming, Numbered
  <2>6. QED
    BY <1>1, <2>1, <2>3, <2>4, <2>5 DEF Numbered
<1>13. ASSUME ~ muddled' PROVE Orderly'
  <2>1. Orderly
    BY <1>1, <1>13 DEF Naming
  <2>2. Quick => Coming(c)
    BY <2>1 DEF Orderly, OneComing
  <2>3. Coming(served) <=> Coming(c)
    BY <1>2 DEF Coming, Creates
  <2>4. Coming(c) =>
          /\ ask.prompt = form.prompts /\ ask.name = Blank /\ Quick /\ form.agent.made = 0
          /\ Own = {} /\ calls'[served] = 1
    <3> SUFFICES ASSUME Coming(c)
                 PROVE  /\ ask.prompt = form.prompts /\ ask.name = Blank /\ Quick
                        /\ form.agent.made = 0 /\ Own = {} /\ calls'[served] = 1
      OBVIOUS
    <3>1. /\ ask.prompt = form.prompts /\ ask.name = Blank /\ Quick /\ form.agent.made = 0
          /\ \A a \in DOMAIN daemon.agents : a \notin Own
          /\ served \notin BagToSet(calls)
      BY <1>6, <2>1, <2>3 DEF Orderly, OneComing
    <3>2. QED
      BY <1>9, <3>1 DEF Own
  <2>5. \A d \in BagToSet(calls') : Coming(d) => d = served /\ Coming(c)
    <3> SUFFICES ASSUME NEW d \in BagToSet(calls'), Coming(d) PROVE d = served /\ Coming(c)
      OBVIOUS
    <3>1. CASE d = served
      BY <2>3, <3>1
    <3>2. CASE d \in BagToSet(calls) /\ d # served
      <4>1. Quick /\ Coming(c) /\ calls[c] = 1
        BY <2>1, <2>2, <3>2 DEF Orderly, OneComing
      <4>2. d = c
        BY <2>1, <3>2, <4>1 DEF Orderly, OneComing
      <4>3. QED
        BY <1>9, <4>1, <4>2
    <3>3. QED
      BY <1>11, <3>1, <3>2
  <2>6. \A a \in DOMAIN daemon'.agents : a \in DOMAIN daemon.agents \/ (made /\ a = n)
    BY <1>8
  <2>7. /\ Own \subseteq Own'
        /\ \A a \in DOMAIN daemon'.agents :
             (a \in Own' /\ a \notin Own) <=> (made /\ a = n /\ ask.prompt = form.prompts)
    BY <1>1, <1>3, <1>8, <2>6 DEF Own
  <2>8. \A d, a : Renames(d, a) => (d \in BagToSet(calls') <=> d \in BagToSet(calls))
    BY <1>2, <1>9, <1>11 DEF Renames, Creates
  <2>9. \A d \in BagToSet(calls') : ~ Renames(d, n)
    <3>1. n # 0
      BY <1>3
    <3>2. QED
      BY <1>3, <2>8, <3>1 DEF Renames, Naming, Numbered
  <2>10. OneComing'
    <3>1. \A d \in BagToSet(calls') : Creates(d) /\ ~ Coming(d) => ~ Quick
      BY <1>11, <2>1, <2>2, <2>3 DEF Orderly, OneComing
    <3>2. ASSUME Coming(c)
          PROVE  \A a \in DOMAIN daemon'.agents :
                   /\ served.answer # NoAnswer
                   /\ served.answer.code = "ok" => (a \in Own' <=> a = served.answer.id)
      BY <1>8, <2>4, <2>7, <3>2
    <3>3. QED
      BY <1>1, <1>2, <1>10, <2>4, <2>5, <3>1, <3>2 DEF OneComing, Coming, Creates
  <2>11. AnswerKnown'
    BY <1>1, <1>9, <1>10, <2>2, <2>3, <2>4 DEF AnswerKnown, Coming, Creates
  <2>12. NameKept'
    <3> SUFFICES ASSUME Quick, ~ form.agent.named
                 PROVE  /\ form.prompts \notin DOMAIN wishes
                        /\ \A a \in Own' : /\ daemon'.agents[a].name = Blank
                                           /\ \A d \in BagToSet(calls') : ~ Renames(d, a)
      BY <1>1, <1>10, <2>1 DEF Orderly, NameKept, Renames
    <3>1. form.prompts \notin DOMAIN wishes
      BY <2>1 DEF Orderly, NameKept
    <3>2. \A a \in Own' : made /\ a = n
      BY <2>2, <2>4, <2>7 DEF Own
    <3>3. QED
      BY <1>8, <2>2, <2>4, <2>9, <3>1, <3>2
  <2>13. WishesGranted'
    <3> SUFFICES ASSUME NEW a \in DOMAIN daemon'.agents, daemon'.agents[a].of \in DOMAIN wishes
                 PROVE  Granted(a, wishes[daemon.agents[a].of])'
      BY <1>1 DEF WishesGranted
    <3>1. CASE a \in DOMAIN daemon.agents
      <4>1. daemon'.agents[a] = daemon.agents[a]
        BY <1>8, <3>1
      <4>2. Granted(a, wishes[daemon.agents[a].of])
        BY <2>1, <3>1, <4>1 DEF Orderly, WishesGranted
      <4>3. QED
        BY <1>1, <1>10, <2>7, <2>8, <4>1, <4>2 DEF Granted, Renames
    <3>2. CASE made /\ a = n
      <4>1. daemon'.agents[a].of = ask.prompt /\ daemon'.agents[a].name = ask.name
        BY <1>8, <3>2
      <4>2. ask.prompt # 0
        BY <4>1 DEF Naming, Numbered
      <4>3. Coming(c)
        BY <4>2 DEF Coming
      <4>4. /\ form.agent.named /\ wishes[ask.prompt] = form.agent.name /\ Quick
            /\ ask.name = Blank /\ a \in Own'
        BY <2>1, <2>4, <2>7, <3>2, <4>1, <4>3 DEF Orderly, NameKept, Own
      <4>5. QED
        BY <1>1, <1>10, <2>9, <3>2, <4>1, <4>4 DEF Granted, Renames
    <3>3. QED
      BY <2>6, <3>1, <3>2
  <2>14. QED
    BY <2>10, <2>11, <2>12, <2>13 DEF Orderly
<1>14. QED
  BY <1>9, <1>10, <1>12, <1>13 DEF Naming

(* The daemon renames an Agent: that one, and nothing else.                *)
LEMMA RenamingServed ==
  ASSUME NEW d, Recorded(d), NEW ask, ask.kind = "rename",
         NEW effect, effect \in Outcomes(d, ask)
  PROVE  \/ /\ effect[2].code \in {"ok", "failed"} /\ ask.id \in DOMAIN d.agents
            /\ effect[1].nextAgent = d.nextAgent /\ DOMAIN effect[1].agents = DOMAIN d.agents
            /\ effect[1].agents[ask.id].name = ask.name
            /\ \A a \in DOMAIN d.agents :
                 /\ effect[1].agents[a].of = d.agents[a].of
                 /\ a # ask.id => effect[1].agents[a].name = d.agents[a].name
         \/ effect[2].code = "failed" /\ effect[1] = d
<1>1. Effect(d, ask) = RenameAgent(d, ask)
  BY DEF Effect
<1>2. \A e : Refused(e, "failed")[2].code = "failed" /\ Refused(e, "failed")[1] = e
  BY DEF Refused, Error, Answer
<1>3. CASE /\ effect \in {RenameAgent(d, ask), Refused(RenameAgent(d, ask)[1], "failed")}
           /\ ask.id \in DOMAIN d.agents
  <2> DEFINE agent == [d.agents[ask.id] EXCEPT !.name = ask.name]
             agents == [d.agents EXCEPT ![ask.id] = agent]
  <2>1. effect[2].code \in {"ok", "failed"} /\ effect[1] = [d EXCEPT !.agents = agents]
    BY <1>2, <1>3 DEF RenameAgent, Changed, Answer
  <2>2. agent.name = ask.name /\ agent.of = d.agents[ask.id].of
    BY <1>3 DEF Recorded
  <2> HIDE DEF agent
  <2>3. /\ DOMAIN agents = DOMAIN d.agents /\ agents[ask.id] = agent
        /\ \A a \in DOMAIN d.agents : a # ask.id => agents[a] = d.agents[a]
    BY <1>3
  <2> HIDE DEF agents
  <2>4. effect[1].nextAgent = d.nextAgent /\ effect[1].agents = agents
    BY <2>1, WorldAssumption DEF Recorded
  <2>5. QED
    BY <1>3, <2>1, <2>2, <2>3, <2>4
<1>4. QED
  BY <1>1, <1>2, <1>3 DEF RenameAgent, Outcomes

(* A renaming served gives the Agent the name that is wished, if one is.   *)
LEMMA RenamingNaming ==
  ASSUME IInv, Naming, Serve,
         NEW c \in BagToSet(calls), c.ask.kind = "rename", c.answer = NoAnswer,
         NEW effect, effect \in Outcomes(daemon, c.ask),
         daemon' = effect[1],
         calls' = (calls (-) SetToBag({c})) (+) SetToBag({[c EXCEPT !.answer = effect[2]]})
  PROVE  Naming'
<1> DEFINE served == [c EXCEPT !.answer = effect[2]]
           ask == c.ask
           made == ask.id \in DOMAIN daemon.agents /\ daemon'.agents[ask.id].name = ask.name
<1>1. /\ UNCHANGED <<shown, form, list, wishes, muddled>>
      /\ Recorded(daemon) /\ DOMAIN c = {"ask", "answer"} /\ IsABag(calls)
  BY DEF Serve, IInv, Shaped, Sequenced, Naming
<1>2. served.ask = ask /\ served.answer = effect[2]
  BY <1>1
<1>3. \/ /\ effect[2].code \in {"ok", "failed"} /\ ask.id \in DOMAIN daemon.agents
         /\ daemon'.nextAgent = daemon.nextAgent /\ DOMAIN daemon'.agents = DOMAIN daemon.agents
         /\ daemon'.agents[ask.id].name = ask.name
         /\ \A a \in DOMAIN daemon.agents :
              /\ daemon'.agents[a].of = daemon.agents[a].of
              /\ a # ask.id => daemon'.agents[a].name = daemon.agents[a].name
      \/ effect[2].code = "failed" /\ daemon' = daemon
  <2>1. ask.kind = "rename" /\ effect \in Outcomes(daemon, ask)
    OBVIOUS
  <2> HIDE DEF ask
  <2>2. QED
    BY <1>1, <2>1, RenamingServed
<1>4. NoAnswer.code = "none"
  BY DEF NoAnswer, Answer
<1>5. served # c
  BY <1>2, <1>3, <1>4
<1>6. calls' = (calls (-) SetToBag({c})) (+) SetToBag({served})
  OBVIOUS
<1>7. /\ daemon'.nextAgent = daemon.nextAgent /\ DOMAIN daemon'.agents = DOMAIN daemon.agents
      /\ \A a \in DOMAIN daemon.agents :
           /\ daemon'.agents[a].of = daemon.agents[a].of
           /\ made /\ a = ask.id => daemon'.agents[a].name = ask.name
           /\ ~ made \/ a # ask.id => daemon'.agents[a].name = daemon.agents[a].name
      /\ ~ made => served.answer.code # "ok"
  BY <1>2, <1>3
<1> HIDE DEF served
<1>8. /\ IsABag(calls') /\ BagToSet(calls') \subseteq BagToSet(calls) \cup {served}
      /\ served \in BagToSet(calls')
      /\ \A e \in BagToSet(calls) : e \notin {c, served} =>
           e \in BagToSet(calls') /\ calls'[e] = calls[e]
  BY <1>1, <1>5, <1>6, ServedCounted
<1>9. Prompted' /\ Quick' = Quick
  BY <1>1 DEF Naming, Prompted, Quick
<1>10. \A d \in BagToSet(calls') : d \in BagToSet(calls) \/ d = served
  BY <1>8
<1>11. Numbered'
  <2>1. Issued' = Issued
    BY <1>7 DEF Issued
  <2>2. \A d \in BagToSet(calls') :
          /\ d.ask.kind = "rename" => d.ask.id \in Issued \cup {0}
          /\ d.ask.kind = "agent" => d.ask.prompt \in 0 .. form.prompts
          /\ d.ask.kind = "agent" /\ d.answer.code = "ok" => d.answer.id \in Issued
    BY <1>2, <1>10 DEF Naming, Numbered
  <2>3. QED
    BY <1>1, <1>7, <2>1, <2>2 DEF Naming, Numbered
<1> HIDE DEF made
<1>12. ASSUME ~ muddled' PROVE Orderly'
  <2>1. Orderly /\ Own' = Own
    BY <1>1, <1>7, <1>12 DEF Naming, Own
  <2>2. \A d : Creates(d) => /\ d \in BagToSet(calls') <=> d \in BagToSet(calls)
                             /\ d \in BagToSet(calls) => calls'[d] = calls[d]
    BY <1>2, <1>8, <1>10 DEF Creates
  <2>3. OneComing'
    <3> SUFFICES ASSUME NEW d \in BagToSet(calls'), NEW e \in BagToSet(calls')
                 PROVE  /\ Creates(d) /\ ~ Coming(d) => ~ Quick
                        /\ Coming(d) => /\ d.ask.prompt = form.prompts /\ d.ask.name = Blank
                                        /\ Quick /\ form.agent.made = 0 /\ calls'[d] = 1
                                        /\ \A a \in DOMAIN daemon.agents :
                                             /\ d.answer = NoAnswer => a \notin Own
                                             /\ d.answer.code = "ok" => (a \in Own <=> a = d.answer.id)
                        /\ Coming(d) /\ Coming(e) => d = e
      BY <1>1, <1>7, <1>9, <2>1 DEF OneComing, Coming, Creates
    <3>1. /\ Creates(d) => d \in BagToSet(calls) /\ calls'[d] = calls[d]
          /\ Creates(e) => e \in BagToSet(calls)
      BY <2>2
    <3>2. QED
      BY <2>1, <3>1 DEF Orderly, OneComing, Coming
  <2>4. AnswerKnown'
    BY <1>1, <1>7, <1>9, <2>1, <2>2 DEF Orderly, AnswerKnown, Coming, Creates
  <2>5. \A a : \A d \in BagToSet(calls') : Renames(d, a) =>
          \E e \in BagToSet(calls) : Renames(e, a) /\ e.ask = d.ask
    BY <1>2, <1>10 DEF Renames
  <2>6. NameKept'
    <3> SUFFICES ASSUME Quick, ~ form.agent.named
                 PROVE  /\ form.prompts \notin DOMAIN wishes
                        /\ \A a \in Own : /\ daemon'.agents[a].name = Blank
                                          /\ \A d \in BagToSet(calls') : ~ Renames(d, a)
      BY <1>1, <1>9, <2>1 DEF Orderly, NameKept, Renames
    <3>1. /\ form.prompts \notin DOMAIN wishes
          /\ \A a \in Own : /\ a \in DOMAIN daemon.agents /\ daemon.agents[a].name = Blank
                            /\ \A d \in BagToSet(calls) : ~ Renames(d, a)
      BY <2>1 DEF Orderly, NameKept, Own
    <3>2. \A a \in Own : a # ask.id
      BY <3>1 DEF Renames
    <3>3. QED
      BY <1>7, <2>5, <3>1, <3>2
  <2>7. WishesGranted'
    <3> SUFFICES ASSUME NEW a \in DOMAIN daemon.agents, daemon.agents[a].of \in DOMAIN wishes
                 PROVE  Granted(a, wishes[daemon.agents[a].of])'
      BY <1>1, <1>7 DEF WishesGranted
    <3> DEFINE wish == wishes[daemon.agents[a].of]
    <3>1. Granted(a, wish) /\ daemon'.agents[a].of = daemon.agents[a].of
      BY <1>7, <2>1 DEF Orderly, WishesGranted
    <3> HIDE DEF wish
    <3>2. \A d \in BagToSet(calls') : Renames(d, a) => d.ask.name = wish
      <4>1. \A e \in BagToSet(calls) : Renames(e, a) => e.ask.name = wish
        BY <3>1 DEF Granted
      <4>2. \A d \in BagToSet(calls') : Renames(d, a) =>
              \E e \in BagToSet(calls) : Renames(e, a) /\ e.ask = d.ask
        BY <2>5
      <4>3. QED
        BY <4>1, <4>2
    <3>3. CASE made /\ a = ask.id
      <4>1. daemon'.agents[a].name = wish
        BY <1>7, <3>1, <3>3 DEF Granted, Renames
      <4>2. QED
        BY <1>1, <3>1, <3>2, <4>1 DEF Granted, Renames, wish
    <3>4. CASE ~ (made /\ a = ask.id)
      <4>1. daemon'.agents[a].name = daemon.agents[a].name
        BY <1>7, <3>4
      <4>2. \A d \in BagToSet(calls) : Renames(d, a) /\ d.answer.code # "ok" =>
              \E e \in BagToSet(calls') : Renames(e, a) /\ e.answer.code # "ok"
        <5> SUFFICES ASSUME NEW d \in BagToSet(calls), Renames(d, a), d.answer.code # "ok"
                     PROVE  \E e \in BagToSet(calls') : Renames(e, a) /\ e.answer.code # "ok"
          OBVIOUS
        <5>1. CASE d = c
          <6>1. ~ made
            BY <3>4, <5>1 DEF Renames
          <6>2. Renames(served, a) /\ served.answer.code # "ok"
            BY <1>2, <1>7, <5>1, <6>1 DEF Renames
          <6>3. QED
            BY <1>8, <6>2
        <5>2. CASE d # c
          BY <1>8, <5>2
        <5>3. QED
          BY <5>1, <5>2
      <4>3. QED
        BY <1>1, <1>9, <2>1, <3>1, <3>2, <4>1, <4>2 DEF Granted, Renames, wish
    <3>5. QED
      BY <3>3, <3>4
  <2>8. QED
    BY <2>3, <2>4, <2>6, <2>7 DEF Orderly
<1>13. QED
  BY <1>8, <1>9, <1>11, <1>12 DEF Naming

(* Every request served keeps the naming.                                  *)
LEMMA ServeNaming == IInv /\ Naming /\ Serve => Naming'
<1> SUFFICES ASSUME IInv, Naming, Serve PROVE Naming'
  OBVIOUS
<1>1. PICK c \in BagToSet(calls) : c.answer = NoAnswer /\
        \E effect \in Outcomes(daemon, c.ask) :
          /\ daemon' = effect[1]
          /\ calls' = (calls (-) SetToBag({c})) (+) SetToBag({[c EXCEPT !.answer = effect[2]]})
  BY DEF Serve
<1>2. PICK effect : /\ effect \in Outcomes(daemon, c.ask)
                    /\ daemon' = effect[1]
                    /\ calls' = (calls (-) SetToBag({c}))
                                  (+) SetToBag({[c EXCEPT !.answer = effect[2]]})
  BY <1>1
<1>3. CASE Creates(c)
  BY <1>1, <1>2, <1>3, CreationNaming
<1>4. CASE c.ask.kind = "rename"
  BY <1>1, <1>2, <1>4, RenamingNaming
<1>5. CASE ~ AboutNames(c)
  BY <1>1, <1>2, <1>5, OtherServed
<1>6. QED
  BY <1>3, <1>4, <1>5 DEF AboutNames, Creates

------------------------------------------------------------------------------
(* At first there is no prompt, no wish and no request.                    *)
LEMMA InitNaming == Init => Naming
<1> SUFFICES ASSUME Init PROVE Naming
  OBVIOUS
<1>1. /\ daemon = World /\ shown = NoCopy /\ form = Closed /\ list = NewListing
      /\ calls = EmptyBag /\ wishes = <<>>
  BY DEF Init
<1>2. IsABag(calls) /\ BagToSet(calls) = {}
  BY <1>1 DEF EmptyBag, SetToBag, BagToSet, IsABag
<1>3. DOMAIN wishes = {}
  BY <1>1
<1>4. DOMAIN shown.agents = {} /\ DOMAIN list.copy.agents = {}
  BY <1>1 DEF NoCopy, NewListing
<1>5. form.prompts = 0 /\ form.rename = 0 /\ form.agent.made = 0 /\ ~ Quick
  BY <1>1 DEF Closed, Quick
<1>6. Prompted
  BY <1>1, <1>5 DEF Prompted
<1>7. Numbered
  BY <1>1, <1>2, <1>3, <1>4, <1>5, WorldAssumption DEF Numbered, Issued
<1>8. Orderly
  BY <1>2, <1>3, <1>5 DEF Orderly, OneComing, AnswerKnown, NameKept, WishesGranted
<1>9. QED
  BY <1>2, <1>6, <1>7, <1>8 DEF Naming

(* The steps together.                                                     *)
LEMMA KeysNaming == IInv /\ Naming /\ Keys => Naming'
BY RowNaming, StartQuickNaming, LookingNaming, FillNaming, AskNaming, AdvancedNaming,
   FinishQuickNaming, SubmitRenameNaming
   DEF Keys, RowKeys

LEMMA StutterNaming == Naming /\ UNCHANGED vars => Naming'
<1> SUFFICES ASSUME Naming, UNCHANGED vars PROVE Aside
  BY AsideStep
<1>1. QED
  BY DEF vars, Aside

LEMMA EveryStepNaming == IInv /\ Naming /\ [Next]_vars => Naming'
BY ListingNaming, ServeNaming, ReplyNaming, KeysNaming, OthersNaming, StutterNaming DEF Next

(* Prompts and Agents keep to their numbers, and as long as Agents are     *)
(* created one after the other, every wish is granted, on its way, or kept *)
(* by the prompt.                                                          *)
THEOREM NamingInductive == Spec => []Naming
<1>1. Init => Naming
  BY InitNaming
<1>2. IInv /\ Naming /\ [Next]_vars => Naming'
  BY EveryStepNaming
<1>3. QED
  BY <1>1, <1>2, Inductive, PTL DEF Spec

(* The name typed into a quick prompt is in the end the name of the Agent  *)
(* created by it, whether the name or the creation came first, and         *)
(* whatever else happens between, as long as Agents are created one after  *)
(* the other and no answer about it is an error.  (model.go:               *)
(* createAgentMsg and finishQuickAgentName, which meet in agentQuickID and *)
(* agentNameDone.)                                                         *)
THEOREM NamesAlwaysReachTheirAgent == Spec => []NamesReachTheirAgent
<1>1. Naming => NamesReachTheirAgent
  <2> SUFFICES ASSUME Naming, ~ muddled,
                      \A c \in BagToSet(calls) : c.ask.kind \notin {"agent", "rename"},
                      NEW a \in DOMAIN daemon.agents, daemon.agents[a].of \in DOMAIN wishes
               PROVE  daemon.agents[a].name = wishes[daemon.agents[a].of]
    BY DEF NamesReachTheirAgent
  <2> DEFINE wish == wishes[daemon.agents[a].of]
  <2>1. Orderly /\ Granted(a, wish)
    BY DEF Naming, Orderly, WishesGranted
  <2>2. \A c \in BagToSet(calls) : ~ Renames(c, a) /\ ~ Coming(c)
    BY DEF Renames, Coming, Creates
  <2>3. Quick => form.agent.made # 0
    BY <2>1, <2>2 DEF Orderly, AnswerKnown
  <2>4. ~ (Quick /\ form.agent.named)
    BY <2>3 DEF Naming, Prompted
  <2>5. QED
    BY <2>1, <2>2, <2>4 DEF Granted
<1>2. QED
  BY <1>1, NamingInductive, PTL
===============================================================================
