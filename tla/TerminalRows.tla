----------------------------- MODULE TerminalRows -----------------------------
(***************************************************************************)
(* What the terminal client puts on the screen for a copy of the records:  *)
(* the rows of each tab, in their order, and where its cursor is.  A copy  *)
(* is a record of the three lists of the daemon:                           *)
(*   projects  a set of ids                                                *)
(*   sessions  a function from ids to [project, type, parent]              *)
(*   agents    a function from ids to [project, session, rank, ...]        *)
(*   recent    the ids of the agents, newest change of status first        *)
(* Ids count up, so the order of a list is that of the ids, and a Main     *)
(* Session has the least id of its Project.                                *)
(***************************************************************************)
EXTENDS Integers, Sequences, TLC

LOCAL INSTANCE SequencesExt

Tab == {"overview", "projects", "sessions", "agents"}
Kind == {"project", "session", "agent"}

NoCopy == [projects |-> {}, sessions |-> <<>>, agents |-> <<>>, recent |-> <<>>]

Listed(ids) ==
  IF ids = {} THEN <<>>
  ELSE SelectSeq([i \in 1..(CHOOSE m \in ids : \A i \in ids : i <= m) |-> i],
                 LAMBDA i : i \in ids)

------------------------------------------------------------------------------
(* The tree of Sessions                                                    *)

Each(seq, f(_)) == [i \in DOMAIN seq |-> f(seq[i])]

(* The way to a Session from the topmost one that is listed.               *)
Paths(v) ==
  LET path[s \in DOMAIN v.sessions] ==
        LET parent == v.sessions[s].parent
        IN IF parent \in DOMAIN v.sessions THEN Append(path[parent], s) ELSE <<s>>
  IN path

Ancestors(v, s) == {v.sessions[a].parent : a \in ToSet(Paths(v)[s])} \ {0}

MainOf(v, p) ==
  {s \in DOMAIN v.sessions : v.sessions[s].project = p /\ v.sessions[s].type = "main"}

(* Depth first.                                                            *)
Before(way1, way2) ==
  \/ IsStrictPrefix(way1, way2)
  \/ \E i \in DOMAIN way1 \cap DOMAIN way2 :
       way1[i] < way2[i] /\ \A j \in 1..(i - 1) : way1[j] = way2[j]

(* The Main Session with all below it, then the worktrees without a parent, *)
(* or whose parent is not listed.                                          *)
TreeOf(v, p, paths) ==
  LET rooted(root) == \/ v.sessions[root].type \in {"main", "worktree"}
                      \/ MainOf(v, p) = {} /\ v.sessions[root].parent = 0
      mine == {s \in DOMAIN v.sessions : v.sessions[s].project = p /\ rooted(Head(paths[s]))}
  IN SortSeq(Listed(mine), LAMBDA a, b : Before(paths[a], paths[b]))
ProjectSessions(v, p) == TreeOf(v, p, Paths(v))

HasSecondaries(v, s) ==
  \E d \in DOMAIN v.sessions : v.sessions[d].type = "secondary" /\ s \in Ancestors(v, d)
Foldable(v) == {s \in DOMAIN v.sessions : HasSecondaries(v, s)}

Visible(v, folded, s) ==
  v.sessions[s].type = "secondary" => Ancestors(v, s) \cap folded = {}

------------------------------------------------------------------------------
(* Rows                                                                    *)

Row(kind, id) == <<kind, id>>
RowsOf(kind, ids) == Each(ids, LAMBDA id : Row(kind, id))

AgentsOf(v, s) == Listed({a \in DOMAIN v.agents : v.agents[a].session = s})

(* By status, what wants attention first, then by the newest change.       *)
ByStatus(v, agents) ==
  LET newer(a, b) == \E i, j \in DOMAIN v.recent : i < j /\ v.recent[i] = a /\ v.recent[j] = b
  IN SortSeq(Listed(agents),
             LAMBDA a, b : \/ v.agents[a].rank < v.agents[b].rank
                           \/ v.agents[a].rank = v.agents[b].rank /\ newer(a, b))

AgentRows(v, grouped) ==
  LET bucket(p) == RowsOf("agent", ByStatus(v, {a \in DOMAIN v.agents : v.agents[a].project = p}))
  IN IF grouped THEN FlattenSeq(Each(Listed(v.projects), bucket))
     ELSE RowsOf("agent", ByStatus(v, DOMAIN v.agents))

SessionRows(v, withAgents, seen) ==
  LET under(s) == IF withAgents THEN RowsOf("agent", AgentsOf(v, s)) ELSE <<>>
      rowsOf(s) == IF s \in seen THEN <<Row("session", s)>> \o under(s) ELSE <<>>
      of(p) == FlattenSeq(Each(ProjectSessions(v, p), rowsOf))
  IN FlattenSeq(Each(Listed(v.projects), of))

(* The rows of the tab that w is on.  The finder looks through folds, and  *)
(* keeps what its query matches: nothing typed matches every row, and what *)
(* is typed here one row or none, so the score it ranks by has no say.     *)
Rows(w, v) ==
  LET seen == {s \in DOMAIN v.sessions : w.finding \/ Visible(v, w.folded, s)}
      typed == w.finding /\ w.query # {}
  IN SelectSeq(CASE w.tab = "projects" -> RowsOf("project", Listed(v.projects))
                 [] w.tab = "agents" -> AgentRows(v, w.grouped)
                 [] OTHER -> SessionRows(v, w.tab = "overview", seen),
               LAMBDA r : typed => r \in w.query)

------------------------------------------------------------------------------
(* The cursor                                                              *)

NoRow == Row("none", 0)

ActiveKind(w) ==
  CASE w.tab = "projects" -> "project"
    [] w.tab = "agents" -> "agent"
    [] w.tab = "sessions" -> "session"
    [] OTHER -> w.over                          \* a Session or an Agent

Selected(w) == Row(ActiveKind(w), w.sel[ActiveKind(w)].id)

Clamp(rows, i) == IF i < 1 THEN 1 ELSE IF i > Len(rows) THEN Len(rows) ELSE i

(* Mutant: the cursor stays on the line, not on what the line shows.       *)
CurrentLine(w, rows) == Clamp(rows, w.sel[ActiveKind(w)].idx)

(* By id; by the last position when that is gone.                          *)
CurrentIndex(w, rows) ==
  IF Selected(w) \in ToSet(rows) THEN CHOOSE i \in DOMAIN rows : rows[i] = Selected(w)
  ELSE Clamp(rows, w.sel[ActiveKind(w)].idx)

CursorIn(w, rows) == IF rows = <<>> THEN NoRow ELSE rows[CurrentIndex(w, rows)]
Cursor(w, v) == CursorIn(w, Rows(w, v))

SelectRow(w, row, i) ==
  [w EXCEPT !.sel[row[1]] = [id |-> row[2], idx |-> i],
            !.over = IF w.tab = "overview" THEN row[1] ELSE @]
SelectIndex(w, rows, i) ==
  IF rows = <<>> THEN w ELSE SelectRow(w, rows[Clamp(rows, i)], Clamp(rows, i))

MoveIn(w, rows, delta) ==
  IF rows = <<>> THEN w ELSE SelectIndex(w, rows, CurrentIndex(w, rows) + delta)
Move(w, v, delta) == MoveIn(w, Rows(w, v), delta)

Normalized(w, v) == Move(w, v, 0)

(* After a fold: if that hides what was selected, up to what still shows.  *)
Above(v, w, way) == SelectSeq(Front(way), LAMBDA a : Visible(v, w.folded, a))
UpTo(w, above) ==
  IF above = <<>> THEN w
  ELSE [w EXCEPT !.sel["session"] = [id |-> Last(above), idx |-> 0], !.over = "session"]

AfterFold(w, v) ==
  LET s == w.sel["session"].id
      stays == \/ Selected(w)[2] = 0 \/ Selected(w) \in ToSet(Rows(w, v))
               \/ s \notin DOMAIN v.sessions
  IN Normalized(IF stays THEN w ELSE UpTo(w, Above(v, w, Paths(v)[s])), v)

------------------------------------------------------------------------------
(* A new copy                                                              *)

(* To the Session the client was started in, or the one just created.      *)
Selecting(w, v, s) ==
  IF s \in DOMAIN v.sessions THEN [w EXCEPT !.sel["session"].id = s, !.over = "session"] ELSE w

(* The first copy folds every Session that can be.                         *)
Refreshed(w, v) ==
  Normalized([Selecting(Selecting(w, v, w.initial), v, w.created) EXCEPT
                !.folded = IF w.loaded THEN @ ELSE Foldable(v),
                !.loaded = TRUE, !.initial = 0, !.created = 0], v)
==============================================================================
