--------------------------- MODULE MCTerminalClient ---------------------------
(* One Project: its Main Session, a worktree of it with a Secondary that has *)
(* one itself, an Agent in the Main Session and one in the last Secondary;   *)
(* and a branch without a worktree.                                        *)
EXTENDS TerminalClient

MCSession(type, parent, branch) ==
  [project |-> 1, type |-> type, parent |-> parent, branch |-> branch]
MCAgent(session, rank) ==
  [project |-> 1, session |-> session, rank |-> rank, name |-> "", armed |-> FALSE, of |-> 0]

MCWorld ==
  [projects |-> {1},
   sessions |-> <<MCSession("main", 0, ""), MCSession("worktree", 0, "first"),
                  MCSession("secondary", 2, ""), MCSession("secondary", 3, "")>>,
   agents |-> <<MCAgent(1, 2), MCAgent(4, 2)>>,
   recent |-> <<2, 1>>,
   nextSession |-> 5, nextAgent |-> 3,
   branches |-> {"first", "known"}, worktrees |-> {"first"}]

MCHabit(most, gestures) == [most |-> most, gestures |-> gestures]
MCHabits ==
  {MCHabit(4, {"quick", "advanced", "rename", "tab"}),
   MCHabit(4, {"worktree", "base"}),
   MCHabit(5, {"secondary", "fold", "tab"}),
   MCHabit(4, {"notify", "move", "status", "ends"}),
   MCHabit(4, {"delete", "move", "gone", "refresh"}),
   MCHabit(3, {"find", "move", "status", "attach", "quit"}),
   MCHabit(4, {"group", "tab", "move", "status"})}
==============================================================================
