--------------------------- MODULE MCProjectLifecycle ---------------------------
EXTENDS ProjectLifecycle, TLC

(* Two directories of one name, so that their sessions compete for names,  *)
(* and a worktree of the first.                                            *)
BaseDef == "here" :> "app" @@ "there" :> "app"
BranchesDef == "here" :> <<"fix">> @@ "there" :> <<>>

(* The same, with the worktree on a branch whose session is named like a   *)
(* Main Session.                                                           *)
BranchMainDef == "here" :> <<"main">> @@ "there" :> <<>>

(* Both: a worktree of each directory.                                     *)
BothBranchesDef == "here" :> <<"fix">> @@ "there" :> <<"main">>

(* One directory without worktrees.                                        *)
OneBaseDef == "here" :> "app"
NoBranchesDef == "here" :> <<>>
=============================================================================
