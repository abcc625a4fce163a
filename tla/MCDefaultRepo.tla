--------------------------- MODULE MCDefaultRepo ---------------------------
(* Three remotes, two of which score the same, on two configured hosts and *)
(* one that is not.                                                        *)
EXTENDS DefaultRepo

MCNames == {"codeberg", "forgejo", "upstream"}
MCPlace == [n \in MCNames |-> CASE n = "codeberg" -> 1 [] n = "forgejo" -> 2 [] OTHER -> 3]

Mine == Url("code", "me/fork")
Theirs == Url("code", "them/proj")
Elsewhere == Url("other", "them/proj")
OnGitHub == Url("github", "them/proj")

(* Three servers, and one fetched from theirs and pushed to mine. *)
MCGiven == {Both(Theirs), Both(Elsewhere), Both(OnGitHub), [fetch |-> Theirs, push |-> Mine]}
MCByHand == {Ref("other", "me/fork")}

OnlyMineAndTheirs == {Both(Mine), Both(Theirs)}
NoneByHand == {}
=============================================================================
