------------------------- MODULE MCLocalRepository -------------------------
(* Small content for the local repository: a chain c1 <- c2, a commit c3   *)
(* on another line that recovers c1, and files that share an object.       *)
EXTENDS LocalRepository, TLC

CONSTANTS c1, c2, c3

MCChildren == 1 :> {2} @@ 2 :> {} @@ 3 :> {2}
MCParents == c1 :> {} @@ c2 :> {c1} @@ c3 :> {}
MCSources == c1 :> {} @@ c2 :> {} @@ c3 :> {c1}
MCRoots == c1 :> {1} @@ c2 :> {3} @@ c3 :> {}
MCSize == 1 :> 2 @@ 2 :> 2 @@ 3 :> 1
MCPackedSize == 1 :> 1 @@ 2 :> 1 @@ 3 :> 1
MCBodySize == c1 :> 1 @@ c2 :> 1 @@ c3 :> 1
MCLimits(b, o, c, n) == [bytes |-> b, objects |-> o, commits |-> c, branches |-> n]
MCDefaultLimits == MCLimits(6, 2, 2, 1)
MCLimitChoices == {MCLimits(9, 3, 3, 0), MCLimits(9, 3, 3, 1)}
=============================================================================
