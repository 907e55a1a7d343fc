------------------------- MODULE RepositoryHistory -------------------------
(***************************************************************************)
(* What a project repository promises its users, without storage: commits  *)
(* that can be read in full, to which commits are only added, each after   *)
(* all it depends on; and branches, whose heads move one generation at a   *)
(* time to commits that can be read.                                       *)
(***************************************************************************)
EXTENDS Naturals

CONSTANTS Commits, Branches, NoCommit, Needs

VARIABLES
    readable,  \* the commits whose complete content can be read
    heads      \* branch -> its head, generation 0 if it does not exist

Absent == [commit |-> NoCommit, generation |-> 0]

Init ==
    /\ readable \in SUBSET Commits
    /\ \A c \in readable : Needs[c] \subseteq readable
    /\ heads \in [Branches -> {Absent} \cup [commit : readable, generation : Nat \ {0}]]

Import(c) ==
    /\ Needs[c] \subseteq readable
    /\ readable' = readable \cup {c}
    /\ UNCHANGED heads

Publish(b, c) ==
    /\ c \in readable
    /\ heads' = [heads EXCEPT ![b] = [commit |-> c, generation |-> @.generation + 1]]
    /\ UNCHANGED readable

Next ==
    \/ \E c \in Commits : Import(c)
    \/ \E b \in Branches, c \in Commits : Publish(b, c)

Spec == Init /\ [][Next]_<<readable, heads>>
=============================================================================
