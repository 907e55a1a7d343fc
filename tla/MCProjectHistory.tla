-------------------------- MODULE MCProjectHistory --------------------------
(* Three commits: c1 holds both documents, c2 builds on c1 and drops the   *)
(* second one, c3 is on another line and names c1 as a source.             *)
EXTENDS ProjectHistory, TLC

CONSTANTS ann, bob, d1, d2, c1, c2, c3, o1, o2, o3, project

MCParents == c1 :> {} @@ c2 :> {c1} @@ c3 :> {}
MCSources == c1 :> {} @@ c2 :> {} @@ c3 :> {c1}
MCFiles == c1 :> {o1, o2} @@ c2 :> {o1} @@ c3 :> {o3}
MCBelow == o1 :> {o1} @@ o2 :> {o2} @@ o3 :> {o1, o3}
MCDocumentOf == o1 :> d1 @@ o2 :> d2 @@ o3 :> d1
MCAuthorOf == c1 :> ann @@ c2 :> ann @@ c3 :> bob

Everywhere(level) == [p \in Places |-> level]
Asking(n) == [p \in Places |-> [approvals |-> IF p = Project THEN n ELSE 0, owners |-> FALSE]]

(* Nothing is published yet, and no review is asked for.                   *)
Unpublished ==
    [seeded |-> {}, rules |-> Asking(0),
     roles |-> ann :> Everywhere(Editor) @@ bob :> Everywhere(Contributor)]
(* Protected main: ann merges, bob reviews, one approval is asked for.     *)
Protected ==
    [seeded |-> Commits, rules |-> Asking(1),
     roles |-> ann :> Everywhere(Editor) @@ bob :> Everywhere(Reviewer)]
MCStarts == {Unpublished, Protected}

(* bob may be demoted, and the second file come to ask for two approvals.  *)
Demoted == {<<bob, project, Viewer>>}
Stricter == {<<d2, [approvals |-> 2, owners |-> FALSE]>>}

(* Before publication the accounts and documents change and no branch      *)
(* moves; over a protected main nothing new is staged.                     *)
VARIABLE publishing

MCInit == Init /\ publishing = (Published = {})
MCNext ==
    /\ Next
    /\ UNCHANGED publishing
    /\ IF publishing
       THEN /\ UNCHANGED <<roles, rules, reviews, releases, events>>
            /\ \A a \in Accounts : requests'[a] # Idle => requests'[a].op \in {"stage", "publish"}
       ELSE /\ UNCHANGED <<accounts, keys>>
            /\ stagedCommits' = {} /\ stagedObjects' = {}
            /\ \A a \in Accounts : requests'[a] # Idle => requests'[a].op \notin {"stage", "publish"}

MCSpec == MCInit /\ [][MCNext]_<<vars, publishing>>
=============================================================================
