------------------------------ MODULE MCStorage ------------------------------
(***************************************************************************)
(* Small instances of the storage formats: the content tree, the shared    *)
(* checkpoints of one document and the history archive.  A scene moves     *)
(* one of the three and leaves the others as they start.                   *)
(***************************************************************************)
EXTENDS CheckpointStore, HistoryArchive, HistoryHorizon

CONSTANT Scenes

VARIABLES
    scene,
    tree           \* a map tree as it may be found in the store

\* Eight keys; b and c share two digits, so a branch can be three deep.
MCRoute ==
    [a |-> <<0, 0, 0>>, b |-> <<1, 0, 0>>, c |-> <<1, 0, 1>>, d |-> <<1, 1, 0>>,
     blockId |-> <<0, 1, 0>>, label |-> <<0, 0, 1>>, content |-> <<0, 1, 1>>]

MCOrdinal == <<"a", "b">>
MCPlainText == [C1 |-> "hi", C2 |-> "essay"]

NodeA == [meta |-> "p", fields |-> ("content" :> "C1" @@ "label" :> "hi" @@ "blockId" :> "a")]
NodeB == [meta |-> "p", fields |-> ("content" :> "C1" @@ "label" :> "own")]
NodeM == [meta |-> "q", fields |-> NodeA.fields]
NodeL == [meta |-> "p", fields |-> ("content" :> "C2" @@ "label" :> "essay" @@ "blockId" :> "b")]
NodeE == [meta |-> "p", fields |-> << >>]
Suggested(ok) == [accepted |-> ok, detail |-> "do"]

DocState(nodes, comments, suggestions, removed) ==
    [nodes |-> nodes, comments |-> comments, suggestions |-> suggestions, removed |-> removed]

MCStates ==
    {DocState(<< >>, << >>, << >>, {}),
     DocState(("a" :> NodeA), <<"x">>, << >>, {}),
     DocState(("a" :> NodeM @@ "b" :> NodeB), <<"x", "y">>, ("a" :> Suggested(FALSE)), {"b"}),
     DocState(("b" :> NodeL), << >>, << >>, {}),
     DocState(("a" :> NodeA @@ "b" :> NodeB @@ "c" :> NodeE), <<"y">>, ("a" :> Suggested(TRUE)), {"a", "b", "c"}),
     DocState(("a" :> NodeA @@ "b" :> NodeE @@ "c" :> NodeE @@ "d" :> NodeB), <<"x">>, << >>, {})}

\* Trees of leaves and branches over four keys, packed well or badly.
Leaves == {Leaf([k \in K |-> Text(2, "x")]) : K \in {K \in SUBSET {"a", "b", "c", "d"} : Cardinality(K) <= LEAF_ENTRIES}}
Low == {Branch(f) : f \in UNION {[N -> Leaves] : N \in {{0}, {1}, {0, 1}}}}
Top == {Branch(f) : f \in UNION {[N -> Leaves \cup Low] : N \in {{1}, {0, 1}}}}

MCDeps == <<{}, {1}, {1}, {2, 3}>>
MCRefs == [o1 |-> {"o3"}, o2 |-> {"o3"}, o3 |-> {}]
MCFiles == <<{"o1"}, {"o1"}, {"o2"}, {"o1", "o2"}>>

\* Archives from other writers: any few frames behind a header, closed by a
\* footer over them, or by one taken over fewer frames.
Bodies ==
    BoundedSeq({ObjectFrame("o1", TRUE), ObjectFrame("o2", TRUE), ObjectFrame("o3", TRUE),
                ObjectFrame("o3", FALSE), CommitFrame(1, TRUE), CommitFrame(2, TRUE)}, 4)
MCOffered ==
    LET framed(h, b) == <<HeaderFrame(h, 0)>> \o b
    IN  {Append(framed(h, b), FooterOf(framed(h, b))) : h \in {1, 2}, b \in Bodies}
        \cup {framed(1, <<ObjectFrame("o1", TRUE), ObjectFrame("o3", TRUE), CommitFrame(1, TRUE)>>)}
        \cup {Append(framed(1, <<ObjectFrame("o1", TRUE), ObjectFrame("o3", TRUE), CommitFrame(1, TRUE)>>),
                     FooterOf(framed(1, <<ObjectFrame("o1", TRUE), CommitFrame(1, TRUE)>>)))}
        \cup {Append(Append(framed(1, << >>), FooterOf(framed(1, << >>))), CommitFrame(1, TRUE))}

Idle == Leaf(EmptyMap)

\* Histories to plan: a line, forks, a diamond, a criss-cross and a merge of
\* it, as parents in commit order.
Shapes ==
    {<< << >>, <<1>>, <<2>>, <<3>>, <<4>> >>,
     << << >>, <<1>>, <<1>>, <<2>>, <<3>> >>,
     << << >>, <<1>>, <<1>>, <<2, 3>>, <<4>> >>,
     << << >>, <<1>>, <<2>>, <<1>>, <<3, 4>> >>,
     << << >>, <<1>>, <<1>>, <<2, 3>>, <<3, 2>>, <<4, 5>> >>}

\* One commit may be a recovery of an earlier one, and merges are resolved
\* file by file or plain.
ViewOf(shape, merges, rec, source, topic, order, holds) ==
    LET n == Len(shape) IN
    [bodies   |-> 1..n,
     parents  |-> shape,
     heads    |-> [main |-> n, topic |-> topic],
     version  |-> [c \in 1..n |-> IF Len(shape[c]) = 2 THEN merges ELSE IF c = rec THEN 2 ELSE 1],
     recovery |-> [c \in 1..n |-> IF c = rec /\ Len(shape[c]) = 1 THEN {source} ELSE {}],
     age      |-> [c \in 1..n |-> IF c = 2 THEN 1 ELSE n - c],
     files    |-> [c \in 1..n |-> IF c = 3 THEN {"s3", "s1"} ELSE {<<"s1", "s2", "s3", "s4", "s5", "s6">>[c]}],
     inputs   |-> [c \in 1..n |-> IF Len(shape[c]) = 2 /\ merges = 3 THEN {"s1", "s2"} ELSE {}],
     objects  |-> [s1 |-> {1, 2}, s2 |-> {2, 3}, s3 |-> {4}, s4 |-> {5}, s5 |-> {3}, s6 |-> {6}],
     first    |-> IF order = "up" THEN [c \in 1..n |-> c] ELSE [c \in 1..n |-> n - c],
     skeleton |-> {}, holds |-> holds]

MCViews ==
    {ViewOf(sh, m, r, 2, t, o, h) :
        sh \in Shapes, m \in {1, 3}, r \in {0, 5}, t \in {1, 4, 5}, o \in {"up", "down"}, h \in {{}, {3}}}

\* Policies that load, for planning.
PlanDocs ==
    {[version |-> 1, id |-> "p", tier |-> tier, branch_heads |-> "true", topology |-> "keep"] @@ w @@ b @@ c @@ i :
        tier \in {"history", "content"},
        w \in {"last" :> 1, "last" :> 2, "days" :> 1, ("min" :> 1 @@ "days" :> 2)},
        b \in {<< >>, "against" :> "main"},
        c \in {<< >>, "commits" :> {2}},
        i \in {<< >>, "merge_inputs" :> "none"}}
    \cup {[version |-> 1, id |-> "p", tier |-> "history", branch_heads |-> "true", topology |-> "drop",
           acknowledge |-> "true", last |-> 1]}

\* Documents with fields missing, out of range or at odds with each other.
MCDocs ==
    PlanDocs \cup
    {h @@ w @@ g @@ t @@ a @@ q :
        h \in {[version |-> v, id |-> i, tier |-> r] : v \in {1, 2}, i \in {"p", "bad id"}, r \in {"history", "content", "all"}}
               \cup {[version |-> 1, id |-> "p"], [version |-> 1, id |-> "p", tier |-> "content", extra |-> "x"]},
        w \in {<< >>, "days" :> 0, "days" :> 2, "min" :> 1},
        g \in {<< >>, "branch_heads" :> "true", "branch_heads" :> "false", "holds" :> "false"},
        t \in {<< >>, "topology" :> "drop", ("topology" :> "drop" @@ "acknowledge" :> "true")},
        a \in {<< >>, "archive_required" :> "true", ("archive_required" :> "true" @@ "destination" :> "file")},
        q \in {<< >>, "signatures" :> 0, "signatures" :> 2}}

AView == CHOOSE v \in MCViews : TRUE

vars == <<scene, tree, storeVars, archiveVars, contentVars, horizonVars>>

Init ==
    /\ scene \in Scenes
    /\ StoreInit
    /\ ArchiveInit
    /\ IF scene = "content" THEN ContentInit
       ELSE whole = << >> /\ input = << >> /\ levels = << >> /\ content = Writing
    /\ tree \in IF scene = "trees" THEN Leaves \cup Low \cup Top ELSE {Idle}
    /\ \/ scene = "plans" /\ doc \in PlanDocs /\ view \in MCViews
       \/ scene = "policies" /\ doc \in MCDocs /\ view = AView
       \/ scene \notin {"plans", "policies"} /\ doc = << >> /\ view = << >>
    /\ HorizonInit

Next ==
    /\ UNCHANGED <<scene, tree>>
    /\ \/ scene = "content" /\ WriteChunk /\ UNCHANGED <<storeVars, archiveVars, horizonVars>>
       \/ scene = "checkpoints" /\ StoreNext /\ UNCHANGED <<archiveVars, contentVars, horizonVars>>
       \/ scene = "archive" /\ ArchiveNext /\ UNCHANGED <<storeVars, contentVars, horizonVars>>
       \/ scene \in {"plans", "policies"} /\ HorizonNext /\ UNCHANGED <<storeVars, archiveVars, contentVars>>

Spec == Init /\ [][Next]_vars

\* A map has one tree: the reader takes a tree exactly when it is the one the
\* writer makes for the entries it holds (entries_limited against map).
OneTreePerMap ==
    Accepts(tree) <=> tree = write_map(EntriesOf(tree))

\* Checkpoints and contents read back what was stored, whole and however much
\* of the tree before them they reuse.
CheckpointsSound ==
    /\ scene = "checkpoints" => CheckpointsLoad /\ UpdateIsRewrite
    /\ scene = "trees" => OneTreePerMap
    /\ scene = "content" => ContentExact

\* History leaves and enters a repository whole: an archive that is imported
\* or exported, and a horizon that is planned and planned again.
HistoryMovesWhole ==
    /\ scene = "archive" => ImportsWhole /\ ExportsRead
    /\ scene = "plans" => PlanChecks /\ ReplanReleasesNothing
    /\ scene = "policies" => PolicyReloads
=============================================================================
