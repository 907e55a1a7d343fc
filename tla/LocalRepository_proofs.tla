----------------------- MODULE LocalRepository_proofs -----------------------
(***************************************************************************)
(* Proofs about the local repository, for every content, every number of   *)
(* clients and branches, and every bound.  The sums of bytes stay with     *)
(* TLC; nothing here depends on what the counters hold.                    *)
(***************************************************************************)
EXTENDS LocalRepository, FiniteSetTheorems, TLAPS

USE ContentAssumption, RepositoryAssumption

(* Reachability from objects and commits stays among objects and commits.  *)
LEMMA ContentTypes ==
    /\ Graph \in [Objects -> SUBSET Objects]
    /\ Content \in [Commits -> SUBSET Objects]
    /\ Ancestors \in [Commits -> SUBSET Commits]
    /\ Lineage \in [Commits -> SUBSET Commits]
  <1>1. ASSUME NEW U, NEW next, NEW S PROVE Least(U, next, S) \subseteq U
    BY DEF Least
  <1>2. Graph \in [Objects -> SUBSET Objects]
    BY <1>1 DEF Graph
  <1>3. Content \in [Commits -> SUBSET Objects]
    <2>1. ASSUME NEW c \in Commits, NEW x \in UNION {Graph[r] : r \in Roots[c]}
          PROVE  x \in Objects
      <3>1. PICK r \in Roots[c] : x \in Graph[r]
        OBVIOUS
      <3> QED BY <3>1, <1>2
    <2> QED BY <2>1 DEF Content
  <1>4. Ancestors \in [Commits -> SUBSET Commits]
    BY <1>1 DEF Ancestors
  <1>5. Lineage \in [Commits -> SUBSET Commits]
    BY <1>1 DEF Lineage
  <1> QED BY <1>2, <1>3, <1>4, <1>5

(* Object keys are numbers above the cursor a run starts with.             *)
LEMMA KeysAreNumbers ==
    /\ Objects \subseteq Nat \ {0}
    /\ \A x \in Objects \cup {0} : x \in Nat
  <1>1. \A x \in Objects : x \in Nat
    OBVIOUS
  <1> QED BY <1>1

(* NoHead is no head of an existing branch.                                *)
LEMMA HeadFacts ==
    /\ NoHead \notin Heads
    /\ \A h \in {NoHead} \cup Heads : h.generation \in 0..MaxGeneration
    /\ NoHead.generation = 0
    /\ \A h \in Heads : h.commit \in Commits /\ h.generation > 0
  BY DEF NoHead, Heads

(* What the plan binds is made of the rows it was computed from.           *)
LEMMA PlanType ==
    ASSUME TypeOK PROVE PlanHash \in Plans
  <1>1. Superseded \in SUBSET Commits /\ Orphaned \in SUBSET Commits
    BY DEF Superseded, Orphaned, TypeOK
  <1>2. \A C \in SUBSET Commits : ContentOf(C) \in SUBSET Objects
    BY ContentTypes DEF ContentOf
  <1>3. Staged \in SUBSET Objects
    BY DEF Staged, TypeOK
  <1>4. /\ ContentOf(Superseded) \ ContentOf(Reachable) \in SUBSET Objects
        /\ ContentOf(Orphaned) \ ContentOf(Reachable \cup Superseded) \in SUBSET Objects
    BY <1>1, <1>2
  <1>5. refs \in [Branches -> {NoHead} \cup Heads]
    BY DEF TypeOK
  <1> QED BY <1>1, <1>3, <1>4, <1>5 DEF PlanHash, Plans

(* A commit has at most two parents, so the highest of them exists.        *)
LEMMA HeightType ==
    ASSUME NEW h \in [Commits -> Nat], NEW c \in Commits
    PROVE  HeightOver(h, c) \in Nat
  <1> DEFINE hs == {h[p] : p \in Parents[c]}
  <1>1. CASE Parents[c] = {}
    BY <1>1 DEF HeightOver
  <1>2. CASE Parents[c] # {}
    <2>1. PICK p, q \in Commits : Parents[c] \subseteq {p, q}
      BY ParentsAssumption
    <2>2. PICK r \in Parents[c] : TRUE
      BY <1>2
    <2>3. h[r] \in hs /\ (\A x \in hs : x = h[p] \/ x = h[q]) /\ hs \subseteq Nat
      BY <2>1, <2>2
    <2>4. h[p] \in Nat /\ h[q] \in Nat
      OBVIOUS
    <2>5. \E x \in hs : \A y \in hs : x >= y
      <3> HIDE DEF hs
      <3>1. CASE h[p] \in hs /\ h[q] \in hs
        BY <2>3, <2>4, <3>1
      <3>2. CASE ~(h[p] \in hs /\ h[q] \in hs)
        BY <2>3, <2>4, <3>2
      <3> QED BY <3>1, <3>2
    <2>6. Max(hs) \in Nat
      BY <2>3, <2>5 DEF Max
    <2>7. HeightOver(h, c) = 1 + Max(hs)
      BY <1>2 DEF HeightOver
    <2> QED BY <2>6, <2>7
  <1> QED BY <1>1, <1>2

----------------------------------------------------------------------------
(* A new file, and a file of the earlier format, are well typed.           *)
LEMMA InitTypeOK == Init => TypeOK
  <1> SUFFICES ASSUME Init PROVE TypeOK
    OBVIOUS
  <1>1. held \in [Clients -> [Branches -> {NoHead} \cup Heads]]
    BY DEF Init
  <1>2. /\ outdated \in SUBSET (Clients \X Branches)
        /\ reviewed \in SUBSET Plans /\ log \in SUBSET Plans
        /\ compactor \in Compactors
    BY DEF Init, Idle, Compactors, Published
  <1>3. CASE NewFile
    BY <1>1, <1>2, <1>3 DEF TypeOK, NewFile
  <1>4. CASE EarlierFile
    <2>1. refs \in [Branches -> {NoHead} \cup Heads]
      BY <1>4 DEF EarlierFile, Heads
    <2>2. height \in [Commits -> Nat]
      <3>1. Cardinality(Commits) \in Nat
        BY FS_CardinalityType
      <3> QED BY <3>1, <1>4 DEF EarlierFile
    <2> QED BY <1>1, <1>2, <1>4, <2>1, <2>2 DEF TypeOK, EarlierFile
  <1> QED BY <1>3, <1>4 DEF Init

(* Every step keeps the shape of the state.  Each action disturbs only the *)
(* variables it assigns.                                                   *)
LEMMA NextTypeOK == TypeOK /\ [Next]_vars => TypeOK'
  <1> SUFFICES ASSUME TypeOK, [Next]_vars PROVE TypeOK'
    OBVIOUS
  <1> USE DEF TypeOK, store, clients
  <1>1. CASE Open
    BY <1>1 DEF Open
  <1>2. ASSUME NEW l \in LimitChoices, SetStorageLimits(l) PROVE TypeOK'
    BY <1>2 DEF SetStorageLimits
  <1>3. ASSUME NEW S \in SUBSET Objects, PutObjects(S) PROVE TypeOK'
    BY <1>3 DEF PutObjects, PackedRows
  <1>4. ASSUME NEW root \in StateRoots, WriteState(root) PROVE TypeOK'
    BY <1>3, <1>4, ContentTypes DEF WriteState
  <1>5. ASSUME NEW S \in SUBSET Objects, ImportObjects(S) PROVE TypeOK'
    BY <1>3, <1>5 DEF ImportObjects
  <1>6. ASSUME NEW c \in Commits, ImportCommit(c) PROVE TypeOK'
    <2>1. HeightOver(height, c) \in Nat
      BY HeightType
    <2> QED BY <1>6, <2>1 DEF ImportCommit
  <1>7. ASSUME NEW k \in Clients, NEW b \in Branches, ReadHead(k, b) PROVE TypeOK'
    BY <1>7 DEF ReadHead
  <1>8. ASSUME NEW k \in Clients, NEW b \in Branches, NEW c \in Commits,
               CompareAndSwap(k, b, c)
        PROVE  TypeOK'
    <2> DEFINE new == [commit |-> c, generation |-> held[k][b].generation + 1]
    <2>1. new \in Heads
      BY <1>8, HeadFacts DEF CompareAndSwap, HasNext, Heads
    <2>2. refs' = [refs EXCEPT ![b] = new] /\ held' = [held EXCEPT ![k][b] = new]
      BY <1>8 DEF CompareAndSwap
    <2>3. /\ refs' \in [Branches -> {NoHead} \cup Heads]
          /\ held' \in [Clients -> [Branches -> {NoHead} \cup Heads]]
      BY <2>1, <2>2
    <2>4. outdated' \in SUBSET (Clients \X Branches)
      BY <1>8 DEF CompareAndSwap
    <2> QED BY <1>8, <2>3, <2>4 DEF CompareAndSwap
  <1>9. CASE GcPlan
    BY <1>9, PlanType DEF GcPlan
  <1>10. ASSUME NEW p \in reviewed, GcApply(p) PROVE TypeOK'
    BY <1>10 DEF GcApply
  <1>11. ASSUME NEW p \in reviewed, GcForget(p) PROVE TypeOK'
    BY <1>11 DEF GcForget
  <1>12. ASSUME NEW a \in Objects \cup {0}, CompactStart(a) PROVE TypeOK'
    BY <1>12 DEF CompactStart, Compactors, Idle
  <1>13. ASSUME NEW last \in Objects, CompactBatch(last) PROVE TypeOK'
    BY <1>13 DEF CompactBatch, Compactors, Rewritten, Examined, CursorAfter
  <1>14. CASE CompactEnd
    BY <1>14 DEF CompactEnd, Compactors
  <1>15. CASE ReadUsage
    BY <1>15 DEF ReadUsage, Compactors
  <1>16. CASE ReadObjectRows
    BY <1>16 DEF ReadObjectRows, Compactors
  <1>17. CASE VerifyCounters
    BY <1>17 DEF VerifyCounters, Compactors, Idle
  <1>18. CASE CompactCrash
    BY <1>18 DEF CompactCrash, Compactors, Idle
  <1>19. CASE UNCHANGED vars
    BY <1>19 DEF vars
  <1> QED
    BY <1>1, <1>2, <1>4, <1>5, <1>6, <1>7, <1>8, <1>9, <1>10, <1>11, <1>12, <1>13,
       <1>14, <1>15, <1>16, <1>17, <1>18, <1>19 DEF Next, Compaction

(* The state keeps its shape in every behaviour.                           *)
THEOREM TypeCorrect == Spec => []TypeOK
  BY InitTypeOK, NextTypeOK, PTL DEF Spec

----------------------------------------------------------------------------
(* History stays complete: an import adds a commit whose content is        *)
(* stored, and the collector keeps all content of all stored commits.      *)
LEMMA InitHistoryComplete == Init => HistoryComplete
  BY DEF Init, NewFile, EarlierFile, HistoryComplete, Complete, Published, NoHead

(* Each step, with the collector as the one that removes content.          *)
LEMMA NextHistoryComplete == TypeOK /\ HistoryComplete /\ [Next]_vars => HistoryComplete'
  <1> SUFFICES ASSUME TypeOK, HistoryComplete, [Next]_vars PROVE HistoryComplete'
    OBVIOUS
  <1> USE DEF HistoryComplete, Complete, Published
  <1>1. ASSUME NEW S, PutObjects(S) PROVE HistoryComplete'
    BY <1>1 DEF PutObjects
  <1>2. ASSUME NEW c \in Commits, ImportCommit(c) PROVE HistoryComplete'
    BY <1>2 DEF ImportCommit, Importable
  <1>3. ASSUME NEW k \in Clients, NEW b \in Branches, NEW c \in Commits,
               CompareAndSwap(k, b, c)
        PROVE  HistoryComplete'
    <2>1. /\ c \in commits /\ UNCHANGED <<objects, commits>>
          /\ refs' = [refs EXCEPT ![b] = [commit |-> c, generation |-> held[k][b].generation + 1]]
      BY <1>3 DEF CompareAndSwap
    <2> QED BY <2>1 DEF TypeOK
  <1>4. ASSUME NEW p \in reviewed, GcApply(p) PROVE HistoryComplete'
    <2>1. /\ objects' = objects \ (objects \ Visited)
          /\ UNCHANGED <<commits, refs>>
      BY <1>4 DEF GcApply, Collected
    <2>2. \A c \in commits : Content[c] \subseteq Visited
      BY DEF Visited, ContentOf
    <2> QED BY <2>1, <2>2
  <1>5. ASSUME UNCHANGED <<objects, commits, refs>> PROVE HistoryComplete'
    BY <1>5
  <1> QED
    BY <1>1, <1>2, <1>3, <1>4, <1>5
    DEF Next, Compaction, vars, store, Open, SetStorageLimits, WriteState, ImportObjects,
        ReadHead, GcPlan, GcForget, CompactStart, CompactBatch, CompactEnd, ReadUsage,
        ReadObjectRows, VerifyCounters, CompactCrash

(* Whatever writers, the collector and compaction do in between, a stored  *)
(* commit can be read in full and a branch names a stored commit.          *)
THEOREM HistoryIsComplete == Spec => []HistoryComplete
  BY TypeCorrect, InitHistoryComplete, NextHistoryComplete, PTL DEF Spec

----------------------------------------------------------------------------
(* Only compare_and_swap moves a branch, and it uses a fresh generation.   *)
LEMMA OnlySwapMovesRefs ==
    ASSUME [Next]_vars,
           ~\E k \in Clients, b \in Branches, c \in Commits : CompareAndSwap(k, b, c)
    PROVE  UNCHANGED refs
  BY DEF Next, Compaction, vars, store, Open, SetStorageLimits, WriteState, ImportObjects,
         PutObjects, ImportCommit, ReadHead, GcPlan, GcApply, GcForget, CompactStart,
         CompactBatch, CompactEnd, ReadUsage, ReadObjectRows, VerifyCounters, CompactCrash

(* Only a read of a head and a compare-and-swap change what a client       *)
(* holds.                                                                  *)
LEMMA OnlyClientsMoveHeld ==
    ASSUME [Next]_vars,
           ~\E k \in Clients, b \in Branches, c \in Commits : CompareAndSwap(k, b, c),
           ~\E k \in Clients, b \in Branches : ReadHead(k, b)
    PROVE  UNCHANGED <<held, outdated>>
  BY DEF Next, Compaction, vars, clients, Open, SetStorageLimits, WriteState, ImportObjects,
         PutObjects, ImportCommit, GcPlan, GcApply, GcForget, CompactStart,
         CompactBatch, CompactEnd, ReadUsage, ReadObjectRows, VerifyCounters, CompactCrash

(* A client that has read nothing holds no outdated head.                  *)
LEMMA InitHeldBehind == Init => HeldBehind
  <1> SUFFICES ASSUME Init, NEW k \in Clients, NEW b \in Branches
               PROVE  IF <<k, b>> \in outdated THEN held[k][b].generation < refs[b].generation
                                               ELSE held[k][b] = refs[b]
    BY DEF HeldBehind
  <1>1. held[k][b] = NoHead /\ (<<k, b>> \in outdated <=> refs[b] # NoHead)
    BY DEF Init, Published
  <1>2. refs[b] \in {NoHead} \cup Heads
    BY InitTypeOK DEF TypeOK
  <1>3. refs[b] # NoHead => refs[b].generation > 0
    BY <1>2, HeadFacts
  <1> QED BY <1>1, <1>3, HeadFacts

(* What a successful swap found and left.                                  *)
LEMMA SwapStep ==
    ASSUME TypeOK, HeldBehind, NEW k \in Clients, NEW b \in Branches, NEW c \in Commits,
           CompareAndSwap(k, b, c)
    PROVE  /\ <<k, b>> \notin outdated
           /\ refs' = [refs EXCEPT ![b] = [commit |-> c, generation |-> refs[b].generation + 1]]
           /\ held' = [held EXCEPT ![k][b] = refs'[b]]
           /\ outdated' = outdated \cup ((Clients \ {k}) \X {b})
           /\ refs[b].generation \in Nat
  <1>1. held[k][b] = refs[b]
    BY DEF CompareAndSwap, Expected
  <1>2. refs[b].generation \in Nat
    BY HeadFacts DEF TypeOK
  <1>3. <<k, b>> \notin outdated
    BY <1>1, <1>2 DEF HeldBehind
  <1>4. refs' = [refs EXCEPT ![b] = [commit |-> c, generation |-> refs[b].generation + 1]]
    BY <1>1 DEF CompareAndSwap
  <1>5. refs'[b] = [commit |-> c, generation |-> refs[b].generation + 1]
    BY <1>4 DEF TypeOK
  <1>6. held' = [held EXCEPT ![k][b] = refs'[b]]
    BY <1>1, <1>5 DEF CompareAndSwap
  <1>7. outdated' = outdated \cup ((Clients \ {k}) \X {b})
    BY <1>3 DEF CompareAndSwap
  <1> QED BY <1>2, <1>3, <1>4, <1>6, <1>7

(* A swap moves the generation past every head held elsewhere; no other    *)
(* step lowers it.                                                         *)
LEMMA NextHeldBehind == TypeOK /\ HeldBehind /\ [Next]_vars => HeldBehind'
  <1> SUFFICES ASSUME TypeOK, HeldBehind, [Next]_vars PROVE HeldBehind'
    OBVIOUS
  <1>1. ASSUME NEW k \in Clients, NEW b \in Branches, ReadHead(k, b) PROVE HeldBehind'
    <2>1. /\ held' = [held EXCEPT ![k][b] = refs[b]]
          /\ outdated' = outdated \ {<<k, b>>}
          /\ refs' = refs
      BY <1>1 DEF ReadHead, store
    <2> QED BY <2>1 DEF HeldBehind, TypeOK
  <1>2. ASSUME NEW k \in Clients, NEW b \in Branches, NEW c \in Commits,
               CompareAndSwap(k, b, c)
        PROVE  HeldBehind'
    <2>a. /\ refs' = [refs EXCEPT ![b] = [commit |-> c, generation |-> refs[b].generation + 1]]
          /\ held' = [held EXCEPT ![k][b] = refs'[b]]
          /\ outdated' = outdated \cup ((Clients \ {k}) \X {b})
          /\ <<k, b>> \notin outdated
          /\ refs[b].generation \in Nat
      BY <1>2, SwapStep
    <2>b. /\ refs \in [Branches -> {NoHead} \cup Heads]
          /\ held \in [Clients -> [Branches -> {NoHead} \cup Heads]]
      BY DEF TypeOK
    <2> SUFFICES ASSUME NEW kk \in Clients, NEW bb \in Branches
                 PROVE  IF <<kk, bb>> \in outdated'
                        THEN held'[kk][bb].generation < refs'[bb].generation
                        ELSE held'[kk][bb] = refs'[bb]
      BY DEF HeldBehind
    <2>1. CASE bb # b
      <3>1. refs'[bb] = refs[bb] /\ held'[kk][bb] = held[kk][bb]
        BY <2>a, <2>b, <2>1
      <3>2. <<kk, bb>> \in outdated' <=> <<kk, bb>> \in outdated
        BY <2>a, <2>1
      <3> QED BY <3>1, <3>2 DEF HeldBehind
    <2>2. CASE bb = b /\ kk = k
      <3>1. <<kk, bb>> \notin outdated'
        BY <2>a, <2>2
      <3> QED BY <2>a, <2>b, <2>2, <3>1
    <2>3. CASE bb = b /\ kk # k
      <3>1. <<kk, bb>> \in outdated' /\ held'[kk][bb] = held[kk][b]
        BY <2>a, <2>b, <2>3
      <3>2. refs'[bb].generation = refs[b].generation + 1
        BY <2>a, <2>b, <2>3
      <3>3. held[kk][b].generation \in Nat
        BY <2>b, HeadFacts
      <3>4. held[kk][b].generation <= refs[b].generation
        <4>1. \/ held[kk][b].generation < refs[b].generation
              \/ held[kk][b] = refs[b]
          BY DEF HeldBehind
        <4> QED BY <2>a, <3>3, <4>1
      <3> QED BY <2>a, <3>1, <3>2, <3>3, <3>4
    <2> QED BY <2>1, <2>2, <2>3
  <1>3. ASSUME UNCHANGED <<held, outdated, refs>> PROVE HeldBehind'
    BY <1>3 DEF HeldBehind
  <1> QED BY <1>1, <1>2, <1>3, OnlySwapMovesRefs, OnlyClientsMoveHeld

(* A head read earlier is current or strictly older, never newer.          *)
THEOREM HeldNeverAhead == Spec => []HeldBehind
  BY TypeCorrect, InitHeldBehind, NextHeldBehind, PTL DEF Spec

(* No update is lost: a branch moves only on behalf of a client that has   *)
(* seen the head it replaces, whatever moved away and back before.         *)
THEOREM NoUpdateIsLost == Spec => NoLostUpdate
  <1> DEFINE A == \A b \in Branches : refs'[b] # refs[b] =>
                    \E k \in Clients : /\ <<k, b>> \notin outdated \cup outdated'
                                       /\ held'[k][b] = refs'[b]
  <1>1. TypeOK /\ HeldBehind /\ [Next]_vars => [A]_vars
    <2> SUFFICES ASSUME TypeOK, HeldBehind, [Next]_vars PROVE A
      OBVIOUS
    <2>1. ASSUME NEW k \in Clients, NEW b \in Branches, NEW c \in Commits,
                 CompareAndSwap(k, b, c)
          PROVE  A
      <3>a. /\ refs' = [refs EXCEPT ![b] = [commit |-> c, generation |-> refs[b].generation + 1]]
            /\ held' = [held EXCEPT ![k][b] = refs'[b]]
            /\ outdated' = outdated \cup ((Clients \ {k}) \X {b})
            /\ <<k, b>> \notin outdated
            /\ refs[b].generation \in Nat
        BY <2>1, SwapStep
      <3>b. /\ refs \in [Branches -> {NoHead} \cup Heads]
            /\ held \in [Clients -> [Branches -> {NoHead} \cup Heads]]
        BY DEF TypeOK
      <3>1. \A bb \in Branches : refs'[bb] # refs[bb] => bb = b
        BY <3>a, <3>b
      <3>2. <<k, b>> \notin outdated \cup outdated' /\ held'[k][b] = refs'[b]
        BY <3>a, <3>b
      <3> QED BY <3>1, <3>2
    <2> QED BY <2>1, OnlySwapMovesRefs
  <1> QED BY <1>1, TypeCorrect, HeldNeverAhead, PTL DEF Spec, NoLostUpdate

----------------------------------------------------------------------------
(* Nothing a stored commit needs is ever removed, and a branch never goes  *)
(* back to an earlier generation.                                          *)
THEOREM NothingIsLost == Spec => NothingRetainedIsLost
  <1> DEFINE A == /\ commits \subseteq commits'
                  /\ Visited \cap objects \subseteq objects'
                  /\ \A b \in Branches : refs[b].generation <= refs'[b].generation
  <1>1. TypeOK /\ HeldBehind /\ [Next]_vars => [A]_vars
    <2> SUFFICES ASSUME TypeOK, HeldBehind, [Next]_vars PROVE A
      OBVIOUS
    <2>1. commits \subseteq commits'
      BY DEF Next, Compaction, vars, store, Open, SetStorageLimits, WriteState, ImportObjects,
             PutObjects, ImportCommit, ReadHead, CompareAndSwap, GcPlan, GcApply, GcForget,
             CompactStart, CompactBatch, CompactEnd, ReadUsage, ReadObjectRows,
             VerifyCounters, CompactCrash
    <2>2. Visited \cap objects \subseteq objects'
      <3>1. ASSUME NEW p \in reviewed, GcApply(p) PROVE Visited \cap objects \subseteq objects'
        BY <3>1 DEF GcApply, Collected
      <3> HIDE DEF A
      <3>2. CASE \A p \in reviewed : ~GcApply(p)
        <4>1. objects \subseteq objects'
          BY <3>2
          DEF Next, Compaction, vars, store, Open, SetStorageLimits, WriteState, ImportObjects,
              PutObjects, ImportCommit, ReadHead, CompareAndSwap, GcPlan, GcForget,
              CompactStart, CompactBatch, CompactEnd, ReadUsage, ReadObjectRows,
              VerifyCounters, CompactCrash
        <4> QED BY <4>1
      <3> QED BY <3>1, <3>2
    <2>3. ASSUME NEW b \in Branches PROVE refs[b].generation <= refs'[b].generation
      <3>1. refs \in [Branches -> {NoHead} \cup Heads] /\ refs[b].generation \in Nat
        BY HeadFacts DEF TypeOK
      <3>2. ASSUME NEW k \in Clients, NEW bb \in Branches, NEW c \in Commits,
                   CompareAndSwap(k, bb, c)
            PROVE  refs[b].generation <= refs'[b].generation
        <4>1. refs' = [refs EXCEPT ![bb] = [commit |-> c, generation |-> refs[bb].generation + 1]]
          BY <3>2, SwapStep
        <4>2. CASE bb = b
          BY <3>1, <4>1, <4>2
        <4>3. CASE bb # b
          BY <3>1, <4>1, <4>3
        <4> QED BY <4>2, <4>3
      <3>3. CASE UNCHANGED refs
        BY <3>1, <3>3
      <3> QED BY <3>2, <3>3, OnlySwapMovesRefs
    <2> QED BY <2>1, <2>2, <2>3
  <1> QED BY <1>1, TypeCorrect, HeldNeverAhead, PTL DEF Spec, NothingRetainedIsLost

(* Only the collector removes objects, and it removes the staged objects   *)
(* of a reviewed plan whose refs still stand.                              *)
THEOREM OnlyReviewedIsCollected == Spec => CollectsOnlyReviewed
  <1> DEFINE A == ~(objects \subseteq objects') =>
                    \E p \in reviewed : p.staged = objects \ objects' /\ p.refs = refs
  <1>1. [Next]_vars => [A]_vars
    <2> SUFFICES ASSUME [Next]_vars PROVE A
      OBVIOUS
    <2>1. ASSUME NEW p \in reviewed, GcApply(p) PROVE A
      <3>1. p = PlanHash /\ objects' = objects \ (objects \ Visited)
        BY <2>1 DEF GcApply, HashMatches, Collected
      <3>2. p.staged = objects \ Visited /\ p.refs = refs
        BY <3>1 DEF PlanHash, Staged
      <3>3. objects \ objects' = objects \ Visited
        BY <3>1
      <3> QED BY <3>2, <3>3
    <2>2. CASE \A p \in reviewed : ~GcApply(p)
      <3>1. objects \subseteq objects'
        BY <2>2
        DEF Next, Compaction, vars, store, Open, SetStorageLimits, WriteState, ImportObjects,
            PutObjects, ImportCommit, ReadHead, CompareAndSwap, GcPlan, GcForget,
            CompactStart, CompactBatch, CompactEnd, ReadUsage, ReadObjectRows,
            VerifyCounters, CompactCrash
      <3> QED BY <3>1
    <2> QED BY <2>1, <2>2
  <1> QED BY <1>1, PTL DEF Spec, CollectsOnlyReviewed

----------------------------------------------------------------------------
(* Compaction leaves nothing behind its cursor, although writers insert    *)
(* and the collector deletes rows on both sides of it.                     *)
LEMMA InitBehindCursor == Init => CompactedBehindCursor
  <1> SUFFICES ASSUME Init PROVE CompactedBehindCursor
    OBVIOUS
  <1>1. compactor.cursor = 0 /\ objects \subseteq Objects
    BY InitTypeOK DEF Init, Idle, TypeOK
  <1> QED BY <1>1 DEF CompactedBehindCursor

(* A batch moves the cursor over exactly the objects it packed.            *)
LEMMA NextBehindCursor ==
    TypeOK /\ CompactedBehindCursor /\ [Next]_vars => CompactedBehindCursor'
  <1> SUFFICES ASSUME TypeOK, CompactedBehindCursor, [Next]_vars PROVE CompactedBehindCursor'
    OBVIOUS
  <1> USE DEF CompactedBehindCursor
  <1>t. /\ objects \subseteq Objects /\ Objects \subseteq Nat \ {0}
        /\ compactor.cursor \in Nat
    <2>1. objects \subseteq Objects /\ compactor.cursor \in Objects \cup {0}
      BY DEF TypeOK, Compactors
    <2> QED BY <2>1, KeysAreNumbers
  <1>1. ASSUME NEW S, PutObjects(S) PROVE CompactedBehindCursor'
    BY <1>1 DEF PutObjects, PackedRows
  <1>2. ASSUME NEW p \in reviewed, GcApply(p) PROVE CompactedBehindCursor'
    BY <1>2 DEF GcApply
  <1>3. ASSUME NEW last \in Objects, CompactBatch(last) PROVE CompactedBehindCursor'
    <2>1. /\ compactor'.cursor = last /\ objects' = objects
          /\ packed' = packed \cup Rewritten(last)
      BY <1>3 DEF CompactBatch, CursorAfter, TypeOK, Compactors
    <2> SUFFICES ASSUME NEW o \in objects, o <= last, Packable(o) PROVE o \in packed'
      BY <2>1
    <2>2. CASE o <= compactor.cursor
      BY <2>1, <2>2
    <2>3. CASE compactor.cursor < o
      BY <2>1, <2>3 DEF Rewritten, Examined
    <2> QED BY <2>2, <2>3, <1>t
  <1>4. ASSUME UNCHANGED <<objects, packed>>, compactor'.cursor \in {0, compactor.cursor}
        PROVE  CompactedBehindCursor'
    BY <1>t, <1>4
  <1>5. ASSUME NEW a \in Objects \cup {0}, CompactStart(a) PROVE CompactedBehindCursor'
    <2>1. compactor'.cursor = a /\ (a = 0 \/ a = compactor.cursor)
      BY <1>5 DEF CompactStart, Idle
    <2> QED BY <1>4, <1>5, <2>1 DEF CompactStart, store
  <1>6. CASE CompactEnd \/ ReadUsage \/ ReadObjectRows \/ VerifyCounters \/ CompactCrash
    <2>1. compactor'.cursor \in {0, compactor.cursor}
      <3>2. CASE CompactEnd
        BY <3>2 DEF CompactEnd, TypeOK, Compactors
      <3>3. CASE ReadUsage
        BY <3>3 DEF ReadUsage, TypeOK, Compactors
      <3>4. CASE ReadObjectRows
        BY <3>4 DEF ReadObjectRows, TypeOK, Compactors
      <3>5. CASE VerifyCounters
        BY <3>5 DEF VerifyCounters, TypeOK, Compactors, Idle
      <3>6. CASE CompactCrash
        BY <3>6 DEF CompactCrash, Idle
      <3> QED BY <1>6, <3>2, <3>3, <3>4, <3>5, <3>6
    <2>2. UNCHANGED <<objects, packed>>
      BY <1>6 DEF CompactEnd, ReadUsage, ReadObjectRows, VerifyCounters, CompactCrash, store
    <2> QED BY <1>4, <2>1, <2>2
  <1>7. ASSUME UNCHANGED <<objects, packed, compactor>> PROVE CompactedBehindCursor'
    BY <1>7
  <1> QED
    BY <1>1, <1>2, <1>3, <1>5, <1>6, <1>7
    DEF Next, Compaction, vars, store, Open, SetStorageLimits, WriteState, ImportObjects,
        ImportCommit, ReadHead, CompareAndSwap, GcPlan, GcForget

(* No row behind the cursor of a compaction run still needs compressing.   *)
THEOREM NothingLeftBehindCursor == Spec => []CompactedBehindCursor
  BY TypeCorrect, InitBehindCursor, NextBehindCursor, PTL DEF Spec

----------------------------------------------------------------------------
(* Refinement.  With complete history the readable commits are the stored  *)
(* ones, so imports and swaps map to the abstract actions and every other  *)
(* step to a stutter.                                                      *)
LEMMA ReadableIsStored ==
    ASSUME HistoryComplete PROVE Readable = commits
  BY DEF HistoryComplete, Complete, Readable

(* An initial file is an initial history.                                  *)
LEMMA InitImplements == Init => History!Init
  <1> SUFFICES ASSUME Init PROVE History!Init
    OBVIOUS
  <1>1. TypeOK /\ HistoryComplete /\ Readable = commits
    BY InitTypeOK, InitHistoryComplete, ReadableIsStored
  <1>2. \A b \in Branches : refs[b] \in {NoHead} \cup [commit : commits, generation : Nat \ {0}]
    BY <1>1 DEF TypeOK, HistoryComplete, Published, Heads
  <1>3. refs \in [Branches -> {NoHead} \cup [commit : commits, generation : Nat \ {0}]]
    BY <1>1, <1>2 DEF TypeOK
  <1>4. commits \in SUBSET Commits /\ \A c \in commits : Dependencies(c) \subseteq commits
    BY <1>1 DEF TypeOK, HistoryComplete, Complete
  <1> QED BY <1>1, <1>3, <1>4 DEF History!Init, History!Absent, NoHead

(* Each step is a step of the history or leaves it alone.                  *)
LEMMA NextImplements ==
    TypeOK /\ HeldBehind /\ HistoryComplete /\ HistoryComplete' /\ [Next]_vars
       => [History!Next]_<<Readable, refs>>
  <1> SUFFICES ASSUME TypeOK, HeldBehind, HistoryComplete, HistoryComplete', [Next]_vars
               PROVE  [History!Next]_<<Readable, refs>>
    OBVIOUS
  <1>1. Readable = commits
    BY ReadableIsStored
  <1>2. Readable' = commits'
    BY DEF HistoryComplete, Complete, Readable
  <1>3. ASSUME NEW c \in Commits, ImportCommit(c) PROVE History!Next
    <2>1. /\ Dependencies(c) \subseteq commits /\ commits' = commits \cup {c} /\ refs' = refs
      BY <1>3 DEF ImportCommit, Importable
    <2>2. History!Import(c)
      BY <1>1, <1>2, <2>1 DEF History!Import
    <2> QED BY <2>2 DEF History!Next
  <1>4. ASSUME NEW k \in Clients, NEW b \in Branches, NEW c \in Commits,
               CompareAndSwap(k, b, c)
        PROVE  History!Next
    <2>1. refs' = [refs EXCEPT ![b] = [commit |-> c, generation |-> refs[b].generation + 1]]
      BY <1>4, SwapStep
    <2>2. c \in commits /\ commits' = commits
      BY <1>4 DEF CompareAndSwap
    <2>3. History!Publish(b, c)
      BY <1>1, <1>2, <2>1, <2>2 DEF History!Publish, TypeOK
    <2> QED BY <2>3 DEF History!Next
  <1>5. ASSUME UNCHANGED <<commits, refs>> PROVE UNCHANGED <<Readable, refs>>
    BY <1>1, <1>2, <1>5
  <1> QED
    BY <1>3, <1>4, <1>5
    DEF Next, Compaction, vars, store, Open, SetStorageLimits, WriteState, ImportObjects,
        PutObjects, ReadHead, GcPlan, GcApply, GcForget, CompactStart, CompactBatch,
        CompactEnd, ReadUsage, ReadObjectRows, VerifyCounters, CompactCrash

(* The repository, with its collector and compaction, implements the       *)
(* abstract history.                                                       *)
THEOREM RepositoryImplementsHistory == Spec => ImplementsHistory
  BY InitImplements, NextImplements, TypeCorrect, HeldNeverAhead, HistoryIsComplete, PTL
  DEF Spec, ImplementsHistory, History!Spec

(* The store at every moment: its shape, complete history under every      *)
(* commit, and no head a client holds ahead of the branch.                 *)
THEOREM StoreStaysSound == Spec => []StoreSound
  BY TypeCorrect, HistoryIsComplete, HeldNeverAhead, PTL DEF StoreSound

(* No transaction loses an update, takes back retained history or collects *)
(* what nobody reviewed.                                                   *)
THEOREM NoStepLoses == Spec => NothingLost
  BY NoUpdateIsLost, NothingIsLost, OnlyReviewedIsCollected DEF NothingLost
=============================================================================
