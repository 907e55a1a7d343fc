-------------------------- MODULE LocalRepository --------------------------
(***************************************************************************)
(* One local project repository (a SQLite file) and the processes that     *)
(* have it open: writers that stage objects, import commits and move       *)
(* branches, an operator who reviews and later applies a retention plan,   *)
(* and a compaction run that works in batches.                             *)
(*                                                                         *)
(* Every call that writes takes SQLite's single writer lock before it      *)
(* reads (BEGIN IMMEDIATE, or a first statement that writes), and any      *)
(* error rolls its transaction back.  Such a call is one step here, and a  *)
(* call that fails, or a crash before the commit, is no step.  What does   *)
(* interleave is what the code does in several transactions.               *)
(***************************************************************************)
EXTENDS Naturals, FiniteSets, FiniteSetsExt, Reachability

-----------------------------------------------------------------------------
(***************************************************************************)
(* The immutable content.  Objects and commits are content addressed, so   *)
(* what an address stands for never changes and is a constant here.  An    *)
(* object key is a (document, address) pair; keys are numbered in the key  *)
(* order that keyset scans of the objects table use.                       *)
(***************************************************************************)
CONSTANTS
    Objects,     \* object keys, numbered in (document, address) order
    Commits,     \* commits that pass the checks on their own content
    Branches,    \* valid branch names
    NoCommit,    \* not a commit: the head of an absent branch
    Children,    \* object -> the objects its bytes reference
    Parents,     \* commit -> its ancestry parents (at most two)
    Sources,     \* commit -> recovery source and mainline, not parents
    Roots,       \* commit -> the state roots of its files
    Size,        \* object -> canonical encoded (logical) length
    PackedSize,  \* object -> length of its compressed form, if kept
    BodySize     \* commit -> length of the signed envelope

ASSUME ContentAssumption ==
    /\ Objects \subseteq Nat \ {0}
    /\ IsFiniteSet(Objects)
    /\ IsFiniteSet(Commits)
    /\ IsFiniteSet(Branches)
    /\ NoCommit \notin Commits
    /\ Children \in [Objects -> SUBSET Objects]
    /\ Parents \in [Commits -> SUBSET Commits]
    /\ Sources \in [Commits -> SUBSET Commits]
    /\ Roots \in [Commits -> SUBSET Objects]
    /\ Size \in [Objects -> Nat]
    /\ PackedSize \in [Objects -> Nat]
    /\ BodySize \in [Commits -> Nat]
    /\ \A o \in Objects : PackedSize[o] <= Size[o]

(* Commit::validate: at most two parents.                                  *)
ASSUME ParentsAssumption ==
    \A c \in Commits : \E p, q \in Commits : Parents[c] \subseteq {p, q}

(* Commit::dependencies: what import and transfer need beside the commit.  *)
Dependencies(c) == Parents[c] \cup Sources[c]

(* pack: the compressed form is kept only when it is small enough.         *)
Packable(o) == PackedSize[o] < Size[o]

(* walk / typed::read_state: every object below a state root.              *)
Graph == [o \in Objects |-> Least(Objects, Children, {o})]

(* The file state graphs of a commit.                                      *)
Content == [c \in Commits |-> UNION {Graph[r] : r \in Roots[c]}]

(* collect_ancestors: a commit and its ancestry, parents only.             *)
Ancestors == [c \in Commits |-> Least(Commits, Parents, {c})]

(* A commit with everything it transitively depends on.                    *)
Lineage ==
    LET deps == [c \in Commits |-> Dependencies(c)]
    IN  [c \in Commits |-> Least(Commits, deps, {c})]

(***************************************************************************)
(* Weights: the quantities the capacity counters charge.                   *)
(***************************************************************************)
Logical(S) == MapThenSumSet(LAMBDA o : Size[o], S)
Physical(S, packed) ==
    MapThenSumSet(LAMBDA o : IF o \in packed THEN PackedSize[o] ELSE Size[o], S)
Bodies(C) == MapThenSumSet(LAMBDA c : BodySize[c], C)

(* Heads of branches.  Generation 0 stands for an absent row.              *)
NoHead == [commit |-> NoCommit, generation |-> 0]

-----------------------------------------------------------------------------
(***************************************************************************)
(* The file, and who has it open.                                          *)
(***************************************************************************)
CONSTANTS
    StateRoots,     \* roots of the document states writers prepare
    Clients,        \* holders of a branch head they read earlier
    DefaultLimits,  \* StorageLimits::default
    LimitChoices,   \* limits the owner may set
    MaxBatch,       \* objects of one transfer batch
    EarlierSchemas, \* schema versions of files earlier clients left
    Compacting,     \* whether the operator runs compaction
    MaxPlans,       \* retention plans under review
    MaxApplied,     \* retention plans applied
    MaxGeneration   \* largest ref generation

VARIABLES
    schema,      \* 0 no file yet, else local_meta.version
    objects,     \* stored object keys
    packed,      \* the stored keys whose row is compressed (codec 1)
    commits,     \* stored commit addresses
    height,      \* stored height of a commit
    refs,        \* branch -> head
    usage,       \* the counters of local_storage
    limits,      \* the limits of local_storage
    held,        \* client -> branch -> the head it read last
    outdated,    \* <<client, branch>> whose branch moved after that read
    reviewed,    \* plans an operator has reviewed
    log,         \* plans recorded in local_retention_log
    compactor,   \* the compaction run: phase, cursor, complete
    counted      \* what its final verification has read so far

store == <<objects, packed, commits, height, refs>>
clients == <<held, outdated>>
vars == <<schema, store, usage, limits, clients, reviewed, log, compactor, counted>>

Heads == [commit : Commits, generation : 1..MaxGeneration]
Limits == [bytes : Nat, objects : Nat, commits : Nat, branches : Nat]

ASSUME RepositoryAssumption ==
    /\ StateRoots \subseteq Objects
    /\ DefaultLimits \in Limits
    /\ LimitChoices \subseteq Limits
    /\ MaxBatch \in Nat
    /\ EarlierSchemas \subseteq {1, 2}
    /\ Compacting \in BOOLEAN
    /\ MaxPlans \in Nat
    /\ MaxApplied \in Nat
    /\ MaxGeneration \in Nat \ {0}

Published(rs) == {b \in Branches : rs[b] # NoHead}

(* The counters, recomputed from the rows.                                 *)
Recount(objs, pk, cs, rs) ==
    [bytes    |-> Logical(objs) + Bodies(cs),
     stored   |-> Physical(objs, pk) + Bodies(cs),
     objects  |-> Cardinality(objs),
     commits  |-> Cardinality(cs),
     branches |-> Cardinality(Published(rs))]

Within(u, l) ==
    /\ u.bytes <= l.bytes
    /\ u.objects <= l.objects
    /\ u.commits <= l.commits
    /\ u.branches <= l.branches

NoUsage == [bytes |-> 0, stored |-> 0, objects |-> 0, commits |-> 0, branches |-> 0]

Idle == [phase |-> "idle", cursor |-> 0, complete |-> FALSE]
NotCounted == [usage |-> NoUsage, rows |-> NoUsage]

----------------------------------------------------------------------------
(* A repository file starts absent, or was written by an earlier client    *)
(* (schema 1 has no counters, schema 2 counts logical bytes) and holds     *)
(* complete history and any staged objects, none of them compressed.       *)

Complete(objs, cs) ==
    \A c \in cs : Dependencies(c) \subseteq cs /\ Content[c] \subseteq objs

(* import_commit: 0 for a root, else one more than the highest parent.     *)
HeightOver(h, c) ==
    IF Parents[c] = {} THEN 0 ELSE 1 + Max({h[p] : p \in Parents[c]})

NewFile ==
    /\ schema = 0
    /\ objects = {} /\ packed = {} /\ commits = {}
    /\ height = [c \in Commits |-> 0]
    /\ refs = [b \in Branches |-> NoHead]
    /\ usage = NoUsage
    /\ limits = DefaultLimits

EarlierFile ==
    /\ schema \in EarlierSchemas
    /\ objects \in SUBSET Objects
    /\ packed = {}
    /\ commits \in SUBSET Commits
    /\ Complete(objects, commits)
    /\ height \in [Commits -> 0..Cardinality(Commits)]
    /\ \A c \in Commits :
          height[c] = IF c \in commits THEN HeightOver(height, c) ELSE 0
    /\ refs \in [Branches -> {NoHead} \cup [commit : commits, generation : {1}]]
    /\ usage = IF schema = 1 THEN NoUsage
                             ELSE [Recount(objects, {}, commits, refs) EXCEPT !.stored = 0]
    /\ limits \in {DefaultLimits} \cup LimitChoices
    /\ schema = 1 => limits = DefaultLimits
    /\ schema = 2 => Within(usage, limits)

Init ==
    /\ NewFile \/ EarlierFile
    /\ held = [k \in Clients |-> [b \in Branches |-> NoHead]]
    /\ outdated = Clients \X Published(refs)
    /\ reviewed = {}
    /\ log = {}
    /\ compactor = Idle
    /\ counted = NotCounted
----------------------------------------------------------------------------
(* LocalRepository::open.  Creation and both upgrades share one            *)
(* transaction.  The upgrade from schema 1 counts the rows once and keeps  *)
(* a store that is above a default: that limit starts at the usage.        *)

Larger(m, n) == IF m < n THEN n ELSE m

UpgradedUsageUncounted ==
    CASE schema = 0 -> NoUsage
      [] schema = 1 -> Recount(objects, {}, commits, refs)
      [] schema = 2 -> usage

UpgradedUsage ==
    CASE schema = 0 -> NoUsage
      [] schema = 1 -> Recount(objects, {}, commits, refs)
      [] schema = 2 -> [usage EXCEPT !.stored = usage.bytes]

UpgradedLimitsDefault == IF schema = 2 THEN limits ELSE DefaultLimits

UpgradedLimits ==
    IF schema = 2 THEN limits
    ELSE [bytes    |-> Larger(DefaultLimits.bytes, UpgradedUsage.bytes),
          objects  |-> Larger(DefaultLimits.objects, UpgradedUsage.objects),
          commits  |-> Larger(DefaultLimits.commits, UpgradedUsage.commits),
          branches |-> Larger(DefaultLimits.branches, UpgradedUsage.branches)]

Open ==
    /\ schema < 3
    /\ schema' = 3
    /\ usage' = UpgradedUsage
    /\ limits' = UpgradedLimits
    /\ UNCHANGED <<store, clients, reviewed, log, compactor, counted>>

SetStorageLimits(l) ==
    /\ schema = 3
    /\ Within(usage, l)
    /\ limits' = l
    /\ UNCHANGED <<schema, store, usage, clients, reviewed, log, compactor, counted>>

----------------------------------------------------------------------------
(* The rows that put writes in compressed form.                            *)
PackedRowsIdentity(new) == {}
PackedRows(new) == {o \in new : Packable(o)}

(* The AFTER INSERT triggers charge rows that are really new, and abort    *)
(* the transaction when a limit would be passed.                           *)

Charged(objs, cs, bs) ==
    LET new == Recount(objs, PackedRows(objs), cs, refs)
    IN  [bytes    |-> usage.bytes + new.bytes,
         stored   |-> usage.stored + new.stored,
         objects  |-> usage.objects + new.objects,
         commits  |-> usage.commits + new.commits,
         branches |-> usage.branches + Cardinality(bs)]

Admit(objs, cs, bs) ==
    /\ usage' = Charged(objs, cs, bs)
    /\ Within(usage', limits)

(* Store::put of a set of objects; rows that exist already are free.       *)
PutObjects(S) ==
    LET new == S \ objects
    IN  /\ Admit(new, {}, {})
        /\ objects' = objects \cup new
        /\ packed' = packed \cup PackedRows(new)
        /\ UNCHANGED <<schema, commits, height, refs, limits, clients, reviewed, log, compactor, counted>>

(* write_state: the complete graph of one document state.                  *)
WriteState(root) ==
    /\ schema = 3
    /\ PutObjects(Graph[root])

(* import_objects: any transfer batch; parts of graphs may be missing.     *)
ImportObjects(S) ==
    /\ schema = 3
    /\ Cardinality(S) <= MaxBatch
    /\ PutObjects(S)

(* What import_commit reads before it inserts: every dependency is stored  *)
(* and every file graph can be read to the end.                            *)
ImportableWithoutSources(c) ==
    /\ Parents[c] \subseteq commits
    /\ Content[c] \subseteq objects

Importable(c) ==
    /\ Dependencies(c) \subseteq commits
    /\ Content[c] \subseteq objects

ImportCommit(c) ==
    /\ schema = 3
    /\ Importable(c)
    /\ c \in commits => height[c] = HeightOver(height, c)
    /\ Admit({}, {c} \ commits, {})
    /\ commits' = commits \cup {c}
    /\ height' = [height EXCEPT ![c] = HeightOver(height, c)]
    /\ UNCHANGED <<schema, objects, packed, refs, limits, clients, reviewed, log, compactor, counted>>

----------------------------------------------------------------------------
(* Branch heads: head() and compare_and_swap().                            *)

ReadHead(k, b) ==
    /\ schema = 3
    /\ held' = [held EXCEPT ![k][b] = refs[b]]
    /\ outdated' = outdated \ {<<k, b>>}
    /\ UNCHANGED <<schema, store, usage, limits, reviewed, log, compactor, counted>>

(* The row matches in head and generation, or is absent as expected.       *)
ExpectedCommitOnly(b, head) == refs[b].commit = head.commit
Expected(b, head) == refs[b] = head

(* checked_add of the generation.                                          *)
HasNextOverflowing(head) == head.generation <= MaxGeneration
HasNext(head) == head.generation < MaxGeneration

CompareAndSwap(k, b, c) ==
    LET old == held[k][b]
        new == [commit |-> c, generation |-> old.generation + 1]
    IN  /\ schema = 3
        /\ HasNext(old)
        /\ c \in commits
        /\ Expected(b, old)
        /\ Admit({}, {}, {b} \ Published(refs))
        /\ refs' = [refs EXCEPT ![b] = new]
        /\ held' = [held EXCEPT ![k][b] = new]
        /\ outdated' = (outdated \ {<<k, b>>}) \cup ((Clients \ {k}) \X {b})
        /\ UNCHANGED <<schema, objects, packed, commits, height, limits, reviewed, log, compactor, counted>>
----------------------------------------------------------------------------
(* The retention plan (analyze).  Its hash is modelled by the facts it     *)
(* binds: two plans have the same hash exactly when these agree.           *)

(* Phase 2: ancestry of every branch head, then recovery provenance.       *)
RetainedByAncestry == UNION {Ancestors[refs[b].commit] : b \in Published(refs)}
Provenance == UNION {Lineage[s] : s \in UNION {Sources[c] : c \in RetainedByAncestry}}
Reachable == RetainedByAncestry \cup Provenance
Superseded == {c \in commits \ Reachable : Lineage[c] \cap Reachable # {}}
Orphaned == commits \ (Reachable \cup Superseded)

(* Phase 3: the objects the file graphs of a set of commits reach.         *)
ContentOf(C) == UNION {Content[c] : c \in C}
Visited == ContentOf(commits)

(* Phase 4: stored, but referenced by no stored commit.                    *)
Staged == objects \ Visited

(* Phase 5.                                                                *)
PlanHash ==
    [refs        |-> refs,
     superseded  |-> Superseded,
     orphaned    |-> Orphaned,
     deadObjects |-> <<ContentOf(Superseded) \ ContentOf(Reachable),
                       ContentOf(Orphaned) \ ContentOf(Reachable \cup Superseded)>>,
     staged      |-> Staged]

(* Rows a plan needs: a missing commit or object fails it.                 *)
Analyzable ==
    /\ Complete(objects, commits)
    /\ \A b \in Published(refs) : refs[b].commit \in commits

GcPlan ==
    /\ schema > 0
    /\ Analyzable
    /\ Cardinality(reviewed) < MaxPlans
    /\ reviewed' = reviewed \cup {PlanHash}
    /\ UNCHANGED <<schema, store, usage, limits, clients, log, compactor, counted>>

(* gc_apply recomputes the plan under the writer lock.  A hash that does   *)
(* not match is stale, or was applied before; both change nothing.         *)
HashMatchesRefs(plan) == refs = plan.refs
HashMatches(plan) == PlanHash = plan

(* delete_staged.                                                          *)
CollectedUnreachable == objects \ ContentOf(Reachable)
Collected == objects \ Visited

(* The counter update of apply.                                            *)
Released(gone) ==
    [usage EXCEPT !.bytes = @ - Logical(gone),
                  !.stored = @ - Physical(gone, packed),
                  !.objects = @ - Cardinality(gone)]

GcApply(plan) ==
    LET gone == Collected
    IN  /\ schema = 3
        /\ Analyzable
        /\ usage = Recount(objects, packed, commits, refs)
        /\ HashMatches(plan)
        /\ Staged # {}
        /\ Cardinality(log) < MaxApplied
        /\ objects' = objects \ gone
        /\ packed' = packed \ gone
        /\ usage' = Released(gone)
        /\ log' = log \cup {plan}
        /\ UNCHANGED <<schema, commits, height, refs, limits, clients, reviewed, compactor, counted>>

(* The operator drops a reviewed plan.                                     *)
GcForget(plan) ==
    /\ reviewed' = reviewed \ {plan}
    /\ UNCHANGED <<schema, store, usage, limits, clients, log, compactor, counted>>

----------------------------------------------------------------------------
(* Compaction (compact_with): one transaction per batch, then three        *)
(* separate reads that compare the counters with the rows.                 *)

Resting == compactor.phase \in {"idle", "stopped", "mismatch"}

(* A run starts at the first key, or after the cursor a run stopped at.    *)
CompactStart(after) ==
    /\ Compacting
    /\ schema = 3
    /\ Resting
    /\ \/ after = 0
       \/ compactor.phase = "stopped" /\ ~compactor.complete /\ after = compactor.cursor
    /\ compactor' = [Idle EXCEPT !.phase = "batch", !.cursor = after]
    /\ UNCHANGED <<schema, store, usage, limits, clients, reviewed, log, counted>>

(* compact_batch examines the rows after the cursor up to some key, as far *)
(* as its row and byte limits let it.                                      *)
Examined(last) == {o \in objects : compactor.cursor < o /\ o <= last}
Rewritten(last) == {o \in Examined(last) \ packed : Packable(o)}

(* The storage trigger on a rewritten row.                                 *)
RepackedFree(S) == usage
Repacked(S) ==
    [usage EXCEPT !.stored = @ - Physical(S, packed) + Physical(S, packed \cup S)]

CursorStuck(last) == compactor.cursor
CursorAfter(last) == last

CompactBatch(last) ==
    LET S == Rewritten(last)
    IN  /\ compactor.phase = "batch"
        /\ last \in objects /\ compactor.cursor < last
        /\ packed' = packed \cup S
        /\ usage' = Repacked(S)
        /\ compactor' = [compactor EXCEPT !.cursor = CursorAfter(last)]
        /\ UNCHANGED <<schema, objects, commits, height, refs, limits, clients, reviewed, log, counted>>

(* No row is left after the cursor, or max_objects rows were examined.     *)
CompactEnd ==
    /\ compactor.phase = "batch"
    /\ \/ /\ \A o \in objects : o <= compactor.cursor
          /\ compactor' = [compactor EXCEPT !.phase = "usage", !.complete = TRUE]
       \/ /\ compactor.cursor # 0
          /\ compactor' = [compactor EXCEPT !.phase = "usage"]
    /\ UNCHANGED <<schema, store, usage, limits, clients, reviewed, log, counted>>

ReadUsage ==
    /\ compactor.phase = "usage"
    /\ compactor' = [compactor EXCEPT !.phase = "objects"]
    /\ counted' = [counted EXCEPT !.usage = usage]
    /\ UNCHANGED <<schema, store, usage, limits, clients, reviewed, log>>

ReadObjectRows ==
    /\ compactor.phase = "objects"
    /\ compactor' = [compactor EXCEPT !.phase = "commits"]
    /\ counted' = [counted EXCEPT !.rows = Recount(objects, packed, {}, refs)]
    /\ UNCHANGED <<schema, store, usage, limits, clients, reviewed, log>>

(* verify_counters; the branch counter is not compared.                    *)
CountersAgree(u, rows, cs) ==
    /\ u.objects = rows.objects
    /\ u.commits = Cardinality(cs)
    /\ u.bytes = rows.bytes + Bodies(cs)
    /\ u.stored = rows.stored + Bodies(cs)

VerifyCounters ==
    /\ compactor.phase = "commits"
    /\ compactor' = IF CountersAgree(counted.usage, counted.rows, commits)
                    THEN [compactor EXCEPT !.phase = "stopped"]
                    ELSE [Idle EXCEPT !.phase = "mismatch"]
    /\ counted' = NotCounted
    /\ UNCHANGED <<schema, store, usage, limits, clients, reviewed, log>>

(* The process ends between two transactions; its cursor is lost.          *)
CompactCrash ==
    /\ ~Resting
    /\ compactor' = Idle
    /\ counted' = NotCounted
    /\ UNCHANGED <<schema, store, usage, limits, clients, reviewed, log>>

----------------------------------------------------------------------------
Compaction ==
    \/ \E last \in Objects : CompactBatch(last)
    \/ CompactEnd
    \/ ReadUsage
    \/ ReadObjectRows
    \/ VerifyCounters

Next ==
    \/ Open
    \/ \E l \in LimitChoices : SetStorageLimits(l)
    \/ \E r \in StateRoots : WriteState(r)
    \/ \E S \in SUBSET Objects : ImportObjects(S)
    \/ \E c \in Commits : ImportCommit(c)
    \/ \E k \in Clients, b \in Branches : ReadHead(k, b)
    \/ \E k \in Clients, b \in Branches, c \in Commits : CompareAndSwap(k, b, c)
    \/ GcPlan
    \/ \E p \in reviewed : GcApply(p)
    \/ \E p \in reviewed : GcForget(p)
    \/ \E a \in Objects \cup {0} : CompactStart(a)
    \/ Compaction
    \/ CompactCrash

Spec == Init /\ [][Next]_vars

(* A compaction run is one loop of one process: nothing but the writer     *)
(* lock delays its next transaction, and a lock timeout ends it.           *)
FairSpec == Spec /\ WF_vars(Compaction)

----------------------------------------------------------------------------
Plans ==
    [refs : [Branches -> {NoHead} \cup Heads],
     superseded : SUBSET Commits,
     orphaned : SUBSET Commits,
     deadObjects : (SUBSET Objects) \X (SUBSET Objects),
     staged : SUBSET Objects]

Compactors ==
    [phase : {"idle", "batch", "usage", "objects", "commits", "stopped", "mismatch"},
     cursor : Objects \cup {0}, complete : BOOLEAN]

(* The shape of the tables: generations stay within their range and only   *)
(* stored rows are compressed.  CountersExact says what the counters hold. *)
TypeOK ==
    /\ schema \in 0..3
    /\ objects \in SUBSET Objects
    /\ packed \in SUBSET objects
    /\ commits \in SUBSET Commits
    /\ height \in [Commits -> Nat]
    /\ refs \in [Branches -> {NoHead} \cup Heads]
    /\ held \in [Clients -> [Branches -> {NoHead} \cup Heads]]
    /\ outdated \in SUBSET (Clients \X Branches)
    /\ reviewed \in SUBSET Plans
    /\ log \in SUBSET Plans
    /\ compactor \in Compactors

(* Every stored commit has its parents, its recovery sources and the       *)
(* complete graphs of its files, and every branch names a stored commit,   *)
(* whatever writers, the collector and compaction do in between.           *)
HistoryComplete ==
    /\ Complete(objects, commits)
    /\ \A b \in Published(refs) : refs[b].commit \in commits

(* The persistent counters, which triggers, the collector and compaction   *)
(* adjust by differences, equal a fresh count of the rows.                 *)
CountersExact == schema = 3 => usage = Recount(objects, packed, commits, refs)

(* Retained history never exceeds the limits, in any dimension; an upgrade *)
(* of a store above a default starts with that store's usage as its limit. *)
WithinLimits == schema = 3 => Within(usage, limits)

(* No client overwrites a branch update it has not seen: the client whose  *)
(* head becomes current had read the head it replaces, even when the       *)
(* branch went away from that commit and back to it in between.            *)
NoLostUpdate ==
    [][\A b \in Branches : refs'[b] # refs[b] =>
          \E k \in Clients : /\ <<k, b>> \notin outdated \cup outdated'
                             /\ held'[k][b] = refs'[b]]_vars

(* A head a client holds is the current one, or is of an earlier           *)
(* generation if the branch has moved since: no generation is used twice.  *)
HeldBehind ==
    \A k \in Clients, b \in Branches :
       IF <<k, b>> \in outdated THEN held[k][b].generation < refs[b].generation
                                ELSE held[k][b] = refs[b]

(* Commits and the objects any stored commit reaches are never removed,    *)
(* and a branch is never deleted or moved back to an earlier generation.   *)
NothingRetainedIsLost ==
    [][/\ commits \subseteq commits'
       /\ Visited \cap objects \subseteq objects'
       /\ \A b \in Branches : refs[b].generation <= refs'[b].generation]_vars

(* The collector removes exactly the staged objects of a plan that was     *)
(* reviewed while every branch stood where it stands now.                  *)
CollectsOnlyReviewed ==
    [][~(objects \subseteq objects') =>
          \E p \in reviewed : p.staged = objects \ objects' /\ p.refs = refs]_vars

(* Behind its cursor a run leaves no row that should be compressed, though *)
(* writers insert and the collector deletes rows on both sides of it.      *)
CompactedBehindCursor ==
    \A o \in objects : o <= compactor.cursor /\ Packable(o) => o \in packed

(* A run that has started comes to an end.                                 *)
CompactionEnds == (compactor.phase = "batch") ~> Resting

(* The repository implements the abstract history: a commit counts only    *)
(* while its complete content is stored, so neither the collector nor any  *)
(* other step may take content away, and publication is one at a time.     *)
Readable == {c \in commits : Content[c] \subseteq objects}
History == INSTANCE RepositoryHistory WITH
    Needs <- [c \in Commits |-> Dependencies(c)], readable <- Readable, heads <- refs
ImplementsHistory == History!Spec

(* The store at every moment, whoever writes, collects or compacts: rows   *)
(* of the right shape, complete history, no head ahead of its branch.      *)
StoreSound == TypeOK /\ HistoryComplete /\ HeldBehind

(* The persisted counters are those of the rows, and within the limits.    *)
CapacityKept == CountersExact /\ WithinLimits

(* What no transaction may do: lose an update, take back retained history, *)
(* or collect what nobody reviewed.                                        *)
NothingLost == NoLostUpdate /\ NothingRetainedIsLost /\ CollectsOnlyReviewed

(* Compaction beside writers and collector: the counters follow every row  *)
(* it rewrites, and nothing is left behind its cursor.                     *)
CompactionExact == CountersExact /\ CompactedBehindCursor
=============================================================================
