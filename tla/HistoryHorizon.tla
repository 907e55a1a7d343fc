--------------------------- MODULE HistoryHorizon ---------------------------
(***************************************************************************)
(* History horizons: the retention policy loader, the read-only planner    *)
(* and the checks a released history must pass                             *)
(* (engine-core/src/repository/horizon.rs, horizon/policy.rs,              *)
(* horizon/plan.rs, local/horizon_plan.rs).                                *)
(*                                                                         *)
(* A view is the history a plan is made of: bodies (stored commits) with   *)
(* parents, version, recovery sources, age, files and merge inputs, the    *)
(* branch heads, the skeleton rows of earlier horizons and the holds.      *)
(* Commits are numbered parents first; first[c] is the place of c's        *)
(* address in address order.  A Merkle root is the set of rows under it.   *)
(***************************************************************************)
EXTENDS Naturals, Sequences, FiniteSets, Functions

CONSTANTS
    Floor,         \* LoadOptions::min_signatures
    MAX_HOLDS, MAX_SIGNATURES, MAX_DAYS, MAX_QUARANTINE_DAYS, MAX_COMMIT_WINDOW

VARIABLES
    doc,           \* the policy document, a partial function from its fields
    view,          \* the history
    policy,        \* the loaded policy, or Unloaded
    hplan          \* the plan, or Unplanned

horizonVars == <<doc, view, policy, hplan>>

Unloaded  == [status |-> "unloaded"]
Unplanned == [status |-> "unplanned"]
NoPlan    == [status |-> "refused"]

-----------------------------------------------------------------------------
(* Policy::load.  A document maps the fields it has to their values; a     *)
(* field of a group (window, protect, ...) that is absent takes its        *)
(* default.                                                                *)

Has(d, f)         == f \in DOMAIN d
Or(d, f, default) == IF Has(d, f) THEN d[f] ELSE default

Known == {"version", "id", "tier", "days", "last", "min", "branch_heads", "recovery_sources", "holds",
          "merge_inputs", "against", "commits", "topology", "acknowledge", "archive_required",
          "destination", "signatures", "quarantine_days"}

\* Issues::flag, Issues::choice, Issues::number: an absent field has no issue.
Flag(d, f)          == Has(d, f) => d[f] \in {"true", "false"}
Choice(d, f, words) == Has(d, f) => d[f] \in words
Number(d, f, range) == Has(d, f) => d[f] \in range

HeaderLoads(d) ==
    /\ Has(d, "version") /\ d["version"] = 1
    /\ Has(d, "id") /\ d["id"] # "bad id"
    /\ Has(d, "tier") /\ Choice(d, "tier", {"content", "history"})

WindowLoads(d) ==
    /\ \E f \in {"days", "last", "min"} : Has(d, f)
    /\ Number(d, "days", 1..MAX_DAYS)
    /\ Number(d, "last", 1..MAX_COMMIT_WINDOW)
    /\ Number(d, "min", 1..MAX_COMMIT_WINDOW)

\* Heads, recovery sources and holds cannot be left unprotected, and a
\* history policy must say so of the heads.
ProtectLoads(d) ==
    /\ \A f \in {"branch_heads", "recovery_sources", "holds"} : Flag(d, f) /\ Or(d, f, "true") # "false"
    /\ Or(d, "tier", "content") = "history" => Has(d, "branch_heads")
    /\ Choice(d, "merge_inputs", {"none", "bodies", "states"})
    /\ Or(d, "against", "main") # "bad branch"

TopologyLoads(d) ==
    /\ Choice(d, "topology", {"keep", "drop"})
    /\ Flag(d, "acknowledge")
    /\ Or(d, "topology", "keep") = "drop" =>
          /\ Or(d, "acknowledge", "false") = "true"
          /\ Or(d, "tier", "content") # "content"

ArchiveLoads(d) ==
    /\ Flag(d, "archive_required")
    /\ Choice(d, "destination", {"file"})
    /\ Or(d, "archive_required", "false") = "true" => Has(d, "destination")

SignaturesLoad(d) ==
    /\ Number(d, "signatures", 0..MAX_SIGNATURES)
    /\ Or(d, "signatures", 1) >= (IF Floor > 1 THEN Floor ELSE 1)
    /\ Number(d, "quarantine_days", 0..MAX_QUARANTINE_DAYS)

Loads(d) ==
    /\ DOMAIN d \subseteq Known
    /\ HeaderLoads(d) /\ WindowLoads(d) /\ ProtectLoads(d)
    /\ TopologyLoads(d) /\ ArchiveLoads(d) /\ SignaturesLoad(d)

\* The policy a document stands for; 0 and "" are the absent options.
PolicyOf(d) ==
    [id |-> d["id"], tier |-> d["tier"],
     days |-> Or(d, "days", 0), last |-> Or(d, "last", 0), min |-> Or(d, "min", 0),
     merge_inputs |-> Or(d, "merge_inputs", "states"), against |-> Or(d, "against", ""),
     commits |-> Or(d, "commits", {}), topology |-> Or(d, "topology", "keep"),
     acknowledge |-> Or(d, "acknowledge", "false"),
     required |-> Or(d, "archive_required", "false"), destination |-> Or(d, "destination", ""),
     signatures |-> Or(d, "signatures", 1), quarantine_days |-> Or(d, "quarantine_days", 0)]

\* A mutant: an optional rule the policy does not have is written as zero.
to_value_zero(p) ==
    [f \in Known \ {"against", "destination"} |->
        CASE f = "version" -> 1
          [] f = "archive_required" -> p.required
          [] f \in {"branch_heads", "recovery_sources", "holds"} -> "true"
          [] OTHER -> p[f]]

\* Policy::to_value: the form that is hashed writes every default out and
\* leaves out the options the policy does not have.
to_value(p) ==
    LET absent == {f \in {"days", "last", "min"} : p[f] = 0}
                  \cup {f \in {"against", "destination"} : p[f] = ""}
    IN  [f \in Known \ absent |->
            CASE f = "version" -> 1
              [] f = "archive_required" -> p.required
              [] f \in {"branch_heads", "recovery_sources", "holds"} -> "true"
              [] OTHER -> p[f]]

-----------------------------------------------------------------------------
(* Graph::build and its walks.                                             *)

Skeletons(v) == {row.address : row \in v.skeleton}
Nodes(v)     == v.bodies \cup Skeletons(v)
RowOf(v, c)  == CHOOSE row \in v.skeleton : row.address = c
Parents(v, c) == IF c \in v.bodies THEN v.parents[c] ELSE RowOf(v, c).parents

\* A commit is stored or released, once; parents and recovery sources are
\* known (a parent that is nowhere is Error::Missing).
GraphBuilds(v) ==
    /\ v.bodies \cap Skeletons(v) = {}
    /\ \A r, s \in v.skeleton : r.address = s.address => r = s
    /\ \A c \in Nodes(v) : Range(Parents(v, c)) \subseteq Nodes(v)
    /\ \A c \in v.bodies : v.recovery[c] \subseteq Nodes(v)

Highest(S) == CHOOSE n \in S : \A m \in S : m <= n

\* Heights: computed for bodies, taken from the rows for released commits.
Height(v) ==
    LET h[c \in Nodes(v)] ==
            IF c \notin v.bodies THEN RowOf(v, c).height
            ELSE IF Parents(v, c) = << >> THEN 0
            ELSE 1 + Highest({h[p] : p \in Range(Parents(v, c))})
    IN  h

\* A mutant: the walk ends at a commit an earlier horizon released.
AncestorsStored(v) ==
    LET a[c \in Nodes(v)] ==
            {c} \cup IF c \in v.bodies THEN UNION {a[p] : p \in Range(Parents(v, c))} ELSE {}
    IN  a

Ancestors(v) ==
    LET a[c \in Nodes(v)] == {c} \cup UNION {a[p] : p \in Range(Parents(v, c))} IN a

\* Graph::merge_bases: the common ancestors no other one descends from.
merge_bases(v, a, b) ==
    LET common == Ancestors(v)[a] \cap Ancestors(v)[b]
    IN  common \ UNION {Range(Parents(v, c)) : c \in common}

-----------------------------------------------------------------------------
(* plan: what is kept, for which reason, and what that releases.           *)

HeadSet(v) == {v.heads[b] : b \in DOMAIN v.heads}

PinnedBases(v, p) ==
    IF p.against \notin DOMAIN v.heads THEN {}
    ELSE UNION {merge_bases(v, v.heads[p.against], v.heads[b]) : b \in DOMAIN v.heads \ {p.against}}
         \cap v.bodies

\* The first n commits along first parents, stopping at a released one.
RecentCount(v, p) ==
    LET n == IF p.last > p.min THEN p.last ELSE p.min
        step[i \in 1..(n + 1)] ==
            IF i = 1 THEN HeadSet(v)
            ELSE {Parents(v, c)[1] : c \in {c \in step[i - 1] : Parents(v, c) # << >>}} \cap v.bodies
    IN  UNION {step[i] : i \in 1..n}

RecentTime(v, p) == IF p.days = 0 THEN {} ELSE {c \in v.bodies : v.age[c] <= p.days}

Primary(v, p) ==
    (HeadSet(v) \cup v.holds \cup p.commits \cup PinnedBases(v, p) \cup RecentCount(v, p) \cup RecentTime(v, p))
    \cap v.bodies

\* The evidence one kept commit calls for, one level and not recursive.
RecoveryEvidence(v, c) ==
    IF v.version[c] = 2 THEN v.recovery[c] \cup {Parents(v, c)[1]} ELSE {}

MergeEvidence(v, c) ==
    IF v.version[c] = 3
    THEN LET q == Parents(v, c) IN Range(q) \cup merge_bases(v, q[1], q[2])
    ELSE {}

Evidence(v, p) ==
    UNION {RecoveryEvidence(v, c) \cup MergeEvidence(v, c) : c \in Primary(v, p)} \cap v.bodies

\* A merge with several best common ancestors ends the plan.
UniqueBases(v, p) ==
    \A c \in Primary(v, p) : v.version[c] = 3 =>
        Cardinality(merge_bases(v, Parents(v, c)[1], Parents(v, c)[2])) = 1

KeptCommits(v, p) == Primary(v, p) \cup Evidence(v, p)

\* mark keeps the first reason a commit is given: evidence is taken from the
\* primary commits in address order, so a commit that is evidence of a merge
\* and of a recovery is filed under the one whose address is smaller.
FiledAsRecovery(v, p, c) ==
    LET users == {u \in Primary(v, p) : c \in RecoveryEvidence(v, u) \cup MergeEvidence(v, u)}
        u1 == CHOOSE u \in users : \A w \in users : v.first[u] <= v.first[w]
    IN  c \in Evidence(v, p) \ Primary(v, p) /\ c \in RecoveryEvidence(v, u1)

Retained(v, p) == IF p.tier = "history" THEN KeptCommits(v, p) ELSE v.bodies
Released(v, p) == v.bodies \ Retained(v, p)

SkeletonRow(v, c) == [address |-> c, parents |-> Parents(v, c), height |-> Height(v)[c]]

Frontier(v, p) ==
    UNION {{[child |-> c, parent |-> q, height |-> Height(v)[q]] :
               q \in Range(Parents(v, c)) \cap Released(v, p)} : c \in Retained(v, p)}

\* The states that stay: of every kept body, or, when only content is
\* released, of the commits kept for their own sake or as v2 evidence, with
\* the merge inputs if the policy says so.
RetainedStates(v, p) ==
    IF p.tier = "history" THEN UNION {v.files[c] : c \in Retained(v, p)}
    ELSE UNION {v.files[c] : c \in {c \in KeptCommits(v, p) : c \in Primary(v, p) \/ FiledAsRecovery(v, p, c)}}
         \cup IF p.merge_inputs = "states" THEN UNION {v.inputs[c] : c \in Primary(v, p)} ELSE {}

\* A mutant: the states of a kept commit go with those of the released ones
\* that share its files.
ReleasedStatesShared(v, p) == UNION {v.files[c] : c \in Released(v, p)}

ReleasedStates(v, p) == UNION {v.files[c] : c \in v.bodies} \ RetainedStates(v, p)

\* Object accounting: what a released state reaches and no retained one does.
ReleasedObjects(v, p) ==
    UNION {v.objects[s] : s \in ReleasedStates(v, p)}
    \ UNION {v.objects[s] : s \in RetainedStates(v, p) \cap DOMAIN v.objects}

EvidenceWords(v, p) ==
    {"recovery_sources", p.merge_inputs}
    \cup (IF p.against # "" THEN {"merge_bases"} ELSE {})
    \cup (IF v.holds # {} THEN {"holds"} ELSE {})
    \cup (IF p.topology = "drop" THEN {"topology:drop"} ELSE {})

\* What the plan refuses to be made of.
Plans(v, p) ==
    /\ Cardinality(v.holds) <= MAX_HOLDS
    /\ GraphBuilds(v)
    /\ HeadSet(v) \subseteq v.bodies
    /\ UniqueBases(v, p)

plan(v, p) ==
    [retained |-> Retained(v, p), released |-> Released(v, p),
     skeleton |-> IF p.topology = "drop" THEN {} ELSE {SkeletonRow(v, c) : c \in Released(v, p)},
     frontier |-> Frontier(v, p), states |-> ReleasedStates(v, p),
     objects  |-> ReleasedObjects(v, p), holds |-> v.holds, words |-> EvidenceWords(v, p)]

\* HorizonPlan::draft_record: the record that names the plan's rows.
draft_record(p, out) ==
    [tier |-> p.tier, commits |-> Cardinality(out.released), states |-> Cardinality(out.states),
     objects |-> Cardinality(out.objects), skeleton |-> out.skeleton, frontier |-> out.frontier,
     released |-> out.states, holds |-> out.holds, words |-> out.words]

-----------------------------------------------------------------------------
(* HorizonRecord::validate and check_state (H3 to H8).                     *)

Vocabulary ==
    {"recovery_sources", "none", "bodies", "states", "merge_bases", "holds", "topology:drop"}

validate(rec) ==
    /\ rec.states = 0 => rec.objects = 0
    /\ rec.tier = "content" => rec.commits = 0
    /\ Cardinality(rec.holds) <= MAX_HOLDS
    /\ rec.words \subseteq Vocabulary

\* The rows reproduce the roots and the counts of their record.
RowsMatch(rec, rows) ==
    /\ rows.skeleton = rec.skeleton /\ rows.frontier = rec.frontier /\ rows.states = rec.released
    /\ Cardinality(rows.skeleton) = IF "topology:drop" \in rec.words THEN 0 ELSE rec.commits
    /\ Cardinality(rows.states) = rec.states

\* Parents are stored or released; heights of released commits are one above
\* their parents'; every frontier edge joins a body to a released parent.
SkeletonSound(v, bodies, rows) ==
    LET gone == {r.address : r \in rows.skeleton}
        row(c) == CHOOSE r \in rows.skeleton : r.address = c
        height(c) == IF c \in bodies THEN Height(v)[c] ELSE row(c).height
    IN  /\ bodies \cap gone = {}
        /\ \A c \in bodies : Range(v.parents[c]) \subseteq bodies \cup gone
        /\ \A r \in rows.skeleton :
              /\ Range(r.parents) \subseteq bodies \cup gone
              /\ r.height = IF r.parents = << >> THEN 0 ELSE 1 + Highest({height(q) : q \in Range(r.parents)})
        /\ \A e \in rows.frontier :
              /\ e.child \in bodies /\ e.parent \in Range(v.parents[e.child])
              /\ e.parent \in gone /\ row(e.parent).height = e.height

\* No head is released, in body or in states; a released state is gone and
\* every other state of a stored commit is there.
HeadsSound(v, bodies, rows) ==
    \A c \in HeadSet(v) : c \in bodies /\ v.files[c] \cap rows.states = {}

StatesSound(v, bodies, rows, present) ==
    /\ present \cap rows.states = {}
    /\ \A c \in bodies : v.files[c] \subseteq present \cup rows.states

check_state(v, bodies, rec, rows, present) ==
    /\ RowsMatch(rec, rows)
    /\ SkeletonSound(v, bodies, rows)
    /\ HeadsSound(v, bodies, rows)
    /\ StatesSound(v, bodies, rows, present)

-----------------------------------------------------------------------------
\* Some document and some history, nothing loaded or planned.
HorizonInit == policy = Unloaded /\ hplan = Unplanned

load ==
    /\ policy = Unloaded
    /\ Loads(doc)
    /\ policy' = PolicyOf(doc)
    /\ UNCHANGED <<doc, view, hplan>>

\* LocalRepository::horizon_plan: one snapshot of the repository is planned,
\* and nothing is written.
horizon_plan ==
    /\ policy # Unloaded /\ hplan = Unplanned
    /\ hplan' = IF Plans(view, policy) THEN plan(view, policy) ELSE NoPlan
    /\ UNCHANGED <<doc, view, policy>>

HorizonNext == load \/ horizon_plan

Planned == hplan \notin {Unplanned, NoPlan}

\* The history a plan leaves: its bodies, and its skeleton beside the earlier.
After(v, out) == [v EXCEPT !.bodies = out.retained, !.skeleton = @ \cup out.skeleton]

\* A plan can be carried out: its record is a valid one, and the history left
\* by releasing exactly what it says passes every check from H3 to H8
\* (plan.rs plan and draft_record against horizon.rs validate and
\* check_state).  Dropping the topology gives up H3 on purpose.
PlanChecks ==
    Planned =>
        LET rec == draft_record(policy, hplan)
            present == UNION {view.files[c] : c \in hplan.retained} \ hplan.states
        IN  /\ validate(rec)
            /\ policy.topology = "keep" => check_state(view, hplan.retained, rec, hplan, present)

\* A horizon is a fixed point: under the same policy, the history a plan
\* leaves can be planned again and releases no further commit - the one-level
\* evidence closure is enough (plan.rs rules 1 to 5).
ReplanReleasesNothing ==
    (Planned /\ policy.tier = "history" /\ policy.topology = "keep") =>
        /\ Plans(After(view, hplan), policy)
        /\ Released(After(view, hplan), policy) = {}

\* The canonical form of a policy, whose hash a record carries, loads again
\* and is the same policy (policy.rs load against to_value).
PolicyReloads ==
    policy # Unloaded => Loads(to_value(policy)) /\ PolicyOf(to_value(policy)) = policy
=============================================================================
