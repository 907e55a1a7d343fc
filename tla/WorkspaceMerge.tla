--------------------------- MODULE WorkspaceMerge ---------------------------
(***************************************************************************)
(* The three-way merge of a draft into the team version: what each block   *)
(* becomes, which differences need a choice, how a merged tree that is not *)
(* a tree is repaired, and the operations that take the team version to    *)
(* the merged state.  Identifiers and variable names are numbers: the code *)
(* visits both in the order of its sorted maps.                            *)
(***************************************************************************)
EXTENDS NodeTree, FiniteSetsExt, SequencesExt

(* A resolution maps conflict keys "<id>:<field>" to a side or, for a      *)
(* variable name, to a new name.                                           *)
Side(res, key) == IF key \in DOMAIN res THEN res[key].side ELSE "none"
Renames(res, key) == key[2] = "var_name" /\ Side(res, key) = "new"

(* Removed choices are tombstones to the merge.                            *)
canonical(s) ==
    [s EXCEPT !.nodes =
        [i \in DOMAIN @ |-> [@[i] EXCEPT !.deleted = @ \/ i \in s.removed]]]

Node(s, i) == IF Present(s, i) THEN s.nodes[i] ELSE [none |-> None]
location(n) == <<n.parent, n.pos>>

(* select: take the only change, else what the resolution says, else       *)
(* report the conflict and keep the team's side.                           *)
Unsettled(key, b, t, d, res) ==
    /\ d # b /\ d # t /\ t # b
    /\ Side(res, key) \notin {"team", "draft"}
    /\ ~Renames(res, key)
(* A mutant: only a resolution brings in the draft's side.                 *)
select_team(key, b, t, d, res) ==
    IF Side(res, key) = "draft" THEN d
    ELSE IF Renames(res, key) THEN res[key].name ELSE t
select(key, b, t, d, res) ==
    IF d = b \/ d = t THEN t
    ELSE IF t = b \/ Side(res, key) = "draft" THEN d
    ELSE IF Renames(res, key) THEN res[key].name ELSE t

(* Existence or a tombstone crosses the entire block.                      *)
WholeNode(base, team, draft, i) ==
    \/ ~Present(base, i) \/ ~Present(team, i)
    \/ base.nodes[i].deleted # draft.nodes[i].deleted
    \/ base.nodes[i].kind # draft.nodes[i].kind
    \/ team.nodes[i].deleted # base.nodes[i].deleted

Fields == {"val", "ref", "locked"}
Field(n, f) == IF f = "$location" THEN location(n)
               ELSE IF f = "var_name" THEN n.name ELSE n[f]
Separate == Fields \cup {"$location", "var_name"}
FieldOf(base, team, draft, res, i, f) ==
    select(<<i, f>>, Field(base.nodes[i], f), Field(team.nodes[i], f),
           Field(draft.nodes[i], f), res)

(* merge_with, one block of the draft.                                     *)
MergedNode(base, team, draft, res, i) ==
    IF Node(base, i) = Node(draft, i) THEN Node(team, i)
    ELSE IF WholeNode(base, team, draft, i)
    THEN select(<<i, "$node">>, Node(base, i), Node(team, i), Node(draft, i), res)
    ELSE LET at(f) == FieldOf(base, team, draft, res, i, f)
         IN [team.nodes[i] EXCEPT
                !.parent = at("$location")[1], !.pos = at("$location")[2],
                !.name = at("var_name"), !.val = at("val"), !.ref = at("ref"),
                !.locked = at("locked")]
NodeConflicts(base, team, draft, res, i) ==
    IF Node(base, i) = Node(draft, i) THEN {}
    ELSE IF WholeNode(base, team, draft, i)
    THEN {k \in {<<i, "$node">>} :
            Unsettled(k, Node(base, i), Node(team, i), Node(draft, i), res)}
    ELSE {k \in {i} \X Separate :
            Unsettled(k, Field(base.nodes[i], k[2]), Field(team.nodes[i], k[2]),
                      Field(draft.nodes[i], k[2]), res)}

(* removed_choices.retain: only what is still deleted stays removed.       *)
Retained(removed, nodes) == {i \in removed : i \in DOMAIN nodes /\ nodes[i].deleted}

MergedNodes(base, team, draft, res) ==
    LET picked == [i \in DOMAIN draft.nodes |-> MergedNode(base, team, draft, res, i)]
        kept == {i \in DOMAIN draft.nodes : picked[i] # [none |-> None]}
        nodes == [i \in kept |-> picked[i]] @@ team.nodes
    IN [nodes |-> nodes, removed |-> Retained(team.removed, nodes)]

-----------------------------------------------------------------------------
(* find_parent_cycle: from the first block whose parents lead into a loop, *)
(* the loop in walking order.  Tombstones take part.                       *)
InLoop(s, i) == is_descendant_of(s, i, i)
LeadsToLoop(s) ==
    LET loops == {i \in DOMAIN s.nodes : InLoop(s, i)}
    IN {i \in DOMAIN s.nodes : loops # {} /\ loops \cap Above(s, i) # {}}
RECURSIVE Up(_, _, _)
Up(s, i, k) == IF k = 0 THEN i ELSE Up(s, s.nodes[i].parent, k - 1)
find_parent_cycle(s) ==
    IF LeadsToLoop(s) = {} THEN <<>>
    ELSE LET start == Min(LeadsToLoop(s))
             first == Min({k \in 0 .. Cardinality(DOMAIN s.nodes) : InLoop(s, Up(s, start, k))})
             entry == Up(s, start, first)
         IN [k \in 1 .. Cardinality({a \in Above(s, entry) : InLoop(s, a)}) |->
                Up(s, entry, k - 1)]

(* find_orphan: the first block that is not deleted below one that is.     *)
Standing(s, i) == Present(s, i) /\ ~s.nodes[i].deleted
(* A mutant: a parent that is there counts, deleted or not.                *)
Orphans_missing(s) ==
    {i \in DOMAIN s.nodes :
        Standing(s, i) /\ s.nodes[i].parent # None /\ ~Present(s, s.nodes[i].parent)}
Orphans(s) ==
    {i \in DOMAIN s.nodes :
        Standing(s, i) /\ s.nodes[i].parent # None /\ ~Standing(s, s.nodes[i].parent)}

(* find_duplicate_var_name: of the blocks that share the first shared      *)
(* name, the first whose name is not the team's, else the first.           *)
Shared(s) == {v \in Names : Cardinality(Defines(s, v)) > 1}
find_duplicate_var_name(team, s) ==
    LET same == Defines(s, Min(Shared(s)))
        new == {i \in same : ~Standing(team, i) \/ team.nodes[i].name # s.nodes[i].name}
    IN IF new # {} THEN Min(new) ELSE Min(same)

(* resolve_orphan: the chosen side brings the container back, with its     *)
(* deleted ancestors, or takes out what was placed in it.                  *)
PlaceAs(s, i, node) ==
    [s EXCEPT !.nodes[i].parent = node.parent, !.nodes[i].pos = node.pos]
RECURSIVE BringBack(_, _, _)
BringBack(out, side, i) ==
    IF i = None \/ Standing(out, i) \/ ~Standing(side, i) THEN out
    ELSE BringBack([Put(out, i, side.nodes[i]) EXCEPT !.removed = @ \ {i}],
                   side, side.nodes[i].parent)
TakeOut(out, side, container) ==
    LET inside == {i \in LiveNodes(out) : out.nodes[i].parent = container}
    IN [out EXCEPT !.nodes =
          [i \in DOMAIN @ |->
             IF i \notin inside THEN @[i]
             ELSE IF Standing(side, i)
                  THEN [@[i] EXCEPT !.parent = side.nodes[i].parent,
                                    !.pos = side.nodes[i].pos]
                  ELSE [@[i] EXCEPT !.deleted = TRUE]]]
resolve_orphan(team, draft, out, res, child) ==
    LET container == out.nodes[child].parent
        choice == Side(res, <<container, "$node">>)
        side == IF choice = "draft" THEN draft ELSE team
        fixed == IF Standing(side, container) THEN BringBack(out, side, container)
                 ELSE TakeOut(out, side, container)
        changed == \E i \in {child, container} : Node(out, i) # Node(fixed, i)
    IN [out |-> fixed, changed |-> changed,
        conflicts |-> {k \in {<<container, "$node">>} :
                          choice \notin {"team", "draft"} \/ ~changed}]

(* resolve_duplicate_var_name: a new name that is free, else the team's    *)
(* name, else the block is left out with what only the draft put in it.    *)
RECURSIVE WithNewChildren(_, _, _)
WithNewChildren(out, team, gone) ==
    LET more == {i \in DOMAIN out.nodes \ gone :
                    out.nodes[i].parent \in gone /\ ~Present(team, i)}
    IN IF more = {} THEN gone ELSE WithNewChildren(out, team, gone \cup more)
LeaveOut(out, team, i) ==
    LET gone == WithNewChildren(out, team, {i})
        left == [j \in DOMAIN out.nodes \ gone |-> out.nodes[j]]
    IN [nodes |-> IF Present(team, i) THEN (i :> team.nodes[i]) @@ left ELSE left,
        removed |-> (out.removed \ {i}) \cup (team.removed \cap {i})]
resolve_duplicate_var_name(team, out, res, i) ==
    LET key == <<i, "var_name">>
        renamed == /\ Renames(res, key)
                   /\ ~NameTaken(out, res[key].name, {i})
        fixed == IF renamed THEN [out EXCEPT !.nodes[i].name = res[key].name]
                 ELSE IF ~Standing(team, i) THEN LeaveOut(out, team, i)
                 ELSE [out EXCEPT !.nodes[i].name = team.nodes[i].name]
        changed == Node(out, i) # Node(fixed, i)
        silent == ~renamed /\ ~Standing(team, i)
    IN [out |-> fixed, changed |-> changed,
        conflicts |-> {k \in {key} : \/ ~renamed /\ Side(res, key) # "team"
                                     \/ ~changed /\ ~silent}]

(* A loop: the draft's placement of one of its blocks gives way, unless    *)
(* the resolution keeps the draft's placement of all of them.              *)
LoopBreaker(team, out, cycle) ==
    LET moved(i) == ~Present(team, i) \/ location(out.nodes[i]) # location(team.nodes[i])
        known == SelectSeq(cycle, LAMBDA i : Present(team, i) /\ moved(i))
        any == SelectSeq(cycle, LAMBDA i : moved(i))
    IN IF known # <<>> THEN known[1] ELSE IF any # <<>> THEN any[1] ELSE cycle[1]
resolve_cycle(team, draft, out, res, cycle) ==
    LET i == LoopBreaker(team, out, cycle)
        choice == Side(res, <<i, "$location">>)
        loop == ToSet(cycle)
        fixed == IF choice = "draft"
                 THEN [out EXCEPT !.nodes =
                         [j \in DOMAIN @ |->
                            IF j \in loop /\ Present(draft, j)
                            THEN [@[j] EXCEPT !.parent = draft.nodes[j].parent,
                                              !.pos = draft.nodes[j].pos]
                            ELSE @[j]]]
                 ELSE IF Present(team, i) THEN PlaceAs(out, i, team.nodes[i]) ELSE out
        changed == \E j \in loop : location(out.nodes[j]) # location(fixed.nodes[j])
    IN [out |-> fixed, changed |-> changed,
        conflicts |-> {k \in {<<i, "$location">>} :
                          choice \notin {"team", "draft"} \/ ~changed}]

(* validate_merged_tree: repair until the tree is sound.  Meeting a repair *)
(* again, or too many of them, reports the conflict instead of looping.    *)
NoProblem == [key |-> <<>>]
Problem(team, out, cycle) ==
    IF cycle # <<>>
    THEN [key |-> <<LoopBreaker(team, out, cycle), "$location">>, loop |-> cycle,
          block |-> LoopBreaker(team, out, cycle)]
    ELSE IF Orphans(out) # {}
    THEN LET child == Min(Orphans(out))
         IN [key |-> <<out.nodes[child].parent, "$node">>, block |-> child]
    ELSE IF Shared(out) # {}
    THEN LET twin == find_duplicate_var_name(team, out)
         IN [key |-> <<twin, "var_name">>, block |-> twin]
    ELSE NoProblem
Repair(team, draft, res, out, problem) ==
    CASE problem.key[2] = "$location" -> resolve_cycle(team, draft, out, res, problem.loop)
      [] problem.key[2] = "$node" -> resolve_orphan(team, draft, out, res, problem.block)
      [] OTHER -> resolve_duplicate_var_name(team, out, res, problem.block)
RECURSIVE Validate(_, _, _, _, _, _, _)
Validate(team, draft, res, out, conflicts, seen, left) ==
    LET repaired(mark, step) ==
            IF ~step.changed
            THEN [state |-> step.out, conflicts |-> conflicts \cup step.conflicts]
            ELSE Validate(team, draft, res, step.out, conflicts \cup step.conflicts,
                          seen \cup {mark}, left - 1)
        met(problem) ==
            IF problem = NoProblem THEN [state |-> out, conflicts |-> conflicts]
            ELSE IF left = 0 \/ <<problem.block, problem.key>> \in seen
            THEN [state |-> out, conflicts |-> conflicts \cup {problem.key}]
            ELSE repaired(<<problem.block, problem.key>>, Repair(team, draft, res, out, problem))
    IN met(Problem(team, out, find_parent_cycle(out)))
validate_merged_tree(team, draft, res, out, conflicts) ==
    Validate(team, draft, res, out, conflicts, {}, 2 * Cardinality(DOMAIN out.nodes) + 1)

-----------------------------------------------------------------------------
(* depths: steps to the root; a block in or under a loop gets the cap.     *)
Depth(s, i) ==
    IF i \in LeadsToLoop(s) THEN Cardinality(DOMAIN s.nodes) + 1
    ELSE Cardinality({a \in Above(s, i) : s.nodes[a].parent # None})
Before(s, i, j) == Depth(s, i) < Depth(s, j) \/ (Depth(s, i) = Depth(s, j) /\ i < j)
ByDepth(s, ids) == SetToSortSeq(ids, LAMBDA i, j : Before(s, i, j))
(* A mutant: containers are deleted before what is in them.                *)
DeepestLast(s, ids) == ByDepth(s, ids)
Deepest(s, ids) ==
    SetToSortSeq(ids, LAMBDA i, j : Depth(s, i) > Depth(s, j)
                                     \/ (Depth(s, i) = Depth(s, j) /\ i < j))

(* held: who holds a name that block i takes, if another block does.       *)
Holders(from, to, i) == Defines(from, to.nodes[i].name) \ {i}
TakesName(from, to, i) ==
    /\ to.nodes[i].name # None
    /\ Holders(from, to, i) # {}
    /\ \/ ~Present(from, i)
       \/ from.nodes[i].deleted
       \/ from.nodes[i].name # to.nodes[i].name

(* diff, one block of the target: created, or restored, moved, renamed and *)
(* edited, in the order the gate needs.                                    *)
If(c, op) == IF c THEN <<op>> ELSE <<>>
NodeOps(from, to, i) ==
    LET n == to.nodes[i]
        p == from.nodes[i]
        late == TakesName(from, to, i)
        name == IF late THEN None ELSE n.name
        choice == p.deleted /\ i \in from.removed
        back == [op |-> "restored", id |-> i]
    IN IF ~Present(from, i)
       THEN <<[op |-> "created", id |-> i, node |-> [n EXCEPT !.name = name]]>>
       ELSE If(choice, back)
            \o If(location(p) # location(n),
                  [op |-> "moved", id |-> i, parent |-> n.parent, pos |-> n.pos])
            \o If(p.deleted /\ name # p.name, [op |-> "renamed", id |-> i, name |-> name])
            \o If(p.deleted /\ ~choice, back)
            \o If(p.ref # n.ref, [op |-> "refers", id |-> i, ref |-> n.ref])
            \o If(p.locked # n.locked, [op |-> "locked", id |-> i, flag |-> n.locked])
            \o If(p.val # n.val, [op |-> "edited", id |-> i, val |-> n.val])
            \o If(p.name # n.name /\ ~late /\ ~p.deleted,
                  [op |-> "renamed", id |-> i, name |-> n.name])

(* Names come last, each after the block that frees it; names that are     *)
(* swapped in a circle are left at the end, and will be refused.           *)
RECURSIVE Release(_, _, _, _)
Release(from, to, queue, done) ==
    LET blocked == {i \in ToSet(queue) : Holders(from, to, i) \cap ToSet(queue) # {}}
        ready == SelectSeq(queue, LAMBDA i : i \notin blocked)
    IN IF ready = <<>> THEN done \o queue
       ELSE Release(from, to, SelectSeq(queue, LAMBDA i : i \in blocked), done \o ready)

(* A flag that protects goes last and one that unprotects first, so that   *)
(* the rest can be applied.                                                *)
Unlocks(from, op) == op.op = "locked" /\ ~op.flag /\ Standing(from, op.id)
Locks(op) == op.op = "locked" /\ op.flag
Born(op) == op.op = "created" /\ op.node.locked
OpenBorn(op) == IF Born(op) THEN [op EXCEPT !.node.locked = FALSE] ELSE op
LockOf(op) == [op |-> "locked", id |-> op.id, flag |-> TRUE]
Ordered(from, ops) ==
    SelectSeq(ops, LAMBDA o : Unlocks(from, o))
    \o [k \in 1 .. Len(SelectSeq(ops, LAMBDA o : ~Unlocks(from, o) /\ ~Locks(o))) |->
          OpenBorn(SelectSeq(ops, LAMBDA o : ~Unlocks(from, o) /\ ~Locks(o))[k])]
    \o [k \in 1 .. Len(SelectSeq(ops, LAMBDA o : Locks(o) \/ Born(o))) |->
          LockOf(SelectSeq(ops, LAMBDA o : Locks(o) \/ Born(o))[k])]

CanonicalDiff(from, to) ==
    LET kept == ByDepth(to, LiveNodes(to))
        gone == Deepest(from, {i \in LiveNodes(from) : ~Standing(to, i)})
        late == SelectSeq(kept, LAMBDA i : TakesName(from, to, i))
        named == Release(from, to, late, <<>>)
    IN Ordered(from,
         FlattenSeq([k \in DOMAIN kept |-> NodeOps(from, to, kept[k])])
         \o [k \in DOMAIN gone |-> [op |-> "deleted", id |-> gone[k]]]
         \o [k \in DOMAIN named |->
               [op |-> "renamed", id |-> named[k], name |-> to.nodes[named[k]].name]])
diff(from, to) == CanonicalDiff(canonical(from), canonical(to))

(* merge: the plan of a draft against the team version.                    *)
PlanOf(team, merged) ==
    [state |-> merged.state, conflicts |-> merged.conflicts, ops |-> diff(team, merged.state)]
CanonicalMerge(base, team, draft, res) ==
    LET open == UNION {NodeConflicts(base, team, draft, res, i) : i \in DOMAIN draft.nodes}
    IN PlanOf(team, validate_merged_tree(team, draft, res,
                        MergedNodes(base, team, draft, res), open))
merge(base, team, draft, res) ==
    CanonicalMerge(canonical(base), canonical(team), canonical(draft), res)

(* with_dependencies: the parents a chosen change needs and the children   *)
(* that leave before a chosen deletion.                                    *)
ParentNeeded(team, op) ==
    CASE op.op = "created" -> {op.node.parent}
      [] op.op = "moved" -> {op.parent}
      [] op.op = "restored" -> {team.nodes[i].parent : i \in {op.id} \cap DOMAIN team.nodes}
      [] OTHER -> {}
Needs(team, op) ==
    {i \in ParentNeeded(team, op) \ {None} : ~Live(team, i)}
    \cup {i \in DOMAIN team.nodes :
            op.op = "deleted" /\ Live(team, i) /\ team.nodes[i].parent = op.id}
Changed(ops) == {ops[k].id : k \in DOMAIN ops}
with_dependencies(ops, team, selected) ==
    Least(Changed(ops),
          [i \in Changed(ops) |->
             UNION {Needs(team, ops[k]) : k \in {k \in DOMAIN ops : ops[k].id = i}}
             \cap Changed(ops)],
          selected)
=============================================================================
