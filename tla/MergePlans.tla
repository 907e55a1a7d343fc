----------------------------- MODULE MergePlans -----------------------------
(***************************************************************************)
(* Merges of documents and of project commits: convergence of two          *)
(* versions, what a merged document may not introduce, a draft against the *)
(* team version, and two commits of a project.                             *)
(***************************************************************************)
EXTENDS WorkspaceMerge

-----------------------------------------------------------------------------
(* Merging two versions of one document without a person, and two commits  *)
(* of a project (engine-core/src/repository: convergence, compare and      *)
(* project_merge).  The address of a state is the state; of two addresses  *)
(* either may be the smaller one, so the order is a parameter.             *)

CONSTANT MaxReported     \* same-file conflicts examined in one comparison

-----------------------------------------------------------------------------
(* One document.  A state has blocks, removed choices and the two          *)
(* document-level collections, each of which merges as one value.          *)

Clashes(b, t, d) == d # b /\ d # t /\ t # b
OnlyChange(b, t, d) == IF d = b \/ d = t THEN t ELSE d

(* A block that only the draft lost leaves the team version first; one     *)
(* that the team changed meanwhile is a conflict.                          *)
Lost(b, d) == DOMAIN b.nodes \ DOMAIN d.nodes
AgreedLost(b, t, d) == {i \in Lost(b, d) : Present(t, i) /\ t.nodes[i] = b.nodes[i]}
Adjusted(b, t, d) ==
    [t EXCEPT !.nodes = [i \in DOMAIN t.nodes \ AgreedLost(b, t, d) |-> t.nodes[i]]]

RemovedChoices(t, d) == t.removed \cup d.removed

StateMerged(b, t, d, plan) ==
    LET gone == {<<i, "$node">> : i \in {i \in Lost(b, d) : Present(t, i)}}
        notes == {<<None, f>> : f \in {f \in {"comments", "suggestions"} : Clashes(b[f], t[f], d[f])}}
        pick(f) == IF <<None, f>> \in notes THEN t[f] ELSE OnlyChange(b[f], t[f], d[f])
    IN [state |-> [nodes |-> plan.state.nodes,
                   removed |-> Retained(RemovedChoices(t, d), plan.state.nodes),
                   comments |-> pick("comments"), suggestions |-> pick("suggestions")],
        conflicts |-> gone \cup plan.conflicts \cup notes]
MergeAdjusted(b, t, d) == StateMerged(b, t, d, merge(b, t, d, << >>))
merge_states(b, t, d) == MergeAdjusted(b, Adjusted(b, t, d), d)

(* converge: clean only when both orientations are; the state is that of   *)
(* the orientation whose team side has the smaller address.                *)
Converged(forward, backward) ==
    [clean |-> forward.conflicts \cup backward.conflicts = {}, merged |-> forward.state,
     conflicts |-> forward.conflicts \cup backward.conflicts]
(* A mutant: one orientation is enough.                                    *)
converge_forward(b, left, right, leftFirst) ==
    Converged(merge_states(b, IF leftFirst THEN left ELSE right, IF leftFirst THEN right ELSE left),
              [conflicts |-> {}])
Oriented(b, team, draft) == Converged(merge_states(b, team, draft), merge_states(b, draft, team))
converge(b, left, right, leftFirst) ==
    Oriented(b, IF leftFirst THEN left ELSE right, IF leftFirst THEN right ELSE left)

-----------------------------------------------------------------------------
(* Two commits.  A path is a sequence of names, a file a document and its  *)
(* state, a commit its parents, its files and its same-file records.       *)

NoFile == [document |-> None]
FileAt(files, p) == IF p \in DOMAIN files THEN files[p] ELSE NoFile
Strictly(p, q) == Len(p) < Len(q) /\ IsPrefix(p, q)

(* Commit::validate, the file map: no document twice, no file that is also *)
(* a directory.                                                            *)
ValidFiles(files) ==
    /\ \A p, q \in DOMAIN files : p # q => files[p].document # files[q].document
    /\ \A p, q \in DOMAIN files : ~Strictly(p, q)
ValidRecords(c) ==
    /\ Cardinality(c.records) <= MaxReported
    /\ \A r \in c.records :
          /\ r.path \in DOMAIN c.files
          /\ c.files[r.path] = [document |-> r.document, state |-> r.merged]
          /\ r.base # r.left /\ r.base # r.right /\ r.left # r.right
          /\ \A s \in c.records : s.path = r.path => s = r

(* A mutant: files that a rename left at two paths stay.                   *)
Invalid_none(files) == {}
(* The paths of a file map that cannot stand together.                     *)
Invalid(files) ==
    {p \in DOMAIN files : \E q \in DOMAIN files \ {p} :
        files[p].document = files[q].document \/ Strictly(p, q) \/ Strictly(q, p)}

(* plan: every path takes the only change; the others are conflicts.       *)
project_plan(b, l, r) ==
    LET paths == DOMAIN b \cup DOMAIN l \cup DOMAIN r
        at(p) == OnlyChange(FileAt(b, p), FileAt(l, p), FileAt(r, p))
        open == {p \in paths : Clashes(FileAt(b, p), FileAt(l, p), FileAt(r, p))}
        kept == {p \in paths \ open : at(p) # NoFile}
        files == [p \in kept |-> at(p)]
    IN [files |-> [p \in kept \ Invalid(files) |-> files[p]],
        conflicts |-> open \cup Invalid(files)]

(* The conflicts of one document that all three commits have.              *)
same_document_conflicts(b, l, r) ==
    {p \in project_plan(b, l, r).conflicts \cap DOMAIN b \cap DOMAIN l \cap DOMAIN r :
        /\ b[p].document = l[p].document /\ l[p].document = r[p].document
        /\ l[p].state # r[p].state}

(* same_file_convergence: the report, for the first paths only.            *)
Examined(paths, rank) ==
    {p \in paths : Cardinality({q \in paths : rank[q] < rank[p]}) < MaxReported}
same_file_convergence(b, l, r, rank, leftFirst) ==
    LET all == same_document_conflicts(b, l, r)
    IN [files |-> [p \in Examined(all, rank) |->
                     converge(b[p].state, l[p].state, r[p].state, leftFirst)],
        not_examined |-> Cardinality(all \ Examined(all, rank))]

Chosen(res, p) == p \in DOMAIN res
(* prepare_merge: what every conflict is settled by, and the commit when   *)
(* none is left.  A resolution is a file or NoFile, to delete the path.    *)
Prepare(conflicts, res, auto, commit) ==
    LET unresolved == {p \in conflicts \ auto : ~Chosen(res, p)}
    IN [ok |-> /\ DOMAIN res \subseteq conflicts
               /\ unresolved = {} => ValidFiles(commit.files) /\ ValidRecords(commit),
        unresolved |-> unresolved, commit |-> commit]
PrepareMet(b, l, r, res, all, met) ==
    LET auto == {p \in DOMAIN met : met[p].clean}
        put == {p \in DOMAIN res : res[p] # NoFile}
    IN Prepare(all.conflicts, res, auto,
            [parents |-> <<l, r>>,
             files |-> [p \in auto |-> [document |-> b.files[p].document, state |-> met[p].merged]]
                       @@ [p \in put |-> res[p]] @@ all.files,
             records |-> {[path |-> p, document |-> b.files[p].document,
                           base |-> b.files[p].state, left |-> l.files[p].state,
                           right |-> r.files[p].state, merged |-> met[p].merged] : p \in auto}])
prepare_merge(b, l, r, sameFile, res, rank, leftFirst) ==
    LET tried == IF sameFile
                 THEN Examined({p \in same_document_conflicts(b.files, l.files, r.files) :
                                  ~Chosen(res, p)}, rank) ELSE {}
    IN PrepareMet(b, l, r, res, project_plan(b.files, l.files, r.files),
            [p \in tried |->
                converge(b.files[p].state, l.files[p].state, r.files[p].state, leftFirst)])

(* verify_same_file_resolutions: each record is what the strategy gives.   *)
verify_same_file_resolutions(c, leftFirst) ==
    \A r \in c.records :
        \E out \in {converge(r.base, r.left, r.right, leftFirst)} :
            out.clean /\ out.merged = r.merged

-----------------------------------------------------------------------------
(* What a merged document must not have that neither side had              *)
(* (engine-core/src/merge_policy/invariants.rs).  The label of a rich-text *)
(* block is not in the state, so the rule about labels is left out.        *)

Violation(inv, subject, nodes) == [invariant |-> inv, subject |-> subject, nodes |-> nodes]

(* check: every violation of a state.                                      *)
BadPlaces(s) ==
    {Violation("G2", i, {i}) : i \in {i \in LiveNodes(s) :
        LET n == s.nodes[i]
        IN IF n.parent = None THEN n.kind # "form"
           ELSE Standing(s, n.parent) /\ ~can_contain(s.nodes[n.parent].kind, n.kind)}}
    \cup {Violation("G3", i, {s.nodes[i].parent}) : i \in {i \in LiveNodes(s) :
        s.nodes[i].parent # None /\ ~Standing(s, s.nodes[i].parent)}}
BadReferences(s) ==
    {Violation("G5", i, {i}) : i \in {i \in LiveNodes(s) :
        s.nodes[i].ref # None /\ Defines(s, s.nodes[i].ref) = {}}}
    \cup {Violation("G5", Min({i \in LiveNodes(s) : DependsOnItself(s, i)}),
                    {i \in LiveNodes(s) : DependsOnItself(s, i)}) :
            x \in {x \in {0} : \E i \in LiveNodes(s) : DependsOnItself(s, i)}}
LostTargets(s) ==
    {Violation("G7", c.at, {c.at}) : c \in {c \in s.comments \cup s.suggestions : ~Present(s, c.at)}}
check(s) ==
    LET loop == ToSet(find_parent_cycle(s))
    IN {Violation("G1", Min(loop), loop) : x \in {x \in {0} : loop # {}}}
       \cup BadPlaces(s) \cup BadReferences(s) \cup LostTargets(s)
       \cup {Violation("G4", v, Defines(s, v)) : v \in Shared(s)}
       \cup {Violation("G8", i, {i}) : i \in {i \in LiveNodes(s) :
                s.nodes[i].locked /\ s.nodes[i].kind # "section"}}

introduced(merged, team, draft) == check(merged) \ (check(team) \cup check(draft))

(* conflicts: one for each violation that no conflict reports yet.         *)
reported_by(inv) ==
    CASE inv = "G1" -> {"$location"} [] inv = "G3" -> {"$node"} [] inv = "G4" -> {"var_name"}
      [] OTHER -> {}
Covered(v, existing) == \E c \in existing : c[2] \in reported_by(v.invariant) /\ c[1] \in v.nodes
invariant_conflicts(new, existing) ==
    {<<Min(v.nodes), "$invariant", v.invariant>> : v \in {v \in new : ~Covered(v, existing)}}

(* apply: conflict mode adds the conflicts, flag mode only lists what is   *)
(* new.                                                                    *)
apply_invariants(plan, team, draft, mode) ==
    LET new == introduced(plan.state, team, draft)
        added == IF mode = "conflict" THEN invariant_conflicts(new, plan.conflicts) ELSE {}
    IN [plan EXCEPT !.conflicts = @ \cup added]

-----------------------------------------------------------------------------
(* Two sides of a document that drift apart: the team version and a draft  *)
(* start from one state, each takes operations that pass its own gate, and *)
(* at every moment the draft may be merged.  The properties are about the  *)
(* plan that merge would make at that moment.                              *)

CONSTANTS
    Bases,        \* sound states the draft can have been taken from
    SideOps,      \* the operations either side sends
    Resolutions,  \* the choices a person can have made
    MaxTeam,      \* operations on the team version in one behaviour
    MaxDraft      \* operations on the draft in one behaviour

ASSUME BasesAssumption == \A s \in Bases : check_invariants(s)

VARIABLES base, team, draft, edits

mergeVars == <<base, team, draft, edits>>

MergeInit ==
    /\ base \in Bases
    /\ team = base
    /\ draft = base
    /\ edits = [team |-> 0, draft |-> 0]

Gate(s, op) == validate_op(s, op) /\ check_sheet_protection(s, op)

TeamEdit(op) ==
    /\ edits.team < MaxTeam
    /\ Gate(team, op)
    /\ team' = apply_payload(team, op)
    /\ edits' = [edits EXCEPT !.team = @ + 1]
    /\ UNCHANGED <<base, draft>>

DraftEdit(op) ==
    /\ edits.draft < MaxDraft
    /\ Gate(draft, op)
    /\ draft' = apply_payload(draft, op)
    /\ edits' = [edits EXCEPT !.draft = @ + 1]
    /\ UNCHANGED <<base, team>>

MergeNext == \E op \in SideOps : TeamEdit(op) \/ DraftEdit(op)

-----------------------------------------------------------------------------
(* Before either side has done anything there is nothing to merge.         *)
Drifted == edits.team + edits.draft > 0

(* What two states show a reader: the blocks that are not deleted.         *)
Shown(s) == [i \in LiveNodes(canonical(s)) |-> canonical(s).nodes[i]]

(* A plan without open conflicts, and without choices that settled any,    *)
(* keeps what only one side changed: a field the team left alone is the    *)
(* draft's, a field the draft left alone is the team's, and a block that   *)
(* one side added or deleted and the other left alone is that side's.  The *)
(* repairs of validate_merged_tree run after select and may not undo it    *)
(* silently.                                                               *)
KeepsBothSides ==
    LET b == canonical(base)
        t == canonical(team)
        d == canonical(draft)
        agrees(plan, side, i) ==
            IF Present(b, i) /\ Standing(b, i) /\ Standing(t, i) /\ Standing(d, i)
            THEN \A f \in Separate :
                    Field(b.nodes[i], f) # Field(side.nodes[i], f)
                        => Field(plan.state.nodes[i], f) = Field(side.nodes[i], f)
            ELSE Node(b, i) # Node(side, i)
                    => Standing(plan.state, i) = Standing(side, i)
    IN Drifted => \A plan \in {merge(base, team, draft, <<>>)} :
          plan.conflicts = {} =>
             /\ \A i \in DOMAIN d.nodes : agrees(plan, d, i)
             /\ \A i \in DOMAIN t.nodes : agrees(plan, t, i)

(* Taking the operations of a plan one after the other through the gate.   *)
RECURSIVE Replay(_, _)
Replay(s, ops) ==
    IF ops = <<>> THEN [ok |-> TRUE, state |-> s]
    ELSE IF ~Gate(s, ops[1]) THEN [ok |-> FALSE, state |-> s]
    ELSE Replay(apply_payload(s, ops[1]), SubSeq(ops, 2, Len(ops)))

(* Two blocks that exchange names, and a worksheet the team protected, are *)
(* what diff documents it cannot express.                                  *)
NamesSwapped(plan) ==
    LET late == {i \in LiveNodes(plan.state) : TakesName(canonical(team), plan.state, i)}
    IN \E i \in late : i \in Least(late,
            [j \in late |-> Holders(canonical(team), plan.state, j) \cap late],
            Holders(canonical(team), plan.state, i) \cap late)

(* Under any choices a person makes, a plan without open conflicts can be  *)
(* carried out: its operations, in their order, pass the gate one by one   *)
(* from the team version and end in the planned state, which is therefore  *)
(* a sound tree.  diff orders creations, moves, restores, deletions and    *)
(* names; validate_merged_tree must have left nothing for the gate to      *)
(* refuse.                                                                 *)
PlanReplays ==
    Drifted => \A res \in Resolutions :
        \A plan \in {merge(base, team, draft, res)} :
        LET end == Replay(team, plan.ops)
        IN /\ plan.conflicts = {}
           /\ ~NamesSwapped(plan)
           /\ ~\E i \in DOMAIN team.nodes : team.nodes[i].locked
           => /\ end.ok
              /\ Shown(end.state) = Shown(plan.state)
              /\ check_invariants(plan.state)

(* Whatever is chosen, a loop, an orphan or a shared name that neither     *)
(* side had never stays in a merged state unless one of its blocks is an   *)
(* open conflict of the kind that reports it: only then does conflict mode *)
(* need no conflict of its own for it.  In conflict mode a plan without    *)
(* open conflicts has no violation that neither side had.                  *)
ViolationsReported ==
    Drifted => \A res \in Resolutions : \A answer \in {merge(base, team, draft, res)} :
        LET noted(s) == [nodes |-> s.nodes, removed |-> s.removed, comments |-> {[at |-> 2]},
                         suggestions |-> {}]
            plan == [state |-> noted(answer.state), conflicts |-> answer.conflicts]
            t == noted(canonical(team))
            d == noted(canonical(draft))
            new == introduced(plan.state, t, d)
        IN /\ \A v \in new : v.invariant \in {"G1", "G3", "G4"} => Covered(v, plan.conflicts)
           /\ apply_invariants(plan, t, d, "conflict").conflicts = {} => new = {}

(* Merging without a person is safe in either orientation: a clean         *)
(* convergence is a sound tree that keeps the notes only one side added,   *)
(* shows the same blocks whichever side has the smaller address, and       *)
(* leaves removed what either side removed.                                *)
ConvergeSound ==
    LET full(s, notes, hints) == [nodes |-> s.nodes, removed |-> s.removed,
                                  comments |-> notes, suggestions |-> hints]
        b == full(base, {}, {})
        l == full(team, {}, {[at |-> 2]})
        r == full(draft, {[at |-> 3]}, {})
    IN Drifted => \A one \in {converge(b, l, r, TRUE)}, two \in {converge(b, l, r, FALSE)} :
       /\ one.conflicts = two.conflicts
       /\ one.clean =>
            /\ check_invariants(one.merged)
            /\ one.merged.comments = r.comments /\ one.merged.suggestions = l.suggestions
            /\ Shown(one.merged) = Shown(two.merged)

-----------------------------------------------------------------------------
(* Two people commit to a project from one commit and merge.  Each side    *)
(* writes, removes and renames files; at every moment the two tips may be  *)
(* merged (prepare_merge).  The properties are about what that merge would *)
(* then commit.                                                            *)

CONSTANTS
    Trunks,       \* the file maps both sides can start from
    Writes,       \* the contents a side can write: [document, state]
    Paths,        \* the paths in use
    PathRank,     \* their order
    MaxCommits    \* commits of one side

ASSUME TrunksAssumption == \A f \in Trunks : ValidFiles(f)

VARIABLES trunk, tips, made

projectVars == <<trunk, tips, made>>

ProjectInit ==
    /\ trunk \in Trunks
    /\ tips = [left |-> trunk, right |-> trunk]
    /\ made = [left |-> 0, right |-> 0]

(* A commit of one side: whatever it staged, if the file map is valid.     *)
Commits(side, files) ==
    /\ made[side] < MaxCommits
    /\ files # tips[side]
    /\ ValidFiles(files)
    /\ tips' = [tips EXCEPT ![side] = files]
    /\ made' = [made EXCEPT ![side] = @ + 1]
    /\ UNCHANGED trunk

WriteFile(side, p, f) == Commits(side, (p :> f) @@ tips[side])
RemoveFile(side, p) ==
    Commits(side, [q \in DOMAIN tips[side] \ {p} |-> tips[side][q]])
RenameFile(side, p, to) ==
    /\ p \in DOMAIN tips[side]
    /\ Commits(side, (to :> tips[side][p])
                      @@ [q \in DOMAIN tips[side] \ {p} |-> tips[side][q]])

ProjectNext ==
    \E side \in {"left", "right"}, p \in Paths :
        \/ \E f \in Writes : WriteFile(side, p, f)
        \/ RemoveFile(side, p)
        \/ \E to \in Paths : RenameFile(side, p, to)

-----------------------------------------------------------------------------
Tip(files) == [parents |-> << >>, files |-> files, records |-> {}]
Prepared(l, r, res, first) == prepare_merge(Tip(trunk), Tip(l), Tip(r), TRUE, res, PathRank, first)
Documents(files) == {files[p].document : p \in DOMAIN files}

(* A merge nobody had to settle is never refused, and it is a commit that  *)
(* stands: no document twice, no file below a file, each merged file with  *)
(* the record that reproduces it.  A path only one side changed has that   *)
(* side's file, a document both tips have is still there, and merging in   *)
(* the other direction gives the same files.  Renames make the difference: *)
(* the plan looks at paths one by one, a document moves between two.  The  *)
(* report made beforehand promises exactly the files that then merge.      *)
ProjectMergeSound ==
    made.left + made.right > 0 => \A first \in BOOLEAN :
        \A out \in {Prepared(tips.left, tips.right, << >>, first)},
           back \in {Prepared(tips.right, tips.left, << >>, ~first)},
           report \in {same_file_convergence(trunk, tips.left, tips.right, PathRank, first).files} :
        LET l == tips.left
            r == tips.right
            files == out.commit.files
        IN /\ {p \in DOMAIN report : report[p].clean} = {e.path : e \in out.commit.records}
           /\ out.unresolved = back.unresolved
           /\ out.unresolved = {} =>
                /\ out.ok /\ back.ok
                /\ back.commit.files = files
                /\ verify_same_file_resolutions(out.commit, first)
                /\ \A p \in Paths :
                     ~Clashes(FileAt(trunk, p), FileAt(l, p), FileAt(r, p)) =>
                         FileAt(files, p) = OnlyChange(FileAt(trunk, p), FileAt(l, p), FileAt(r, p))
                /\ Documents(l) \cap Documents(r) \subseteq Documents(files)

(* Merging drafts and projects: no side is lost, the plan gives what it    *)
(* says, and nothing a merge breaks goes unreported.                       *)
MergeSound ==
    /\ KeepsBothSides /\ PlanReplays
    /\ ProjectMergeSound /\ ConvergeSound /\ ViolationsReported
=============================================================================
