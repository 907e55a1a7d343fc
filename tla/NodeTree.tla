------------------------------ MODULE NodeTree ------------------------------
(***************************************************************************)
(* The block tree of a document, the operations on it, and the gate in     *)
(* front of its log.                                                       *)
(***************************************************************************)
EXTENDS Integers, FiniteSets, Reachability, TLC

-----------------------------------------------------------------------------
(* The block tree of a document: a set of identified blocks with a parent, *)
(* a position, a variable name and one content field, the operations on    *)
(* it, when an operation is valid against a state and what folding it in   *)
(* does.  Deleted blocks stay as tombstones: they can be moved and         *)
(* renamed, so that a restore brings them back elsewhere.  Every value of  *)
(* the content field stands for a whole set of fields; node types other    *)
(* than the questionnaire ones behave like these.                          *)

CONSTANTS
    Ids,          \* block identifiers
    Names,        \* variable names
    Positions,    \* sibling positions
    Values,       \* what the one content field can hold
    None          \* no parent, no name, no reference

ASSUME NoneAssumption == None \notin Ids \cup Names

Kinds == {"form", "section", "item", "choice"}

(* MaterializedNode: ref is the variable its relevance expression names;   *)
(* locked is the protection flag of a worksheet section.                   *)
Nodes ==
    [parent : Ids \cup {None}, kind : Kinds, pos : Positions,
     name : Names \cup {None}, val : Values, ref : Names \cup {None},
     locked : BOOLEAN, deleted : BOOLEAN]

(* EventPayload, the variants that change the tree.                        *)
TreeOps ==
         [op : {"created"}, id : Ids, node : {n \in Nodes : ~n.deleted}]
    \cup [op : {"moved"}, id : Ids, parent : Ids \cup {None}, pos : Positions]
    \cup [op : {"renamed"}, id : Ids, name : Names \cup {None}]
    \cup [op : {"edited"}, id : Ids, val : Values]
    \cup [op : {"refers"}, id : Ids, ref : Names \cup {None}]
    \cup [op : {"locked"}, id : Ids, flag : BOOLEAN]
    \cup [op : {"deleted", "restored"}, id : Ids]
    \cup [op : {"choice_added"}, id : Ids, choice : Ids, val : Values, pos : Positions]
    \cup [op : {"choice_removed"}, id : Ids, choice : Ids]

EmptyDoc == [nodes |-> <<>>, removed |-> {}]

Present(s, i) == i \in DOMAIN s.nodes
Live(s, i) == Present(s, i) /\ ~s.nodes[i].deleted /\ i \notin s.removed

(* var_name_taken: a removed choice still holds its name.                  *)
NameTaken(s, v, except) ==
    \E i \in DOMAIN s.nodes \ except : ~s.nodes[i].deleted /\ s.nodes[i].name = v

can_contain(parent, child) ==
    <<parent, child>> \in
        {<<"form", "section">>, <<"form", "item">>, <<"section", "section">>,
         <<"section", "item">>, <<"item", "choice">>}

ParentOf(s) ==
    [i \in DOMAIN s.nodes |-> {s.nodes[i].parent} \cap DOMAIN s.nodes]

(* The blocks a walk over parent links meets above a block, itself too.    *)
Above(s, i) ==
    LET walk[n \in 0 .. Cardinality(DOMAIN s.nodes)] ==
            IF n = 0 THEN {i}
            ELSE LET met == walk[n - 1] IN met \cup UNION {ParentOf(s)[j] : j \in met}
    IN walk[Cardinality(DOMAIN s.nodes)]
is_descendant_of(s, candidate, ancestor) ==
    \E i \in Above(s, candidate) : s.nodes[i].parent = ancestor

validate_node_created(s, op) ==
    /\ ~Present(s, op.id)
    /\ IF op.node.parent = None
       THEN op.node.kind = "form"
       ELSE /\ Present(s, op.node.parent)
            /\ ~s.nodes[op.node.parent].deleted
            /\ can_contain(s.nodes[op.node.parent].kind, op.node.kind)
    /\ op.node.name # None => ~NameTaken(s, op.node.name, {})

(* A tombstone may move; the restore then checks where it comes back.      *)
validate_node_moved(s, op) ==
    /\ op.id \notin s.removed
    /\ Present(s, op.id)
    /\ IF op.parent = None
       THEN s.nodes[op.id].kind = "form"
       ELSE /\ Live(s, op.parent)
            /\ can_contain(s.nodes[op.parent].kind, s.nodes[op.id].kind)
            /\ op.parent # op.id
            /\ ~is_descendant_of(s, op.parent, op.id)

(* A mutant: the name a restored block comes back with is not looked up.   *)
validate_restored_unnamed(s, i) ==
    /\ Present(s, i)
    /\ ~Live(s, i)
    /\ s.nodes[i].parent # None => Live(s, s.nodes[i].parent)
validate_node_restored(s, i) ==
    /\ Present(s, i)
    /\ ~Live(s, i)
    /\ s.nodes[i].parent # None => Live(s, s.nodes[i].parent)
    /\ s.nodes[i].name # None => ~NameTaken(s, s.nodes[i].name, {i})

validate_node_deleted(s, i) ==
    /\ \A c \in DOMAIN s.nodes : s.nodes[c].parent = i => ~Live(s, c)
    /\ Present(s, i)
    /\ ~s.nodes[i].deleted

validate_op(s, op) ==
    CASE op.op = "created" -> validate_node_created(s, op)
      [] op.op = "moved" -> validate_node_moved(s, op)
      [] op.op = "renamed" -> /\ op.id \notin s.removed
                              /\ Present(s, op.id)
                              /\ op.name # None => ~NameTaken(s, op.name, {op.id})
      [] op.op \in {"edited", "refers", "locked"} -> Live(s, op.id)
      [] op.op = "restored" -> validate_node_restored(s, op.id)
      [] op.op = "deleted" -> validate_node_deleted(s, op.id)
      [] op.op = "choice_added" -> /\ Live(s, op.id)
                                   /\ s.nodes[op.id].kind = "item"
                                   /\ ~Present(s, op.choice)
      [] op.op = "choice_removed" -> /\ Live(s, op.id)
                                     /\ Present(s, op.choice)
                                     /\ s.nodes[op.choice].parent = op.id
                                     /\ Live(s, op.choice)

(* check_sheet_protection: nothing below a protected sheet changes, except *)
(* the flag itself.                                                        *)
Protected(s, i) ==
    \E a \in Above(s, i) : s.nodes[a].kind = "section" /\ s.nodes[a].locked
check_sheet_protection(s, op) ==
    LET touched == CASE op.op = "created" -> {op.node.parent}
                     [] op.op = "moved" -> {op.id, op.parent}
                     [] OTHER -> {op.id}
    IN IF op.op = "locked"
       THEN s.nodes[op.id].kind = "section"
       ELSE \A i \in touched \cap DOMAIN s.nodes : ~Protected(s, i)

(* apply_payload: an added choice that is already there only comes back.   *)
Put(s, i, node) == [s EXCEPT !.nodes = (i :> node) @@ @]
apply_payload(s, op) ==
    CASE op.op = "created" -> Put(s, op.id, op.node)
      [] op.op = "moved" ->
            Put(s, op.id, [s.nodes[op.id] EXCEPT !.parent = op.parent, !.pos = op.pos])
      [] op.op = "renamed" -> Put(s, op.id, [s.nodes[op.id] EXCEPT !.name = op.name])
      [] op.op = "edited" -> Put(s, op.id, [s.nodes[op.id] EXCEPT !.val = op.val])
      [] op.op = "refers" -> Put(s, op.id, [s.nodes[op.id] EXCEPT !.ref = op.ref])
      [] op.op = "locked" -> Put(s, op.id, [s.nodes[op.id] EXCEPT !.locked = op.flag])
      [] op.op = "deleted" -> Put(s, op.id, [s.nodes[op.id] EXCEPT !.deleted = TRUE])
      [] op.op = "restored" ->
            [Put(s, op.id, [s.nodes[op.id] EXCEPT !.deleted = FALSE])
                EXCEPT !.removed = @ \ {op.id}]
      [] op.op = "choice_added" ->
            [Put(s, op.choice,
                 IF Present(s, op.choice) THEN s.nodes[op.choice]
                 ELSE [parent |-> op.id, kind |-> "choice", pos |-> op.pos, name |-> None,
                       val |-> op.val, ref |-> None, locked |-> FALSE, deleted |-> FALSE])
                EXCEPT !.removed = @ \ {op.choice}]
      [] op.op = "choice_removed" -> [s EXCEPT !.removed = @ \cup {op.choice}]

(* validate_integrity: names defined twice, references to no live name,    *)
(* and visibility that depends on itself.                                  *)
LiveNodes(s) == {i \in DOMAIN s.nodes : ~s.nodes[i].deleted}
Defines(s, v) == {i \in LiveNodes(s) : s.nodes[i].name = v}
Relevance(s) ==
    [i \in LiveNodes(s) |->
        IF s.nodes[i].ref = None THEN {} ELSE Defines(s, s.nodes[i].ref)]
DependsOnItself(s, i) ==
    i \in Least(LiveNodes(s), Relevance(s), Relevance(s)[i])
validate_integrity(s) ==
    /\ \A v \in Names : Cardinality(Defines(s, v)) <= 1
    /\ \A i \in LiveNodes(s) :
          s.nodes[i].ref # None => Defines(s, s.nodes[i].ref) # {}
    /\ \A i \in LiveNodes(s) : ~DependsOnItself(s, i)

-----------------------------------------------------------------------------
(* check_invariants on one state: a live block hangs below a live block,   *)
(* and no two live blocks answer to one variable name.                     *)
ParentsLive(s) ==
    \A i \in DOMAIN s.nodes :
        Live(s, i) /\ s.nodes[i].parent # None => Live(s, s.nodes[i].parent)
NamesUnique(s) ==
    \A i, j \in DOMAIN s.nodes :
        /\ Live(s, i) /\ Live(s, j)
        /\ s.nodes[i].name = s.nodes[j].name
        /\ s.nodes[i].name # None
        => i = j
(* check_invariants, the parent walk: no live block is above itself.       *)
NoCycle(s) ==
    \A i \in DOMAIN s.nodes : Live(s, i) => ~is_descendant_of(s, i, i)
check_invariants(s) == ParentsLive(s) /\ NamesUnique(s) /\ NoCycle(s)

-----------------------------------------------------------------------------
(* The gate in front of a document's log.  An operation is validated       *)
(* against the current state, checked against worksheet protection and     *)
(* against the actor's role, and only then folded in.  A reviewer's change *)
(* waits as a suggestion and is validated a second time, against the state *)
(* of then, when an author accepts it.                                     *)

CONSTANTS
    Suggestions,  \* suggestion identifiers
    GateOps       \* the operations that clients send

ASSUME GateAssumption == GateOps \subseteq TreeOps

Roles == {"author", "reviewer", "auditor"}

VARIABLES
    doc,          \* DocumentState: nodes and removed choices
    suggestions,  \* suggestion -> wrapped operation and status
    deployed      \* a Deployed event is in the log

gateVars == <<doc, suggestions, deployed>>

NoSuggestion == [op |-> None, status |-> "none"]

GateInit ==
    /\ doc = EmptyDoc
    /\ suggestions = [g \in Suggestions |-> NoSuggestion]
    /\ deployed = FALSE

(* can_perform: an auditor appends nothing, a reviewer only proposes.      *)
CanPerform(role, what) ==
    \/ role = "author"
    \/ role = "reviewer" /\ what = "propose"

Authorized(role, op) ==
    /\ CanPerform(role, "write")
    /\ validate_op(doc, op)
    /\ check_sheet_protection(doc, op)

Perform(role, op) ==
    /\ Authorized(role, op)
    /\ doc' = apply_payload(doc, op)
    /\ UNCHANGED <<suggestions, deployed>>

(* SuggestionProposed: the wrapped operation must be valid now; protection *)
(* does not stop a proposal.                                               *)
Propose(role, g, op) ==
    /\ CanPerform(role, "propose")
    /\ suggestions[g].status = "none"
    /\ validate_op(doc, op)
    /\ suggestions' = [suggestions EXCEPT ![g] = [op |-> op, status |-> "pending"]]
    /\ UNCHANGED <<doc, deployed>>

(* plan_acceptance: pending, and the wrapped operation authorized against  *)
(* the state of now; both events land in one transaction.                  *)
plan_acceptance(role, g) ==
    /\ CanPerform(role, "resolve")
    /\ suggestions[g].status = "pending"
    /\ Authorized(role, suggestions[g].op)
Accept(role, g) ==
    /\ plan_acceptance(role, g)
    /\ doc' = apply_payload(doc, suggestions[g].op)
    /\ suggestions' = [suggestions EXCEPT ![g].status = "accepted"]
    /\ UNCHANGED deployed

Reject(role, g) ==
    /\ CanPerform(role, "resolve")
    /\ suggestions[g].status = "pending"
    /\ suggestions' = [suggestions EXCEPT ![g].status = "rejected"]
    /\ UNCHANGED <<doc, deployed>>

(* authorize of Deployed: the integrity pass over the whole state.         *)
Deploy(role) ==
    /\ CanPerform(role, "deploy")
    /\ validate_integrity(doc)
    /\ deployed' = TRUE
    /\ UNCHANGED <<doc, suggestions>>

GateNext ==
    \/ \E role \in Roles, op \in GateOps : Perform(role, op)
    \/ \E role \in Roles, g \in Suggestions, op \in GateOps : Propose(role, g, op)
    \/ \E role \in Roles, g \in Suggestions : Accept(role, g) \/ Reject(role, g)
    \/ \E role \in Roles : Deploy(role)

GateSpec == GateInit /\ [][GateNext]_gateVars

-----------------------------------------------------------------------------
(* Whatever operations, proposals and acceptances are let through, and in  *)
(* whatever order, check_invariants finds nothing: every live block hangs  *)
(* below live blocks up to a root, and no variable name is defined twice.  *)
(* validate_op sees one operation against one state, a restore brings back *)
(* what moved and was renamed while deleted, and an acceptance applies an  *)
(* operation that was validated against an older state.                    *)
TreeSound == check_invariants(doc)
=============================================================================
