--------------------------- MODULE MCDocumentTree ---------------------------
(***************************************************************************)
(* The block tree, for TLC.  Init chooses between a document behind its    *)
(* gate, which starts empty, and a team version and a draft that start     *)
(* from one of two small documents; in the second of these a deleted       *)
(* section can come back; and two tips of a project of a few files; or    *)
(* a question about rich text or a merge policy, which takes no step.      *)
(***************************************************************************)
EXTENDS MergePlans, MergePolicy

CONSTANT Scenes

VARIABLE scene

New(k, p, v) == [parent |-> p, kind |-> k, pos |-> 1, name |-> v, val |-> 0, ref |-> None,
                 locked |-> FALSE, deleted |-> FALSE]

MCBases ==
    {EmptyDoc,
     [nodes |-> (1 :> New("form", None, None) @@ 2 :> New("section", 1, None)
                 @@ 3 :> New("section", 1, 1)),
      removed |-> {}],
     [nodes |-> (1 :> New("form", None, None) @@ 2 :> New("section", 1, 1)
                 @@ 3 :> [New("section", 2, None) EXCEPT !.deleted = TRUE]),
      removed |-> {}]}

MCSideOps ==
    [op : {"created"}, id : {4}, node : {New("section", 2, 1), New("section", 3, None)}]
    \cup [op : {"moved"}, id : {2, 3, 4}, parent : {1, 2, 3, 4}, pos : {1}]
    \cup [op : {"renamed"}, id : {2, 3}, name : {1, 2}]
    \cup [op : {"edited"}, id : {2}, val : {1, 2}]
    \cup [op : {"locked"}, id : {3}, flag : {TRUE}]
    \cup [op : {"deleted", "restored"}, id : {2, 3, 4}]

Keys == {2, 3, 4} \X {"$node", "$location", "var_name", "val"}
MCResolutions ==
    {<<>>, [k \in Keys |-> [side |-> "team"]], [k \in Keys |-> [side |-> "draft"]],
     [k \in Keys |-> [side |-> IF k[1] = 3 THEN "team" ELSE "draft"]],
     [k \in Keys |-> IF k[2] = "var_name" THEN [side |-> "new", name |-> 2]
                     ELSE [side |-> "draft"]]}
MCGateOps ==
    {[op |-> "created", id |-> 1, node |-> New("form", None, None)],
     [op |-> "created", id |-> 2, node |-> New("section", 1, None)],
     [op |-> "created", id |-> 3, node |-> New("section", 2, 1)],
     [op |-> "created", id |-> 4, node |-> New("item", 3, 1)],
     [op |-> "choice_added", id |-> 4, choice |-> 5, val |-> 0, pos |-> 1],
     [op |-> "choice_removed", id |-> 4, choice |-> 5],
     [op |-> "refers", id |-> 2, ref |-> 1],
     [op |-> "renamed", id |-> 2, name |-> 1],
     [op |-> "renamed", id |-> 3, name |-> None]}
    \cup [op : {"moved"}, id : {2, 3}, parent : {1, 2, 3}, pos : {1}]
    \cup [op : {"locked"}, id : {2}, flag : BOOLEAN]
    \cup [op : {"deleted"}, id : {2, 3, 4}]
    \cup [op : {"restored"}, id : {2, 3, 5}]

\* A document of one section: its value, and the notes it carries.
Sheet(v, notes) ==
    [nodes |-> (1 :> New("form", None, None) @@ 2 :> [New("section", 1, None) EXCEPT !.val = v]),
     removed |-> {}, comments |-> notes, suggestions |-> {}]
Note == [at |-> 2]
MCPaths == {<<"a">>, <<"a", "b">>, <<"c">>}
MCRank == (<<"a">> :> 1 @@ <<"a", "b">> :> 2 @@ <<"c">> :> 3)
MCWrites == [document : {1, 2}, state : {Sheet(0, {}), Sheet(1, {}), Sheet(2, {}), Sheet(0, {Note})}]
MCTrunks ==
    {<< >>, <<"a">> :> [document |-> 1, state |-> Sheet(0, {})],
     <<"a">> :> [document |-> 1, state |-> Sheet(0, {})]
     @@ <<"c">> :> [document |-> 2, state |-> Sheet(0, {})]}

-----------------------------------------------------------------------------
(* Rich text and merge policies: the questions.                            *)

Para(toks) == Map([type |-> Leaf("paragraph"), content |-> List(children(toks))])
Doc(paras) == Map([type |-> Leaf("doc"), content |-> List(paras)])
Style(name) ==
    IF name = "keep" THEN Map([type |-> Leaf("text")])
    ELSE Map([type |-> Leaf("text"), marks |-> List(<<Map([type |-> Leaf(name)])>>)])
Mention == Map([type |-> Leaf("mention")])
Tok(c, name) == [ch |-> c, style |-> IF c = ATOM THEN Mention ELSE Style(name)]

\* What a side can do with a base text: restyle or drop tokens, add one.
Versions(b, styles, new) ==
    {FlattenSeq([n \in 1 .. Len(b) + 1 |->
        (IF n = 1 \/ ops[Max({1, n - 1})] = "drop" THEN << >> ELSE <<Tok(b[n - 1], ops[n - 1])>>)
        \o IF at = n THEN <<Tok(new, "keep")>> ELSE << >>]) :
        ops \in [1 .. Len(b) -> {"keep", "drop"} \cup styles], at \in 0 .. Len(b) + 1}
BaseTexts == {<<"a", "b">>, <<"a", "a">>, <<"a", ATOM>>, <<"a", "b", "a">>}
Plainly(b) == [n \in DOMAIN b |-> Tok(b[n], "keep")]

\* A longer text is restyled on one side only.
Restyles(b) == IF Len(b) > 2 THEN {} ELSE {"bold"}

AskText ==
    \E b \in BaseTexts : \E t \in Versions(b, Restyles(b), "x"), d \in Versions(b, Restyles(b) \cup {"italic"}, "y") :
        \E tm \in text_diff(Plainly(b), t), dm \in text_diff(Plainly(b), d) :
            question = [kind |-> "text", base |-> Para(Plainly(b)), team |-> Para(t), draft |-> Para(d),
                        tm |-> tm, dm |-> dm]

Inner == {Para(t) : t \in Versions(<<"a", "b">>, {"bold"}, "x")}
Few == {Para(t) : t \in Versions(<<"a">>, {"bold"}, "x")}
Whole ==
    Inner \cup {Para(t) : t \in Versions(<<"a", ATOM>>, {"bold"}, "x")}
    \cup {Doc(<<p>>) : p \in Few} \cup {Doc(<<p, q>>) : p, q \in Few}
    \cup {Doc(<<Doc(<<Doc(<<p>>)>>)>>) : p \in Few}
AskPatch == \E a \in Whole, b \in Whole : question = [kind |-> "patch", before |-> a, after |-> b]

In(b, t, d) == [base |-> b, team |-> t, draft |-> d]
Notes == {List(s) : s \in UNION {[1 .. n -> {Leaf(1), Leaf(2)}] : n \in 0 .. 3}}
Proposals == {Map(f) : f \in UNION {[ids -> {Leaf(1), Leaf(2)}] : ids \in SUBSET {"s1", "s2"}}}
Setups == {Map(f) : f \in UNION {[ids -> {Leaf(1), Leaf(2), Map([w |-> Leaf(1)]), Map([h |-> Leaf(1)])}]
                                   : ids \in SUBSET {"size", "margin"}}} \cup {Leaf(1)}
AskLaws(strategy, aspect, values) ==
    \E b, t, d \in values :
        question = [kind |-> "laws", strategy |-> strategy, aspect |-> aspect, in |-> In(b, t, d)]

\* Policies of one or two rules, some of them refused.
MCRules ==
    {[id |-> i, match |-> m, strategy |-> s, params |-> {}, gate |-> g] :
        i \in {1, 2},
        m \in {CatchAll, Named(<<"content">>),
               [CatchAll EXCEPT !.field = [body |-> <<"cell">>, star |-> TRUE]],
               [CatchAll EXCEPT !.types = [in |-> <<"item", "paragraph">>]]},
        s \in {"whole-value", "richtext", "prefers", "panics", "gone"},
        g \in {"auto", "auto-with-review", "manual", "blocked"}}
MCPolicies ==
    {DefaultPolicy} \cup
    {[DefaultPolicy EXCEPT !.rules = <<r>>, !.floors = f] :
        r \in MCRules, f \in {<< >>, [s \in {"richtext"} |-> "manual"]}}
    \cup {[DefaultPolicy EXCEPT !.rules = <<r, q>>, !.unknown = "blocked"] :
        r \in {r \in MCRules : r.gate = "manual" /\ r.strategy = "richtext"},
        q \in {q \in MCRules : q.gate \in {"auto", "auto-with-review"} /\ q.strategy = "richtext"}}
Asked == {<<"content">>, <<"page_setup">>, <<"cell", "a">>, <<"var_name">>}
Answers == {<< >>, [f \in Asked |-> [side |-> "draft"]], [f \in Asked |-> [side |-> "new", name |-> 9]]}
Differences ==
    {In(Para(Plainly(<<"a", "b">>)), Para(t), Para(d)) :
        t \in {<<Tok("b", "keep")>>, <<Tok("a", "bold"), Tok("b", "keep")>>},
        d \in {<<Tok("a", "keep"), Tok("b", "keep"), Tok("y", "keep")>>, <<Tok("a", "italic")>>, << >>}}
    \cup {In(Map([size |-> Leaf(1)]), Map([size |-> Leaf(1), w |-> Leaf(1)]), Map([size |-> Leaf(n)])) : n \in {1, 2}}
AskPolicy ==
    \E p \in MCPolicies, n \in {"item", "section"}, f \in Asked, i \in Differences, r \in Answers :
        question = [kind |-> "policy", policy |-> p, in |-> i, res |-> r,
                    at |-> [family |-> "document", node_type |-> n, field |-> f, aspect |-> "none"]]

NotePolicies ==
    {DefaultPolicy} \cup
    {[DefaultPolicy EXCEPT !.rules = <<[r EXCEPT !.match.aspect = "comments", !.strategy = s]>>] :
        r \in {r \in MCRules : r.match = CatchAll /\ r.id = 1}, s \in {"element-wise", "whole-value"}}
AskNotes ==
    \E p \in NotePolicies : \E b, t, d \in {n \in Notes : Len(n.l) <= 2} :
        question = [kind |-> "policy", policy |-> p, in |-> In(b, t, d), res |-> << >>,
                    at |-> [family |-> "document", node_type |-> "item", field |-> <<"comments">>,
                            aspect |-> "comments"]]

Asks ==
    \/ scene = "texts" /\ AskText
    \/ scene = "patches" /\ AskPatch
    \/ scene = "laws" /\ (\/ AskLaws("element-wise", "comments", Notes)
                         \/ AskLaws("element-wise", "suggestions", Proposals)
                         \/ AskLaws("property", "none", Setups))
    \/ scene = "policies" /\ (AskPolicy \/ AskNotes)
    \/ scene \notin {"texts", "patches", "laws", "policies"} /\ question = [kind |-> "none"]

-----------------------------------------------------------------------------
Init ==
    /\ GateInit
    /\ MergeInit
    /\ ProjectInit
    /\ scene \in Scenes
    /\ (base = EmptyDoc) = (scene # "merge")
    /\ scene # "project" => trunk = << >>
    /\ Asks

Next ==
    /\ UNCHANGED <<scene, question>>
    /\ \/ scene = "gate" /\ GateNext /\ UNCHANGED <<mergeVars, projectVars>>
       \/ scene = "merge" /\ MergeNext /\ UNCHANGED <<gateVars, projectVars>>
       \/ scene = "project" /\ ProjectNext /\ UNCHANGED <<gateVars, mergeVars>>

Spec == Init /\ [][Next]_<<gateVars, mergeVars, projectVars, question, scene>>
=============================================================================
