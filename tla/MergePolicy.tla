---------------------------- MODULE MergePolicy -----------------------------
(***************************************************************************)
(* Merge policies (engine-core/src/merge_policy): the rules that send a    *)
(* three-way difference to a strategy, the gate that decides whether its   *)
(* answer may be applied, and the laws a strategy promises.                *)
(*                                                                         *)
(* A field name is a sequence of segments, so that a pattern is a prefix   *)
(* of it.  A digest in the evidence is the value it is taken over.         *)
(***************************************************************************)
EXTENDS RichText

CONSTANT MaxElements    \* the largest collection that is merged by element

Sides == {"base", "team", "draft"}
Merged(v) == [kind |-> "merged", v |-> v]
Conflict(reason) == [kind |-> "conflict", reason |-> reason]

-----------------------------------------------------------------------------
(* The strategies.  An input i has a base, a team and a draft side.        *)

Unchanged(i) == i.draft = i.base \/ i.draft = i.team \/ i.team = i.base
unchanged_side(i) == Merged(IF i.draft = i.base \/ i.draft = i.team THEN i.team ELSE i.draft)

WholeValue(i) == IF Unchanged(i) THEN unchanged_side(i) ELSE Conflict("both-changed")

MergedOr(out) == IF out.ok THEN Merged(out.v) ELSE Conflict("overlap")
RichTextMerge(i) ==
    LET toks(v) == inline(v, TRUE).toks
    IN IF Unchanged(i) THEN unchanged_side(i)
       ELSE MergedOr(richtext_merge(i.base, i.team, i.draft, Myers(toks(i.base), toks(i.team)),
                                    Myers(toks(i.base), toks(i.draft))))

PropertyMerge(i) ==
    LET some(out) == IF out.v = Absent THEN Refused ELSE out
    IN IF Unchanged(i) THEN unchanged_side(i)
       ELSE MergedOr(some(merge_property(i.base, i.team, i.draft)))

(* Suggestions, one by one: settle each as a whole value.                  *)
settle(b, t, d) == IF d = b \/ d = t THEN Ok(t) ELSE IF t = b THEN Ok(d) ELSE Refused
suggestions_by_id(i) ==
    LET ids == UNION {DOMAIN i[s].m : s \in Sides}
        at(id) == settle(Get(i.base, id), Get(i.team, id), Get(i.draft, id))
    IN IF \E s \in Sides : i[s].k # "map" THEN Conflict("unsupported-shape")
       ELSE IF \E id \in ids : ~at(id).ok THEN Conflict("element-differs")
       ELSE Merged(Map([id \in {id \in ids : at(id).v # Absent} |-> at(id).v]))

(* Comments, as a multiset: the larger of two additions or of two          *)
(* removals, the sum of one of each.                                       *)
Count(s, x) == Cardinality({n \in DOMAIN s : s[n] = x})
(* A mutant: of two additions the team's is taken, not the larger.         *)
Wanted_team(b, t, d) ==
    IF t >= b /\ d >= b THEN t
    ELSE IF t <= b /\ d <= b THEN Min({t, d}) ELSE t + d - b
Wanted(b, t, d) ==
    IF t >= b /\ d >= b THEN Max({t, d})
    ELSE IF t <= b /\ d <= b THEN Min({t, d}) ELSE t + d - b
comments_multiset(i) ==
    LET b == i.base.l
        all == Range(b) \cup Range(i.team.l) \cup Range(i.draft.l)
        want(x) == Wanted(Count(b, x), Count(i.team.l, x), Count(i.draft.l, x))
        stays(n) == Count(SubSeq(b, 1, n), b[n]) <= want(b[n])
        kept == FlattenSeq([n \in DOMAIN b |-> IF stays(n) THEN <<b[n]>> ELSE << >>])
        order == SetToSortSeq(all, LAMBDA x, y : x.v < y.v)
        new == [n \in DOMAIN order |->
                  [m \in 1 .. want(order[n]) - Count(kept, order[n]) |-> order[n]]]
    IN IF \E s \in Sides : i[s].k # "list" THEN Conflict("unsupported-shape")
       ELSE Merged(List(kept \o FlattenSeq(new)))

Size(v) == IF v.k = "map" THEN Cardinality(DOMAIN v.m) ELSE Len(Items(v))
ElementWise(i, aspect) ==
    IF Unchanged(i) THEN unchanged_side(i)
    ELSE IF \E s \in Sides : Size(i[s]) > MaxElements THEN Conflict("too-large")
    ELSE IF aspect = "suggestions" THEN suggestions_by_id(i)
    ELSE IF aspect = "comments" THEN comments_multiset(i) ELSE Conflict("unsupported-shape")

(* The built-in registry, and two strategies a caller could register: one  *)
(* that prefers a side, one that panics.                                   *)
Registry == {"whole-value", "richtext", "property", "element-wise", "prefers", "panics"}
aspects(s) == IF s = "element-wise" THEN {"comments", "suggestions"} ELSE {}
resolve(s, i, aspect) ==
    CASE s = "whole-value" -> WholeValue(i)
      [] s = "richtext" -> RichTextMerge(i)
      [] s = "property" -> PropertyMerge(i)
      [] s = "element-wise" -> ElementWise(i, aspect)
      [] s = "prefers" -> [kind |-> "prefer", side |-> "draft"]
      [] s = "panics" -> [kind |-> "panic"]

(* The laws of the harness, for the strategies that promise them.          *)
swapped(i) == [base |-> i.base, team |-> i.draft, draft |-> i.team]
Lawful(s, i, aspect) ==
    LET run(b, t, d) == resolve(s, [base |-> b, team |-> t, draft |-> d], aspect)
    IN /\ s # "richtext" => resolve(s, swapped(i), aspect) = resolve(s, i, aspect)
       /\ \A x \in {i.team, i.draft} :
              /\ run(i.base, x, x) = Merged(x)
              /\ run(i.base, i.base, x) = Merged(x)
              /\ run(i.base, x, i.base) = Merged(x)

-----------------------------------------------------------------------------
(* The policy.                                                             *)

Gates == <<"auto", "auto-with-review", "manual", "blocked">>
Rank(g) == CHOOSE n \in DOMAIN Gates : Gates[n] = g
Stricter(g, h) == IF Rank(g) >= Rank(h) THEN g ELSE h

Every == [any |-> TRUE]
CatchAll == [family |-> Every, types |-> Every, field |-> Every, aspect |-> "none"]
matches(m, probe) ==
    /\ m.aspect = probe.aspect
    /\ m.family \in {Every, [is |-> probe.family]}
    /\ m.types = Every \/ {probe.node_type, probe.block_type} \cap Range(m.types.in) # {}
    /\ m.field = Every \/ IF m.field.star THEN IsPrefix(m.field.body, probe.field)
                        ELSE probe.field = m.field.body

NoRule == [id |-> 0]
(* A mutant: the last rule that matches decides.                           *)
find_rule_last(policy, probe) ==
    LET hits == {n \in DOMAIN policy.rules : matches(policy.rules[n].match, probe)}
    IN IF hits = {} THEN NoRule ELSE policy.rules[Max(hits)]
find_rule(policy, probe) ==
    LET hits == {n \in DOMAIN policy.rules : matches(policy.rules[n].match, probe)}
    IN IF hits = {} THEN NoRule ELSE policy.rules[Min(hits)]
effective_gate(policy, rule) ==
    IF rule.strategy \in DOMAIN policy.floors
    THEN Stricter(rule.gate, policy.floors[rule.strategy]) ELSE rule.gate

CONSTANTS MaxRules, MaxTypes

(* validate_match and validate_strategy: what is wrong with a rule, if     *)
(* anything is.  No built-in strategy takes a parameter.                   *)
sorted(m) == IF m.types = Every THEN m ELSE [m EXCEPT !.types = [in |-> Range(m.types.in)]]
validate_match(m) ==
    IF m.types = Every THEN "ok"
    ELSE IF \/ Len(m.types.in) \notin 1 .. MaxTypes
            \/ Cardinality(Range(m.types.in)) < Len(m.types.in) THEN "match-type"
    ELSE "ok"
validate_strategy(policy, rule) ==
    IF rule.strategy \notin Registry THEN "unknown-strategy"
    ELSE IF rule.match.aspect \notin aspects(rule.strategy)
            /\ ~(rule.match.aspect = "none" /\ aspects(rule.strategy) = {}) THEN "aspect-mismatch"
    ELSE IF rule.params # {} THEN "unknown-parameter"
    ELSE IF Rank(rule.gate) < Rank(effective_gate(policy, rule)) THEN "weakens-floor"
    ELSE "ok"
is_catch_all(m) == m = CatchAll
validate_rule(policy, n) ==
    LET rule == policy.rules[n]
        earlier == {policy.rules[k] : k \in 1 .. n - 1}
    IN IF \E e \in earlier : e.id = rule.id THEN "duplicate-rule-id"
       ELSE IF validate_match(rule.match) # "ok" THEN validate_match(rule.match)
       ELSE IF validate_strategy(policy, rule) # "ok" THEN validate_strategy(policy, rule)
       ELSE IF \E e \in earlier : is_catch_all(e.match) \/ sorted(e.match) = sorted(rule.match)
       THEN "shadowed" ELSE "ok"

(* validate: the first complaint, in a fixed order.                        *)
validate(policy) ==
    LET bad == {n \in DOMAIN policy.rules : validate_rule(policy, n) # "ok"}
    IN CASE Len(policy.rules) > MaxRules -> "too-many-rules"
         [] Len(policy.rules) <= MaxRules /\ bad # {} -> validate_rule(policy, Min(bad))
         [] Len(policy.rules) <= MaxRules /\ bad = {} /\ ~(DOMAIN policy.floors \subseteq Registry) ->
               "unknown-floor-strategy"
         [] OTHER -> "ok"

(* The policy that stands for the merge as it was before there were any.   *)
Named(f) == [CatchAll EXCEPT !.field = [body |-> f, star |-> FALSE]]
DefaultPolicy ==
    [rules |-> << [id |-> 1, match |-> Named(<<"content">>), strategy |-> "richtext",
                   params |-> {}, gate |-> "auto"],
                  [id |-> 2, match |-> Named(<<"page_setup">>), strategy |-> "property",
                   params |-> {}, gate |-> "auto"],
                  [id |-> 3, match |-> CatchAll, strategy |-> "whole-value",
                   params |-> {}, gate |-> "auto"] >>,
     unknown |-> "manual", floors |-> << >>, invariants |-> "flag"]

-----------------------------------------------------------------------------
(* The engine.                                                             *)

(* For the content field a rule may also name the block type of the value. *)
block_type(field, i) ==
    LET kinds == SelectSeq(<<i.team, i.draft, i.base>>, LAMBDA v : TypeOf(v).k = "leaf")
    IN IF field = <<"content">> /\ kinds # << >> THEN TypeOf(kinds[1]).v ELSE "none"

NoValue == [ok |-> FALSE, v |-> Absent]
Decided(value, rule, gate, strategy, reason) ==
    [value |-> value, rule |-> rule.id, gate |-> gate, strategy |-> strategy, reason |-> reason,
     outcome |-> IF value.ok THEN "merged" ELSE "conflict",
     needs_review |-> value.ok /\ gate = "auto-with-review", choice |-> "none", key |-> {}]

(* A mutant: a manual gate applies what the strategy merged.               *)
Passes_manual(gate) == gate # "blocked"
Passes(gate) == gate \notin {"manual", "blocked"}
(* decide: the first rule that matches, its gate, its strategy; only a     *)
(* merged value that passes the gate is an answer.                         *)
Gated(rule, gate, out) ==
    CASE out.kind = "panic" -> Decided(NoValue, rule, gate, rule.strategy, "internal-error")
      [] out.kind = "prefer" -> Decided(NoValue, rule, gate, rule.strategy, "prefer-unsupported")
      [] out.kind = "conflict" -> Decided(NoValue, rule, gate, rule.strategy, out.reason)
      [] OTHER -> IF Passes(gate) THEN Decided(Ok(out.v), rule, gate, rule.strategy, "merged")
                  ELSE Decided(NoValue, rule, gate, rule.strategy, "manual-gate")
decide_by(policy, rule, aspect, i) ==
    LET gate == effective_gate(policy, rule)
    IN IF rule = NoRule
       THEN Decided(NoValue, rule, "none", "none",
                    IF policy.unknown = "manual" THEN "no-rule" ELSE "no-rule-blocked")
       ELSE IF gate = "blocked" THEN Decided(NoValue, rule, gate, "none", "blocked")
       ELSE IF rule.strategy \notin Registry
       THEN Decided(NoValue, rule, gate, "none", "unknown-strategy")
       ELSE Gated(rule, gate, resolve(rule.strategy, i, aspect))
decide(policy, at, i) ==
    LET probe == [family |-> at.family, node_type |-> at.node_type, field |-> at.field,
                  aspect |-> at.aspect, block_type |-> block_type(at.field, i)]
    IN decide_by(policy, find_rule(policy, probe), at.aspect, i)

(* What a selection leaves behind: the value, the conflict it reports and  *)
(* the decision it records.                                                *)
Selected(v, conflicts, decisions) == [v |-> v, conflicts |-> conflicts, decisions |-> decisions]
Choice(res, field) == IF field \in DOMAIN res THEN res[field] ELSE [side |-> "none"]
IsNewName(c, field) == field = <<"var_name">> /\ c.side = "new"
Pick(c, i) == IF c.side = "draft" THEN i.draft ELSE IF c.side = "new" THEN Leaf(c.name) ELSE i.team

(* Engine::select.                                                         *)
SelectedBy(d, c, field, i) ==
    IF d.value.ok THEN Selected(d.value.v, {}, <<d>>)
    ELSE IF c.side \in {"draft", "team"} \/ IsNewName(c, field)
    THEN Selected(Pick(c, i), {}, <<[d EXCEPT !.outcome = "explicit", !.choice = c.side]>>)
    ELSE Selected(i.team, {field}, <<[d EXCEPT !.key = {field}]>>)
engine_select(policy, at, i, res) ==
    IF Unchanged(i) THEN Selected(unchanged_side(i).v, {}, << >>)
    ELSE SelectedBy(decide(policy, at, i), Choice(res, at.field), at.field, i)

(* The plain select of workspace_merge.                                    *)
DirectSelect(at, i, res) ==
    LET c == Choice(res, at.field)
        chosen(out) ==
            IF out.kind = "merged" THEN Selected(out.v, {}, << >>)
            ELSE IF c.side \in {"draft", "team"} \/ IsNewName(c, at.field)
            THEN Selected(Pick(c, i), {}, << >>)
            ELSE Selected(i.team, {at.field}, << >>)
    IN chosen(CASE at.field = <<"content">> -> RichTextMerge(i)
                [] at.field = <<"page_setup">> -> PropertyMerge(i)
                [] OTHER -> WholeValue(i))

(* Engine::collection: a collection no rule decides is one whole value.    *)
three_way(i) == IF Unchanged(i) THEN Ok(unchanged_side(i).v) ELSE Refused
collection(policy, at, i) ==
    LET probe == [family |-> at.family, node_type |-> "none", block_type |-> "none",
                  field |-> at.field, aspect |-> at.aspect]
        taken(d) ==
            IF ~d.value.ok /\ (d.strategy = "none" \/ d.reason \in {"manual-gate", "internal-error"})
            THEN three_way(i) ELSE d.value
    IN IF Unchanged(i) \/ find_rule(policy, probe) = NoRule THEN three_way(i)
       ELSE taken(decide(policy, [at EXCEPT !.node_type = "none"], i))

-----------------------------------------------------------------------------
(* What the code is asked: the merge of a text, a patch, the laws of a     *)
(* strategy or the decision of a policy.                                   *)

VARIABLE question

(* The places of a text: gap g is after token g of the base.  A side's new *)
(* tokens stand in the gap after the last kept token before them.          *)
GapOf(M, j) == Max({0} \cup {p[1] : p \in {q \in M : q[2] < j}})
NewAt(x, M, g) ==
    FlattenSeq([j \in DOMAIN x |->
        IF (\A p \in M : p[2] # j) /\ GapOf(M, j) = g THEN <<x[j].ch>> ELSE << >>])
KeptAt(b, q, i) == IF i > 0 /\ Aligned(q.tm, i) /\ Aligned(q.dm, i) THEN <<b[i].ch>> ELSE << >>
Expected(b, t, d, q) ==
    FlattenSeq([n \in 1 .. Len(b) + 1 |->
        KeptAt(b, q, n - 1) \o NewAt(t, q.tm, n - 1) \o NewAt(d, q.dm, n - 1)])
Chars(toks) == [i \in DOMAIN toks |-> toks[i].ch]

(* richtext::merge either reports a conflict or keeps every edit of both   *)
(* sides in place: each token one side added stands in its gap, a token    *)
(* either side deleted is gone, and exchanging the sides gives the same    *)
(* text.  The hunks of the two sides are sorted, spliced into the base and *)
(* regrouped into runs; which longest match the diff found does not        *)
(* matter.                                                                 *)
TextMergeExact ==
    question.kind = "text" =>
        LET q == question
            toks(v) == inline(v, TRUE).toks
        IN \A out \in {richtext_merge(q.base, q.team, q.draft, q.tm, q.dm)},
              back \in {richtext_merge(q.base, q.draft, q.team, q.dm, q.tm)} :
           /\ out.ok = back.ok
           /\ out.ok /\ ~Unchanged(q) =>
                /\ Chars(toks(out.v)) = Expected(toks(q.base), toks(q.team), toks(q.draft), q)
                /\ Chars(toks(back.v)) = Chars(toks(out.v))

(* make_patch finds a patch between any two values in normal form, however *)
(* deep they differ, and the patch takes the one to exactly the other: the *)
(* event log may store it instead of the value (compact_event).            *)
PatchReplays ==
    question.kind = "patch" =>
        \A e \in compact_event(question.before, question.after) :
            /\ make_patch(question.before, question.after).ok
            /\ e.event = "patched" =>
                 /\ apply_patch(question.before, e.patch) = Ok(question.after)
                 /\ analyze(question.after).text_scalars
                       = Len(SelectSeq(plain_text(apply_patch(question.before, e.patch).v),
                                       LAMBDA c : c # "\n"))

(* Every built-in strategy keeps the laws it promises (laws::check): the   *)
(* sides may be exchanged, equal changes and a single change are taken as  *)
(* they are.  Element-wise merging counts additions and removals of equal  *)
(* comments, where the laws are easiest to break.                          *)
StrategyLaws ==
    question.kind = "laws" => Lawful(question.strategy, question.in, question.aspect)

(* Under the default policy the engine selects what the merge selected     *)
(* before policies existed, value for value and conflict for conflict, and *)
(* takes a collection as one whole value.                                  *)
DefaultIsDirect ==
    question.kind = "policy" /\ question.policy = DefaultPolicy =>
        IF question.at.aspect = "none"
        THEN LET new == engine_select(DefaultPolicy, question.at, question.in, question.res)
                 old == DirectSelect(question.at, question.in, question.res)
             IN new.v = old.v /\ new.conflicts = old.conflicts
        ELSE collection(DefaultPolicy, question.at, question.in) = three_way(question.in)

(* Whatever valid policy decides, a value other than a side's only change  *)
(* is applied unasked only by a rule whose gate allows it, at least as     *)
(* strict as its strategy's floor, and then flagged when the gate asks for *)
(* review; everything else is an open conflict or what a person chose.  A  *)
(* collection is merged by element only through such a rule.               *)
NothingAppliedUnasked ==
    /\ question.kind = "policy" /\ question.at.aspect # "none"
       /\ validate(question.policy) = "ok" /\ ~Unchanged(question.in) =>
          ~collection(question.policy, question.at, question.in).ok
          \/ \E r \in Range(question.policy.rules) :
                  /\ r.match.aspect = question.at.aspect /\ r.strategy = "element-wise"
                  /\ r.gate \in {"auto", "auto-with-review"}
    /\ question.kind = "policy" /\ question.at.aspect = "none"
       /\ validate(question.policy) = "ok" /\ ~Unchanged(question.in) =>
        \A out \in {engine_select(question.policy, question.at, question.in, question.res)} :
        LET p == question.policy
            d == out.decisions[1]
            rule == CHOOSE r \in Range(p.rules) : r.id = d.rule
        IN CASE d.outcome = "merged" ->
                  /\ rule.gate \in {"auto", "auto-with-review"}
                  /\ d.needs_review <=> rule.gate = "auto-with-review"
                  /\ rule.strategy \in DOMAIN p.floors => Rank(rule.gate) >= Rank(p.floors[rule.strategy])
             [] d.outcome = "explicit" ->
                  out.v = Pick(question.res[question.at.field], question.in)
             [] OTHER -> out.v = question.in.team /\ out.conflicts = {question.at.field}

(* The merge policy a document chooses: its strategies, its default, and   *)
(* what is never applied without being asked for.                          *)
PolicySound == StrategyLaws /\ DefaultIsDirect /\ NothingAppliedUnasked

(* Merging and patching the runs of a text.                                *)
TextSound == TextMergeExact /\ PatchReplays
=============================================================================
