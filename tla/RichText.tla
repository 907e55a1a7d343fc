------------------------------ MODULE RichText ------------------------------
(***************************************************************************)
(* Rich text: the patch a content edit is compacted to, and the three-way  *)
(* merge of two versions of a text block (engine-core/src/richtext.rs).    *)
(*                                                                         *)
(* A JSON value is a leaf, a text (a sequence of characters), a list, a    *)
(* map or Absent.  The style table is left out: a token carries the        *)
(* metadata its index stands for.  Counts in patch operations are unrolled *)
(* to one operation per token.                                             *)
(***************************************************************************)
EXTENDS Integers, FiniteSets, SequencesExt

CONSTANTS
    MaxScalars,   \* the longest text that is read as tokens
    MaxDepth,     \* how deep a patch descends
    DiffLimit     \* above it, only the common ends are aligned

Absent == [k |-> "none"]
Leaf(x) == [k |-> "leaf", v |-> x]
Text(s) == [k |-> "text", t |-> s]
List(s) == [k |-> "list", l |-> s]
Map(f) == [k |-> "map", m |-> f]
Get(v, key) == IF v.k = "map" /\ key \in DOMAIN v.m THEN v.m[key] ELSE Absent
Drop(v, keys) == Map([key \in DOMAIN v.m \ keys |-> v.m[key]])
PutKey(v, key, x) == Map([i \in DOMAIN v.m \cup {key} |-> IF i = key THEN x ELSE v.m[i]])
Items(v) == IF v.k = "list" THEN v.l ELSE << >>
TypeOf(v) == Get(v, "type")
ATOM == "ATOM"

(* The text of a value: the formula of a math block, a run's text, or the  *)
(* text of its children, on lines of their own in a document.              *)
RECURSIVE plain_text(_)
plain_text(v) ==
    IF TypeOf(v) = Leaf("inlineMath") THEN Get(Get(v, "attrs"), "latex").t
    ELSE IF Get(v, "text").k = "text" THEN Get(v, "text").t
    ELSE LET parts == [i \in DOMAIN Items(Get(v, "content")) |->
                         (IF i > 1 /\ TypeOf(v) = Leaf("doc") THEN <<"\n">> ELSE << >>)
                         \o plain_text(Get(v, "content").l[i])]
         IN FlattenSeq(parts)

-----------------------------------------------------------------------------
(* Tokens.                                                                 *)

props(v) == Drop(v, {"content"})

IsRun(c) == TypeOf(c) = Leaf("text") /\ Get(c, "content") = Absent
Scalars(c) ==
    IF IsRun(c) THEN [i \in DOMAIN Get(c, "text").t |->
                        [ch |-> Get(c, "text").t[i], style |-> Drop(c, {"text"})]]
    ELSE << [ch |-> ATOM, style |-> c] >>

NotInline == [ok |-> FALSE, toks |-> << >>]
(* One token per character, with its marks; with atoms, one per inline     *)
(* object too.  A block of another type, or too long, has no tokens.       *)
inline(v, atoms) ==
    LET kids == Items(Get(v, "content"))
        toks == FlattenSeq([i \in DOMAIN kids |-> Scalars(kids[i])])
        fits(c) == IF IsRun(c)
                   THEN /\ Get(c, "text").k = "text"
                        /\ atoms => ATOM \notin Range(Get(c, "text").t)
                   ELSE atoms /\ TypeOf(c).k = "leaf" /\ Get(c, "content") = Absent
    IN IF /\ TypeOf(v) \in {Leaf("paragraph"), Leaf("heading"), Leaf("codeBlock")}
          /\ Get(v, "content").k \in {"none", "list"}
          /\ \A i \in DOMAIN kids : fits(kids[i])
          /\ Len(toks) <= MaxScalars
       THEN [ok |-> TRUE, toks |-> toks] ELSE NotInline

(* A mutant: neighbours share a run whatever their styles.                 *)
RunStarts_joined(toks) == {i \in DOMAIN toks : i = 1 \/ toks[i].ch = ATOM \/ toks[i - 1].ch = ATOM}
(* Back to runs: neighbours of one style share a run, an atom stands alone.*)
RunStarts(toks) ==
    {i \in DOMAIN toks : i = 1 \/ toks[i].ch = ATOM \/ toks[i].style # toks[i - 1].style}
children(toks) ==
    LET starts == SetToSortSeq(RunStarts(toks), <)
        end(n) == IF n = Len(starts) THEN Len(toks) ELSE starts[n + 1] - 1
    IN [n \in DOMAIN starts |->
          IF toks[starts[n]].ch = ATOM THEN toks[starts[n]].style
          ELSE PutKey(toks[starts[n]].style, "text",
                   Text([j \in 1 .. end(n) + 1 - starts[n] |-> toks[starts[n] + j - 1].ch]))]

-----------------------------------------------------------------------------
(* Alignment.  Which of the longest matches the diff library returns is    *)
(* not fixed here: an alignment is any one of them.                        *)

Matches(a, b) == {p \in (DOMAIN a) \X (DOMAIN b) : a[p[1]].ch = b[p[2]].ch}
Monotone(M) == \A p, q \in M : (p[1] < q[1] <=> p[2] < q[2]) /\ (p[1] = q[1] <=> p[2] = q[2])
LongestMatches(a, b) ==
    LET all == {M \in SUBSET Matches(a, b) : Monotone(M)}
    IN {M \in all : \A N \in all : Cardinality(N) <= Cardinality(M)}

(* text_diff: past the limit only the common start and end are aligned.    *)
CommonStart(a, b) ==
    Cardinality({i \in DOMAIN a \cap DOMAIN b : \A j \in 1 .. i : a[j].ch = b[j].ch})
text_diff(a, b) ==
    LET pre == CommonStart(a, b)
        suf == CommonStart(Reverse(SubSeq(a, pre + 1, Len(a))), Reverse(SubSeq(b, pre + 1, Len(b))))
        old == Len(a) - pre - suf
        new == Len(b) - pre - suf
    IN IF old = 0 \/ new = 0 \/ old + new <= DiffLimit THEN LongestMatches(a, b)
       ELSE {{<<i, i>> : i \in 1 .. pre}
             \cup {<<Len(a) + 1 - i, Len(b) + 1 - i>> : i \in 1 .. suf}}

Aligned(M, i) == \E p \in M : p[1] = i
Partner(M, i) == (CHOOSE p \in M : p[1] = i)[2]

-----------------------------------------------------------------------------
(* The patch.                                                              *)

(* Keep the matched tokens, with their new style when it changed; delete   *)
(* and insert the rest, each gap's deletions first.                        *)
RECURSIVE Walk(_, _, _, _, _)
Walk(a, b, M, i, j) ==
    IF <<i, j>> \in M
    THEN << [op |-> "retain",
             style |-> IF a[i].style = b[j].style THEN Absent ELSE b[j].style] >>
         \o Walk(a, b, M, i + 1, j + 1)
    ELSE IF i <= Len(a) /\ ~Aligned(M, i)
    THEN << [op |-> "delete"] >> \o Walk(a, b, M, i + 1, j)
    ELSE IF j <= Len(b)
    THEN << [op |-> "insert", ch |-> b[j].ch, style |-> b[j].style] >> \o Walk(a, b, M, i, j + 1)
    ELSE << >>
(* delta: the walk from both starts.                                       *)
Myers(a, b) == CHOOSE M \in text_diff(a, b) : TRUE
delta(a, b) == Walk(a, b, Myers(a, b), 1, 1)

(* build: the edits from a to b.  Blocks of one type are compared text     *)
(* against text or child by child; anything else is replaced whole.        *)
RECURSIVE build(_, _, _)
build(a, b, path) ==
    LET alike == Len(path) < MaxDepth /\ a.k = "map" /\ b.k = "map" /\ TypeOf(a) = TypeOf(b)
        reprop == IF props(a) = props(b) THEN << >>
                  ELSE << [edit |-> "props", path |-> path, value |-> props(b)] >>
        texts == inline(a, FALSE).ok /\ inline(b, FALSE).ok
        kids == /\ Get(a, "content").k = "list" /\ Get(b, "content").k = "list"
                /\ Len(Get(a, "content").l) = Len(Get(b, "content").l)
    IN IF a = b THEN << >>
       ELSE IF alike /\ texts
       THEN reprop \o << [edit |-> "text", path |-> path,
                          ops |-> delta(inline(a, FALSE).toks, inline(b, FALSE).toks)] >>
       ELSE IF alike /\ kids
       THEN reprop \o FlattenSeq([i \in DOMAIN Get(a, "content").l |->
                   build(Get(a, "content").l[i], Get(b, "content").l[i], Append(path, i))])
       ELSE << [edit |-> "replace", path |-> path, value |-> b] >>

(* The target of a path, and the value with another target there.          *)
RECURSIVE Reaches(_, _), At(_, _), With(_, _, _)
Reaches(v, path) ==
    \/ path = << >>
    \/ /\ Get(v, "content").k = "list" /\ path[1] \in DOMAIN Get(v, "content").l
       /\ Reaches(Get(v, "content").l[path[1]], Tail(path))
At(v, path) == IF path = << >> THEN v ELSE At(Get(v, "content").l[path[1]], Tail(path))
With(v, path, x) ==
    IF path = << >> THEN x
    ELSE PutKey(v, "content", List([Get(v, "content").l EXCEPT
                                    ![path[1]] = With(@, Tail(path), x)]))

Refused == [ok |-> FALSE, v |-> Absent]
Ok(v) == [ok |-> TRUE, v |-> v]

(* Text operations consume the whole input, within its bounds.             *)
Consumed(ops, n) == Cardinality({i \in 1 .. n : ops[i].op # "insert"})
Rewrite(toks, ops) ==
    FlattenSeq([n \in DOMAIN ops |->
        CASE ops[n].op = "retain" ->
               << [ch |-> toks[Consumed(ops, n)].ch,
                   style |-> IF ops[n].style = Absent THEN toks[Consumed(ops, n)].style
                             ELSE ops[n].style] >>
          [] ops[n].op = "insert" -> << [ch |-> ops[n].ch, style |-> ops[n].style] >>
          [] OTHER -> << >>])
ApplyEdit(v, e) ==
    IF ~Reaches(v, e.path) \/ Len(e.path) > MaxDepth THEN Refused
    ELSE LET target == At(v, e.path)
             content == Get(target, "content")
             toks == inline(target, FALSE)
         IN CASE e.edit = "replace" -> Ok(With(v, e.path, e.value))
              [] e.edit = "props" ->
                   IF Get(e.value, "content") # Absent THEN Refused
                   ELSE Ok(With(v, e.path, IF content = Absent THEN e.value
                                           ELSE PutKey(e.value, "content", content)))
              [] OTHER ->
                   IF \/ ~toks.ok \/ Consumed(e.ops, Len(e.ops)) # Len(toks.toks)
                      \/ Len(Rewrite(toks.toks, e.ops)) > MaxScalars
                   THEN Refused
                   ELSE Ok(With(v, e.path,
                                PutKey(target, "content", List(children(Rewrite(toks.toks, e.ops))))))

(* apply_patch: only on the value the patch was made for, and only when    *)
(* the outcome is the value it was made to reach.  A fingerprint is the    *)
(* value it is taken over.                                                 *)
apply_patch(before, patch) ==
    LET out == FoldLeft(LAMBDA r, e : IF r.ok THEN ApplyEdit(r.v, e) ELSE r, Ok(before), patch.edits)
    IN IF before # patch.before \/ ~out.ok \/ out.v # patch.after THEN Refused ELSE out

(* make_patch: no patch unless it replays.                                 *)
make_patch(before, after) ==
    LET patch == [before |-> before, after |-> after, edits |-> build(before, after, << >>)]
    IN [ok |-> apply_patch(before, patch) = Ok(after), patch |-> patch]

(* compact_event: the patch replaces the whole value when it is shorter;   *)
(* lengths are left open, so either event may be logged.                   *)
compact_event(before, after) ==
    {[event |-> "edited", value |-> after]}
    \cup IF before # Absent /\ make_patch(before, after).ok
         THEN {[event |-> "patched", patch |-> make_patch(before, after).patch]} ELSE {}

-----------------------------------------------------------------------------
(* The merge.                                                              *)

(* Marks by type; a type that is listed twice has no answer.               *)
MarkTypes(v) == {TypeOf(Items(v)[i]).v : i \in DOMAIN Items(v)}
marks(v) ==
    IF \/ v.k \notin {"none", "list"} \/ Cardinality(MarkTypes(v)) # Len(Items(v)) THEN Refused
    ELSE Ok(Map([ty \in MarkTypes(v) |->
                   CHOOSE x \in Range(Items(v)) : TypeOf(x) = Leaf(ty)]))

(* merge_property: take the only change, else merge the keys of two maps.  *)
(* merge_marks does so by mark type and lists the team's marks first.      *)
Keyed(at) ==
    IF \A key \in DOMAIN at : at[key].ok
    THEN Ok(Map([key \in {key \in DOMAIN at : at[key].v # Absent} |-> at[key].v]))
    ELSE Refused
ListedFirst(t, d, all) ==
    LET both == Items(t) \o SelectSeq(Items(d), LAMBDA x : TypeOf(x).v \notin MarkTypes(t))
        kept == SelectSeq(both, LAMBDA x : Get(all, TypeOf(x).v) # Absent)
    IN IF kept = << >> THEN Absent
       ELSE List([i \in DOMAIN kept |-> Get(all, TypeOf(kept[i]).v)])
Listed(t, d, all) == IF all.ok THEN Ok(ListedFirst(t, d, all.v)) ELSE Refused
RECURSIVE merge_property(_, _, _), merge_marks(_, _, _)
merge_property(b, t, d) ==
    IF d = b \/ d = t THEN Ok(t)
    ELSE IF t = b THEN Ok(d)
    ELSE IF t.k = "map" /\ d.k = "map" /\ b.k \in {"none", "map"}
    THEN Keyed([key \in UNION {IF x.k = "map" THEN DOMAIN x.m ELSE {} : x \in {b, t, d}} |->
                  IF key = "marks" THEN merge_marks(Get(b, key), Get(t, key), Get(d, key))
                  ELSE merge_property(Get(b, key), Get(t, key), Get(d, key))])
    ELSE Refused
merge_marks(b, t, d) ==
    IF d = b \/ d = t THEN Ok(t)
    ELSE IF t = b THEN Ok(d)
    ELSE IF \E x \in {b, t, d} : ~marks(x).ok THEN Refused
    ELSE Listed(t, d, merge_property(marks(b).v, marks(t).v, marks(d).v))

(* alignment: a hunk replaces tokens start + 1 .. end of the base, which   *)
(* lie between two matched ones, by what the side has there.               *)
Bounds(M, n, m) == M \cup {<<0, 0>>, <<n + 1, m + 1>>}
alignment(b, x, M) ==
    LET all == Bounds(M, Len(b), Len(x))
        next(p) == CHOOSE q \in all : q[1] > p[1] /\ \A r \in all : r[1] > p[1] => r[1] >= q[1]
    IN {[start |-> p[1], end |-> next(p)[1] - 1, ins |-> SubSeq(x, p[2] + 1, next(p)[2] - 1)] :
            p \in {p \in all : p[1] <= Len(b) /\ next(p) # <<p[1] + 1, p[2] + 1>>}}

(* A mutant: an insertion beside the other side's change is apart from it. *)
overlaps_inside(a, b) == a.start < b.end /\ b.start < a.end
(* Two changes touch; an insertion also touches at the ends of a change.   *)
overlaps(a, b) ==
    IF a.start = a.end THEN b.start <= a.start /\ a.start <= b.end
    ELSE IF b.start = b.end THEN a.start <= b.start /\ b.start <= a.end
    ELSE a.start < b.end /\ b.start < a.end

(* The tokens a hunk changes, or sits between.                             *)
Beside(h, n) == IF h.start = h.end THEN {h.start, h.start + 1} \cap 1 .. n ELSE h.start + 1 .. h.end
(* The other side restyled one of them.                                    *)
Restyled(h, b, x, M) ==
    \E i \in Beside(h, Len(b)) : Aligned(M, i) /\ b[i].style # x[Partner(M, i)].style

StyleAt(b, t, d, tm, dm, i) ==
    LET ts == t[Partner(tm, i)].style
        ds == d[Partner(dm, i)].style
    IN IF b[i].ch = ATOM /\ Cardinality({ts, ds, b[i].style}) = 3 THEN Refused
       ELSE merge_property(b[i].style, ts, ds)

(* The base with the hunks of both sides in place, up to an empty one that *)
(* ends it, and the tokens between them in their merged style.             *)
Hunks(b, all) ==
    SetToSortSeq(all \cup {[start |-> Len(b), end |-> Len(b) + 1, ins |-> << >>]},
                 LAMBDA g, h : g.start < h.start \/ (g.start = h.start /\ g.end < h.end))
Kept(hunks, n) == (IF n = 1 THEN 1 ELSE hunks[n - 1].end + 1) .. hunks[n].start
Styles(b, t, d, tm, dm, hunks) ==
    [i \in UNION {Kept(hunks, n) : n \in DOMAIN hunks} |-> StyleAt(b, t, d, tm, dm, i)]
Spliced(b, hunks, style) ==
    LET keep(n, len) == [j \in 1 .. len |->
                           LET i == hunks[n].start - len + j
                           IN [ch |-> b[i].ch, style |-> style[i].v]]
    IN FlattenSeq([n \in DOMAIN hunks |-> keep(n, Cardinality(Kept(hunks, n))) \o hunks[n].ins])
SplicedInto(outer, b, hunks, style) ==
    IF \E i \in DOMAIN style : ~style[i].ok THEN Refused
    ELSE Ok(PutKey(outer, "content", List(children(Spliced(b, hunks, style)))))

(* merge_inline, with the alignments of the base with either side.         *)
merge_tokens(outer, b, t, d, tm, dm, th, dh) ==
    IF \/ ~outer.ok
       \/ \E g \in th, h \in dh : overlaps(g, h)
       \/ \E h \in th : Restyled(h, b, d, dm)
       \/ \E h \in dh : Restyled(h, b, t, tm)
    THEN Refused
    ELSE SplicedInto(outer.v, b, Hunks(b, th \cup dh), Styles(b, t, d, tm, dm, Hunks(b, th \cup dh)))
merge_aligned(outer, b, t, d, tm, dm) ==
    merge_tokens(outer, b, t, d, tm, dm, alignment(b, t, tm), alignment(b, d, dm))
merge_inline(base, team, draft, tm, dm) ==
    merge_aligned(merge_property(props(base), props(team), props(draft)),
                  inline(base, TRUE).toks, inline(team, TRUE).toks, inline(draft, TRUE).toks, tm, dm)

(* merge: one side's change, two changes of an image's attributes, or a    *)
(* text.                                                                   *)
richtext_merge(base, team, draft, tm, dm) ==
    LET rest(v) == Drop(v, {"attrs"})
        with(attrs) == IF ~attrs.ok THEN Refused
                       ELSE Ok(IF attrs.v = Absent THEN rest(team)
                               ELSE PutKey(rest(team), "attrs", attrs.v))
    IN IF draft = base \/ draft = team THEN Ok(team)
       ELSE IF team = base THEN Ok(draft)
       ELSE IF TypeOf(base) = Leaf("image") /\ rest(base) = rest(team) /\ rest(base) = rest(draft)
       THEN with(merge_property(Get(base, "attrs"), Get(team, "attrs"), Get(draft, "attrs")))
       ELSE IF inline(base, TRUE).ok /\ inline(team, TRUE).ok /\ inline(draft, TRUE).ok
       THEN merge_inline(base, team, draft, tm, dm) ELSE Refused

-----------------------------------------------------------------------------
(* The counts of an analysis.                                              *)

RECURSIVE Below(_)
Below(v) == <<v>> \o FlattenSeq([i \in DOMAIN Items(Get(v, "content")) |-> Below(Get(v, "content").l[i])])
RunsOf(v) ==
    LET kids == Items(Get(v, "content"))
        shows(i) == i \in DOMAIN kids /\ TypeOf(kids[i]) = Leaf("text") /\ Get(kids[i], "text").t # << >>
    IN Cardinality({i \in DOMAIN kids : shows(i) /\ ~(shows(i - 1)
                        /\ Drop(kids[i], {"text"}) = Drop(kids[i - 1], {"text"}))})
analyze(v) ==
    LET nodes == Below(v)
        runs == SelectSeq(nodes, LAMBDA n : TypeOf(n) = Leaf("text"))
    IN [containers |-> Len(nodes) - Len(runs),
        text_scalars |-> Len(FlattenSeq([i \in DOMAIN runs |-> Get(runs[i], "text").t])),
        formatting_runs |-> FoldLeft(LAMBDA n, x : n + RunsOf(x), 0, nodes),
        distinct_styles |-> Cardinality({Drop(runs[i], {"text"}) : i \in DOMAIN runs})]
=============================================================================
