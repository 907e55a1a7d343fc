----------------------------- MODULE CopyIndex ------------------------------
(***************************************************************************)
(* Looking for copies among the documents of different people: the         *)
(* fingerprints of documents and what two of them say about each other,    *)
(* and the background indexer that compares them.                          *)
(***************************************************************************)
EXTENDS Integers, FiniteSetsExt, SequencesExt, TLC

-----------------------------------------------------------------------------
(* Fingerprints of documents and what two of them say about each other     *)
(* (engine-core/src/similarity.rs).                                        *)
(*                                                                         *)
(* A block is a sequence of words.  A hash of a sequence of words is that  *)
(* sequence; only the two numbers a shingle contributes to the signature,  *)
(* its bin and its value, are left to the constants, because the signature *)
(* is about their order.  Fractions are exact: the code's are f32.         *)

CONSTANTS
  SIGNATURE_LEN, ROWS,
  SUBSTANTIVE_WORDS, MAX_BLOCKS, MIN_SHINGLES,
  SizableBlocks, SizableShingles,
  bin(_), value(_),      \* of a shingle
  probe(_, _)            \* the n-th bin an empty bin i tries

Bins == 0 .. SIGNATURE_LEN - 1
Empty == <<>>

---------------------------------------------------------------------------
(* Fingerprints.                                                            *)

minhash(shingles) ==
    LET in(i)   == {value(s) : s \in {x \in shingles : bin(x) = i}}
        from(i) == IF in(i) # {} THEN i
                   ELSE probe(i, CHOOSE n \in 1 .. SIGNATURE_LEN ^ 2 : /\ in(probe(i, n)) # {}
                                                    /\ \A k \in 1 .. n - 1 : in(probe(i, k)) = {})
    IN IF shingles = {} THEN Empty
       ELSE [i \in Bins |-> Min(in(from(i)))]


\* one key a band: the band and the rows in it
band_keys(signature) ==
    IF signature = Empty THEN {}
    ELSE {<<b, [r \in 0 .. ROWS - 1 |-> signature[b * ROWS + r]]>> :
             b \in 0 .. (SIGNATURE_LEN \div ROWS) - 1}

windows(words) == {SubSeq(words, i, i + 2) : i \in 1 .. Len(words) - 2}

\* A mutant: the text is hashed in the order it is written.
from_blocks_ordered(blocks) ==
    LET texts    == SelectSeq(blocks, LAMBDA words : words # <<>>)
        shingles == UNION {IF Len(w) < 3 THEN {w} ELSE windows(w) : w \in ToSet(texts)}
    IN [signature |-> minhash(shingles), bands |-> band_keys(minhash(shingles)),
        blocks |-> {w \in ToSet(texts) : Len(w) >= SUBSTANTIVE_WORDS},
        content_hash |-> texts, shingle_count |-> Cardinality(shingles)]

\* the content hash is taken of the sorted blocks: it tells how often each occurs
from_blocks(blocks) ==
    LET texts       == SelectSeq(blocks, LAMBDA words : words # <<>>)
        shingles    == UNION {IF Len(w) < 3 THEN {w} ELSE windows(w) : w \in ToSet(texts)}
        substantive == {w \in ToSet(texts) : Len(w) >= SUBSTANTIVE_WORDS}
    IN [signature |-> minhash(shingles), bands |-> band_keys(minhash(shingles)),
        blocks |-> IF Cardinality(substantive) <= MAX_BLOCKS THEN substantive
                   ELSE CHOOSE kept \in kSubset(MAX_BLOCKS, substantive) : TRUE,
        content_hash |-> [w \in ToSet(texts) |-> Cardinality({i \in DOMAIN texts : texts[i] = w})],
        shingle_count |-> Cardinality(shingles)]

is_trivial(f) == f.shingle_count < MIN_SHINGLES

---------------------------------------------------------------------------
(* Comparisons.  A fraction is <<n, d>> with d > 0.                         *)

Geq(f, g) == f[1] * g[2] >= g[1] * f[2]
Greatest(F) == CHOOSE f \in F : \A g \in F : Geq(f, g)
Clamp(f) == IF Geq(f, <<1, 1>>) THEN <<1, 1>> ELSE f
Tenths(n) == <<n, 10>>

jaccard(a, b) ==
    IF a = Empty \/ b = Empty THEN <<0, 1>>
    ELSE <<Cardinality({i \in Bins : a[i] = b[i]}), SIGNATURE_LEN>>

\* how much of the first is in the second, from the likeness j of the two
containment(j, a, b) ==
    IF a = 0 THEN <<0, 1>> ELSE Clamp(<<j[1] * (a + b), (j[2] + j[1]) * a>>)

share(shared, n) == IF n = 0 THEN <<0, 1>> ELSE Clamp(<<shared, n>>)

is_copy(relation) == relation \in {"identical", "copy", "edited_copy", "excerpt", "extended"}

\* A mutant: the longer document of two is never an extended copy.
Relation_oneway(j, new, old, cn, co, title_match) ==
    LET enough == ~is_trivial(new) /\ ~is_trivial(old)
        sizable(f) == Cardinality(f.blocks) >= SizableBlocks \/ f.shingle_count >= SizableShingles
    IN IF enough /\ new.content_hash = old.content_hash THEN "identical"
       ELSE IF enough /\ Geq(j, Tenths(8)) THEN "copy"
       ELSE IF enough /\ sizable(new) /\ Geq(cn, Tenths(8)) THEN "excerpt"
       ELSE IF title_match THEN "same_name" ELSE "unrelated"

Relation(j, new, old, cn, co, title_match) ==
    LET enough == ~is_trivial(new) /\ ~is_trivial(old)
        sizable(f) == Cardinality(f.blocks) >= SizableBlocks \/ f.shingle_count >= SizableShingles
        both(n) == Geq(cn, Tenths(n)) /\ Geq(co, Tenths(n))
    IN IF ~enough THEN IF title_match THEN "same_name" ELSE "unrelated"
       ELSE CASE new.content_hash # <<>> /\ new.content_hash = old.content_hash -> "identical"
              [] OTHER ->
            CASE Geq(j, Tenths(8)) \/ both(9) -> "copy"
              [] OTHER ->
            CASE sizable(new) /\ Geq(cn, Tenths(8)) /\ ~Geq(co, Tenths(6)) -> "excerpt"
              [] OTHER ->
            CASE sizable(old) /\ Geq(co, Tenths(8)) /\ ~Geq(cn, Tenths(6)) -> "extended"
              [] OTHER ->
            CASE Geq(j, Tenths(5)) \/ both(6) -> "edited_copy"
              [] OTHER ->
            CASE sizable(new) /\ Geq(cn, Tenths(6)) -> "excerpt"
              [] OTHER ->
            CASE sizable(old) /\ Geq(co, Tenths(6)) -> "extended"
              [] OTHER ->
            CASE \E f \in {j, cn, co} : Geq(f, Tenths(3)) -> "overlap"
              [] title_match -> "same_name"
              [] OTHER -> "unrelated"

compare_summaries(new, old, shared, title_match) ==
    LET j  == jaccard(new.signature, old.signature)
        cn == Greatest({containment(j, new.shingle_count, old.shingle_count),
                        share(shared, Cardinality(new.blocks))})
        co == Greatest({containment(j, old.shingle_count, new.shingle_count),
                        share(shared, Cardinality(old.blocks))})
    IN [relation |-> Relation(j, new, old, cn, co, title_match),
        score |-> Greatest({j, cn, co}), jaccard |-> j,
        coverage_new |-> cn, coverage_old |-> co,
        shared |-> shared, title_match |-> title_match]

compare(new, old, title_match) ==
    compare_summaries(new, old, Cardinality(new.blocks \cap old.blocks), title_match)

\* the comparison seen from the other document
flipped(c) ==
    [c EXCEPT !.relation = CASE @ = "excerpt" -> "extended"
                             [] @ = "extended" -> "excerpt"
                             [] OTHER -> @,
              !.coverage_new = c.coverage_old, !.coverage_old = c.coverage_new]

\* whether the index finds the document `old` when it looks for copies of `new`
Found(new, old, title_match) ==
    \/ new.bands \cap old.bands # {}
    \/ Cardinality(new.blocks \cap old.blocks) >= (IF Cardinality(new.blocks) > 1 THEN 2 ELSE 1)
    \/ new.content_hash # <<>> /\ new.content_hash = old.content_hash
    \/ title_match

---------------------------------------------------------------------------
(* Properties: of every two texts, given as an initial state `pair`.        *)

VARIABLE pair

Same(c, d) ==
    /\ c.relation = d.relation /\ c.shared = d.shared /\ c.jaccard = d.jaccard
    /\ Geq(c.coverage_new, d.coverage_new) /\ Geq(d.coverage_new, c.coverage_new)
    /\ Geq(c.coverage_old, d.coverage_old) /\ Geq(d.coverage_old, c.coverage_old)

\* What two documents say about each other does not depend on which of them was
\* indexed last: the comparison one way is the flipped comparison the other way,
\* as detect assumes when it turns it round.  The order of the blocks, which moving
\* paragraphs changes, does not count.  Two signatures that agree in eight places out
\* of ten agree on a whole band, so that the lookup by bands never misses what the
\* comparison would call a copy.
ComparisonSound ==
    /\ \A t \in pair.texts :
         LET a == from_blocks(t[1])
             b == from_blocks(t[2])
         IN /\ \A same \in BOOLEAN : Same(compare(a, b, same), flipped(compare(b, a, same)))
            /\ from_blocks(Reverse(t[1])) = a
            /\ ~is_trivial(a) => compare(a, a, FALSE).relation = "identical"
    /\ \A s \in pair.signatures :
         Geq(jaccard(s[1], s[2]), Tenths(8)) => band_keys(s[1]) \cap band_keys(s[2]) # {}

-----------------------------------------------------------------------------
(* The background indexer that looks for copies among the documents of     *)
(* different people, and what the owners do about them                     *)
(* (engine-api/src/copies.rs).  Every replica of the server runs one.      *)
(*                                                                         *)
(* A pass is many statements on many connections: the stale documents are  *)
(* chosen once, each is read, its fingerprint is committed, and only then  *)
(* are its neighbours looked up and every pair recorded by a statement of  *)
(* its own, with the notice to the owner after it.  `cut` marks documents  *)
(* whose detection was lost between those steps, or that came back from    *)
(* the trash: nothing makes the indexer look at them again.                *)

CONSTANTS
  Indexers, CopyDocs, Texts, Owner, TitleOf,
  Known,            \* the texts of documents that are indexed at the start
  Born,             \* when a document was created: a number
  Uploaded,         \* the documents that hold an uploaded file
  CopiedFrom,       \* settings.copied_from of a document
  baseline,         \* documents born before it are not announced
  TextOf,           \* the fingerprint of a text: from_blocks of its blocks
  MaxTold, MaxRecorded,   \* notices, and pairs, of one document in one pass
  MaxEdits, MaxPasses, MaxCuts, MaxNotices,
  NoDoc

VARIABLES
  papers,           \* per document: is it live, its text, its title, its last seq
  readers,          \* per document: the people with a role, and the role
  prints,           \* document_fingerprint, or NoDoc
  matches,          \* document_match
  told,             \* notices sent, in order
  passes,           \* per replica: its pass
  passesLeft, cuts, cut

copyVars == <<papers, readers, prints, matches, told, passes, passesLeft, cuts, cut>>

Resting == [step |-> "rest", todo |-> {}, doc |-> NoDoc, title |-> NoDoc,
            print |-> NoDoc, found |-> {}, heard |-> {}, recorded |-> 0, notice |-> NoDoc]

\* what every two texts say about each other, computed once
Compared ==
    <<>> @@ [x \in Texts \X Texts \X BOOLEAN |->
               [near |-> Found(TextOf[x[1]], TextOf[x[2]], x[3]),
                is   |-> compare(TextOf[x[1]], TextOf[x[2]], x[3])]]

role(d, p) == IF p \in DOMAIN readers[d] THEN readers[d][p] ELSE NoDoc

---------------------------------------------------------------------------
(* People.                                                                  *)

\* a document gets its first text, or another one
edit(d, t) ==
    /\ papers[d].live
    /\ FoldSet(LAMBDA e, n : papers[e].seq + n, 0, CopyDocs) < MaxEdits
    /\ papers[d].text # t
    /\ papers' = [papers EXCEPT ![d].text = t, ![d].seq = @ + 1]
    /\ UNCHANGED <<readers, prints, matches, told, passes, passesLeft, cuts, cut>>

trash(d) ==
    /\ papers[d].live /\ papers[d].seq > 0 /\ cuts < MaxCuts
    /\ papers' = [papers EXCEPT ![d].live = FALSE]
    /\ cuts' = cuts + 1
    /\ UNCHANGED <<readers, prints, matches, told, passes, passesLeft, cut>>

restore(d) ==
    /\ ~papers[d].live
    /\ papers' = [papers EXCEPT ![d].live = TRUE]
    /\ cut' = cut \cup {d}
    /\ UNCHANGED <<readers, prints, matches, told, passes, passesLeft, cuts>>

---------------------------------------------------------------------------
(* A pass.                                                                  *)

stale(d) ==
    /\ papers[d].live /\ papers[d].seq > 0
    /\ prints[d] # NoDoc => prints[d].title # papers[d].title \/ prints[d].seq < papers[d].seq

\* a fingerprint of the last 15 seconds is left alone: `later` are the documents
\* that have one
run_once(r) ==
    LET due == {d \in CopyDocs : stale(d)}
    IN /\ passes[r].step = "rest" /\ passesLeft > 0
       /\ \E later \in SUBSET {d \in due : prints[d] # NoDoc} :
            /\ due # later
            /\ passes' = [passes EXCEPT ![r] = [Resting EXCEPT !.step = "next", !.todo = due \ later]]
       /\ passesLeft' = passesLeft - 1
       /\ UNCHANGED <<papers, readers, prints, matches, told, cuts, cut>>

\* index: the title is read first; a document in the trash is passed over
index(r) ==
    /\ passes[r].step = "next" /\ passes[r].todo # {}
    /\ \E d \in passes[r].todo :
         passes' = [passes EXCEPT
           ![r] = IF ~papers[d].live THEN [@ EXCEPT !.todo = @ \ {d}]
                  ELSE [Resting EXCEPT !.step = "read", !.todo = passes[r].todo \ {d}, !.doc = d,
                                       !.title = papers[d].title]]
    /\ UNCHANGED <<papers, readers, prints, matches, told, passesLeft, cuts, cut>>

read_current_state(r) ==
    LET p == passes[r]
    IN /\ p.step = "read"
       /\ passes' = [passes EXCEPT
            ![r].step = "write",
            ![r].print = [text |-> papers[p.doc].text, seq |-> papers[p.doc].seq, title |-> p.title]]
       /\ UNCHANGED <<papers, readers, prints, matches, told, passesLeft, cuts, cut>>

\* the upsert, the bands and the blocks, in one transaction: the last writer wins
write_print(r) ==
    LET p == passes[r]
    IN /\ p.step = "write"
       /\ prints' = [prints EXCEPT ![p.doc] = p.print]
       /\ passes' = [passes EXCEPT ![r].step = "detect"]
       /\ UNCHANGED <<papers, readers, matches, told, passesLeft, cuts, cut>>

\* A mutant: only documents that are older can be what this one was copied from.
candidates_older(self, text, title) ==
    LET x(d) == <<text, prints[d].text, prints[d].title = title>>
    IN {[doc |-> d, is |-> Compared[x(d)].is] :
          d \in {e \in CopyDocs \ {self} :
                   /\ prints[e] # NoDoc /\ papers[e].live /\ Compared[x(e)].near
                   /\ self = NoDoc \/ Born[e] < Born[self]}}

\* the stored fingerprints of live documents near this one, compared with it.
\* A title key is the title; an empty one matches nothing.
candidates(self, text, title) ==
    LET x(d) == <<text, prints[d].text, prints[d].title = title>>
    IN {[doc |-> d, is |-> Compared[x(d)].is] :
          d \in {e \in CopyDocs \ {self} : prints[e] # NoDoc /\ papers[e].live /\ Compared[x(e)].near}}

detect(r) ==
    LET p == passes[r]
    IN /\ p.step = "detect"
       /\ passes' = [passes EXCEPT
            ![r] = IF ~papers[p.doc].live \/ (is_trivial(TextOf[p.print.text]) /\ p.doc \notin Uploaded)
                   THEN [Resting EXCEPT !.step = "next", !.todo = p.todo]
                   ELSE [p EXCEPT !.step = "match",
                                  !.found = candidates(p.doc, p.print.text, papers[p.doc].title)]]
       /\ UNCHANGED <<papers, readers, prints, matches, told, passesLeft, cuts, cut>>

\* the copy is the one created later: <<copy, original>>
orient(d, e) == IF Born[d] >= Born[e] THEN <<d, e>> ELSE <<e, d>>

Recorded(d, e) == \E m \in matches : {m.source, m.target} = {d, e}

\* A mutant: every candidate is announced, also one another pass has recorded.
Announces_again(p, sides, in_app) ==
    /\ ~in_app
    /\ ~(Born[sides[1]] < baseline /\ Born[sides[2]] < baseline)
    /\ Cardinality(p.heard) < MaxTold
    /\ Owner[sides[2]] \notin p.heard

\* whether a pair that is new is announced
Announces(p, sides, in_app) ==
    /\ ~Recorded(sides[1], sides[2])
    /\ ~in_app
    /\ ~(Born[sides[1]] < baseline /\ Born[sides[2]] < baseline)
    /\ Cardinality(p.heard) < MaxTold
    /\ Owner[sides[2]] \notin p.heard

\* one candidate, the most alike first: recorded once a pair, in either direction
record_match(r) ==
    LET p     == passes[r]
    IN /\ p.step = "match" /\ p.found # {} /\ p.recorded < MaxRecorded
       /\ \E c \in {x \in p.found : \A y \in p.found : Geq(x.is.score, y.is.score)} :
            LET sides     == orient(p.doc, c.doc)
                is        == IF sides[1] = p.doc THEN c.is ELSE flipped(c.is)
                copy      == is_copy(is.relation)
                same_name == is.title_match /\ sides[1] \in Uploaded /\ ~copy
                member    == role(sides[2], Owner[sides[1]]) # NoDoc
                in_app    == CopiedFrom[sides[1]] = sides[2] /\ member
                counts    == /\ copy \/ (same_name /\ member)
                             /\ Owner[sides[1]] # Owner[sides[2]]
                method    == CASE in_app -> "in_app_copy" [] is.relation = "identical" -> "exact"
                               [] copy -> "content" [] OTHER -> "title"
                new       == counts /\ ~Recorded(sides[1], sides[2])
                announce  == counts /\ Announces(p, sides, in_app)
                rest      == [p EXCEPT !.found = @ \ {c}, !.recorded = @ + (IF new THEN 1 ELSE 0)]
            IN /\ matches' = IF new
                             THEN matches \cup {[source |-> sides[1], target |-> sides[2],
                                                 relation |-> is.relation, method |-> method,
                                                 status |-> IF in_app THEN "linked" ELSE "open"]}
                             ELSE matches
               /\ passes' = [passes EXCEPT
                    ![r] = IF announce
                           THEN [rest EXCEPT !.step = "notify", !.heard = @ \cup {Owner[sides[2]]},
                                             !.notice = [to |-> Owner[sides[2]], about |-> sides,
                                                         kind |-> IF copy THEN "copy_detected"
                                                                  ELSE "same_name_detected"]]
                           ELSE rest]
       /\ UNCHANGED <<papers, readers, prints, told, passesLeft, cuts, cut>>

notify_owner(r) ==
    /\ passes[r].step = "notify"
    /\ told' = Append(told, passes[r].notice)
    /\ passes' = [passes EXCEPT ![r].step = "match", ![r].notice = NoDoc]
    /\ UNCHANGED <<papers, readers, prints, matches, passesLeft, cuts, cut>>

\* the document is done: the next one, or the end of the pass
next_document(r) ==
    LET p == passes[r]
    IN /\ \/ p.step = "match" /\ (p.found = {} \/ p.recorded >= MaxRecorded)
          \/ p.step = "next" /\ p.todo = {}
       /\ passes' = [passes EXCEPT ![r] = IF p.todo = {} THEN Resting
                                         ELSE [Resting EXCEPT !.step = "next", !.todo = p.todo]]
       /\ UNCHANGED <<papers, readers, prints, matches, told, passesLeft, cuts, cut>>

\* an error ends the pass, with every document it had still to do
pass_fails(r) ==
    LET p == passes[r]
    IN /\ p.step \notin {"rest", "next"} /\ cuts < MaxCuts
       /\ passes' = [passes EXCEPT ![r] = Resting]
       /\ cuts' = cuts + 1
       /\ cut' = IF p.step \in {"detect", "match", "notify"} THEN cut \cup {p.doc} ELSE cut
       /\ UNCHANGED <<papers, readers, prints, matches, told, passesLeft>>

---------------------------------------------------------------------------
(* What the owner sees and answers.                                         *)

\* A mutant: everyone who edits a copy sees what it resembles.
copies_all(d, p) ==
    IF role(d, p) \notin {"owner", "manager", "editor"} THEN {}
    ELSE {m \in matches : (m.target = d /\ papers[m.source].live)
                          \/ (m.source = d /\ papers[m.target].live)}

copies(d, p) ==
    IF role(d, p) \notin {"owner", "manager", "editor"} THEN {}
    ELSE {m \in matches :
            \/ m.target = d /\ papers[m.source].live
            \/ m.source = d /\ papers[m.target].live /\ role(m.target, p) # NoDoc}

\* the check before an upload: of documents the person can open, and of none other
check(text, title, p) ==
    {c \in candidates(NoDoc, text, title) : c.is.relation # "unrelated" /\ role(c.doc, p) # NoDoc}

respond(m, p, action) ==
    /\ m \in matches
    /\ role(m.target, p) \in {"owner", "manager"}
    /\ m.status # action /\ Len(told) < MaxNotices
    /\ matches' = (matches \ {m}) \cup {[m EXCEPT !.status = action]}
    /\ IF action = "invited"
       THEN /\ readers' = [readers EXCEPT ![m.target] =
                             IF role(m.target, Owner[m.source]) # NoDoc THEN @
                             ELSE (Owner[m.source] :> "reviewer") @@ @]
            /\ told' = Append(told, [to |-> Owner[m.source], about |-> <<m.source, m.target>>,
                                     kind |-> "copy_invitation"])
       ELSE UNCHANGED <<readers, told>>
    /\ UNCHANGED <<papers, prints, passes, passesLeft, cuts, cut>>

---------------------------------------------------------------------------
\* the documents of `Known` have been indexed before
CopyInit ==
    /\ papers = [d \in CopyDocs |->
                   [live |-> TRUE, title |-> TitleOf[d],
                    text |-> IF d \in DOMAIN Known THEN Known[d] ELSE NoDoc,
                    seq |-> IF d \in DOMAIN Known THEN 1 ELSE 0]]
    /\ readers = [d \in CopyDocs |-> Owner[d] :> "owner"]
    /\ prints = [d \in CopyDocs |->
                   IF d \notin DOMAIN Known THEN NoDoc
                   ELSE [text |-> Known[d], seq |-> 1, title |-> TitleOf[d]]]
    /\ matches = {} /\ told = <<>>
    /\ passes = [r \in Indexers |-> Resting]
    /\ passesLeft = MaxPasses
    /\ cuts = 0 /\ cut = {}

CopyNext ==
    \/ \E d \in CopyDocs : trash(d) \/ restore(d) \/ \E t \in Texts : edit(d, t)
    \/ \E r \in Indexers :
         \/ run_once(r) \/ index(r) \/ read_current_state(r) \/ write_print(r)
         \/ detect(r) \/ record_match(r) \/ notify_owner(r) \/ next_document(r) \/ pass_fails(r)
    \/ \E m \in matches, p \in {Owner[d] : d \in CopyDocs} :
         \E action \in {"invited", "dismissed"} : respond(m, p, action)

---------------------------------------------------------------------------
(* Properties.                                                              *)

Quiet == \A r \in Indexers : passes[r].step = "rest"

\* When the indexers have nothing left to do, every live document that is a copy of
\* another person's is on record, once, in whatever order and by however many
\* replicas the two were indexed and whichever of them overwrote the other's work.
\* Documents whose detection failed half-way are the exception.
CopiesFound ==
    /\ \A m, n \in matches : {m.source, m.target} = {n.source, n.target} => m = n
    /\ Quiet /\ (\A d \in CopyDocs : ~stale(d)) =>
         \A d, e \in {x \in CopyDocs : papers[x].live /\ papers[x].seq > 0} :
            /\ Owner[d] # Owner[e]
            /\ is_copy(Compared[<<papers[d].text, papers[e].text, FALSE>>].is.relation)
            => Recorded(d, e) \/ d \in cut \/ e \in cut

\* The owner of the original is told of a pair once, whatever the replicas race on,
\* and nobody else is; and nobody learns of a document they cannot open: not from the
\* list of copies, not from the check before an upload, not from a notice.
ToldOnceInPrivate ==
    /\ \A i, j \in DOMAIN told :
         (/\ told[i].kind # "copy_invitation" /\ told[j].kind # "copy_invitation"
          /\ told[i].about = told[j].about) => i = j
    /\ \A i \in DOMAIN told : role(told[i].about[2], told[i].to) # NoDoc
    /\ \A d \in CopyDocs, p \in {Owner[e] : e \in CopyDocs} :
         /\ \A m \in copies(d, p) : role(m.target, p) # NoDoc
         /\ \A t \in Texts : \A c \in check(t, papers[d].title, p) : role(c.doc, p) # NoDoc
=============================================================================
