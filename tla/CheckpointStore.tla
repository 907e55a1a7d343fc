-------------------------- MODULE CheckpointStore ---------------------------
(***************************************************************************)
(* Shared checkpoints: the content-addressed radix map and the chunked     *)
(* content they are made of, the encodings of a document state, and their  *)
(* publication.                                                            *)
(***************************************************************************)
EXTENDS Naturals, FiniteSets, Sequences, Functions, TLC, SequencesExt

-----------------------------------------------------------------------------
(* The content-addressed radix map of shared checkpoints                   *)
(* (engine-core/src/shared_checkpoint.rs).                                 *)
(*                                                                         *)
(* A stored object is addressed by the SHA-256 of its canonical bytes.     *)
(* Here an address IS the object it names, a nested term: two addresses    *)
(* are equal exactly when the objects are (no collisions), and whether an  *)
(* address can be followed is whether the object is in the store.  A map   *)
(* from keys to addresses is a leaf of at most LEAF_ENTRIES entries or a   *)
(* branch by one digit of the keys' routes (Route: the hex SHA-256 of a    *)
(* key, cut here to MaxDepth digits).                                      *)

CONSTANTS LEAF_ENTRIES, MaxDepth, Route

\* No subtree, and an edit that removes its key.
None == [none |-> TRUE]
Gone == [gone |-> TRUE]

EmptyMap == << >>

Leaf(m)   == [leaf |-> m]
Branch(c) == [branch |-> c]
IsLeaf(t) == "leaf" \in DOMAIN t

\* The digit of key k that a branch at this depth (0 at the root) splits by.
Digit(k, depth) == Route[k][depth + 1]

\* The part of a map, or of a list of edits, that goes under one digit.
Under(m, n, depth) == Restrict(m, {k \in DOMAIN m : Digit(k, depth) = n})

DigitsOf(m, depth) == {Digit(k, depth) : k \in DOMAIN m}

\* Writer::map: small maps are leaves, the others branches of smaller maps.
RECURSIVE map(_, _)
map(m, depth) ==
    IF Cardinality(DOMAIN m) <= LEAF_ENTRIES
    THEN Leaf(m)
    ELSE Branch([n \in DigitsOf(m, depth) |-> map(Under(m, n, depth), depth + 1)])

\* Writer::entries, write_map.
write_map(m) == map(m, 0)

\* Every object of the tree itself (not of the values it refers to).
RECURSIVE NodesOf(_)
NodesOf(t) ==
    {t} \cup IF IsLeaf(t) THEN {} ELSE UNION {NodesOf(t.branch[n]) : n \in DOMAIN t.branch}

\* The map after edits: an edit gives a key an address or removes it.
Edited(m, edits) ==
    [k \in {k \in DOMAIN m \cup DOMAIN edits : k \in DOMAIN edits => edits[k] # Gone} |->
        IF k \in DOMAIN edits THEN edits[k] ELSE m[k]]

\* The entries of children that are all leaves, taken together.
Merged(kids) ==
    LET home(k) == CHOOSE n \in DOMAIN kids : k \in DOMAIN kids[n].leaf
    IN  [k \in UNION {DOMAIN kids[n].leaf : n \in DOMAIN kids} |-> kids[home(k)].leaf[k]]

\* A mutant: removals that leave a small branch never turn it into a leaf.
CollapsesNever(kids) == FALSE

\* A branch whose children now hold few enough entries becomes a leaf again.
Collapses(kids) ==
    /\ \A n \in DOMAIN kids : IsLeaf(kids[n])
    /\ Cardinality(DOMAIN Merged(kids)) <= LEAF_ENTRIES

\* What update_node answers: the subtree now at this place (or None) and the
\* objects it had to write.
Outcome(node, wrote) == [node |-> node, wrote |-> wrote]

\* Writer::update_node: edit the subtree at one place, reusing every object
\* the edits leave as it was.
RECURSIVE update_node(_, _, _)
update_node(current, edits, depth) ==
    IF current = None THEN
        LET m == Edited(EmptyMap, edits) IN
        IF DOMAIN m = {} THEN Outcome(None, {})
        ELSE Outcome(map(m, depth), NodesOf(map(m, depth)))
    ELSE IF IsLeaf(current) THEN
        LET m == Edited(current.leaf, edits) IN
        IF DOMAIN m = {} /\ depth > 0 THEN Outcome(None, {})
        ELSE Outcome(map(m, depth), IF m = current.leaf THEN {} ELSE NodesOf(map(m, depth)))
    ELSE
        LET old     == current.branch
            touched == DigitsOf(edits, depth)
            was(n)  == IF n \in DOMAIN old THEN old[n] ELSE None
            out     == [n \in touched |-> update_node(was(n), Under(edits, n, depth), depth + 1)]
            left    == {n \in DOMAIN old \cup touched : n \in touched => out[n].node # None}
            kids    == [n \in left |-> IF n \in touched THEN out[n].node ELSE old[n]]
            wrote   == UNION {out[n].wrote : n \in touched}
        IN  IF left = {} /\ depth > 0 THEN Outcome(None, wrote)
            ELSE IF left = {} \/ Collapses(kids)
                 THEN Outcome(Leaf(Merged(kids)), wrote \cup {Leaf(Merged(kids))})
            ELSE Outcome(Branch(kids), wrote \cup IF kids = old THEN {} ELSE {Branch(kids)})

\* Writer::update_map.  An edit list that is empty answers the base root.
update_map(root, edits) ==
    IF DOMAIN edits = {} THEN Outcome(root, {}) ELSE update_node(root, edits, 0)

\* lookup: follow the digits of the key.
RECURSIVE lookup(_, _, _)
lookup(t, k, depth) ==
    IF IsLeaf(t) THEN (IF k \in DOMAIN t.leaf THEN t.leaf[k] ELSE None)
    ELSE IF Digit(k, depth) \in DOMAIN t.branch
         THEN lookup(t.branch[Digit(k, depth)], k, depth + 1)
         ELSE None

\* Reader::entries_limited: the keys of every leaf, and the map they make.
RECURSIVE KeysOf(_)
KeysOf(t) ==
    IF IsLeaf(t) THEN DOMAIN t.leaf ELSE UNION {KeysOf(t.branch[n]) : n \in DOMAIN t.branch}

EntriesOf(t) == [k \in KeysOf(t) |-> lookup(t, k, 0)]

RECURSIVE CountOf(_)
CountOf(t) ==
    IF IsLeaf(t) THEN Cardinality(DOMAIN t.leaf)
    ELSE LET each == [n \in DOMAIN t.branch |-> CountOf(t.branch[n])]
         IN  FoldFunction(LAMBDA a, b : a + b, 0, each)

\* What the reader refuses: a key off its route (two leaves of one map can
\* then share no key), a leaf over its size, a branch a leaf could hold, an
\* empty child of a branch.
RECURSIVE AcceptsUnder(_, _)
AcceptsUnder(t, prefix) ==
    IF IsLeaf(t)
    THEN /\ Cardinality(DOMAIN t.leaf) <= LEAF_ENTRIES
         /\ \A k \in DOMAIN t.leaf : SubSeq(Route[k], 1, Len(prefix)) = prefix
    ELSE /\ Len(prefix) < MaxDepth
         /\ CountOf(t) > LEAF_ENTRIES
         /\ \A n \in DOMAIN t.branch :
               /\ CountOf(t.branch[n]) > 0
               /\ AcceptsUnder(t.branch[n], Append(prefix, n))

\* A mutant: the reader does not look at how the branches are packed.
AcceptsLoose(t) ==
    LET leaves == {u \in NodesOf(t) : IsLeaf(u)}
    IN  \A u \in leaves : Cardinality(DOMAIN u.leaf) <= LEAF_ENTRIES

Accepts(t) == AcceptsUnder(t, << >>)

-----------------------------------------------------------------------------
(* Shared checkpoints of one document: the three state encodings           *)
(* (engine-core/src/shared_checkpoint.rs and shared_checkpoint/typed.rs)   *)
(* and their transactional publication in PostgreSQL                       *)
(* (shared_checkpoint/postgres.rs).                                        *)
(*                                                                         *)
(* A document state has nodes (metadata and a dictionary of text fields),  *)
(* comments, suggestions and removed choices.  Encoding 1 writes a record  *)
(* as one object; 2 writes its fields as objects of their own; 3 also      *)
(* leaves out the node id and the two fields it can derive again.          *)

CONSTANTS
    Ordinal,       \* the keys of comments, in order ({i:016x})
    PlainText,     \* richtext::plain_text: the label a rich text content has
    LongTexts,     \* the texts longer than MAX_METADATA_BYTES
    States,        \* the document states a writer may reach
    MaxRevisions   \* bound: revisions of the document

VARIABLES
    log,           \* log[s]: the document state at revision s, by event replay
    live,          \* whether the document exists and is not in the trash
    objects,       \* checkpoint_object
    published      \* shared_checkpoint: revision -> [codec, root]

storeVars == <<log, live, objects, published>>

Codecs == 1..3

-----------------------------------------------------------------------------
(* Encoding: Encoder, EncoderV3 and the writer of encoding 1.              *)

Text(codec, t) == [text |-> t, codec |-> codec]

\* Encoder::value of an object.
Dictionary(codec, f) ==
    [dict  |-> write_map([k \in DOMAIN f |-> Text(codec, f[k])]),
     count |-> Cardinality(DOMAIN f), codec |-> codec]

\* encode_node_fields: which of the two derivable fields are left out.
RestoreBlock(id, f) == "blockId" \in DOMAIN f /\ f["blockId"] = id
RestoreLabel(f) ==
    /\ {"content", "label"} \subseteq DOMAIN f
    /\ f["label"] = PlainText[f["content"]]

Kept(id, f) ==
    Restrict(f, {k \in DOMAIN f : /\ ~(k = "blockId" /\ RestoreBlock(id, f))
                                  /\ ~(k = "label" /\ RestoreLabel(f))})

NodeObject(codec, id, n) ==
    CASE codec = 1 -> [node1 |-> id, meta |-> n.meta, plain |-> n.fields]
      [] codec = 2 -> [node2 |-> id, meta |-> n.meta, fields |-> Dictionary(2, n.fields)]
      [] codec = 3 -> [node3 |-> n.meta, fields |-> Dictionary(3, Kept(id, n.fields)),
                       block |-> RestoreBlock(id, n.fields), label |-> RestoreLabel(n.fields)]

CommentObject(codec, c) == [comment |-> Text(codec, c), codec |-> codec]
SuggestionObject(codec, s) ==
    [suggestion |-> s.accepted, detail |-> Text(codec, s.detail), codec |-> codec]
RemovedObject(codec, id) == [removed |-> id, codec |-> codec]

\* The records of a state as the entries of its four maps.
Records(codec, s) ==
    [nodes       |-> [k \in DOMAIN s.nodes |-> NodeObject(codec, k, s.nodes[k])],
     comments    |-> [k \in {Ordinal[i] : i \in DOMAIN s.comments} |->
                        CommentObject(codec, s.comments[CHOOSE i \in DOMAIN s.comments : Ordinal[i] = k])],
     suggestions |-> [k \in DOMAIN s.suggestions |-> SuggestionObject(codec, s.suggestions[k])],
     removed     |-> [k \in s.removed |-> RemovedObject(codec, k)]]

Parts == {"nodes", "comments", "suggestions", "removed"}

StateObject(codec, roots) == [state |-> roots, codec |-> codec]

\* write_state of each encoding: four maps and the object that names them.
StateRoot(codec, s) ==
    StateObject(codec, [p \in Parts |-> write_map(Records(codec, s)[p])])

write_state_v1(s) == StateRoot(1, s)
write_state_v2(s) == StateRoot(2, s)
write_state_v3(s) == StateRoot(3, s)

\* Codec::write.
write_state(codec, s) ==
    CASE codec = 1 -> write_state_v1(s) [] codec = 2 -> write_state_v2(s) [] codec = 3 -> write_state_v3(s)

-----------------------------------------------------------------------------
(* references: what an object names, and the graph under a root.           *)

References(o) ==
    LET has(f) == f \in DOMAIN o IN
    CASE has("leaf")       -> {o.leaf[k] : k \in DOMAIN o.leaf}
      [] has("branch")     -> {o.branch[n] : n \in DOMAIN o.branch}
      [] has("state")      -> {o.state[p] : p \in Parts}
      [] has("dict")       -> {o.dict}
      [] has("fields")     -> {o.fields}
      [] has("comment")    -> {o.comment}
      [] has("suggestion") -> {o.detail}
      [] OTHER             -> {}

RECURSIVE GraphOf(_)
GraphOf(o) == {o} \cup UNION {GraphOf(r) : r \in References(o)}

-----------------------------------------------------------------------------
(* update_state and update_state_v3.                                       *)

\* A mutant: keys that left the state are not removed from the maps.
EditsFromKept(codec, base, target, p) ==
    LET old == Records(codec, base)[p]
        new == Records(codec, target)[p]
    IN  [k \in {k \in DOMAIN new : k \in DOMAIN old => old[k] # new[k]} |-> new[k]]

\* The edits that take the records of one part from base to target.  A record
\* that is the same in both states is not written again.
EditsFrom(codec, base, target, p) ==
    LET old == Records(codec, base)[p]
        new == Records(codec, target)[p]
    IN  [k \in {k \in DOMAIN old \cup DOMAIN new :
                    ~(k \in DOMAIN old /\ k \in DOMAIN new /\ old[k] = new[k])} |->
            IF k \in DOMAIN new THEN new[k] ELSE Gone]

\* The objects written for the edited records of one part.  A node whose
\* fields did not change, and a suggestion whose detail did not, keeps the
\* object the base root leads to.
RecordWrites(codec, base, target, baseRoots, p) ==
    LET edits == EditsFrom(codec, base, target, p)
        old(k) == lookup(baseRoots[p], k, 0)
        kept(k) ==
            CASE /\ p = "nodes" /\ k \in DOMAIN base.nodes
                 /\ base.nodes[k].fields = target.nodes[k].fields -> GraphOf(old(k).fields)
              [] /\ p = "suggestions" /\ k \in DOMAIN base.suggestions
                 /\ base.suggestions[k].detail = target.suggestions[k].detail -> GraphOf(old(k).detail)
              [] OTHER -> {}
    IN  UNION {GraphOf(edits[k]) \ kept(k) : k \in {k \in DOMAIN edits : edits[k] # Gone}}

\* The edited maps under a new state object, or the base root when no map
\* changed.
UpdatedRoot(codec, baseRoot, base, target) ==
    LET roots == baseRoot.state
        out   == [p \in Parts |-> update_map(roots[p], EditsFrom(codec, base, target, p))]
        root  == StateObject(codec, [p \in Parts |-> out[p].node])
        wrote == UNION {out[p].wrote \cup RecordWrites(codec, base, target, roots, p) : p \in Parts}
    IN  Outcome(root, wrote \cup (IF root = baseRoot THEN {} ELSE {root}))

try_update_state_v2(baseRoot, base, target) == UpdatedRoot(2, baseRoot, base, target)
try_update_state_v3(baseRoot, base, target) == UpdatedRoot(3, baseRoot, base, target)

\* update_state, update_state_v3: a failure is answered, but for the few that
\* only say the base is not one to work from, which write in full.
update_state(codec, baseRoot, base, target) ==
    IF codec = 2 THEN try_update_state_v2(baseRoot, base, target)
    ELSE try_update_state_v3(baseRoot, base, target)

-----------------------------------------------------------------------------
(* read_state, read_state_v3.                                              *)

\* The dictionary under a node, with its count checked.
FieldsOf(d) == LET e == EntriesOf(d.dict) IN [k \in DOMAIN e |-> e[k].text]

DictionaryReads(d) == Accepts(d.dict) /\ CountOf(d.dict) = d.count

\* The fields of a compact node with the derived ones put back.
Restored(id, o) ==
    LET f == FieldsOf(o.fields)
        add == (IF o.block THEN {"blockId"} ELSE {}) \cup (IF o.label THEN {"label"} ELSE {})
    IN  [k \in DOMAIN f \cup add |->
            IF k \in DOMAIN f THEN f[k]
            ELSE IF k = "blockId" THEN id ELSE PlainText[f["content"]]]

\* What the compact reader refuses: a flag with the field still there, a
\* label to derive without content, a field that should have been left out,
\* a derived text over the metadata limit.
CompactReads(id, o) ==
    LET f == FieldsOf(o.fields) IN
    /\ o.block => "blockId" \notin DOMAIN f /\ id \notin LongTexts
    /\ o.label => /\ "label" \notin DOMAIN f /\ "content" \in DOMAIN f
                  /\ PlainText[f["content"]] \notin LongTexts
    /\ ~o.block => ~RestoreBlock(id, f)
    /\ ~o.label => ~RestoreLabel(f)

\* What read_state of each encoding checks of a node before it is one.
NodeReads_v1(id, o) == o.node1 = id
NodeReads_v2(id, o) == o.node2 = id /\ DictionaryReads(o.fields)
NodeReads_v3(id, o) == DictionaryReads(o.fields) /\ CompactReads(id, o)

NodeOf(id, o) ==
    CASE "node1" \in DOMAIN o -> [meta |-> o.meta, fields |-> o.plain]
      [] "node2" \in DOMAIN o -> [meta |-> o.meta, fields |-> FieldsOf(o.fields)]
      [] "node3" \in DOMAIN o -> [meta |-> o.node3, fields |-> Restored(id, o)]

\* The order of the comments and the ids of the removed choices.
CommentsRead(t) == KeysOf(t) = {Ordinal[i] : i \in 1..CountOf(t)}
RemovedRead(t)  == \A k \in KeysOf(t) : lookup(t, k, 0).removed = k

\* Codec::read: the whole graph is there, its maps are the writer's, and
\* every record is of the encoding the row names.
Reads(store, codec, root) ==
    /\ root.codec = codec
    /\ GraphOf(root) \subseteq store
    /\ \A p \in Parts : Accepts(root.state[p])
    /\ \A k \in KeysOf(root.state.nodes) :
          LET o == lookup(root.state.nodes, k, 0) IN
          CASE codec = 1 -> NodeReads_v1(k, o)
            [] codec = 2 -> NodeReads_v2(k, o)
            [] codec = 3 -> NodeReads_v3(k, o)
    /\ CommentsRead(root.state.comments)
    /\ RemovedRead(root.state.removed)

StateOf(root) ==
    LET nodes == EntriesOf(root.state.nodes)
        comments == EntriesOf(root.state.comments)
        suggestions == EntriesOf(root.state.suggestions)
    IN  [nodes       |-> [k \in DOMAIN nodes |-> NodeOf(k, nodes[k])],
         comments    |-> [i \in 1..Cardinality(DOMAIN comments) |-> comments[Ordinal[i]].comment.text],
         suggestions |-> [k \in DOMAIN suggestions |->
                            [accepted |-> suggestions[k].suggestion,
                             detail   |-> suggestions[k].detail.text]],
         removed     |-> KeysOf(root.state.removed)]

-----------------------------------------------------------------------------
(* Publication.  One transaction under the document's publication lock.    *)

StoreInit ==
    /\ log = << >>
    /\ live = TRUE
    /\ objects = {}
    /\ published = << >>

\* The document moves on (materialized events; engine-core's log).
Revise ==
    /\ live
    /\ Len(log) < MaxRevisions
    /\ \E s \in States : log' = Append(log, s)
    /\ UNCHANGED <<live, objects, published>>

\* put_batch: an object that is there already stays as it is.
put_batch(wrote) == objects \cup wrote

\* A mutant: the row is inserted without reading the written graph back.
SavedBlind(seq, codec, root, wrote) ==
    /\ objects' = objects \cup wrote
    /\ published' = (seq :> [codec |-> codec, root |-> root]) @@ published

\* The tail of every publication: the written graph must read back as the
\* state of the log, and the row is inserted unless the revision has one.
Saved(seq, codec, root, wrote) ==
    /\ objects' = put_batch(wrote)
    /\ Reads(objects', codec, root)
    /\ StateOf(root) = log[seq]
    /\ seq \in DOMAIN published => published[seq] = [codec |-> codec, root |-> root]
    /\ published' = (seq :> [codec |-> codec, root |-> root]) @@ published

\* take_with_codec and publish_in_connection.
take_with_codec(seq, codec) ==
    /\ live
    /\ seq \in DOMAIN log
    /\ Saved(seq, codec, write_state(codec, log[seq]), GraphOf(write_state(codec, log[seq])))
    /\ UNCHANGED <<log, live>>

\* The base take_incremental works from: the named one, or the latest earlier
\* checkpoint of the same codec.
Bases(seq, codec) == {b \in DOMAIN published : b < seq /\ published[b].codec = codec}
Latest(seq, codec) == {b \in Bases(seq, codec) : \A c \in Bases(seq, codec) : c <= b}

\* take_incremental_with_codec_and_base.  A revision already published in
\* this codec is only read again; without a base it is written in full.
take_incremental(seq, codec, named) ==
    /\ live
    /\ codec \in {2, 3}
    /\ seq \in DOMAIN log
    /\ seq \notin DOMAIN published
    /\ \/ /\ named = 0 /\ Bases(seq, codec) = {}
          /\ Saved(seq, codec, write_state(codec, log[seq]), GraphOf(write_state(codec, log[seq])))
       \/ \E b \in IF named = 0 THEN Latest(seq, codec) ELSE Bases(seq, codec) \cap {named} :
             LET out == update_state(codec, published[b].root, StateOf(published[b].root), log[seq])
             IN  Saved(seq, codec, out.node, out.wrote)
    /\ UNCHANGED <<log, live>>

\* The document is moved to the trash and erased with its checkpoints.
Erase ==
    /\ live
    /\ live' = FALSE
    /\ objects' = {} /\ published' = << >>
    /\ UNCHANGED log

StoreNext ==
    \/ Revise
    \/ \E s \in DOMAIN log, c \in Codecs : take_with_codec(s, c)
    \/ \E s \in DOMAIN log, c \in {2, 3}, b \in 0..MaxRevisions : take_incremental(s, c, b)
    \/ Erase

-----------------------------------------------------------------------------
(* Properties.                                                             *)

\* Every published checkpoint still loads, from objects that are all there,
\* and gives the state its revision has by replay - whatever was published
\* after it from the same objects (postgres.rs load_in_connection).
CheckpointsLoad ==
    \A s \in DOMAIN published :
        LET row == published[s] IN
        /\ Reads(objects, row.codec, row.root)
        /\ StateOf(row.root) = log[s]

\* An incremental checkpoint is the full one: from any published base and to
\* any revision, editing the base's maps gives the very root a full write
\* gives, and writes every object the store lacks (update_node, update_state
\* against map, write_state).
UpdateIsRewrite ==
    \A b \in DOMAIN published, s \in DOMAIN log :
        published[b].codec \in {2, 3} =>
            LET codec == published[b].codec
                out   == update_state(codec, published[b].root, log[b], log[s])
            IN  /\ out.node = write_state(codec, log[s])
                /\ GraphOf(out.node) \subseteq objects \cup out.wrote

-----------------------------------------------------------------------------
(* Chunked content: a text or a file written as a stream of chunks into a  *)
(* tree of bounded fan-out and height                                      *)
(* (engine-core/src/shared_checkpoint/content.rs).                         *)
(*                                                                         *)
(* As in CheckpointMap an address is the object it names.  A reference has *)
(* the length it stands for; levels[h + 1] holds the finished subtrees of  *)
(* height h that have no parent yet.                                       *)

CONSTANTS
    CHUNK_BYTES, FANOUT, MAX_HEIGHT,
    Byte,          \* the bytes a stream is made of
    MaxBytes       \* bound: the longest stream

VARIABLES
    input,         \* the stream still to be read
    whole,         \* the stream as it was given
    levels,        \* Builder::levels
    content        \* what the writer answered: Writing, a root or a refusal

contentVars == <<input, whole, levels, content>>

Heights == 0..MAX_HEIGHT

RECURSIVE Power(_, _)
Power(b, n) == IF n = 0 THEN 1 ELSE b * Power(b, n - 1)

capacity(height) == CHUNK_BYTES * Power(FANOUT, height)

\* height_for: the least height that holds the length.
height_for(length) ==
    CHOOSE h \in Heights : length <= capacity(h) /\ \A g \in Heights : length <= capacity(g) => h <= g

Sum(refs) == FoldSeq(LAMBDA r, n : r.length + n, 0, refs)

Chunk(bytes) == [object |-> [chunk |-> bytes], length |-> Len(bytes)]
BranchOf(height, refs) ==
    [object |-> [children |-> refs, height |-> height, total |-> Sum(refs)], length |-> Sum(refs)]
RootOf(height, ref) == [height |-> height, length |-> ref.length, child |-> ref.object]

Writing == [status |-> "writing"]
Refused == [status |-> "content tree height"]

\* Builder::push: a full level becomes one subtree of the next.  A level at
\* the greatest height may not fill up.
RECURSIVE push(_, _, _)
push(ls, level, ref) ==
    LET grown == Append(ls[level + 1], ref) IN
    IF Len(grown) < FANOUT THEN [ls EXCEPT ![level + 1] = grown]
    ELSE IF level = MAX_HEIGHT THEN << >>
    ELSE push([ls EXCEPT ![level + 1] = << >>], level + 1, BranchOf(level + 1, grown))

\* A mutant: the last subtree is taken although higher levels hold others.
finishFirst(ls) ==
    LET low == CHOOSE h \in Heights : ls[h + 1] # << >> /\ \A g \in 0..(h - 1) : ls[g + 1] = << >>
    IN  IF Len(ls[low + 1]) = 1 THEN RootOf(low, ls[low + 1][1])
        ELSE RootOf(low + 1, BranchOf(low + 1, ls[low + 1]))

\* Builder::finish: what is left on the levels is packed upwards until one
\* reference is left.  No levels at all stand for a push that was refused.
RECURSIVE finish(_)
finish(ls) ==
    IF ls = << >> THEN Refused
    ELSE LET low == CHOOSE h \in Heights : ls[h + 1] # << >> /\ \A g \in 0..(h - 1) : ls[g + 1] = << >>
             only == Len(ls[low + 1]) = 1 /\ \A g \in (low + 1)..MAX_HEIGHT : ls[g + 1] = << >>
         IN  IF only THEN RootOf(low, ls[low + 1][1])
             ELSE IF low = MAX_HEIGHT THEN Refused
             ELSE finish(push([ls EXCEPT ![low + 1] = << >>], low + 1, BranchOf(low + 1, ls[low + 1])))

ContentInit ==
    /\ whole \in BoundedSeq(Byte, MaxBytes)
    /\ input = whole
    /\ levels = [h \in 1..(MAX_HEIGHT + 1) |-> << >>]
    /\ content = Writing

\* One turn of write_with_writer: a chunk is filled from the stream (several
\* reads may be needed) and pushed; a short one, or none after the first, is
\* the last.
WriteChunk ==
    /\ content = Writing
    /\ LET count == IF Len(input) < CHUNK_BYTES THEN Len(input) ELSE CHUNK_BYTES
           pushed == push(levels, 0, Chunk(SubSeq(input, 1, count)))
           none == count = 0 /\ whole # << >>
           after == IF none THEN levels ELSE pushed
       IN  /\ input' = SubSeq(input, count + 1, Len(input))
           /\ levels' = after
           /\ content' = IF after # << >> /\ count = CHUNK_BYTES THEN Writing ELSE finish(after)
    /\ UNCHANGED whole

\* decode: what is checked of one object by itself.
Decodes(o) ==
    IF "children" \in DOMAIN o
    THEN LET n == Len(o.children) IN
         /\ o.height \in 1..MAX_HEIGHT /\ n \in 1..FANOUT
         /\ o.total = Sum(o.children)
         /\ \A i \in 1..n :
               /\ o.children[i].length \in 1..capacity(o.height - 1)
               /\ i < n => o.children[i].length = capacity(o.height - 1)
    ELSE Len(o.chunk) <= CHUNK_BYTES

\* read_with_budget: the walk from the root, which checks that every object
\* is of the kind, the height and the length its reference says.
RECURSIVE ReadsAt(_, _, _)
ReadsAt(height, length, o) ==
    /\ Decodes(o)
    /\ IF height = 0
       THEN "chunk" \in DOMAIN o /\ Len(o.chunk) = length
       ELSE /\ "children" \in DOMAIN o /\ o.height = height /\ o.total = length
            /\ \A i \in DOMAIN o.children :
                  ReadsAt(height - 1, o.children[i].length, o.children[i].object)

RECURSIVE BytesOf(_)
BytesOf(o) ==
    IF "chunk" \in DOMAIN o THEN o.chunk
    ELSE FlattenSeq([i \in DOMAIN o.children |-> BytesOf(o.children[i].object)])

-----------------------------------------------------------------------------
\* What was streamed in is what the reader gives back: every stream the tree
\* can hold ends in a root of the least height whose objects all decode and
\* read back as the stream, and only a longer one is refused (content.rs
\* write_with_writer, read_with_budget).
ContentExact ==
    content # Writing =>
        IF Len(whole) <= capacity(MAX_HEIGHT)
        THEN /\ content # Refused
             /\ content.height = height_for(Len(whole))
             /\ content.length = Len(whole)
             /\ ReadsAt(content.height, content.length, content.child)
             /\ BytesOf(content.child) = whole
        ELSE content = Refused
=============================================================================
