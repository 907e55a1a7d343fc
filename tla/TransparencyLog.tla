-------------------------- MODULE TransparencyLog ---------------------------
(***************************************************************************)
(* The transparency log: the Merkle tree it commits to, with its proofs    *)
(* and verifiers, the tile store it is kept in, and what its clients and   *)
(* witnesses make of it.                                                   *)
(***************************************************************************)
EXTENDS Integers, Sequences, FiniteSets, SequencesExt

-----------------------------------------------------------------------------
(* The Merkle tree of the transparency log (transparency/merkle.rs): what  *)
(* a tree hashes to, the proofs it gives and the two verifiers.  A hash is *)
(* the term it is taken over, so two hashes are equal when their inputs    *)
(* are.  A source of hashes is a record of a size and of the complete      *)
(* subtrees it stores, by level and index.                                 *)

empty_root == [empty |-> TRUE]
leaf_hash(entry) == [leaf |-> entry]
node_hash(left, right) == [left |-> left, right |-> right]

PowersOfTwo(n) == {2^i : i \in {i \in 0..n : 2^i <= n}}

\* A mutant: the split point is the half of the range, rounded up.
split_half(n) == (n + 1) \div 2

\* The largest power of two below n (n > 1).
split(n) == Max({k \in PowersOfTwo(n) : k < n})

Log2(n) == CHOOSE i \in 0..n : 2^i = n

\* The hash of the n leaves from lo on; a range the source stores is one node.
RECURSIVE range_hash(_, _, _)
range_hash(source, lo, n) ==
    IF n \in PowersOfTwo(n) /\ lo % n = 0
    THEN source.node[<<Log2(n), lo \div n>>]
    ELSE LET k == split(n)
         IN  node_hash(range_hash(source, lo, k), range_hash(source, lo + k, n - k))

check_size(source, size) == size <= source.size

tree_root(source, size) ==
    IF size = 0 THEN empty_root ELSE range_hash(source, 0, size)

\* The siblings met on the way from the root of n leaves at lo down to leaf m,
\* leaf level first.
RECURSIVE AuditPath(_, _, _, _)
AuditPath(source, lo, n, m) ==
    IF n = 1 THEN << >>
    ELSE LET k == split(n)
         IN  IF m < k
             THEN Append(AuditPath(source, lo, k, m), range_hash(source, lo + k, n - k))
             ELSE Append(AuditPath(source, lo + k, n - k, m - k), range_hash(source, lo, k))

inclusion_proof(source, index, size) == AuditPath(source, 0, size, index)

\* The proof that the first m of n leaves at lo are a prefix; the range itself
\* is sent unless it still is the whole first tree.
RECURSIVE PrefixPath(_, _, _, _, _)
PrefixPath(source, lo, n, m, complete) ==
    IF m = n
    THEN IF complete THEN << >> ELSE <<range_hash(source, lo, n)>>
    ELSE LET k == split(n)
         IN  IF m <= k
             THEN Append(PrefixPath(source, lo, k, m, complete), range_hash(source, lo + k, n - k))
             ELSE Append(PrefixPath(source, lo + k, n - k, m - k, FALSE), range_hash(source, lo, k))

consistency_proof(source, first, second) ==
    IF first = 0 THEN << >> ELSE PrefixPath(source, 0, second, first, TRUE)

\* Both walks drop the levels at which the node is a left child with nothing
\* beside it.
RECURSIVE Lifted(_, _)
Lifted(f, s) == IF f % 2 = 0 /\ f # 0 THEN Lifted(f \div 2, s \div 2) ELSE <<f, s>>

RECURSIVE LeftEdge(_, _)
LeftEdge(f, s) == IF f % 2 = 1 THEN LeftEdge(f \div 2, s \div 2) ELSE <<f, s>>

\* Where a walk stands after one sibling, and what it has hashed.  The second
\* tree's hash takes every sibling; the first tree's only those on its left.
Climb(walk, sibling) ==
    LET onRight == walk.f % 2 = 1 \/ walk.f = walk.s
        at == IF onRight THEN Lifted(walk.f, walk.s) ELSE <<walk.f, walk.s>>
    IN  [ok     |-> walk.ok /\ walk.s # 0,
         f      |-> at[1] \div 2,
         s      |-> at[2] \div 2,
         first  |-> IF onRight THEN node_hash(sibling, walk.first) ELSE walk.first,
         second |-> IF onRight THEN node_hash(sibling, walk.second)
                               ELSE node_hash(walk.second, sibling)]

WalkFrom(f, s, hash) == [ok |-> TRUE, f |-> f, s |-> s, first |-> hash, second |-> hash]

verify_inclusion(leaf, index, size, proof, root) ==
    /\ index < size
    /\ LET end == FoldLeft(Climb, WalkFrom(index, size - 1, leaf), proof)
       IN  end.ok /\ end.s = 0 /\ end.second = root

\* A mutant: the first root is only compared when the proof carries it.
verify_consistency_one_sided(first, second, first_root, second_root, proof) ==
    \/ first = second /\ proof = << >> /\ first_root = second_root
    \/ first = 0 /\ first < second /\ proof = << >> /\ first_root = empty_root
    \/ /\ 0 < first /\ first < second
       /\ LET path == IF first \in PowersOfTwo(first) THEN <<first_root>> \o proof ELSE proof
          IN  /\ path # << >>
              /\ LET edge == LeftEdge(first - 1, second - 1)
                     end == FoldLeft(Climb, WalkFrom(edge[1], edge[2], Head(path)), Tail(path))
                 IN  end.ok /\ end.s = 0 /\ end.second = second_root

verify_consistency(first, second, first_root, second_root, proof) ==
    \/ first = second /\ proof = << >> /\ first_root = second_root
    \/ first = 0 /\ first < second /\ proof = << >> /\ first_root = empty_root
    \/ /\ 0 < first /\ first < second
       /\ LET path == IF first \in PowersOfTwo(first) THEN <<first_root>> \o proof ELSE proof
          IN  /\ path # << >>
              /\ LET edge == LeftEdge(first - 1, second - 1)
                     end == FoldLeft(Climb, WalkFrom(edge[1], edge[2], Head(path)), Tail(path))
                 IN  /\ end.ok /\ end.s = 0
                     /\ end.first = first_root
                     /\ end.second = second_root

-----------------------------------------------------------------------------
\* The tree kept in memory: per level the hashes of its complete subtrees.

RECURSIVE Completed(_, _)
Completed(levels, level) ==
    LET row == levels[level]
        parent == node_hash(row[Len(row) - 1], row[Len(row)])
    IN  IF Len(row) % 2 = 1 THEN levels
        ELSE IF Len(levels) = level THEN Completed(Append(levels, <<parent>>), level + 1)
        ELSE Completed([levels EXCEPT ![level + 1] = Append(@, parent)], level + 1)

append_leaf_hash(levels, hash) ==
    IF levels = << >> THEN Completed(<< <<hash>> >>, 1)
    ELSE Completed([levels EXCEPT ![1] = Append(@, hash)], 1)

append_entry(levels, entry) == append_leaf_hash(levels, leaf_hash(entry))

\* The memory tree of a sequence of entries, as a source of hashes.
MemoryTree(entries) ==
    LET levels == FoldLeft(append_entry, << >>, entries)
        at == UNION {{<<l - 1, i - 1>> : i \in DOMAIN levels[l]} : l \in DOMAIN levels}
    IN  [size |-> Len(entries), node |-> [p \in at |-> levels[p[1] + 1][p[2] + 1]]]

-----------------------------------------------------------------------------
\* What RFC 6962 says a sequence of entries hashes to.
RECURSIVE TreeHash(_)
TreeHash(entries) ==
    CASE entries = << >> -> empty_root
      [] Len(entries) = 1 -> leaf_hash(entries[1])
      [] OTHER -> LET k == Max({k \in PowersOfTwo(Len(entries)) : k < Len(entries)})
                  IN  node_hash(TreeHash(SubSeq(entries, 1, k)),
                                TreeHash(SubSeq(entries, k + 1, Len(entries))))

Prefix(entries, n) == SubSeq(entries, 1, n)

-----------------------------------------------------------------------------
(* The transparency log over its tile store (transparency/tiles.rs and     *)
(* log.rs).  Tiles and entry bundles are files named by level, index and   *)
(* width; a batch writes every file first and the size last, and the       *)
(* process may stop between any two writes.  A file is replaced whole      *)
(* (temporary file, sync, rename).                                         *)

CONSTANTS
    TILE_HEIGHT,   \* levels of the tree one tile spans
    Batches,       \* the batches of leaves a writer appends
    MaxSize,       \* bound: leaves in the log
    MaxCrashes     \* bound: times the writer stops

VARIABLES
    files,         \* the tile store: path |-> contents
    size,          \* the size marker of the store
    log,           \* the open log: its size and frontier, or NotOpen
    writes,        \* the writes a batch still has to make
    batch,         \* the leaves of that batch
    committed,     \* the leaves of every batch whose size was written
    crashes

logvars == <<files, size, log, writes, batch, committed, crashes>>

TILE_WIDTH == 2^TILE_HEIGHT
NotOpen == [size |-> -1, frontier |-> << >>]
NoFile == << >>
NoHash == [none |-> TRUE]
NoEntry == ""

hash_tile_path(level, index, width) == [tile |-> level, index |-> index, width |-> width]
entry_bundle_path(index, width) == [tile |-> -1, index |-> index, width |-> width]

FileAt(store, path) == IF path \in DOMAIN store THEN store[path] ELSE NoFile

\* What is left of a level's n hashes in a tile, at most a full one.
WidthOf(n, tile) == Min({n - tile * TILE_WIDTH, TILE_WIDTH})

\* Subtrees a store of this size has complete at a level.
CompleteAt(n, level) == n \div (2^level)

RECURSIVE Folded(_)
Folded(nodes) ==
    IF Len(nodes) = 1 THEN nodes[1]
    ELSE Folded([i \in 1..(Len(nodes) \div 2) |-> node_hash(nodes[2 * i - 1], nodes[2 * i])])

\* The hash of one complete subtree, recomputed from the tile that spans it;
\* NoHash where the store lacks the tile or the tile has another length.
NodeIn(store, n, level, index) ==
    LET tile_level == level \div TILE_HEIGHT
        sub == level % TILE_HEIGHT
        complete == CompleteAt(n, tile_level * TILE_HEIGHT)
        first == index * 2^sub
        tile == first \div TILE_WIDTH
        width == WidthOf(complete, tile)
        hashes == FileAt(store, hash_tile_path(tile_level, tile, width))
        offset == first % TILE_WIDTH
    IN  IF first + 2^sub > complete \/ Len(hashes) # width THEN NoHash
        ELSE Folded(SubSeq(hashes, offset + 1, offset + 2^sub))

\* The complete subtrees of a tree of n leaves, largest first.
Edge(n) ==
    LET levels == {l \in 0..n : (n \div 2^l) % 2 = 1}
        descending == SetToSortSeq(levels, LAMBDA a, b : a > b)
    IN  [i \in DOMAIN descending |->
            [level |-> descending[i], index |-> (n \div 2^(descending[i] + 1)) * 2]]

open(store, n) ==
    LET edge == Edge(n)
    IN  [size |-> n,
         frontier |-> [i \in DOMAIN edge |->
             [level |-> edge[i].level, hash |-> NodeIn(store, n, edge[i].level, edge[i].index)]]]

Opens(store, n) == \A i \in DOMAIN open(store, n).frontier : open(store, n).frontier[i].hash # NoHash

RootOf(opened) ==
    LET hashes == [i \in DOMAIN opened.frontier |-> opened.frontier[i].hash]
    IN  IF hashes = << >> THEN empty_root
        ELSE FoldLeft(LAMBDA right, left : node_hash(left, right), Last(hashes),
                      Reverse(Front(hashes)))

\* The entry at an index, read from the bundle of the committed size.
EntryAt(store, n, index) ==
    LET bundle == index \div TILE_WIDTH
        found == FileAt(store, entry_bundle_path(bundle, WidthOf(n, bundle)))
    IN  IF Len(found) <= index % TILE_WIDTH THEN NoEntry
        ELSE found[(index % TILE_WIDTH) + 1]

\* The open log as a source of hashes.
Source(store, n) ==
    LET at == {p \in (0..n) \X (0..n) : p[2] < CompleteAt(n, p[1])}
    IN  [size |-> n, node |-> [p \in at |-> NodeIn(store, n, p[1], p[2])]]

-----------------------------------------------------------------------------
\* Appending a batch.

\* A hash joins the tile of its level if that level is stored.
Stored(acc, level, hash, position) ==
    IF level % TILE_HEIGHT # 0 THEN acc.tiles
    ELSE LET at == <<level \div TILE_HEIGHT, position \div TILE_WIDTH>>
             have == IF at \in DOMAIN acc.tiles THEN acc.tiles[at] ELSE << >>
         IN  [t \in DOMAIN acc.tiles \cup {at} |->
                 IF t = at THEN Append(have, hash) ELSE acc.tiles[t]]

\* The new hash absorbs every complete subtree of its own level on the edge.
RECURSIVE Carried(_, _, _)
Carried(acc, level, hash) ==
    IF acc.frontier # << >> /\ Last(acc.frontier).level = level
    THEN LET up == node_hash(Last(acc.frontier).hash, hash)
         IN  Carried([acc EXCEPT !.frontier = Front(@),
                                 !.tiles = Stored(acc, level + 1, up, CompleteAt(acc.size, level + 1) - 1)],
                     level + 1, up)
    ELSE [acc EXCEPT !.frontier = Append(@, [level |-> level, hash |-> hash])]

AppendLeaf(acc, entry) ==
    LET hash == leaf_hash(entry)
        grown == [acc EXCEPT !.tiles = Stored(acc, 0, hash, acc.size), !.size = @ + 1]
    IN  Carried(grown, 0, hash)

AppendAll(opened, leaves) ==
    FoldLeft(AppendLeaf, [size |-> opened.size, frontier |-> opened.frontier, tiles |-> << >>], leaves)

\* What a tile or a bundle already holds of the committed tree.
Held(store, path, count) == IF count > 0 THEN FileAt(store, path) ELSE << >>

\* The hash tiles a batch writes, each behind what it already holds.
TileWrites(store, n, tiles) ==
    LET order == SetToSortSeq(DOMAIN tiles, LAMBDA a, b : a[1] < b[1] \/ (a[1] = b[1] /\ a[2] < b[2]))
        count(t) == CompleteAt(n, t[1] * TILE_HEIGHT) - t[2] * TILE_WIDTH
        held(t) == Held(store, hash_tile_path(t[1], t[2], count(t)), count(t))
    IN  [i \in DOMAIN order |->
            LET t == order[i]
                full == held(t) \o tiles[t]
            IN  [path |-> hash_tile_path(t[1], t[2], Len(full)), data |-> full]]

\* The entry bundles of the batch.
BundleWrites(store, n, leaves) ==
    LET touched == {(n + i - 1) \div TILE_WIDTH : i \in DOMAIN leaves}
        order == SetToSortSeq(touched, LAMBDA a, b : a < b)
        own(b) == SelectSeq([i \in DOMAIN leaves |-> [at |-> (n + i - 1) \div TILE_WIDTH, entry |-> leaves[i]]],
                            LAMBDA l : l.at = b)
        held(b) == Held(store, entry_bundle_path(b, n - b * TILE_WIDTH), n - b * TILE_WIDTH)
    IN  [i \in DOMAIN order |->
            LET b == order[i]
                full == held(b) \o [j \in DOMAIN own(b) |-> own(b)[j].entry]
            IN  [path |-> entry_bundle_path(b, Len(full)), data |-> full]]

size_path == [tile |-> -2, index |-> 0, width |-> 0]
SizeWrite(n) == [path |-> size_path, data |-> n]


\* Every file of the batch, then the size.
BatchWrites(store, n, opened, leaves) ==
    TileWrites(store, n, AppendAll(opened, leaves).tiles)
        \o BundleWrites(store, n, leaves) \o <<SizeWrite(n + Len(leaves))>>

LogInit ==
    /\ files = << >>
    /\ size = 0
    /\ log = NotOpen
    /\ writes = << >>
    /\ batch = << >>
    /\ committed = << >>
    /\ crashes = 0

open_log ==
    /\ log = NotOpen
    /\ Opens(files, size)
    /\ log' = open(files, size)
    /\ UNCHANGED <<files, size, writes, batch, committed, crashes>>

\* append_batch works out every write from the tree it has open.
append_batch(leaves) ==
    /\ log # NotOpen
    /\ writes = << >>
    /\ log.size + Len(leaves) <= MaxSize
    /\ batch' = leaves
    /\ writes' = BatchWrites(files, log.size, log, leaves)
    /\ UNCHANGED <<files, size, log, committed, crashes>>

\* One write reaches the store; the write of the size commits the batch and the
\* open log follows it.
put ==
    /\ writes # << >>
    /\ writes' = Tail(writes)
    /\ LET w == writes[1]
       IN  IF w.path = size_path
           THEN /\ size' = w.data
                /\ committed' = committed \o batch
                /\ UNCHANGED files
           ELSE /\ files' = [p \in DOMAIN files \cup {w.path} |-> IF p = w.path THEN w.data ELSE files[p]]
                /\ UNCHANGED <<size, committed>>
    /\ IF Len(writes) = 1
       THEN LET grown == AppendAll(log, batch)
            IN  log' = [size |-> grown.size, frontier |-> grown.frontier]
       ELSE UNCHANGED log
    /\ UNCHANGED <<batch, crashes>>

\* The writer stops, or a write fails: what was written stays.
stop_writer ==
    /\ log # NotOpen
    /\ crashes < MaxCrashes
    /\ crashes' = crashes + 1
    /\ log' = NotOpen
    /\ writes' = << >>
    /\ UNCHANGED <<files, size, batch, committed>>

LogNext ==
    \/ open_log
    \/ \E leaves \in Batches : append_batch(leaves)
    \/ put
    \/ stop_writer

-----------------------------------------------------------------------------
\* Whatever was half written, the store opens at its size as exactly the
\* committed leaves: the same root as hashing them afresh, every leaf where it
\* was appended, and every proof a client asks for verifies ("a crash before
\* the size is written leaves the previous tree intact", tiles.rs).
StoreIsCommitted ==
    LET source == Source(files, size)
        root == TreeHash(committed)
    IN  /\ size = Len(committed)
        /\ Opens(files, size)
        /\ RootOf(open(files, size)) = root
        /\ tree_root(source, size) = root
        /\ \A i \in 1..size :
               /\ EntryAt(files, size, i - 1) = committed[i]
               /\ verify_inclusion(leaf_hash(committed[i]), i - 1, size,
                                   inclusion_proof(source, i - 1, size), root)
               /\ verify_consistency(i, size, TreeHash(Prefix(committed, i)), root,
                                     consistency_proof(source, i, size))
        /\ log # NotOpen /\ writes = << >> => log = open(files, size)

-----------------------------------------------------------------------------
(* What a client makes of a transparency log (transparency/note.rs,        *)
(* leaf.rs, bundle.rs, policy.rs and assurance.rs): signed checkpoint      *)
(* notes, witness cosignatures, the trust policy, and the assurance level  *)
(* of an inclusion bundle.  A log that was restored from a backup may have *)
(* signed two histories; the witnesses are the parties that should notice. *)

CONSTANTS
    PolicyDoc,     \* the policy document of the client
    PolicyDocs,    \* policy documents to load
    UnfitNames,    \* names no key may have
    BadOrigins,    \* origins Origin::new refuses
    Histories,     \* what the log has held, leaf by leaf (as JSON values)
    Offers,        \* bundles as they may reach the client
    MaxLines,      \* bound: cosignatures made
    MaxBundles     \* bound: bundles a client assesses

VARIABLES
    honest,        \* the witnesses that check consistency before they sign
    lines,         \* the cosignature lines made so far
    known,         \* KnownCheckpoints::by_size of the client
    last,          \* the last assessment, and what the client knew before it
    bundles,       \* bundles assessed
    doc            \* a policy document to load

trustvars == <<honest, lines, known, last, bundles, doc>>

-----------------------------------------------------------------------------
\* Leaves (leaf.rs).  A JSON object is a function from its field names.

LeafFields ==
    [ref |-> {"t", "tag", "receipt"}, rot |-> {"t", "tag", "rotation"},
     hzn |-> {"t", "tag", "horizon", "seq"}, evh |-> {"t", "root", "count", "interval"},
     ver |-> {"t", "tag", "version"}, suc |-> {"t", "prev_origin", "size", "root"}]

Digests == {"tag", "receipt", "rotation", "horizon", "root", "version"}
Numbers == {"seq", "count", "interval", "size"}

\* A digest is lowercase hex text, a number an unsigned integer.
field_hex(value) == value.type = "text" /\ value.hex
field_number(value) == value.type = "number"

LeafReads(object) ==
    /\ "t" \in DOMAIN object
    /\ object.t.text \in DOMAIN LeafFields
    /\ DOMAIN object = LeafFields[object.t.text]
    /\ \A f \in DOMAIN object \cap Digests : field_hex(object[f])
    /\ \A f \in DOMAIN object \cap Numbers : field_number(object[f])
    /\ "prev_origin" \in DOMAIN object => object.prev_origin.text \notin BadOrigins

\* The typed leaf and back; the entry the log stores is the canonical JSON
\* behind the leaf domain.
from_value(object) == [kind |-> object.t.text, body |-> [f \in DOMAIN object \ {"t"} |-> object[f].text]]
to_value(leaf) ==
    [f \in LeafFields[leaf.kind] |->
        IF f = "t" THEN leaf.kind ELSE leaf.body[f]]
entry(leaf) == [domain |-> "leaf", data |-> to_value(leaf)]

\* The entry of every leaf of a history, and its tree.
Entries(history) == [i \in DOMAIN history |-> entry(from_value(history[i]))]
RootAt(history, n) == TreeHash(Prefix(Entries(history), n))

-----------------------------------------------------------------------------
\* Keys and notes (note.rs).

valid_key_name(name) == name \notin UnfitNames
key_id(k) == <<k.name, k.kind, k.public>>
KeyParses(k) == k.kind \in {"log", "cosigner"} /\ valid_key_name(k.name) /\ k.id = key_id(k)

\* A signature line names its key and carries the signature of some public key
\* over some text (and, a cosignature, a time).
line(k, text, time) ==
    [name |-> k.name, id |-> key_id(k), by |-> k.public, text |-> text, time |-> time]

Checkpoint(name, n, root) == [origin |-> name, size |-> n, root |-> root]

sign_checkpoint(k, text) == line(k, text, 0)
cosign_checkpoint(k, text, time) == line(k, text, time)

with_signature(note, signature) == [note EXCEPT !.signatures = Append(@, signature)]

\* A note parses when it has a line and no two lines of one key.
NoteParses(note) ==
    /\ note.signatures # << >>
    /\ \A i, j \in DOMAIN note.signatures :
           i # j => <<note.signatures[i].name, note.signatures[i].id>>
                        # <<note.signatures[j].name, note.signatures[j].id>>

LinesOf(note, k) == {s \in Range(note.signatures) : s.name = k.name /\ s.id = key_id(k)}

\* The line of the key signs this very text.
verify(note, k) == \A s \in LinesOf(note, k) : s.by = k.public /\ s.text = note.text
-----------------------------------------------------------------------------
\* The trust policy (policy.rs).

Operators(witnesses) == {witnesses[i].operator : i \in DOMAIN witnesses}

LogLoads(d) ==
    /\ d.version = 1
    /\ d.origin \notin BadOrigins
    /\ KeyParses(d.log)
    /\ d.log.kind = "log"
    /\ d.log.name = d.origin

WitnessLoads(d, i) ==
    LET w == d.witnesses[i]
    IN  /\ KeyParses(w.key)
        /\ w.key.kind = "cosigner"
        /\ w.key.name = w.name
        /\ w.name # d.origin
        /\ w.key.public # d.log.public
        /\ \A j \in 1..(i - 1) : d.witnesses[j].name # w.name /\ d.witnesses[j].key.public # w.key.public
        /\ w.operator \notin UnfitNames

\* A mutant: the threshold is held against the witnesses only.
QuorumLoadsByCount(d) == d.threshold > 0 /\ d.threshold <= Len(d.witnesses)

QuorumLoads(d) ==
    /\ d.threshold > 0
    /\ d.threshold <= Len(d.witnesses)
    /\ d.distinct_operators => d.threshold <= Cardinality(Operators(d.witnesses))

from_json(d) ==
    /\ LogLoads(d)
    /\ \A i \in DOMAIN d.witnesses : WitnessLoads(d, i)
    /\ QuorumLoads(d)
    /\ d.max_age_seconds > 0
    /\ d.on_failure \in {"warn", "reject"}

quorum_is_majority(d) ==
    2 * d.threshold > (IF d.distinct_operators THEN Cardinality(Operators(d.witnesses)) ELSE Len(d.witnesses))

AbsDiff(a, b) == IF a < b THEN b - a ELSE a - b

\* A mutant: the log's own signature counts as a cosignature.
quorum_with_log(d, cosigners, now) ==
    LET fresh == {c \in cosigners : AbsDiff(c.time, now) <= d.max_age_seconds}
    IN  1 + (IF d.distinct_operators THEN Cardinality({c.operator : c \in fresh}) ELSE Cardinality(fresh))

\* The cosigners that count: fresh, one per operator where the policy says so.
quorum(d, cosigners, now) ==
    LET fresh == {c \in cosigners : AbsDiff(c.time, now) <= d.max_age_seconds}
    IN  IF d.distinct_operators THEN Cardinality({c.operator : c \in fresh}) ELSE Cardinality(fresh)

-----------------------------------------------------------------------------
\* Assessing a bundle (assurance.rs).

CheckpointVerifies(d, note) ==
    /\ note.text.origin = d.origin
    /\ LinesOf(note, d.log) # {} /\ verify(note, d.log)
    /\ \A i \in DOMAIN d.witnesses : verify(note, d.witnesses[i].key)

Cosigners(d, note) ==
    {[name |-> w.name, operator |-> w.operator, time |-> s.time] :
        <<w, s>> \in {p \in Range(d.witnesses) \X Range(note.signatures) : p[2] \in LinesOf(note, p[1].key)}}

latest(k) == [size |-> Max(DOMAIN k), root |-> k[Max(DOMAIN k)]]

\* The bundle's own path: the leaf as typed folds to the checkpoint's root.
verify_path(bundle, root) ==
    verify_inclusion(leaf_hash(entry(from_value(bundle.leaf))), bundle.index, bundle.size, bundle.path, root)

BundleReads(bundle) == LeafReads(bundle.leaf)

\* The log's own bundle for a leaf: the path for the size the note is of.
bundle_of(history, index, n, note) ==
    [leaf |-> history[index + 1], index |-> index, size |-> n,
     path |-> inclusion_proof(MemoryTree(Entries(history)), index, n), checkpoint |-> note]

\* A mutant: a checkpoint smaller than the latest known is taken as seen.
check_known_grows(k, text, proof) ==
    IF text.size \in DOMAIN k /\ k[text.size] # text.root THEN "split"
    ELSE IF k = << >> THEN "none"
    ELSE LET top == latest(k)
         IN  IF top.size >= text.size THEN "consistent"
             ELSE IF ~proof.given THEN "unproven"
             ELSE IF verify_consistency(top.size, text.size, top.root, text.root, proof.path)
                  THEN "consistent" ELSE "inconsistent"

\* The checkpoint beside the latest known one: two roots at one size, or a
\* proof that fails, is a contradiction; a missing proof is only a shortfall.
check_known(k, text, proof) ==
    IF text.size \in DOMAIN k /\ k[text.size] # text.root THEN "split"
    ELSE IF k = << >> THEN "none"
    ELSE LET top == latest(k)
             low == IF top.size < text.size THEN top ELSE text
             high == IF top.size < text.size THEN text ELSE top
         IN  IF top.size = text.size THEN "consistent"
             ELSE IF ~proof.given THEN "unproven"
             ELSE IF verify_consistency(low.size, high.size, low.root, high.root, proof.path)
                  THEN "consistent" ELSE "inconsistent"

Refused == [level |-> 0, limits |-> {}, rejected |-> TRUE]

assess(d, bundle, expected, k, proof, now) ==
    LET note == bundle.checkpoint
        prior == check_known(k, note.text, proof)
        enough == quorum(d, Cosigners(d, note), now) >= d.threshold
    IN  IF \/ ~BundleReads(bundle) \/ ~NoteParses(note) \/ ~CheckpointVerifies(d, note)
           \/ bundle.size # note.text.size
           \/ ~(expected \subseteq {bundle.leaf})
           \/ ~verify_path(bundle, note.text.root)
           \/ prior \in {"split", "inconsistent"}
        THEN Refused
        ELSE [level |-> IF ~enough THEN 1 ELSE IF prior = "consistent" THEN 3 ELSE 2,
              limits |-> (IF enough THEN {} ELSE {"QuorumNotMet"})
                            \cup (CASE prior = "none" -> {"NoPriorCheckpoint"}
                                    [] prior = "unproven" -> {"ConsistencyUnavailable"}
                                    [] OTHER -> {}),
              rejected |-> FALSE]

decision(assessment, required, on_failure) ==
    IF ~assessment.rejected /\ assessment.level >= required THEN "accept"
    ELSE IF on_failure = "warn" THEN "warn" ELSE "reject"

\* Only a checkpoint that reached L2 is remembered.
record(k, assessment, text) ==
    IF assessment.level < 2 THEN k
    ELSE [n \in DOMAIN k \cup {text.size} |-> IF n = text.size THEN text.root ELSE k[n]]

-----------------------------------------------------------------------------
Nothing == [level |-> -1, limits |-> {}, rejected |-> FALSE]

\* A client that knows nothing yet, beside the cosignatures made so far.
TrustInit(careful, made, document) ==
    /\ honest = careful
    /\ lines = made
    /\ known = << >>
    /\ last = [assessment |-> Nothing, before |-> << >>, text |-> << >>, index |-> 0, leaf |-> << >>,
               decision |-> "none"]
    /\ bundles = 0
    /\ doc = document

TextOf(history, n) == Checkpoint(PolicyDoc.origin, n, RootAt(history, n))
Texts == UNION {{TextOf(h, n) : n \in 1..Len(h)} : h \in Histories}

\* One text is of a prefix of the other's tree.
Extends(a, b) ==
    \E h \in Histories :
        a.size <= b.size /\ b.size <= Len(h) /\ TextOf(h, a.size) = a /\ TextOf(h, b.size) = b

\* External: a witness signs a checkpoint.  An honest one signs only what
\* extends everything it signed before.
cosign(w, text) ==
    /\ Cardinality(lines) < MaxLines
    /\ w.name \in honest => \A s \in lines : s.name = w.name => Extends(s.text, text)
    /\ lines' = lines \cup {cosign_checkpoint(w.key, text, 1)}
    /\ UNCHANGED <<honest, known, last, bundles, doc>>

\* The log's bundle for an offer, with the cosignatures the offer carries.
note_of(offer) ==
    LET text == TextOf(offer.history, offer.size)
        signed == [text |-> text, signatures |-> <<sign_checkpoint(PolicyDoc.log, offer.signed)>>]
    IN  FoldLeft(with_signature, signed, SetToSeq({s \in lines : s.text = text /\ s.name \in offer.cosigners}))

proof_of(offer, n) ==
    LET from == IF known = << >> THEN n ELSE latest(known).size
    IN  [given |-> offer.proof # << >> /\ Max({from, n}) <= Len(offer.proof),
         path |-> IF offer.proof # << >> /\ Max({from, n}) <= Len(offer.proof)
                  THEN consistency_proof(MemoryTree(Entries(offer.proof)), Min({from, n}), Max({from, n}))
                  ELSE << >>]

\* A client assesses a bundle, with a proof or without one, and remembers its
\* checkpoint if it may.
assess_bundle(offer) ==
    /\ bundles < MaxBundles
    /\ LET note == note_of(offer)
           honestly == bundle_of(offer.history, offer.index, offer.size, note)
           bundle == [honestly EXCEPT !.leaf = offer.leaf, !.index = offer.stated, !.size = offer.sized]
           found == assess(PolicyDoc, bundle, offer.expected, known, proof_of(offer, offer.size), offer.now)
       IN  /\ last' = [assessment |-> found, before |-> known, text |-> note.text,
                       index |-> bundle.index, leaf |-> bundle.leaf,
                       decision |-> decision(found, 3, PolicyDoc.on_failure)]
           /\ known' = record(known, found, note.text)
    /\ bundles' = bundles + 1
    /\ UNCHANGED <<honest, lines, doc>>

WitnessNext == \E w \in Range(PolicyDoc.witnesses), text \in Texts : cosign(w, text)
ClientNext == \E offer \in Offers : assess_bundle(offer)

-----------------------------------------------------------------------------
\* What a level says is so: from L1 on the leaf stands at its index in a
\* history the log signed, and at L3 that history also holds the latest
\* checkpoint the client had, whichever of the two is longer.
LevelsMeanInclusion ==
    last.assessment.level >= 1 =>
        \E h \in Histories :
            /\ last.text.size <= Len(h) /\ last.text = TextOf(h, last.text.size)
            /\ last.index < last.text.size
            /\ from_value(h[last.index + 1]) = from_value(last.leaf)
            /\ last.decision = "accept" =>
                   /\ latest(last.before).size <= Len(h)
                   /\ latest(last.before).root = RootAt(h, latest(last.before).size)

\* The cosignatures a note of this text can carry, as the policy counts them.
CosignersOf(text) ==
    {[name |-> w.name, operator |-> w.operator, time |-> 1] :
        w \in {w \in Range(PolicyDoc.witnesses) : \E s \in lines : s.name = w.name /\ s.text = text}}

Trusted(text) == quorum(PolicyDoc, CosignersOf(text), 1) >= PolicyDoc.threshold

\* With honest witnesses and a majority quorum, no two clients come to trust
\* two histories: any two checkpoints that reach L2 extend one another.
TrustedViewsAgree ==
    quorum_is_majority(PolicyDoc) /\ honest = {w.name : w \in Range(PolicyDoc.witnesses)} =>
        \A a, b \in Texts : Trusted(a) /\ Trusted(b) => Extends(a, b) \/ Extends(b, a)

\* All of a policy's witnesses, fresh.
AllOf(d, W) == {[name |-> w.name, operator |-> w.operator, time |-> 1] : w \in W}

\* A policy that loads can be met, and where it says its quorum is a majority
\* any two quorums have a voter in common: an operator where operators count
\* once, otherwise a witness.
PolicyCanBeMet ==
    from_json(doc) =>
        /\ quorum(doc, AllOf(doc, Range(doc.witnesses)), 1) >= doc.threshold
        /\ quorum_is_majority(doc) =>
               \A V, W \in SUBSET Range(doc.witnesses) :
                   quorum(doc, AllOf(doc, V), 1) >= doc.threshold /\ quorum(doc, AllOf(doc, W), 1) >= doc.threshold =>
                       IF doc.distinct_operators
                       THEN {w.operator : w \in V} \cap {w.operator : w \in W} # {}
                       ELSE V \cap W # {}
=============================================================================
