-------------------------------- MODULE AtRest --------------------------------
(***************************************************************************)
(* Encryption at rest: the key provider that reads key-encryption keys     *)
(* (KEKs) from files, the data keys (DEKs) it wraps, the cache of          *)
(* unwrapped data keys and the envelopes sealed with them (engine-core:    *)
(* at_rest/provider.rs, cache.rs, envelope.rs, secret.rs).                 *)
(*                                                                         *)
(* No store of the repository uses these calls yet.  The rows of wrapped   *)
(* keys and the stored envelopes are what a caller keeps of the values the *)
(* calls return, and the callers are threads that make them in any order.  *)
(*                                                                         *)
(* Ciphers are by what they do: a wrapped key unwraps, and an envelope     *)
(* opens, with the key and the context it was made with and no other.      *)
(***************************************************************************)
EXTENDS Integers, FiniteSets

CONSTANTS
    KekVersions,    \* numbers of KEK files
    DekIds,         \* ids of data keys
    WrapContexts,   \* installation, project and purpose of a data key
    Places,         \* installation, table, column and row of a value
    Values,         \* plaintexts
    Threads,        \* callers of the cache
    KeyTtl,         \* lifetime of a cached key
    KeySlots,       \* max_entries of the cache
    MaxKeyClock,    \* bound: ticks of the clock
    MaxEnvelopes    \* bound: envelopes stored

VARIABLES
    kekdir,    \* KEK versions in the directory
    loaded,    \* KEK versions the provider read when it was built
    wrapped,   \* the row of a data key: its wrapped form
    cached,    \* the cache: a data key and when it was inserted
    keyclock,  \* the monotonic clock
    thread,    \* the call of each thread, or the key it holds
    stored     \* envelopes

atRestVars == <<kekdir, loaded, wrapped, cached, keyclock, thread, stored>>

NewestKek(S) == CHOOSE n \in S : \A m \in S : m <= n
Waiting == [step |-> "none"]

\* The data key generated for a row: 32 random bytes, its own.
DekOf(id) == <<"dek", id>>

Wrapped(v, ctx, dek) == [kek_version |-> v, ctx |-> ctx, dek |-> dek]
wrap(dek, ctx) == Wrapped(NewestKek(loaded), ctx, dek)
Unwraps(w, ctx) == w.kek_version \in loaded /\ w.ctx = ctx

AtRestInit ==
    /\ kekdir \in {S \in SUBSET KekVersions : Cardinality(S) = 1}
    /\ loaded = kekdir
    /\ wrapped = [i \in {} |-> 0]
    /\ cached = [i \in {} |-> 0]
    /\ keyclock = 0
    /\ thread = [t \in Threads |-> Waiting]
    /\ stored = {}

-----------------------------------------------------------------------------
(* The provider.                                                           *)

\* An operator adds a key file; the provider reads the directory when it is
\* built, so the file counts from the next start, with an empty cache.
add_kek(v) ==
    /\ v \notin kekdir
    /\ kekdir' = kekdir \cup {v}
    /\ UNCHANGED <<loaded, wrapped, cached, keyclock, thread, stored>>

from_dir ==
    /\ loaded # kekdir
    /\ loaded' = kekdir
    /\ cached' = [i \in {} |-> 0]
    /\ thread' = [t \in Threads |-> Waiting]
    /\ UNCHANGED <<kekdir, wrapped, keyclock, stored>>

generate(id, ctx) ==
    /\ id \notin DOMAIN wrapped
    /\ wrapped' = [i \in DOMAIN wrapped \cup {id} |-> IF i = id THEN wrap(DekOf(id), ctx) ELSE wrapped[i]]
    /\ UNCHANGED <<kekdir, loaded, cached, keyclock, thread, stored>>

\* Unwrap, then wrap under the newest version: no stored value is touched.
rewrap_dek(id) ==
    /\ id \in DOMAIN wrapped
    /\ Unwraps(wrapped[id], wrapped[id].ctx)
    /\ wrapped' = [wrapped EXCEPT ![id] = wrap(wrapped[id].dek, wrapped[id].ctx)]
    /\ UNCHANGED <<kekdir, loaded, cached, keyclock, thread, stored>>

-----------------------------------------------------------------------------
(* The cache: every call takes its lock and first drops what has expired.  *)

Alive(e) == keyclock - e.inserted < KeyTtl
locked == [i \in {i \in DOMAIN cached : Alive(cached[i])} |-> cached[i]]

Holds(id, e) == [step |-> "holds", id |-> id, dek |-> e.dek, kek_version |-> e.kek_version]

\* get_or_unwrap, a hit: the key is shared.
get(t, id) ==
    /\ id \in DOMAIN wrapped
    /\ cached' = locked
    /\ thread' = [thread EXCEPT ![t] =
                    IF id \in DOMAIN cached' THEN Holds(id, cached'[id])
                    ELSE [step |-> "miss", id |-> id, row |-> wrapped[id]]]
    /\ UNCHANGED <<kekdir, loaded, wrapped, keyclock, stored>>

\* The oldest entries go until there is room; ids break a tie.
Oldest(c) ==
    CHOOSE i \in DOMAIN c : \A j \in DOMAIN c :
        \/ c[i].inserted < c[j].inserted
        \/ c[i].inserted = c[j].inserted /\ i <= j
Evicted(c) == IF Cardinality(DOMAIN c) < KeySlots THEN c ELSE [i \in DOMAIN c \ {Oldest(c)} |-> c[i]]

\* A miss: the provider unwraps the row the caller read, outside the lock,
\* under the context the caller names; a failure caches nothing.  Two threads
\* may both load, and the last one's key stays.
load_and_insert(t, ctx) ==
    /\ thread[t].step = "miss"
    /\ LET id == thread[t].id
           w == thread[t].row
           new == [dek |-> w.dek, kek_version |-> w.kek_version, inserted |-> keyclock]
           rest == Evicted([i \in DOMAIN locked \ {id} |-> locked[i]])
       IN IF ~ Unwraps(w, ctx)
          THEN thread' = [thread EXCEPT ![t] = Waiting] /\ UNCHANGED cached
          ELSE /\ thread' = [thread EXCEPT ![t] = Holds(id, new)]
               /\ cached' = IF KeySlots = 0 \/ KeyTtl = 0 THEN cached
                            ELSE [i \in DOMAIN rest \cup {id} |-> IF i = id THEN new ELSE rest[i]]
    /\ UNCHANGED <<kekdir, loaded, wrapped, keyclock, stored>>

purge_expired ==
    /\ cached' = locked
    /\ cached' # cached
    /\ UNCHANGED <<kekdir, loaded, wrapped, keyclock, thread, stored>>

clear ==
    /\ cached' = [i \in {} |-> 0]
    /\ cached' # cached
    /\ UNCHANGED <<kekdir, loaded, wrapped, keyclock, thread, stored>>

key_clock_ticks ==
    /\ keyclock < MaxKeyClock
    /\ keyclock' = keyclock + 1
    /\ UNCHANGED <<kekdir, loaded, wrapped, cached, thread, stored>>

-----------------------------------------------------------------------------
(* Envelopes.                                                              *)

\* The salt of a content-addressed value is derived from the key, the address
\* and the value; any other salt is random, one that no envelope has.
content_addressed(dek, address, v) == <<"derived", dek, address, v>>
random_salt == <<"random", Cardinality(stored)>>

\* The key and the nonce of a value follow from the data key, its salt and its
\* place; what is authenticated beside it is its header and its place.
okm(dek, salt, at) == <<dek, salt, at>>
Header(key, salt) == [dek_id |-> key.id, kek_version |-> key.kek_version, salt |-> salt]
aad(header, at) == <<header, at>>

seal_with_salt(key, at, salt, v) ==
    LET header == Header(key, salt)
    IN [header |-> header, under |-> okm(key.dek, salt, at), aad |-> aad(header, at), value |-> v]

\* The address is the caller's claim: nothing compares it with the value.
seal_value(t, at, v, addressed) ==
    /\ thread[t].step = "holds"
    /\ Cardinality(stored) < MaxEnvelopes
    /\ LET salt == IF addressed THEN content_addressed(thread[t].dek, at, v) ELSE random_salt
       IN stored' = stored \cup {seal_with_salt(thread[t], at, salt, v)}
    /\ thread' = [thread EXCEPT ![t] = Waiting]
    /\ UNCHANGED <<kekdir, loaded, wrapped, cached, keyclock>>

\* The header names the key's row, and the place is the one the reader names.
open(key, at, e) ==
    /\ e.header.dek_id = key.id
    /\ e.under = okm(key.dek, e.header.salt, at)
    /\ e.aad = aad(e.header, at)

release_key(t) ==
    /\ thread[t] # Waiting
    /\ thread' = [thread EXCEPT ![t] = Waiting]
    /\ UNCHANGED <<kekdir, loaded, wrapped, cached, keyclock, stored>>

AtRestNext ==
    \/ \E v \in KekVersions : add_kek(v)
    \/ from_dir \/ purge_expired \/ clear \/ key_clock_ticks
    \/ \E id \in DekIds : rewrap_dek(id) \/ \E ctx \in WrapContexts : generate(id, ctx)
    \/ \E t \in Threads :
          \/ release_key(t)
          \/ thread[t] = Waiting /\ \E id \in DekIds : get(t, id)
          \/ \E ctx \in WrapContexts : load_and_insert(t, ctx)
          \/ \E at \in Places, v \in Values, addressed \in BOOLEAN : seal_value(t, at, v, addressed)

-----------------------------------------------------------------------------
(* Properties.                                                             *)

\* The place an envelope was sealed for.
SealedAt(e) == e.aad[2]

\* Whatever is rotated, evicted, cleared or loaded twice meanwhile, a thread
\* that holds a key opens every envelope of that key at the place it was
\* written and at no other, and no envelope of another key.
EnvelopesOpen ==
    \A t \in Threads : thread[t].step = "holds" =>
        \A e \in stored, at \in Places : open(thread[t], at, e) <=> e.header.dek_id = thread[t].id /\ SealedAt(e) = at

\* No key and nonce ever seal two values, although an address may be claimed
\* for two of them.
NonceSealsOnce ==
    \A e, f \in stored : e.under = f.under => e.value = f.value

\* The cache holds no more keys than it may.
CacheBounded == Cardinality(DOMAIN cached) <= KeySlots

AtRestSound == EnvelopesOpen /\ NonceSealsOnce /\ CacheBounded

\* A key that a thread finds in the cache is within its lifetime, and is the
\* one its row still holds whatever was rewrapped meanwhile.
ServedInLifetime ==
    [][\A t \in Threads : thread[t] = Waiting /\ thread'[t].step = "holds" =>
          LET id == thread'[t].id
          IN Alive(cached[id]) /\ thread'[t].dek = wrapped[id].dek]_atRestVars
=============================================================================
