--------------------------- MODULE DocumentWrites ---------------------------
(***************************************************************************)
(* One document of the governed store and the write path of the API over   *)
(* it.                                                                     *)
(***************************************************************************)
EXTENDS Integers, Sequences, FiniteSets, FiniteSetsExt, TLC

-----------------------------------------------------------------------------
(* One document of the governed store: its append-only event log, the node *)
(* table that follows it, the checkpoints that shorten replay, and the     *)
(* write-state cache of the API process.  A materialized state is a        *)
(* deterministic fold of events, so it is modelled by the events folded    *)
(* into it.  An event's chain hash covers every event before it, so two    *)
(* equal chain positions are two equal prefixes.                           *)

CONSTANTS
    Fields,              \* the fields of the document's nodes
    InitialLog,          \* the history found at the start
    InitialSnapshots,    \* snapshots of earlier versions, without receipts
    NoField, NoValue, NoSuggestion, NoEntry,
    MaxTail,             \* DEFAULT_MAX_EVENTS_IN_TAIL
    SharedPeriodic       \* periodic checkpoints are written as shared graphs

ASSUME TailAssumption == MaxTail \in Nat

VARIABLES
    log,        \* the events of the document, in seq order
    rows,       \* the node table: the current value of every field
    snapshots,  \* the snapshot rows, with or without a verification receipt
    shared,     \* the shared_checkpoint rows
    deployed,   \* the seq of the document's deployed snapshot, 0 if none
    builder,    \* the seq being checkpointed under the publication lock, or 0
    cache       \* this document's entry of the write-state cache

logVars == <<log, rows, snapshots, shared, deployed, builder, cache>>

Prefix(n) == SubSeq(log, 1, n)

(* What the fold keeps of a field and of a suggestion.                     *)
ValueIn(state, f) ==
    LET at == {i \in DOMAIN state : state[i].kind = "edit" /\ state[i].field = f}
    IN  IF at = {} THEN NoValue ELSE state[Max(at)].value

Proposal(state, s) ==
    {i \in DOMAIN state : state[i].kind = "propose" /\ state[i].suggestion = s}

Pending(state, s) ==
    /\ Proposal(state, s) # {}
    /\ \A i \in DOMAIN state :
          state[i].kind \in {"accepted", "rejected"} => state[i].suggestion # s

(* A mutant: an edit does not reach a row that has a value.                *)
MaterializedOnce(table, events) ==
    [f \in Fields |-> IF table[f] = NoValue THEN ValueIn(events, f) ELSE table[f]]

(* materialize_node_change: the rows an event touches are folded forward.  *)
Materialized(table, events) ==
    [f \in Fields |->
        LET v == ValueIn(events, f) IN IF v = NoValue THEN table[f] ELSE v]
----------------------------------------------------------------------------
(* Checkpoints.  The nearest one at or before a revision is the start of   *)
(* the replay; of a shared graph and a snapshot at the same revision the   *)
(* shared graph.  A snapshot is read only with its receipt, and one        *)
(* without is an error: an older checkpoint is never taken instead.        *)
Genesis == [seq |-> 0, state |-> <<>>, receipt |-> TRUE]

NearestOf(checkpoints, n) ==
    LET before == {c \in checkpoints : c.seq <= n}
    IN  IF before = {} THEN Genesis
        ELSE CHOOSE c \in before : \A d \in before : d.seq <= c.seq

Selected(n, formats) ==
    LET graph == NearestOf(formats, n)
        snapshot == NearestOf(snapshots, n)
    IN  IF graph.seq >= snapshot.seq /\ graph # Genesis THEN graph ELSE snapshot

(* A mutant: the receipt is not asked for.                                 *)
ReadableUnverified(n, formats) == TRUE
Readable(n, formats) == Selected(n, formats).receipt

(* A mutant: the tail starts at the checkpoint's own event.                *)
ReadStateAtOverlapping(n, formats) ==
    LET c == Selected(n, formats) IN c.state \o SubSeq(log, c.seq, n)
ReadStateAt(n, formats) ==
    LET c == Selected(n, formats) IN c.state \o SubSeq(log, c.seq + 1, n)

(* ensure_recent: one builder at a time, at the head it finds when it has  *)
(* the lock.  Jobs are spawned by commits and run at any time after them.  *)
Last == Max({0} \cup {c.seq : c \in snapshots \cup shared})

BuildStart ==
    /\ builder = 0
    /\ log # <<>> /\ Len(log) - Last > MaxTail
    /\ builder' = Len(log)
    /\ UNCHANGED <<log, rows, snapshots, shared, deployed, cache>>

(* take_with_storage_in_connection: a snapshot already there is loaded.    *)
Taken(n) ==
    IF \E c \in snapshots : c.seq = n THEN snapshots
    ELSE snapshots \cup {[seq |-> n, state |-> ReadStateAt(n, {}), receipt |-> TRUE]}

BuildShared ==
    /\ builder # 0 /\ SharedPeriodic
    /\ Readable(builder, shared)
    /\ shared' = shared \cup
          {[seq |-> builder, state |-> ReadStateAt(builder, shared), receipt |-> TRUE]}
    /\ builder' = 0
    /\ UNCHANGED <<log, rows, snapshots, deployed, cache>>

(* The legacy writer, and the fallback of a shared one over its limits.    *)
BuildSnapshot ==
    /\ builder # 0
    /\ Readable(builder, {})
    /\ snapshots' = Taken(builder)
    /\ builder' = 0
    /\ UNCHANGED <<log, rows, shared, deployed, cache>>

(* The builder's transaction fails.                                        *)
BuildFail ==
    /\ builder # 0
    /\ builder' = 0
    /\ UNCHANGED <<log, rows, snapshots, shared, deployed, cache>>

(* compare: what a snapshot holds is what a replay from genesis gives.     *)
compare(c) == c.seq <= Len(log) /\ c.state = Prefix(c.seq)

(* verify_document with backfill: every snapshot is compared with a replay *)
(* from genesis, and all receive their receipts or none does.              *)
VerifyDocument ==
    /\ \A c \in snapshots : compare(c)
    /\ snapshots' = {[c EXCEPT !.receipt = TRUE] : c \in snapshots}
    /\ UNCHANGED <<log, rows, shared, deployed, builder, cache>>
----------------------------------------------------------------------------
(* The write-state cache, read under the document's write lock.  An entry  *)
(* is reused only over the checkpoint it was built on and extended by the  *)
(* events that followed it.                                                *)
Cacheable ==
    /\ log # <<>>
    /\ NearestOf(snapshots, Len(log)).receipt
    /\ shared = {}

Reusable ==
    /\ cache # NoEntry
    /\ Len(cache.state) <= Len(log)
    /\ cache.state = Prefix(Len(cache.state))
    /\ cache.checkpoint = NearestOf(snapshots, Len(log))

(* A mutant: a hit returns the entry as it is.                             *)
CurrentStateStale ==
    IF Cacheable /\ Reusable THEN cache.state ELSE ReadStateAt(Len(log), shared)
CurrentState ==
    IF Cacheable /\ Reusable
    THEN cache.state \o SubSeq(log, Len(cache.state) + 1, Len(log))
    ELSE ReadStateAt(Len(log), shared)

CanRead == (Cacheable /\ Reusable) \/ Readable(Len(log), shared)

CacheAfterRead ==
    IF ~Cacheable THEN NoEntry
    ELSE [state |-> CurrentState, checkpoint |-> NearestOf(snapshots, Len(log))]

(* The age, entry and byte limits, and a poisoned lock.                    *)
Evict ==
    /\ cache # NoEntry
    /\ cache' = NoEntry
    /\ UNCHANGED <<log, rows, snapshots, shared, deployed, builder>>
----------------------------------------------------------------------------
(* append_in_tx and the commit of its transaction.  A deployment takes its *)
(* snapshot in the same transaction, after the publication lock.           *)
AppendInTx(events, deploys) ==
    LET n == Len(log) + Len(events)
        c == Selected(n, {})
        taken == [seq |-> n, receipt |-> TRUE,
                  state |-> c.state \o SubSeq(log \o events, c.seq + 1, n)]
    IN  /\ log' = log \o events
        /\ rows' = Materialized(rows, events)
        /\ deploys => builder = 0 /\ Readable(n, {})
        /\ snapshots' = IF deploys THEN snapshots \cup {taken} ELSE snapshots
        /\ deployed' = IF deploys THEN n ELSE deployed
        /\ UNCHANGED <<shared, builder, cache>>

LogInit ==
    /\ log = InitialLog
    /\ rows = Materialized([f \in Fields |-> NoValue], InitialLog)
    /\ snapshots \in InitialSnapshots
    /\ shared = {}
    /\ deployed = 0
    /\ builder = 0
    /\ cache = NoEntry

-----------------------------------------------------------------------------
(* The write path of the API over one document, and its event stream.      *)
(* Write requests reserve their idempotency key, take the document's write *)
(* lock, decide on the current state, append, commit, publish and complete *)
(* the reservation; a request may be dropped at every await and the        *)
(* process may crash.  Readers load the document and follow its stream,    *)
(* reconnecting from the last event they have.                             *)

CONSTANTS
    Requests,         \* HTTP requests, retries included
    Workloads,        \* who takes part: requests, readers and snapshots found
    OpOf,             \* request -> the operation it asks for
    Ops,              \* operation -> what it is
    Keys, NoKey,      \* idempotency keys
    Readers,
    MaxSubscribers,   \* MAX_SUBSCRIBERS_PER_DOCUMENT
    Capacity,         \* CHANNEL_CAPACITY
    MaxExpiries, MaxLostAnswers, MaxCloses, MaxCrashes

ASSUME WriteAssumption ==
    /\ OpOf \in [Requests -> DOMAIN Ops]
    /\ \A o \in DOMAIN Ops : Ops[o].key \in Keys \cup {NoKey}
    /\ Capacity \in Nat \ {0}
    /\ {MaxSubscribers, MaxExpiries, MaxLostAnswers, MaxCloses, MaxCrashes} \subseteq Nat

VARIABLES
    load,      \* the workload of this behaviour
    base,      \* operation -> the revision it was composed on, -1 before
    at,        \* request -> where it is
    state,     \* request -> the state read under the lock
    todo,      \* request -> the committed events it has yet to publish
    result,    \* request -> the event it answers with, 0 before
    row,       \* key -> its idempotency row
    window,    \* key -> how often its row has expired
    lost,      \* <<key, window>> pairs with a commit whose answer was lost
    stream,    \* reader -> its subscription
    view,      \* reader -> the events it has, in the order it got them
    published, \* the events that were published
    closes, crashes

writeVars == <<load, base, at, state, todo, result, row, window, lost>>
streamVars == <<stream, view, published, closes>>
vars == <<logVars, writeVars, streamVars, crashes>>

Op(r) == Ops[OpOf[r]]
Key(r) == Op(r).key

(* Rows of idempotency_key.                                                *)
NoRow == [status |-> "none", answer |-> 0]
PendingRow == [status |-> "pending", answer |-> 0]

Live == {"taken", "running", "writing", "committed"}
Owners(k) == {r \in Requests : Key(r) = k /\ at[r] \in {"running", "writing", "committed"}}
Writer == {r \in Requests : at[r] = "writing"}

Off == [on |-> FALSE, pinned |-> FALSE, head |-> 0, queue |-> <<>>, lagged |-> FALSE]

Init ==
    /\ LogInit
    /\ load \in Workloads
    /\ snapshots = load.snapshots
    /\ base = [o \in DOMAIN Ops |-> -1]
    /\ at = [r \in Requests |-> "idle"]
    /\ state = [r \in Requests |-> <<>>]
    /\ todo = [r \in Requests |-> <<>>]
    /\ result = [r \in Requests |-> 0]
    /\ row = [k \in Keys |-> NoRow]
    /\ window = [k \in Keys |-> 0]
    /\ lost = {}
    /\ stream = [s \in Readers |-> Off]
    /\ view = [s \in Readers |-> <<>>]
    /\ published = {}
    /\ closes = 0
    /\ crashes = 0
----------------------------------------------------------------------------
(* An operation is composed on the revision its client last read; every    *)
(* retry carries the same body.                                            *)
Compose(o) ==
    /\ base[o] = -1 /\ o \in {OpOf[r] : r \in load.requests}
    /\ base' = [base EXCEPT ![o] = Len(log)]
    /\ UNCHANGED <<logVars, load, at, state, todo, result, row, window, lost, streamVars, crashes>>

(* with_idempotency up to reserve's insert.  An expired row of the key is  *)
(* deleted first; no request runs for as long as a row lives.              *)
Reserve(r) ==
    LET k == Key(r)
        aged == row[k] # NoRow /\ Owners(k) = {} /\ window[k] < MaxExpiries
    IN  /\ r \in load.requests /\ at[r] = "idle" /\ base[OpOf[r]] # -1
        /\ k # NoKey
        /\ \E expired \in {FALSE, aged} :
              /\ IF row[k] = NoRow \/ expired
                 THEN /\ row' = [row EXCEPT ![k] = PendingRow]
                      /\ at' = [at EXCEPT ![r] = "running"]
                 ELSE /\ UNCHANGED row
                      /\ at' = [at EXCEPT ![r] = "taken"]
              /\ window' = [window EXCEPT ![k] = IF expired THEN @ + 1 ELSE @]
        /\ UNCHANGED <<logVars, load, base, state, todo, result, lost, streamVars, crashes>>

SendWithoutKey(r) ==
    /\ r \in load.requests /\ at[r] = "idle" /\ base[OpOf[r]] # -1
    /\ Key(r) = NoKey
    /\ at' = [at EXCEPT ![r] = "running"]
    /\ UNCHANGED <<logVars, load, base, state, todo, result, row, window, lost, streamVars, crashes>>

(* A mutant: whatever the row holds is replayed.                           *)
ReadReservationAny(r) ==
    /\ at[r] = "taken"
    /\ at' = [at EXCEPT ![r] = "answered"]
    /\ result' = [result EXCEPT ![r] = row[Key(r)].answer]
    /\ UNCHANGED <<logVars, load, base, state, todo, row, window, lost, streamVars, crashes>>

(* The rest of reserve: the row that was in the way is read by a statement *)
(* of its own.  A completed one is replayed.                               *)
ReadReservation(r) ==
    /\ at[r] = "taken"
    /\ at' = [at EXCEPT ![r] = IF row[Key(r)].status = "done" THEN "answered" ELSE "refused"]
    /\ result' = [result EXCEPT ![r] = row[Key(r)].answer]
    /\ UNCHANGED <<logVars, load, base, state, todo, row, window, lost, streamVars, crashes>>

(* release deletes the key's row if it is pending.                         *)
Released(r) ==
    [k \in Keys |-> IF k = Key(r) /\ row[k].status = "pending" THEN NoRow ELSE row[k]]
----------------------------------------------------------------------------
(* A mutant: the document row is not locked.                               *)
BeginWriteUnlocked(r) ==
    /\ at[r] = "running"
    /\ CanRead
    /\ at' = [at EXCEPT ![r] = "writing"]
    /\ state' = [state EXCEPT ![r] = CurrentState]
    /\ cache' = CacheAfterRead
    /\ UNCHANGED <<log, rows, snapshots, shared, deployed, builder>>
    /\ UNCHANGED <<load, base, todo, result, row, window, lost, streamVars, crashes>>

(* begin_write: the lock, then the state, from the cache if it can.        *)
BeginWrite(r) ==
    /\ at[r] = "running"
    /\ Writer = {}
    /\ CanRead
    /\ at' = [at EXCEPT ![r] = "writing"]
    /\ state' = [state EXCEPT ![r] = CurrentState]
    /\ cache' = CacheAfterRead
    /\ UNCHANGED <<log, rows, snapshots, shared, deployed, builder>>
    /\ UNCHANGED <<load, base, todo, result, row, window, lost, streamVars, crashes>>

(* validate_op: what a governance gate asks of the state.                  *)
Valid(r) ==
    Op(r).kind \in {"accept", "reject"} => Pending(state[r], Op(r).suggestion)

(* apply_checked_op: the field was edited after the revision the edit was  *)
(* composed on, and does not hold the new value anyway.                    *)
StaleNever(r) == FALSE
Stale(r) ==
    /\ Op(r).kind = "edit" /\ Op(r).based
    /\ \E i \in DOMAIN log : /\ i > base[OpOf[r]]
                             /\ log[i].kind = "edit" /\ log[i].field = Op(r).field
    /\ ValueIn(state[r], Op(r).field) # Op(r).value

(* The events of an operation: an acceptance appends the wrapped edit, as  *)
(* the proposal of the state has it, and the acceptance itself.            *)
Event(r, kind, f, v) ==
    [kind |-> kind, field |-> f, value |-> v, suggestion |-> Op(r).suggestion,
     op |-> OpOf[r], window |-> IF Key(r) = NoKey THEN 0 ELSE window[Key(r)]]

Wrapped(r) == state[r][CHOOSE i \in Proposal(state[r], Op(r).suggestion) : TRUE]

EventsOf(r) ==
    CASE Op(r).kind = "edit" -> <<Event(r, "edit", Op(r).field, Op(r).value)>>
      [] Op(r).kind = "accept" -> <<Event(r, "edit", Wrapped(r).field, Wrapped(r).value),
                                    Event(r, "accepted", NoField, NoValue)>>
      [] Op(r).kind = "reject" -> <<Event(r, "rejected", NoField, NoValue)>>
      [] Op(r).kind = "deploy" -> <<Event(r, "deployed", NoField, NoValue)>>

Committed(r) ==
    /\ at[r] = "writing"
    /\ Valid(r) /\ ~Stale(r)
    /\ AppendInTx(EventsOf(r), Op(r).kind = "deploy")
    /\ state' = [state EXCEPT ![r] = <<>>]

Commit(r) ==
    /\ Committed(r)
    /\ at' = [at EXCEPT ![r] = "committed"]
    /\ todo' = [todo EXCEPT ![r] = [i \in 1..Len(EventsOf(r)) |-> Len(log) + i]]
    /\ result' = [result EXCEPT ![r] = Len(log) + 1]
    /\ UNCHANGED <<load, base, row, window, lost, streamVars, crashes>>

(* The database commits and the answer to COMMIT is lost: the handler sees *)
(* an error, releases the reservation and fails.                           *)
CommitUnanswered(r) ==
    /\ Cardinality(lost) < MaxLostAnswers
    /\ Committed(r)
    /\ Key(r) # NoKey
    /\ lost' = lost \cup {<<Key(r), window[Key(r)]>>}
    /\ row' = Released(r)
    /\ at' = [at EXCEPT ![r] = "failed"]
    /\ UNCHANGED <<load, base, todo, result, window, streamVars, crashes>>

(* Every error before the commit: no role, an invalid or stale operation,  *)
(* an unverified snapshot, a deadline of the database.                     *)
Fail(r) ==
    /\ at[r] \in {"running", "writing"}
    /\ row' = Released(r)
    /\ at' = [at EXCEPT ![r] = "failed"]
    /\ state' = [state EXCEPT ![r] = <<>>]
    /\ UNCHANGED <<logVars, load, base, todo, result, window, lost, streamVars, crashes>>

(* Mutants: a ring without a limit, and a drop guard that releases.        *)
SentUnbounded(s, n) == IF s.on THEN [s EXCEPT !.queue = Append(@, n)] ELSE s
DropReleasing(r) ==
    /\ at[r] \in Live
    /\ at' = [at EXCEPT ![r] = "dropped"]
    /\ state' = [state EXCEPT ![r] = <<>>]
    /\ todo' = [todo EXCEPT ![r] = <<>>]
    /\ row' = Released(r)
    /\ UNCHANGED <<logVars, load, base, result, window, lost, streamVars, crashes>>

(* Subscriptions::publish, one event at a time: the ring of a receiver     *)
(* that has not read enough loses its oldest event.                        *)
Sent(s, n) ==
    IF ~s.on THEN s
    ELSE IF Len(s.queue) < Capacity THEN [s EXCEPT !.queue = Append(@, n)]
    ELSE [s EXCEPT !.queue = Append(Tail(@), n), !.lagged = TRUE]

Publish(r) ==
    /\ at[r] = "committed" /\ todo[r] # <<>>
    /\ stream' = [s \in Readers |-> Sent(stream[s], Head(todo[r]))]
    /\ published' = published \cup {Head(todo[r])}
    /\ todo' = [todo EXCEPT ![r] = Tail(@)]
    /\ UNCHANGED <<logVars, load, base, at, state, result, row, window, lost, view, closes, crashes>>

(* complete stores the answer; the request answers its client.             *)
Complete(r) ==
    /\ at[r] = "committed" /\ todo[r] = <<>>
    /\ row' = [k \in Keys |-> IF k = Key(r) THEN [status |-> "done", answer |-> result[r]]
                                        ELSE row[k]]
    /\ at' = [at EXCEPT ![r] = "answered"]
    /\ UNCHANGED <<logVars, load, base, state, todo, result, window, lost, streamVars, crashes>>

(* The connection of a client goes away and its handler is dropped at an   *)
(* await: an open transaction rolls back, nothing else is undone.          *)
Dropped(rs) ==
    /\ at' = [r \in Requests |-> IF r \in rs THEN "dropped" ELSE at[r]]
    /\ state' = [r \in Requests |-> IF r \in rs THEN <<>> ELSE state[r]]
    /\ todo' = [r \in Requests |-> IF r \in rs THEN <<>> ELSE todo[r]]

Drop(r) ==
    /\ at[r] \in Live
    /\ Dropped({r})
    /\ UNCHANGED <<logVars, load, base, result, row, window, lost, streamVars, crashes>>

(* The process stops: requests, builder, cache and subscriptions are gone. *)
Crash ==
    /\ crashes < MaxCrashes
    /\ crashes' = crashes + 1
    /\ Dropped({r \in Requests : at[r] \in Live})
    /\ builder' = 0
    /\ cache' = NoEntry
    /\ stream' = [s \in Readers |-> Off]
    /\ UNCHANGED <<log, rows, snapshots, shared, deployed>>
    /\ UNCHANGED <<load, base, result, row, window, lost, view, published, closes>>
----------------------------------------------------------------------------
(* A reader starts from the document as it is, or from the beginning.      *)
Load(s) ==
    /\ s \in load.readers /\ view[s] = <<>> /\ ~stream[s].on
    /\ Readable(Len(log), shared)
    /\ view' = [view EXCEPT ![s] = ReadStateAt(Len(log), shared)]
    /\ UNCHANGED <<logVars, writeVars, stream, published, closes, crashes>>

(* document_stream: the receiver exists before the backfill's end is read. *)
Subscribe(s) ==
    /\ s \in load.readers /\ ~stream[s].on
    /\ Cardinality({t \in Readers : stream[t].on}) < MaxSubscribers
    /\ stream' = [stream EXCEPT ![s] = [Off EXCEPT !.on = TRUE]]
    /\ UNCHANGED <<logVars, writeVars, view, published, closes, crashes>>

PinHead(s) ==
    /\ stream[s].on /\ ~stream[s].pinned
    /\ stream' = [stream EXCEPT ![s].pinned = TRUE, ![s].head = Len(log)]
    /\ UNCHANGED <<logVars, writeVars, view, published, closes, crashes>>

(* Pages of the log up to the pinned head, event by event.                 *)
Backfill(s) ==
    /\ stream[s].pinned /\ Len(view[s]) < stream[s].head
    /\ view' = [view EXCEPT ![s] = Append(@, log[Len(@) + 1])]
    /\ UNCHANGED <<logVars, writeVars, stream, published, closes, crashes>>

(* Mutants: any later event is delivered, and a gap is passed over.        *)
FollowsAny(s) == Head(stream[s].queue) > Len(view[s])
Follows(s) == Head(stream[s].queue) = Len(view[s]) + 1

ReceiveSkipping(s) ==
    /\ stream[s].pinned /\ Len(view[s]) >= stream[s].head
    /\ stream[s].queue # <<>>
    /\ stream' = [stream EXCEPT ![s].queue = Tail(@), ![s].lagged = FALSE]
    /\ view' = IF Follows(s) THEN [view EXCEPT ![s] = Append(@, log[Head(stream[s].queue)])]
                             ELSE view
    /\ UNCHANGED <<logVars, writeVars, published, closes, crashes>>

(* The live part: an event already delivered is skipped, the next one is   *)
(* delivered, and a gap or a lagging receiver ends the stream.             *)
Receive(s) ==
    LET n == Head(stream[s].queue)
        read == [stream EXCEPT ![s].queue = Tail(@)]
    IN  /\ stream[s].pinned /\ Len(view[s]) >= stream[s].head
        /\ stream[s].queue # <<>>
        /\ \/ /\ ~stream[s].lagged /\ n <= Len(view[s])
              /\ stream' = read
              /\ UNCHANGED view
           \/ /\ ~stream[s].lagged /\ Follows(s)
              /\ stream' = read
              /\ view' = [view EXCEPT ![s] = Append(@, log[n])]
           \/ /\ stream[s].lagged \/ (n > Len(view[s]) /\ ~Follows(s))
              /\ stream' = [stream EXCEPT ![s] = Off]
              /\ UNCHANGED view
        /\ UNCHANGED <<logVars, writeVars, published, closes, crashes>>

(* The connection of a reader goes away.                                   *)
Close(s) ==
    /\ stream[s].on /\ closes < MaxCloses
    /\ closes' = closes + 1
    /\ stream' = [stream EXCEPT ![s] = Off]
    /\ UNCHANGED <<logVars, writeVars, view, published, crashes>>
----------------------------------------------------------------------------
Background ==
    /\ BuildStart \/ BuildShared \/ BuildSnapshot \/ BuildFail \/ VerifyDocument \/ Evict
    /\ UNCHANGED <<writeVars, streamVars, crashes>>

Write(r) ==
    \/ Reserve(r) \/ SendWithoutKey(r) \/ ReadReservation(r)
    \/ BeginWrite(r) \/ Commit(r) \/ CommitUnanswered(r) \/ Fail(r)
    \/ Publish(r) \/ Complete(r) \/ Drop(r)

Follow(s) == Load(s) \/ Subscribe(s) \/ PinHead(s) \/ Backfill(s) \/ Receive(s) \/ Close(s)

Next ==
    \/ Background
    \/ \E o \in DOMAIN Ops : Compose(o)
    \/ \E r \in Requests : Write(r)
    \/ Crash
    \/ \E s \in Readers : Follow(s)

(* A subscribed reader's stream task is polled, and an ended one is opened *)
(* again: EventSource reconnects by itself.                                *)
Fairness ==
    \A s \in Readers : /\ WF_vars(Subscribe(s))
                       /\ WF_vars(PinHead(s))
                       /\ WF_vars(Backfill(s))
                       /\ WF_vars(Receive(s))

Spec == Init /\ [][Next]_vars /\ Fairness
----------------------------------------------------------------------------
(* The shape of the rows, the requests and the subscriptions; a state is   *)
(* held only under the lock.                                               *)
Seqs == 0..(Len(InitialLog) + 2 * Cardinality(Requests))
TypeOK ==
    /\ Len(log) \in Seqs /\ Len(log) >= Len(InitialLog)
    /\ \A c \in snapshots \cup shared : c.seq \in Seqs /\ c.receipt \in BOOLEAN
    /\ builder \in 0..Len(log) /\ deployed \in 0..Len(log)
    /\ base \in [DOMAIN Ops -> -1..Len(log)]
    /\ at \in [Requests -> {"idle", "answered", "refused", "failed", "dropped"} \cup Live]
    /\ \A r \in Requests : at[r] # "writing" => state[r] = <<>>
    /\ \A r \in Requests : at[r] # "committed" => todo[r] = <<>>
    /\ row \in [Keys -> [status : {"none", "pending", "done"}, answer : 0..Len(log)]]
    /\ window \in [Keys -> 0..MaxExpiries]
    /\ published \subseteq 1..Len(log)
    /\ \A s \in Readers : Len(stream[s].queue) <= Capacity /\ stream[s].head \in 0..Len(log)

(* A request that holds the document's lock decides on exactly the log it  *)
(* appends to, whether its state came from the cache or from a checkpoint  *)
(* (begin_write, CurrentStateCache::read, read_state_at).                  *)
DecidesOnCurrent == \A r \in Writer : state[r] = log

(* Every checkpoint a reader may use holds the state of its revision, also *)
(* when built while events were appended; a deployment pins the revision   *)
(* of its own event (take_with_storage_in_connection, checkpoint_in_tx).   *)
CheckpointsExact ==
    /\ \A c \in snapshots \cup shared :
          c.receipt => c.seq <= Len(log) /\ c.state = Prefix(c.seq)
    /\ deployed # 0 => /\ log[deployed].kind = "deployed"
                       /\ \E c \in snapshots : c.seq = deployed /\ c.receipt

(* The node table equals the fold of the log (materialize_node_change).    *)
RowsFollowLog == \A f \in Fields : rows[f] = ValueIn(log, f)

(* An edit that names the revision it was composed on replaces the value   *)
(* of that revision, or writes the value that is there (apply_checked_op). *)
NoStaleEdit ==
    \A i \in DOMAIN log :
       log[i].op \in DOMAIN Ops /\ Ops[log[i].op].kind = "edit" /\ Ops[log[i].op].based =>
          ValueIn(Prefix(i - 1), log[i].field)
             \in {ValueIn(Prefix(base[log[i].op]), log[i].field), log[i].value}

(* A suggestion is resolved once, and its acceptance comes directly after  *)
(* the proposed edit (accept_proposal, plan_acceptance).                   *)
ResolvedOnce ==
    LET resolved == {i \in DOMAIN log : log[i].kind \in {"accepted", "rejected"}}
    IN  \A i \in resolved :
           /\ \A j \in resolved : log[j].suggestion = log[i].suggestion => i = j
           /\ log[i].kind = "accepted" =>
                 \E p \in Proposal(log, log[i].suggestion) :
                    /\ log[i - 1].op = log[i].op
                    /\ <<log[i - 1].field, log[i - 1].value>> = <<log[p].field, log[p].value>>

(* Within the life of a reservation, the requests of one key append the    *)
(* operation once, unless the answer of a commit was lost (reserve,        *)
(* complete, release).                                                     *)
Executions(k, w) ==
    {i \in DOMAIN log : /\ log[i].op \in DOMAIN Ops /\ Ops[log[i].op].key = k
                        /\ log[i].window = w
                        /\ log[i].kind \notin {"accepted"}}
OncePerKey ==
    \A k \in Keys, w \in 0..MaxExpiries :
       <<k, w>> \notin lost => Cardinality(Executions(k, w)) <= 1

(* A client that was answered, by its own request or by a replay, is told  *)
(* of an event of its operation that is in the log (with_idempotency).     *)
AnswersAreLogged ==
    /\ \A r \in Requests : at[r] = "answered" =>
          result[r] \in DOMAIN log /\ log[result[r]].op = OpOf[r]
    /\ \A k \in Keys : row[k].status = "done" => row[k].answer \in DOMAIN log

(* What a reader has is always a prefix of the log: no event of the stream *)
(* is lost, repeated or out of order, though requests publish after they   *)
(* have released the lock (document_stream).                               *)
ViewsArePrefixes == \A s \in Readers : view[s] = Prefix(Len(view[s]))

(* A reader is never left behind for good: again and again it has every    *)
(* event that was published (document_stream).                             *)
PublishedIsDelivered ==
    \A s \in Readers :
       []<>(s \in load.readers => \A n \in published : n <= Len(view[s]))

(* "a client that retries a POST never appends a duplicate event"          *)
RetriesNeverDuplicate ==
    \A k \in Keys, w \in 0..MaxExpiries : Cardinality(Executions(k, w)) <= 1

(* The log, its snapshots and its rows tell the same story at every        *)
(* moment, also where caches and checkpoints were skipped or left stale.   *)
LogExact == TypeOK /\ CheckpointsExact /\ RowsFollowLog

(* Requests are decided on the state they are appended to: no edit of a    *)
(* value that moved on, and no suggestion resolved twice.                  *)
WritesDecided == DecidesOnCurrent /\ NoStaleEdit /\ ResolvedOnce

(* Under one idempotency key an operation is applied once, and the answer  *)
(* that is replayed is about an event of the log.                          *)
KeyedOnce == OncePerKey /\ AnswersAreLogged
=============================================================================
