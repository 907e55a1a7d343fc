---------------------------- MODULE Housekeeping ----------------------------
(***************************************************************************)
(* The loop of every replica of the server that prunes rows nobody can use *)
(* any more (engine-api/src/retention.rs).                                 *)
(*                                                                         *)
(* One tick of `clock` is the unit all lifetimes are counted in.  A row    *)
(* that is pruned is deleted by one statement; requests that touch rows    *)
(* are single statements too, so `skip locked` never skips one here.       *)
(***************************************************************************)
EXTENDS Integers, FiniteSetsExt, Sequences

CONSTANTS
  Replicas,
  SPECS,           \* the tables, in the order a pass visits them
  RowIds,          \* the rows there may be
  auth_days, metrics_days, TTL, REQUEST_WINDOW,  \* how long a table keeps a row
  batch_rows,      \* rows one statement deletes at most
  Lifetimes,       \* the expiries rows are issued with
  MaxClock,
  MaxFailures,     \* statements that fail, and replicas that die, in a run
  Never

VARIABLES
  clock,
  rows,            \* rows[i]: the row i, or Never
  lock,            \* the replica that holds the advisory lock, or Never
  pass,            \* per replica: the table its pass is at, and whether it is late
  stats,           \* per replica: the rows it says it pruned
  failures,
  deleted,         \* the rows that passes deleted
  audited          \* operator links whose lapse was recorded

houseVars == <<clock, rows, lock, pass, stats, failures, deleted, audited>>

Tables == {SPECS[i] : i \in 1 .. Len(SPECS)}
Asleep == [at |-> -1, late |-> FALSE]
Sweep == 0

In(t) == {i \in RowIds : rows[i] # Never /\ rows[i].table = t}

seconds(t) ==
    CASE t = "web_metric"          -> metrics_days
      [] t = "idempotency_key"     -> TTL
      [] t = "auth_request_window" -> REQUEST_WINDOW
      [] OTHER                     -> auth_days

ByAge(t) == t \in {"auth_request_window", "web_metric", "idempotency_key"}
ByEnd(t) == t \in {"magic_link", "refresh_token"}


\* the `where` of the table's statement
Doomed(r) ==
    LET since == clock - seconds(r.table)
    IN IF ByAge(r.table) THEN r.created < since
       ELSE r.expires < since \/ (ByEnd(r.table) /\ r.ended # Never /\ r.ended < since)

\* whether some handler would still act on the row: sign in with it, rotate it
\* or sign out with it, count an attempt in it, replay from it
Usable(r) ==
    CASE r.table = "web_metric" -> FALSE
      [] r.table \in {"auth_request_window", "idempotency_key"} ->
            r.created >= clock - seconds(r.table)
      [] r.table = "device_enrollment_challenge" -> r.expires > clock
      [] OTHER -> r.ended = Never /\ r.expires > clock

---------------------------------------------------------------------------
(* Requests.                                                                *)

\* a handler uses the row up: a link or code is redeemed, a login signed out.
\* Rotation leaves a token's row in place: its secret still ends the login.
Consume(i) ==
    /\ rows[i] # Never /\ Usable(rows[i])
    /\ rows[i].table \in {"magic_link", "refresh_token", "app_handover_code",
                         "operator_sign_in_link"}
    /\ rows' = [rows EXCEPT ![i].ended = clock]
    /\ UNCHANGED <<clock, lock, pass, stats, failures, deleted, audited>>

\* a request in a window past its time starts the window again; a key past its
\* time is replaced (idempotency::reserve)
Restart(i) ==
    /\ rows[i] # Never /\ ~Usable(rows[i])
    /\ rows[i].table \in {"auth_request_window", "idempotency_key"}
    /\ rows' = [rows EXCEPT ![i].created = clock]
    /\ UNCHANGED <<clock, lock, pass, stats, failures, deleted, audited>>

tick ==
    /\ clock < MaxClock
    /\ clock' = clock + 1
    /\ UNCHANGED <<rows, lock, pass, stats, failures, deleted, audited>>

---------------------------------------------------------------------------
(* One pass.                                                                *)

\* pg_try_advisory_lock: one replica prunes; another that wakes skips its pass
locked_pass(r) ==
    /\ pass[r] = Asleep
    /\ lock = Never
    /\ lock' = r
    /\ pass' = [pass EXCEPT ![r].at = Sweep]
    /\ UNCHANGED <<clock, rows, stats, failures, deleted, audited>>

\* the pass has used up its budget: each loop ends after the batch it is in
deadline(r) ==
    /\ pass[r] # Asleep /\ ~pass[r].late
    /\ pass' = [pass EXCEPT ![r].late = TRUE]
    /\ UNCHANGED <<clock, rows, lock, stats, failures, deleted, audited>>

Batch(S) == {B \in SUBSET S : Cardinality(B) = Min({Cardinality(S), batch_rows})}

\* A mutant: the loop over a statement goes on until a batch came back full.
AfterBatch_short(r, B) ==
    IF Cardinality(B) < batch_rows /\ ~pass[r].late THEN pass
    ELSE [pass EXCEPT ![r].at = @ + 1]

\* the loop over a statement ends when a batch came short or time is up
AfterBatch(r, B) ==
    IF Cardinality(B) >= batch_rows /\ ~pass[r].late THEN pass
    ELSE [pass EXCEPT ![r].at = @ + 1]

\* unused operator links past their time are marked, each with an audit row
sweep_expired(r) ==
    /\ pass[r].at = Sweep
    /\ \E B \in Batch({i \in In("operator_sign_in_link") :
                         rows[i].ended = Never /\ rows[i].expires <= clock}) :
         /\ rows' = [i \in RowIds |->
                       IF i \in B THEN [rows[i] EXCEPT !.ended = clock] ELSE rows[i]]
         /\ audited' = audited \cup B
         /\ pass' = AfterBatch(r, B)
    /\ UNCHANGED <<clock, lock, stats, failures, deleted>>

\* one statement: at most batch_rows rows of the table
prune_batch(r) ==
    /\ pass[r].at \in 1 .. Len(SPECS)
    /\ \E B \in Batch({i \in In(SPECS[pass[r].at]) : Doomed(rows[i])}) :
         /\ rows' = [i \in RowIds |-> IF i \in B THEN Never ELSE rows[i]]
         /\ deleted' = deleted \cup B
         /\ stats' = [stats EXCEPT ![r] = @ + Cardinality(B)]
         /\ pass' = AfterBatch(r, B)
    /\ UNCHANGED <<clock, lock, failures, audited>>

\* a statement fails: the pass goes on with the next table
statement_fails(r) ==
    /\ pass[r].at \in Sweep .. Len(SPECS)
    /\ failures < MaxFailures
    /\ failures' = failures + 1
    /\ pass' = [pass EXCEPT ![r].at = @ + 1]
    /\ UNCHANGED <<clock, rows, lock, stats, deleted, audited>>

\* the connection is closed, which releases the lock
finish(r) ==
    /\ pass[r].at = Len(SPECS) + 1
    /\ lock' = Never
    /\ pass' = [pass EXCEPT ![r] = Asleep]
    /\ UNCHANGED <<clock, rows, stats, failures, deleted, audited>>

\* the process dies: its session ends and with it the lock
dies(r) ==
    /\ pass[r] # Asleep
    /\ failures < MaxFailures
    /\ failures' = failures + 1
    /\ lock' = Never
    /\ pass' = [pass EXCEPT ![r] = Asleep]
    /\ UNCHANGED <<clock, rows, stats, deleted, audited>>

Pass(r) == sweep_expired(r) \/ prune_batch(r) \/ finish(r)

\* rows of one table, just written
HouseInit ==
    /\ clock = 0
    /\ \E t \in Tables : rows \in
         [RowIds -> {Never} \cup {[table |-> t, created |-> 0, expires |-> n, ended |-> Never] :
                                  n \in Lifetimes}]
    /\ lock = Never
    /\ pass = [r \in Replicas |-> Asleep]
    /\ stats = [r \in Replicas |-> 0]
    /\ failures = 0
    /\ deleted = {}
    /\ audited = {}

HouseNext ==
    \/ tick
    \/ \E i \in RowIds : Consume(i) \/ Restart(i)
    \/ \E r \in Replicas :
         locked_pass(r) \/ deadline(r) \/ Pass(r) \/ statement_fails(r) \/ dies(r)

\* every replica's loop wakes again and again, and a pass it began goes on
HouseFairness == \A r \in Replicas : WF_houseVars(locked_pass(r)) /\ WF_houseVars(Pass(r))

---------------------------------------------------------------------------
(* Properties.                                                              *)

\* Pruning takes only rows no code path can use any more: nobody could sign in,
\* sign out, count an attempt or replay an answer with a row a pass deletes
\* (retention.rs: the loop "prunes ... only rows that no code path can use").  One
\* replica prunes at a time, whichever of them died or failed before, and the rows
\* the replicas say they pruned are the rows that are gone.
PruneOnlyDead ==
    [][/\ \A i \in RowIds : rows[i] # Never /\ rows'[i] = Never => ~Usable(rows[i])
       /\ {r \in Replicas : pass'[r] # Asleep} = {lock'} \ {Never}
       /\ FoldSet(LAMBDA r, n : stats'[r] + n, 0, Replicas) = Cardinality(deleted')
       /\ \A i \in deleted' : rows'[i] = Never]_houseVars

\* Every row that may go is gone in the end, however many passes were cut short by
\* their budget, failed or died before.
PrunedEventually ==
    \A i \in RowIds :
       (rows[i] # Never /\ Doomed(rows[i])) ~> (rows[i] = Never \/ ~Doomed(rows[i]))
=============================================================================
