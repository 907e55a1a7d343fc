---------------------------- MODULE ReadBudgets -----------------------------
(***************************************************************************)
(* How much a server takes on at a time (engine-api/src/workloads.rs):      *)
(* the requests and streams in flight, and the budgets of expensive reads   *)
(* that a person and a project have.                                        *)
(*                                                                          *)
(* A permit is given back when the value that holds it is dropped: the      *)
(* handler returns, fails, or is cut off by the deadline of reads.          *)
(***************************************************************************)
EXTENDS Integers, FiniteSetsExt

CONSTANTS
  Calls,                \* the requests there may be at a time
  Actors, Works,        \* people and projects
  MaxRequests, MaxStreams, MaxExpensive, MAX_KEYS,
  ActorRate, ActorParallel, ProjectRate, ProjectParallel,
  WINDOW, MaxTime, MaxEntered,
  Nobody

VARIABLES
  now,
  counters,             \* the counters there are: key -> [since, used, active]
  calls,                \* per request: what it is, where it is, the keys it holds
  entered               \* every read that was let in: its keys and when

budgetVars == <<now, counters, calls, entered>>

NoCall == [kind |-> Nobody, step |-> "none", keys |-> {}]
Keys == ({"actor"} \X Actors) \cup ({"project"} \X Works)

rate(key) == IF key[1] = "project" THEN ProjectRate ELSE ActorRate
parallel(key) == IF key[1] = "project" THEN ProjectParallel ELSE ActorParallel

Expensive == {c \in Calls : calls[c].step = "reading"}

admission(c, kind) ==
    /\ calls[c] = NoCall
    /\ Cardinality({d \in Calls : calls[d].kind = kind})
         < (IF kind = "stream" THEN MaxStreams ELSE MaxRequests)
    /\ calls' = [calls EXCEPT ![c] = [kind |-> kind, step |-> "handler", keys |-> {}]]
    /\ UNCHANGED <<now, counters, entered>>

\* A mutant: room is made by dropping every counter whose window is over.
Retained_expired ==
    IF Cardinality(DOMAIN counters) < MAX_KEYS - 2 THEN counters
    ELSE [k \in {x \in DOMAIN counters : now - counters[x].since < WINDOW} |-> counters[k]]

\* the counters that stay when there is little room for more
Retained ==
    IF Cardinality(DOMAIN counters) < MAX_KEYS - 2 THEN counters
    ELSE [k \in {x \in DOMAIN counters :
                   counters[x].active > 0 \/ now - counters[x].since < WINDOW} |-> counters[k]]

Renewed(c) == IF now - c.since >= WINDOW THEN [c EXCEPT !.since = now, !.used = 0] ELSE c

Spent(key, c) == c.used >= rate(key) \/ c.active >= parallel(key)

\* the project of a document without one is the document: `work` is Nobody only
\* for a read that has neither
enter(c, actor, work) ==
    LET keep    == Retained
        keys    == {<<"actor", actor>>} \cup (IF work = Nobody THEN {} ELSE {<<"project", work>>})
        missing == keys \ DOMAIN keep
        \* the person's counter is looked at first; its window may be renewed
        \* although the project's then refuses the read
        own     == <<"actor", actor>>
        stops   == own \in DOMAIN keep /\ Spent(own, Renewed(keep[own]))
        seen    == IF stops THEN {own} ELSE keys
        looked  == [k \in DOMAIN keep |-> IF k \in seen THEN Renewed(keep[k]) ELSE keep[k]]
        refused == \/ Cardinality(DOMAIN keep) + Cardinality(missing) > MAX_KEYS
                   \/ \E k \in keys \ missing : Spent(k, Renewed(keep[k]))
    IN /\ calls[c].step = "handler" /\ calls[c].kind = "request"
       /\ Cardinality(entered) < MaxEntered
       /\ IF Cardinality(Expensive) >= MaxExpensive
          THEN /\ calls' = [calls EXCEPT ![c].step = "body"]
               /\ UNCHANGED <<counters, entered>>
          ELSE IF refused
          THEN /\ calls' = [calls EXCEPT ![c].step = "body"]
               /\ counters' = IF Cardinality(DOMAIN keep) + Cardinality(missing) > MAX_KEYS
                              THEN keep ELSE looked
               /\ UNCHANGED entered
          ELSE /\ counters' = [k \in DOMAIN keep \cup keys |->
                    LET old == IF k \in DOMAIN keep THEN looked[k]
                               ELSE [since |-> now, used |-> 0, active |-> 0]
                    IN IF k \in keys THEN [old EXCEPT !.used = @ + 1, !.active = @ + 1] ELSE old]
               /\ calls' = [calls EXCEPT ![c].step = "reading", ![c].keys = keys]
               /\ entered' = entered \cup {[id |-> Cardinality(entered), keys |-> keys, at |-> now]}
       /\ UNCHANGED now

\* ReadPermit is dropped: the read is over, or its deadline cut it off
drop(c) ==
    /\ calls[c].step = "reading"
    /\ counters' = [k \in DOMAIN counters |->
                      IF k \in calls[c].keys THEN [counters[k] EXCEPT !.active = @ - 1]
                      ELSE counters[k]]
    /\ calls' = [calls EXCEPT ![c].step = "body", ![c].keys = {}]
    /\ UNCHANGED <<now, entered>>

\* the last of the body is sent, or the client has gone
answered(c) ==
    /\ calls[c].step \in {"handler", "body"}
    /\ calls' = [calls EXCEPT ![c] = NoCall]
    /\ UNCHANGED <<now, counters, entered>>

time_passes ==
    /\ now < MaxTime
    /\ now' = now + 1
    /\ UNCHANGED <<counters, calls, entered>>

BudgetInit ==
    /\ now = 0
    /\ counters = <<>>
    /\ calls = [c \in Calls |-> NoCall]
    /\ entered = {}

BudgetNext ==
    \/ time_passes
    \/ \E c \in Calls :
         \/ \E kind \in {"request", "stream"} : admission(c, kind)
         \/ \E actor \in Actors, work \in Works \cup {Nobody} : enter(c, actor, work)
         \/ drop(c) \/ answered(c)

---------------------------------------------------------------------------
(* Properties.                                                              *)

\* The counters tell the truth and hold: each says how many reads are running under
\* its key and how many its window let in, never more than it may, however often
\* counters were dropped to make room, windows were renewed by reads that were then
\* refused, and reads were cut off; and there are never more of them than there is
\* room for.
BudgetsHold ==
    /\ Cardinality(DOMAIN counters) <= MAX_KEYS
    /\ Cardinality(Expensive) <= MaxExpensive
    /\ \A k \in Keys :
         LET running == {c \in Calls : k \in calls[c].keys}
         IN /\ Cardinality(running) <= parallel(k)
            /\ running # {} => k \in DOMAIN counters
            /\ k \in DOMAIN counters =>
                 /\ counters[k].active = Cardinality(running)
                 /\ counters[k].used
                      = Cardinality({e \in entered : k \in e.keys /\ e.at >= counters[k].since})
                 /\ counters[k].used <= rate(k)
=============================================================================
