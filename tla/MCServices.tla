----------------------------- MODULE MCServices -----------------------------
(***************************************************************************)
(* What the server does beside the history of documents and projects, one  *)
(* scene at a time: the rows it prunes, the reads it lets in, the copies   *)
(* it looks for, the editors and exported files joined to a document, and  *)
(* the keys it would encrypt stored values with.                           *)
(***************************************************************************)
EXTENDS Housekeeping, ReadBudgets, CopyIndex, Connectors, AtRest

CONSTANTS r1, r2, Scenes

VARIABLE scene

services_vars == <<scene, houseVars, budgetVars, copyVars, pair, connVars, atRestVars>>

---------------------------------------------------------------------------
(* Constants.                                                               *)

\* a table of each kind: the others differ in name only
MCSPECS ==
    <<"refresh_token", "auth_request_window", "device_enrollment_challenge", "web_metric",
      "idempotency_key", "operator_sign_in_link">>

\* numbers for the shingles of words 1 to 3, spread over the bins
Code(s) == FoldSeq(LAMBDA w, n : 4 * n + w, 1, s)
MCbin(s) == (5 * Code(s)) % SIGNATURE_LEN
MCvalue(s) == (7 * Code(s)) % 11
MCprobe(i, n) == (3 * i + 5 * n) % SIGNATURE_LEN

\* one is a copy of the other with a block changed, the third has nothing of them
MCTextOf ==
    [t1 |-> from_blocks(<<<<1, 2, 1>>, <<2, 2, 1>>, <<2, 1, 1, 1>>>>),
     t2 |-> from_blocks(<<<<2, 2, 1>>, <<1, 2, 1>>, <<2, 1, 2, 2>>>>),
     t3 |-> from_blocks(<<<<3, 3, 3, 2, 3>>, <<1, 1, 3>>>>)]

MCOwner == [d1 |-> "ann", d2 |-> "bob"]
MCTitleOf == [d1 |-> "x", d2 |-> "x"]
MCBorn == [d1 |-> 1, d2 |-> 2]
MCCopiedFrom == [d1 |-> NoDoc, d2 |-> NoDoc]
MCKnown == [d1 |-> "t1"]

MCSize == [i1 |-> 1, i2 |-> 2]
MCKindSets ==
    {{"push", "changes"}, {"checkpoint", "changes"}, {"push", "merge"}, {"push", "withdraw"},
     {"media"}, {"resolve"}}

\* blocks that contain each other's words, and short ones
SomeBlocks == {<<1>>, <<1, 2, 1>>, <<1, 2, 1, 1>>, <<2, 2, 1, 2, 1, 1>>}
SomeTexts ==
    {<<>>} \cup {<<b>> : b \in SomeBlocks} \cup {<<b, c>> : b, c \in SomeBlocks}
    \cup {<<b, <<1, 2, 1>>, c>> : b \in {<<2, 1, 1>>, <<1>>}, c \in SomeBlocks}

---------------------------------------------------------------------------
(* Scenes.                                                                  *)

NoPair == pair = [texts |-> {}, signatures |-> {}]

Pairs ==
    \/ \E t, u \in SomeTexts : pair = [texts |-> {<<t, u>>}, signatures |-> {}]
    \/ \E s \in [Bins -> {1, 2}] :
         pair = [texts |-> {}, signatures |-> {<<[i \in Bins |-> 1], s>>}]

NoRows ==
    /\ clock = 0 /\ rows = [i \in RowIds |-> Never]
    /\ lock = Never /\ failures = 0 /\ deleted = {} /\ audited = {}
    /\ pass = [r \in Replicas |-> Asleep] /\ stats = [r \in Replicas |-> 0]

Init ==
    /\ scene \in Scenes
    /\ IF scene = "prune" THEN HouseInit ELSE NoRows
    /\ IF scene = "compare" THEN Pairs ELSE NoPair
    /\ BudgetInit
    /\ CopyInit
    /\ AtRestInit /\ kekdir = {1}
    /\ ConnInit /\ history = <<"n1">> /\ (scene # "connect" => kinds = {"media"})

\* Indexers are interchangeable, and doors, requests, threads, data keys (the
\* cache has one slot), contexts, places and values: the lower is used first.
IndexersLowerFirst ==
    passes[r2].step = "rest" /\ passes'[r2].step # "rest" => passes[r1].step # "rest"
RequestsLowerFirst ==
    /\ grants["g2"] = Nothing /\ grants'["g2"] # Nothing => grants["g1"] # Nothing
    /\ asked[2].kind = "idle" /\ asked'[2].kind # "idle" => asked[1].kind # "idle"
KeysLowerFirst ==
    /\ thread[2] = Waiting /\ thread'[2] # Waiting => thread[1] # Waiting
    /\ wrapped = <<>> => \A i \in DOMAIN wrapped' : i = 1 /\ wrapped'[i].ctx = "c1"
    /\ IF scene = "keys" THEN Cardinality(stored') <= 1 ELSE thread'[2] = Waiting
    /\ stored = {} => \A e \in stored' : SealedAt(e) = "p1" /\ e.value = "v1"

Next ==
    /\ UNCHANGED <<scene, pair>>
    /\ \/ scene = "prune" /\ HouseNext /\ UNCHANGED <<budgetVars, copyVars, connVars, atRestVars>>
       \/ scene = "reads" /\ BudgetNext /\ UNCHANGED <<houseVars, copyVars, connVars, atRestVars>>
       \/ scene = "copies" /\ CopyNext /\ IndexersLowerFirst /\ UNCHANGED <<houseVars, budgetVars, connVars, atRestVars>>
       \/ scene = "connect" /\ ConnNext /\ RequestsLowerFirst /\ UNCHANGED <<houseVars, budgetVars, copyVars, atRestVars>>
       \/ scene \in {"keys", "envelopes"} /\ AtRestNext /\ KeysLowerFirst /\ UNCHANGED <<houseVars, budgetVars, copyVars, connVars>>

Spec == Init /\ [][Next]_services_vars /\ HouseFairness


=============================================================================
