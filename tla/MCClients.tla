------------------------------ MODULE MCClients ------------------------------
(***************************************************************************)
(* Clients of the server, for TLC, in scenes.                              *)
(*   Credentials: "links" sign-in links; "handover" hand-over codes with   *)
(* sign-out; "legacy" a login from before logins had ids; "keys" and       *)
(* "devices" device keys; "keyfiles" the files that hold signing keys.     *)
(*   Synchronisation, of two workstations, one with two terminals, over a  *)
(* small history (1 is published, both hold 2 on it and 3 on 2, bob wrote  *)
(* 4 on 1 and merged it): "pushes" ann plans and pushes 3, bob 2 and 3,    *)
(* and both retry; "pulls" bob pushes, ann pulls while committing;         *)
(* "restored" the branch was at bob's merge 5 when the server is restored  *)
(* once, ann fetches and bob pushes 4; "desk" two terminals of ann's share *)
(* a repository and a journal.                                             *)
(*   Transparency: "tiles" appends to the tile store and stops the writer; *)
(* "witnesses" lets the witnesses cosign the two histories of a log        *)
(* restored from a backup; "bundles" lets a client assess bundles of both; *)
(* "policies" loads policy documents.                                      *)
(***************************************************************************)
EXTENDS DeviceAccess, KeyFiles, ClientSync, TransparencyLog, TLC

CONSTANT Scenes

VARIABLE scene

credentials == <<loginVars, deviceVars, keyVars>>
transparency == <<logvars, trustvars>>
vars == <<scene, credentials, syncVars, transparency>>

CredentialScenes == {"links", "handover", "legacy", "keys", "devices"}
SyncScenes == {"pushes", "pulls", "restored", "desk"}
LogScenes == {"tiles", "witnesses", "bundles", "policies"}

-----------------------------------------------------------------------------
(* Credentials.                                                            *)

\* An account with one login, made through the web server.
SignedIn(p) ==
  /\ identity = NewAccounts
  /\ link = [l \in {} |-> 0]
  /\ code = [c \in {} |-> 0]
  /\ token = [t \in {<<1, 1>>} |-> NewLogin(p)]
  /\ lapsed = {}
  /\ calls = [c \in LoginCalls |-> Idle]
  /\ origin = << <<"exchange">> >>
  /\ ended = {}

\* The account has a key with a grant for every project.
Enrolled(p, k) ==
  /\ enrolling = {}
  /\ \E class \in {"person", "agent"} :
       /\ key = [j \in {k} |-> [who |-> p, mode |-> "granted", class |-> class]]
       /\ grant = [g \in {k} \X Projects |->
                     IF class = "agent" THEN ContentScopes ELSE Scopes \ ContentScopes]
  /\ revoked = {}
  /\ member = People \X Projects
  /\ session = [c \in {} |-> 0]
  /\ stale = {}
  /\ dtoken = {}
  /\ dcall = [c \in DeviceCalls |-> Idle]
  /\ issued = [c \in Challenges |-> 0]

CredentialsInit ==
  IF scene \notin CredentialScenes THEN LoginInit /\ DeviceInit ELSE
  \E p \in People :
    CASE scene = "links" -> LoginInit /\ DeviceInit
      [] scene = "legacy" -> LegacyInit(p) /\ DeviceInit
      [] scene \in {"handover", "keys"} -> SignedIn(p) /\ DeviceInit
      [] scene = "devices" -> SignedIn(p) /\ Enrolled(p, CHOOSE k \in Keys : TRUE)

LinksScene ==
  /\ scene = "links"
  /\ \/ LinkStep
     \/ AdminStep
     \/ \E c \in LoginCalls : \/ mint_session_read(c)
                              \/ mint_session(c)
                              \/ give_up(c)
     \/ \E l \in DOMAIN link : lapse(l)
     \/ \E t \in DOMAIN token : logout(t)
  /\ UNCHANGED deviceVars

HandoverScene ==
  /\ scene = "handover"
  /\ \/ HandoverStep
     \/ \E p \in People : account_removed(p) \/ account_restored(p)
     \/ \E t \in DOMAIN token : refresh(t) \/ logout(t)
     \/ \E x \in DOMAIN code \cup DOMAIN token : lapsed = {} /\ lapse(x)
     \/ \E c \in LoginCalls : give_up(c)
  /\ Cardinality(DOMAIN token') <= MaxLogins
  /\ UNCHANGED deviceVars

LegacyScene ==
  /\ scene = "legacy"
  /\ \/ HandoverStep
     \/ \E t \in DOMAIN token : refresh(t) \/ logout(t)
     \/ \E c \in LoginCalls : \/ mint_session_read(c)
                              \/ mint_session(c)
                              \/ \E p \in People : exchange(c, p)
  /\ Len(origin') < MaxLogins /\ Cardinality(DOMAIN code') < 2
  /\ Cardinality(DOMAIN token') <= MaxLogins
  /\ UNCHANGED deviceVars

KeysScene ==
  /\ scene = "keys"
  /\ \/ ManageKey
     \/ \E e \in enrolling : enrollment_lapses(e)
     \/ \E p \in People, pr \in Projects : member_changes(p, pr)

DeviceScene ==
  /\ scene = "devices"
  /\ \/ DeviceNext
     \/ /\ \E p \in People : account_removed(p) \/ account_restored(p)
        /\ UNCHANGED deviceVars
  /\ enrolling' = {}
  /\ Cardinality(stale') + Cardinality(revoked') <= 1

\* Two paths start empty and are interchangeable: the lower is used first.
PathsLowerFirst ==
    command = NoCommand /\ command' # NoCommand /\ command'.out = "f3" => file["f2"] # NoKeyFile

CredentialsNext ==
  \/ /\ LinksScene \/ HandoverScene \/ LegacyScene \/ KeysScene \/ DeviceScene
     /\ UNCHANGED keyVars
  \/ scene = "keyfiles" /\ KeyFileNext /\ PathsLowerFirst /\ UNCHANGED <<loginVars, deviceVars>>

-----------------------------------------------------------------------------
(* Synchronisation.                                                        *)

MCCommits == 1..5
MCParents == <<{}, {1}, {2}, {1}, {1, 4}>>
MCContent == <<{"o1"}, {"o1"}, {"o1"}, {"o1", "o2"}, {"o2"}>>
MCWritten == [w \in Workstations |-> IF w = "ann" THEN {1, 2, 3} ELSE Commits]
MCAt == [t \in Terminals |-> IF t = "b" THEN "bob" ELSE "ann"]

Pushing == {"plan", "push"}
Commands ==
    [pushes   |-> [a |-> Pushing, a2 |-> {}, b |-> Pushing],
     pulls    |-> [a |-> {"pull"}, a2 |-> {}, b |-> Pushing],
     restored |-> [a |-> {"fetch"}, a2 |-> {}, b |-> Pushing],
     desk     |-> [a |-> Pushing, a2 |-> {"push", "fetch"}, b |-> {}]]
Candidates ==
    [pushes   |-> [a |-> {3}, a2 |-> {}, b |-> {2, 3}],
     pulls    |-> [a |-> {}, a2 |-> {}, b |-> {4, 5}],
     restored |-> [a |-> {}, a2 |-> {}, b |-> {4}],
     desk     |-> [a |-> {2, 3}, a2 |-> {2, 3}, b |-> {}]]

(* Where the other terminal only reads, it may as well wait for a walk or  *)
(* an upload to end.                                                       *)
Walking(t) == job[t] # NoJob /\ job[t].step \in {"plan", "upload", "publish"}

SynchronisationNext ==
    /\ scene \in SyncScenes
    /\ SyncNext
    /\ \A t \in Terminals :
          /\ job'[t].op \in Commands[scene][t] \cup {"idle"}
          /\ job'[t].op \in Pushing => job'[t].approved.candidate \in Candidates[scene][t]
    /\ scene # "desk" => /\ ~ interrupt("b")
                         /\ \A w \in Workstations : \A p \in plans'[w] : p.update_branch
    /\ \A p \in plans["ann"] : ~ discard("ann", p)
    /\ local' # local => scene = "pulls" /\ local'["bob"] = NoHead
    /\ \A p \in plans["bob"] : discard("bob", p) => Applied(p, RemoteHead)
    /\ scene \in {"pulls", "restored"} /\ Walking("b")
          => <<job'["a"], local'>> = <<job["a"], local>>
    /\ Cardinality(claims') <= 2
    /\ scene # "restored" => restores' = 0
    /\ scene # "pushes" => Len(wire') <= 1

-----------------------------------------------------------------------------
(* Transparency.                                                           *)

MCBatches == {<<"x">>, <<"y", "y", "x", "x", "y">>}

Txt(t) == [type |-> "text", hex |-> TRUE, text |-> t]
Num(n) == [type |-> "number", hex |-> FALSE, text |-> n]
RefLeaf(r) == [t |-> Txt("ref"), tag |-> Txt("g"), receipt |-> Txt(r)]
HznLeaf == [t |-> Txt("hzn"), tag |-> Txt("g"), horizon |-> Txt("z"), seq |-> Num("1")]
SucLeaf == [t |-> Txt("suc"), prev_origin |-> Txt("old"), size |-> Num("2"), root |-> Txt("r")]
BadLeaf == [RefLeaf("r1") EXCEPT !.receipt = [type |-> "text", hex |-> FALSE, text |-> "r1"]]

First == <<RefLeaf("r1"), HznLeaf, RefLeaf("r2"), SucLeaf>>
Second == <<RefLeaf("r1"), RefLeaf("r3"), RefLeaf("r2")>>
MCHistories == {First, Second}

Key(name, kind, public) == [name |-> name, kind |-> kind, public |-> public, id |-> <<name, kind, public>>]
WitnessDoc(name, public, operator) ==
    [name |-> name, key |-> Key(name, "cosigner", public), operator |-> operator]
DocOf(witnesses, threshold, distinct) ==
    [version |-> 1, origin |-> "log", log |-> Key("log", "log", "k0"), witnesses |-> witnesses,
     threshold |-> threshold, distinct_operators |-> distinct, max_age_seconds |-> 1, on_failure |-> "warn"]

MCPolicyDoc == DocOf(<<WitnessDoc("w1", "k1", "o1"), WitnessDoc("w2", "k2", "o2"), WitnessDoc("w3", "k3", "o3")>>, 2, TRUE)

\* Witnesses with a key of their own or the key of the first.
WitnessDocs ==
    {WitnessDoc(x[1], x[2], o) : o \in {"o1", "o2"},
        x \in {<<"w1", "k1">>, <<"w2", "k2">>, <<"w2", "k1">>, <<"w3", "k3">>, <<"w3", "k1">>}}
MCPolicyDocs ==
    LET base == DocOf(<< >>, 1, TRUE)
    IN  {[base EXCEPT !.witnesses = w, !.threshold = n, !.distinct_operators = d] :
            w \in BoundedSeq(WitnessDocs, 3), n \in 0..3, d \in BOOLEAN}
        \cup {[MCPolicyDoc EXCEPT !.version = 2], [MCPolicyDoc EXCEPT !.log = Key("other", "log", "k0")],
              [MCPolicyDoc EXCEPT !.log = Key("log", "cosigner", "k0")], [MCPolicyDoc EXCEPT !.max_age_seconds = 0],
              [MCPolicyDoc EXCEPT !.on_failure = "ask"], [MCPolicyDoc EXCEPT !.log.public = "k1", !.log.id = <<"log", "log", "k1">>]}

\* The bundle of every leaf at every size of both histories, with the quorum
\* and the proof of either history or none, or with too few of the quorum;
\* fresh or not; and the same with one thing stated wrongly.
Plain ==
    UNION {{[history |-> h, size |-> n, index |-> i - 1, stated |-> i - 1, sized |-> n, leaf |-> h[i],
             signed |-> TextOf(h, n), cosigners |-> c[1], proof |-> c[2], now |-> 1, expected |-> {}] :
               i \in 1..n, c \in ({{"w1", "w2"}} \X {<< >>, First, Second}) \cup {<<{"w1"}, << >> >>}} :
             <<h, n>> \in {x \in MCHistories \X (1..4) : x[2] <= Len(x[1])}}
MCOffers ==
    Plain \cup {[o EXCEPT !.now = 3] : o \in {o \in Plain : o.index = 0}}
          \cup {[o EXCEPT !.leaf = l] : o \in {o \in Plain : o.cosigners = {"w1", "w2"} /\ o.proof = << >>}, l \in {RefLeaf("r3"), BadLeaf}}
          \cup {[o EXCEPT !.stated = k] : o \in {o \in Plain : o.cosigners = {"w1", "w2"} /\ o.proof = << >>}, k \in {0, 1, 4}}
          \cup {[o EXCEPT !.sized = 2] : o \in {o \in Plain : o.cosigners = {"w1", "w2"} /\ o.proof = << >>}}
          \cup {[o EXCEPT !.signed = TextOf(First, 1), !.expected = {RefLeaf("r1")}] : o \in {o \in Plain : o.proof = << >>}}

Names == {w.name : w \in Range(PolicyDoc.witnesses)}

\* Every cosignature there can be.
EveryLine == {cosign_checkpoint(w.key, text, 1) : w \in Range(PolicyDoc.witnesses), text \in Texts}

TransparencyInit ==
    /\ LogInit
    /\ CASE scene = "bundles" -> TrustInit({}, EveryLine, PolicyDoc)
         [] scene = "policies" -> \E d \in PolicyDocs : TrustInit({}, {}, d)
         [] OTHER -> TrustInit(Names, {}, PolicyDoc)

TransparencyNext ==
    \/ scene = "tiles" /\ LogNext /\ UNCHANGED trustvars
    \/ scene = "witnesses" /\ WitnessNext /\ UNCHANGED logvars
    \/ scene = "bundles" /\ ClientNext /\ UNCHANGED logvars

-----------------------------------------------------------------------------
NoKeyFiles ==
    /\ file = [p \in Paths |-> NoKeyFile] /\ vault = [k \in SigningKeys |-> 0]
    /\ secrets = 0 /\ command = NoCommand /\ relied = {} /\ spilt = 0

Init ==
    /\ scene \in Scenes
    /\ CredentialsInit /\ TransparencyInit
    /\ IF scene = "keyfiles" THEN KeyFileInit /\ Whole(file["f1"]) /\ relied = {1} ELSE NoKeyFiles
    /\ IF scene = "restored" THEN SyncStart(<<1, 5>>) ELSE SyncInit

Next ==
    /\ UNCHANGED scene
    /\ \/ CredentialsNext /\ UNCHANGED <<syncVars, transparency>>
       \/ SynchronisationNext /\ UNCHANGED <<credentials, transparency>>
       \/ TransparencyNext /\ UNCHANGED <<credentials, syncVars>>

Spec == Init /\ [][Next]_vars

\* Credentials at every moment: those of the server, and the files that hold
\* the keys of a device.
CredentialsSound ==
    /\ scene \in CredentialScenes => LoginsAndDevicesSound
    /\ scene = "keyfiles" => KeyNeverLost /\ NoOrphanedSecret

\* What no step of a client may do: publish what was not reviewed, move a
\* branch a pull did not read, or leave a key file torn.
ClientSteps == SyncSteps /\ KeyFilesReplacedWhole

=============================================================================
