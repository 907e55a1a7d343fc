---------------------------- MODULE ReceiptTrust ----------------------------
(***************************************************************************)
(* The client's side of the authority: a receipt journal that pins the last *)
(* trusted receipt of one branch, shared by several sync and receipt       *)
(* commands.  A command caches the authority chain it was served, reads    *)
(* the head, verifies a proof in memory and only then writes the journal,  *)
(* so the server and the journal may both have moved on in between.        *)
(*                                                                         *)
(* Each journal call is one SQLite transaction that reserves the writer    *)
(* before it loads the pin.  A command that fails or dies goes idle.       *)
(***************************************************************************)
EXTENDS AuthorityHistory, Reachability

CONSTANTS
    Branch,        \* the scope this journal pins
    Processes,     \* commands running against the journal
    NoPin,
    MaxRotations   \* bound on branch rotations signed by operators

ASSUME TrustAssumption ==
    /\ Branch \in Scopes /\ NoKey \notin Keys /\ MaxRotations \in Nat
    /\ NoPin \notin [key : Keys, receipt : Seq(Entries), revoked : BOOLEAN]

VARIABLES
    pin,           \* NoPin or [key, receipt, revoked]
    recorded,      \* statements the journal stored: [kind, old, new]
    rotations,     \* dual-signed branch rotations: [old, new, at]
    configured,    \* the public key of remote.json
    supplied,      \* every key the user brought from outside the server
    anchor,        \* generation of the bootstrap
    cmd            \* process -> its command

client == <<pin, recorded, rotations, configured, supplied, anchor, cmd>>
all == <<authorityVars, client>>

IsPrefixOf(r, t) == Len(r) <= Len(t) /\ \A i \in DOMAIN r : r[i] = t[i]
KeyOf(r) == r[Len(r)].key
Link(kind, old, new) == [kind |-> kind, old |-> old, new |-> new]
NoChain == [epochs |-> <<>>, revoked |-> {}]
Idle == [phase |-> "idle", served |-> NoChain, brk |-> NoKey, trusted |-> NoKey,
         target |-> <<>>, first |-> 0]

-----------------------------------------------------------------------------
(***************************************************************************)
(* What a served chain v = [epochs, revoked] lets a client conclude.       *)
(***************************************************************************)
Snapshot == [epochs |-> epochs, revoked |-> DOMAIN markers]
Knows(v, k) == \E e \in DOMAIN v.epochs : v.epochs[e].key = k
EpochOf(v, k) == CHOOSE e \in DOMAIN v.epochs : v.epochs[e].key = k
ActiveIn(v) == v.epochs[Len(v.epochs)].key

(* Chain::path: dual-signed statements lead forward from a to b.           *)
Path(v, a, b) ==
    /\ Knows(v, a) /\ Knows(v, b)
    /\ EpochOf(v, a) <= EpochOf(v, b)
    /\ \A e \in EpochOf(v, a) + 1 .. EpochOf(v, b) : v.epochs[e].kind # "recovery"

(* A mutant: any later key of the served chain is followed.                *)
VetKnown(v, a, b) == Knows(v, a) /\ Knows(v, b) /\ EpochOf(v, a) <= EpochOf(v, b)

(* Served::vet and the own-marker refusal it reports, Served::related.     *)
Vet(v, a, b) == Path(v, a, b) /\ \A e \in v.revoked : e < EpochOf(v, a)
OwnMarker(v, a) == Knows(v, a) /\ EpochOf(v, a) \in v.revoked
Related(v, a, b) == Path(v, a, b) \/ Path(v, b, a)

(* break_statement: the recorded break that follows the pinned key.        *)
BreakStatement(v, old, new) ==
    \E e \in 2..Len(v.epochs) :
        v.epochs[e].kind = "recovery" /\ v.epochs[e-1].key = old /\ v.epochs[e].key = new

(* The statements used to go from a to b.                                  *)
Applied(v, a, b) ==
    {Link("rotation", v.epochs[e-1].key, v.epochs[e].key) :
        e \in IF a = b THEN {} ELSE EpochOf(v, a) + 1 .. EpochOf(v, b)}

-----------------------------------------------------------------------------
(***************************************************************************)
(* Pin.                                                                    *)
(***************************************************************************)
(* A mutant: the pin keeps trusting the key of the first receipt.          *)
PinAtFirst(r) == [key |-> r[1].key, receipt |-> r, revoked |-> FALSE]

PinAt(r) == [key |-> KeyOf(r), receipt |-> r, revoked |-> FALSE]

(* A mutant: a retry may start anywhere below the pinned generation.       *)
ConnectsAny(r, t, first) == first <= Len(r) + 1

(* The proof of generations first..Len(t) connects to the pinned receipt.  *)
Connects(r, t, first) == IsPrefixOf(r, t) /\ first <= Len(r) + 1

(* advance_chain: every key change is crossed by dual-signed statements.   *)
Crosses(v, r, t) ==
    \A i \in Len(r) + 1 .. Len(t) :
        t[i].key = t[i-1].key \/ Path(v, t[i-1].key, t[i].key)
(* A mutant: the statements used are not handed back to be stored.         *)
AppliedToNothing(v, r, t) == {}

AppliedTo(v, r, t) ==
    UNION {Applied(v, t[i-1].key, t[i].key) : i \in Len(r) + 1 .. Len(t)}

(* A mutant: advance_chain forgets that the pin is revoked.                *)
AdvancesRevoked(v, t, first) ==
    /\ pin # NoPin
    /\ Connects(pin.receipt, t, first)
    /\ Crosses(v, pin.receipt, t)

Advances(v, t, first) ==
    /\ pin # NoPin /\ ~pin.revoked
    /\ Connects(pin.receipt, t, first)
    /\ Crosses(v, pin.receipt, t)

-----------------------------------------------------------------------------
(***************************************************************************)
(* Journal transactions.                                                   *)
(***************************************************************************)
TrustCheckpoint(k, r) ==
    /\ pin = NoPin
    /\ KeyOf(r) = k
    /\ pin' = PinAt(r)
    /\ anchor' = Len(r)
    /\ UNCHANGED <<recorded, rotations, configured>>

AdvanceChain(v, t, first) ==
    /\ Advances(v, t, first)
    /\ pin' = PinAt(t)
    /\ recorded' = recorded \cup AppliedTo(v, pin.receipt, t)
    /\ UNCHANGED <<rotations, configured, anchor>>

(* Allowed on a revoked pin.  An exact retry changes nothing.              *)
AcceptBreak(v, new, r) ==
    /\ pin # NoPin
    /\ BreakStatement(v, pin.key, new)
    /\ IsPrefixOf(pin.receipt, r) /\ Len(r) = Len(pin.receipt) + 1
    /\ KeyOf(r) = new
    /\ pin' = PinAt(r)
    /\ recorded' = recorded \cup {Link("recovery", pin.key, new)}
    /\ UNCHANGED <<rotations, configured, anchor>>

RevokePin ==
    /\ pin # NoPin
    /\ pin' = [pin EXCEPT !.revoked = TRUE]
    /\ UNCHANGED <<recorded, rotations, configured, anchor>>

-----------------------------------------------------------------------------
(***************************************************************************)
(* The receipt commands, which need no server.                             *)
(***************************************************************************)
Offline == UNCHANGED <<authorityVars, cmd>>
Held(r) == <<Branch, r>> \in issued

Trust(k, r) ==
    /\ Held(r) /\ k \in EpochKeys
    /\ TrustCheckpoint(k, r)
    /\ supplied' = supplied \cup {k}
    /\ Offline
AdvanceArray(r) ==
    /\ Held(r) /\ pin # NoPin /\ ~pin.revoked
    /\ Connects(pin.receipt, r, Len(pin.receipt) + 1)
    /\ \A i \in Len(pin.receipt) + 1 .. Len(r) : r[i].key = pin.key
    /\ pin' = PinAt(r)
    /\ UNCHANGED <<recorded, rotations, configured, anchor, supplied>>
    /\ Offline
SignRotation(new) ==
    /\ pin # NoPin /\ ~pin.revoked /\ new # pin.key
    /\ Cardinality(rotations) < MaxRotations
    /\ rotations' = rotations \cup {[old |-> pin.key, new |-> new, at |-> pin.receipt]}
    /\ UNCHANGED <<pin, recorded, configured, anchor, supplied>>
    /\ Offline
Rotate(t, r) ==
    /\ Held(r) /\ pin # NoPin /\ ~pin.revoked
    /\ t.old = pin.key /\ t.at = pin.receipt
    /\ IsPrefixOf(pin.receipt, r) /\ Len(r) = Len(pin.receipt) + 1
    /\ KeyOf(r) = t.new
    /\ pin' = PinAt(r)
    /\ recorded' = recorded \cup {Link("branch", t.old, t.new)}
    /\ UNCHANGED <<rotations, configured, anchor, supplied>>
    /\ Offline
UserRevokes ==
    /\ RevokePin /\ ~pin.revoked
    /\ UNCHANGED supplied
    /\ Offline

(* The user writes remote.json with a key obtained from the operators.     *)
Configure ==
    /\ Active > 0 /\ configured # ActiveKey
    /\ configured' = ActiveKey
    /\ supplied' = supplied \cup {ActiveKey}
    /\ UNCHANGED <<pin, recorded, rotations, anchor>>
    /\ Offline

-----------------------------------------------------------------------------
(***************************************************************************)
(* A command against the server, step by step.                             *)
(***************************************************************************)
Continue(p, c) == cmd' = [cmd EXCEPT ![p] = c] /\ UNCHANGED authorityVars

(* Client::authority: the chain is fetched once, and the configured key,   *)
(* or the key given with --accept-authority-break, must reach its end.     *)
Begin(p, brk) ==
    /\ cmd[p] = Idle
    /\ configured # NoKey /\ Active > 0
    /\ brk # NoKey => /\ \E e \in 2..Active : epochs[e].key = brk /\ epochs[e].kind = "recovery"
                      /\ Vet(Snapshot, brk, ActiveKey)
    /\ brk = NoKey => Vet(Snapshot, configured, ActiveKey)
    /\ supplied' = supplied \cup ({brk} \ {NoKey})
    /\ Continue(p, [Idle EXCEPT !.phase = "served", !.served = Snapshot, !.brk = brk,
                                !.trusted = IF brk = NoKey THEN configured ELSE brk])
    /\ UNCHANGED <<pin, recorded, rotations, configured, anchor>>

(* Client::head.                                                           *)
ReadHead(p) ==
    /\ cmd[p].phase = "served"
    /\ receipts[Branch] # <<>>
    /\ Knows(cmd[p].served, KeyOf(receipts[Branch]))
    /\ Continue(p, [cmd[p] EXCEPT !.phase = "headed", !.target = receipts[Branch]])
    /\ UNCHANGED <<pin, recorded, rotations, configured, anchor, supplied>>

(* proof, when the journal has a pin for the branch.  The pages it reads   *)
(* must lead from the pin to the head that was read before.                *)
Breaking(c) == c.brk # NoKey /\ pin.key # c.brk
Unchanged(c) == c.brk # NoKey /\ pin.receipt = c.target
MayFollow(c) ==
    IF Breaking(c)
    THEN /\ BreakStatement(c.served, pin.key, c.brk)
         /\ Vet(c.served, c.brk, ActiveIn(c.served))
    ELSE /\ ~pin.revoked
         /\ Related(c.served, c.trusted, pin.key)
         /\ Vet(c.served, pin.key, ActiveIn(c.served))
PagesLead(c) ==
    /\ IsPrefixOf(pin.receipt, c.target)
    /\ pin.receipt # c.target => IsPrefixOf(c.target, receipts[Branch])
    /\ IF Breaking(c)
       THEN LET g == Len(pin.receipt) + 1
            IN  /\ g <= Len(c.target)
                /\ c.target[g].key = c.brk
                /\ Crosses(c.served, SubSeq(c.target, 1, g), c.target)
       ELSE Crosses(c.served, pin.receipt, c.target)

Proof(p) ==
    LET c == cmd[p]
        done(first) == Continue(p, [c EXCEPT !.phase = "checked", !.first = first])
    IN  /\ c.phase = "headed"
        /\ \/ pin = NoPin /\ Vet(c.served, c.trusted, KeyOf(c.target)) /\ done(Len(c.target) + 1)
           \/ pin # NoPin /\ Unchanged(c) /\ done(Len(c.target) + 1)
           \/ pin # NoPin /\ ~Unchanged(c) /\ MayFollow(c) /\ PagesLead(c)
              /\ done(Len(pin.receipt) + 1)
        /\ UNCHANGED <<pin, recorded, rotations, configured, anchor, supplied>>

(* proof, when the pinned key's own epoch is marked: the revocation is a   *)
(* transaction of its own.                                                 *)
FindMarker(p) ==
    LET c == cmd[p]
    IN  /\ c.phase = "headed"
        /\ pin # NoPin /\ ~pin.revoked /\ ~Unchanged(c) /\ ~Breaking(c)
        /\ Related(c.served, c.trusted, pin.key)
        /\ OwnMarker(c.served, pin.key)
        /\ Continue(p, [Idle EXCEPT !.phase = "revoking"])
        /\ UNCHANGED <<pin, recorded, rotations, configured, anchor, supplied>>
WriteMarker(p) ==
    /\ cmd[p].phase = "revoking"
    /\ RevokePin
    /\ UNCHANGED supplied
    /\ Continue(p, Idle)

(* track, after its proof: the journal is read again and written.          *)
Track(p) ==
    LET c == cmd[p]
        checked == c.first <= Len(c.target)
        crossing == c.brk # NoKey /\ pin.key # c.brk /\ c.target[c.first].key = c.brk
    IN  /\ c.phase = "checked"
        /\ \/ TrustCheckpoint(KeyOf(c.target), c.target) /\ Continue(p, Idle)
           \/ /\ pin # NoPin /\ ~checked
              /\ AdvanceChain(c.served, c.target, Len(c.target))
              /\ Continue(p, Idle)
           \/ /\ pin # NoPin /\ checked /\ ~crossing
              /\ AdvanceChain(c.served, c.target, c.first)
              /\ Continue(p, Idle)
           \/ /\ pin # NoPin /\ checked /\ crossing
              /\ AcceptBreak(c.served, c.brk, SubSeq(c.target, 1, c.first))
              /\ Continue(p, [c EXCEPT !.phase = "rest"])
        /\ UNCHANGED supplied
TrackRest(p) ==
    /\ cmd[p].phase = "rest"
    /\ AdvanceChain(cmd[p].served, cmd[p].target, cmd[p].first + 1)
    /\ UNCHANGED supplied
    /\ Continue(p, Idle)

(* authority_proof: the chain and then the receipts are written to a file, *)
(* without any check of the chain, to be applied without the server.       *)
ExportChain(p) ==
    /\ cmd[p] = Idle
    /\ Active > 0
    /\ Continue(p, [Idle EXCEPT !.phase = "exporting", !.served = Snapshot])
    /\ UNCHANGED <<pin, recorded, rotations, configured, anchor, supplied>>
ExportReceipts(p) ==
    /\ cmd[p].phase = "exporting"
    /\ receipts[Branch] # <<>>
    /\ Continue(p, [cmd[p] EXCEPT !.phase = "bundle", !.target = receipts[Branch]])
    /\ UNCHANGED <<pin, recorded, rotations, configured, anchor, supplied>>

(* advance_bundle: the journal is read and the chain vetted, and then the  *)
(* journal is written.                                                     *)
VetBundle(p) ==
    LET c == cmd[p]
    IN  /\ c.phase = "bundle"
        /\ pin # NoPin /\ ~pin.revoked
        /\ \/ /\ Vet(c.served, pin.key, ActiveIn(c.served))
              /\ Continue(p, [c EXCEPT !.phase = "vetted"])
           \/ /\ OwnMarker(c.served, pin.key)
              /\ Continue(p, [Idle EXCEPT !.phase = "revoking"])
        /\ UNCHANGED <<pin, recorded, rotations, configured, anchor, supplied>>
ApplyBundle(p) ==
    /\ cmd[p].phase = "vetted"
    /\ AdvanceChain(cmd[p].served, cmd[p].target, 1)
    /\ UNCHANGED supplied
    /\ Continue(p, Idle)

(* receipt accept-break: its rest is applied by TrackRest.                 *)
AcceptBundle(p, new) ==
    LET c == cmd[p]
        g == Len(pin.receipt) + 1
    IN  /\ c.phase = "bundle" /\ pin # NoPin
        /\ BreakStatement(c.served, pin.key, new)
        /\ Vet(c.served, new, ActiveIn(c.served))
        /\ g <= Len(c.target)
        /\ AcceptBreak(c.served, new, SubSeq(c.target, 1, g))
        /\ supplied' = supplied \cup {new}
        /\ Continue(p, [c EXCEPT !.phase = "rest", !.first = g])

(* A command is refused, fails or dies.                                    *)
Stop(p) ==
    /\ cmd[p] # Idle
    /\ Continue(p, Idle)
    /\ UNCHANGED <<pin, recorded, rotations, configured, anchor, supplied>>

-----------------------------------------------------------------------------
TrustInit ==
    /\ AuthorityInit
    /\ pin = NoPin
    /\ recorded = {}
    /\ rotations = {}
    /\ configured = NoKey
    /\ supplied = {}
    /\ anchor = 0
    /\ cmd = [p \in Processes |-> Idle]

ServerStep == AuthorityNext /\ UNCHANGED client

ReceiptCommand ==
    \/ \E k \in Keys, i \in issued : Trust(k, i[2])
    \/ \E i \in issued : AdvanceArray(i[2])
    \/ \E k \in Keys : SignRotation(k)
    \/ \E t \in rotations, i \in issued : Rotate(t, i[2])
    \/ UserRevokes
    \/ Configure

SyncCommand(p) ==
    \/ \E brk \in EpochKeys \cup {NoKey} : Begin(p, brk)
    \/ ReadHead(p)
    \/ Proof(p)
    \/ FindMarker(p)
    \/ WriteMarker(p)
    \/ Track(p)
    \/ TrackRest(p)
    \/ ExportChain(p)
    \/ ExportReceipts(p)
    \/ VetBundle(p)
    \/ ApplyBundle(p)
    \/ \E new \in Keys : AcceptBundle(p, new)
    \/ Stop(p)

TrustNext == ServerStep \/ ReceiptCommand \/ \E p \in Processes : SyncCommand(p)

TrustSpec == TrustInit /\ [][TrustNext]_all

-----------------------------------------------------------------------------
(***************************************************************************)
(* Properties.                                                             *)
(***************************************************************************)

(* The journal's rows, the user's input and the running commands; a stored *)
(* pin trusts the issuer of its receipt, and the receipt left the server.  *)
TrustTypeOK ==
    /\ pin # NoPin => /\ pin.key = KeyOf(pin.receipt)
                      /\ pin.revoked \in BOOLEAN
                      /\ <<Branch, pin.receipt>> \in issued
                      /\ anchor \in 1..Len(pin.receipt)
    /\ recorded \subseteq [kind : {"rotation", "recovery", "branch"}, old : Keys, new : Keys]
    /\ rotations \subseteq [old : Keys, new : Keys, at : Seq(Entries)]
    /\ configured \in Keys \cup {NoKey} /\ supplied \subseteq Keys
    /\ \A p \in Processes : /\ cmd[p].first \in 0..MaxReceipts + 1
                              /\ cmd[p].target \in Seq(Entries)

(* Fork and rollback are never followed: whatever the server shows, after  *)
(* a restored backup too, the pinned history is only ever extended.        *)
PinOnlyExtends ==
    [][pin # NoPin => pin' # NoPin /\ IsPrefixOf(pin.receipt, pin'.receipt)]_all

Steps(kinds) ==
    [k \in Keys |-> {s.new : s \in {t \in recorded : t.kind \in kinds /\ t.old = k}}]

(* Every change of issuer the pin has crossed since its bootstrap is       *)
(* explained by statements stored in the same journal.                     *)
CrossingsRecorded ==
    pin # NoPin =>
        \A i \in anchor + 1 .. Len(pin.receipt) :
            pin.receipt[i].key \in
                Least(Keys, Steps({"rotation", "recovery", "branch"}), {pin.receipt[i-1].key})

(* Trust is anchored outside the server: the pinned key was brought by the *)
(* user, or follows such a key by dual-signed statements alone.  A chain   *)
(* break is never crossed on the server's word.                            *)
Signed ==
    [k \in Keys |-> {t[2] : t \in {u \in links : u[1] = k}}
                   \cup {t.new : t \in {u \in rotations : u.old = k}}]
TrustAnchored == pin # NoPin => pin.key \in Least(Keys, Signed, supplied)

(* A local revocation is durable: a revoked pin only ever moves across a   *)
(* recorded recovery to a key the user supplied.                           *)
RevocationDurable ==
    [][pin # NoPin /\ pin.revoked /\ pin' # pin =>
          /\ ~pin'.revoked
          /\ pin'.key \in supplied'
          /\ Link("recovery", pin.key, pin'.key) \in recorded']_all

(* What the journal holds is justified: every crossing of the pin is       *)
(* recorded beside it and trust starts from the user's keys.               *)
TrustSound == TrustTypeOK /\ CrossingsRecorded /\ TrustAnchored

(* What no command does to a pin: follow a fork, or leave a revoked key    *)
(* without a recovery that the user accepted.                              *)
PinSafe == PinOnlyExtends /\ RevocationDurable
=============================================================================
