------------------------ MODULE ReceiptTrust_lemmas ------------------------
(***************************************************************************)
(* Proofs about the receipt journal: for any keys, branches, processes and *)
(* restores of the server, what the journal pins is typed, its crossings   *)
(* are recorded, its trust starts from the user's keys, and no command     *)
(* takes a pin back.                                                       *)
(***************************************************************************)
EXTENDS ReceiptTrust, Reachability_proofs, SequenceTheorems

Pins == [key : Keys, receipt : Seq(Entries), revoked : BOOLEAN]
Chains == [epochs : Seq(Epochs), revoked : SUBSET Nat]
Phases ==
    {"idle", "served", "headed", "checked", "revoking", "rest", "exporting", "bundle", "vetted"}
Commands ==
    [phase : Phases, served : Chains, brk : Keys \cup {NoKey}, trusted : Keys \cup {NoKey},
     target : Seq(Entries), first : 0..MaxReceipts + 1]

(* A chain of epochs the server has shown: every epoch that is no recovery *)
(* was installed by a rotation from the one before it.                     *)
Linked(ep, lk) ==
    \A e \in 2..Len(ep) : ep[e].kind # "recovery" => <<ep[e-1].key, ep[e].key>> \in lk

(* Every receipt of a branch left the server, as did those before it.      *)
HandedOut(rc, is) ==
    \A s \in Scopes : /\ Len(rc[s]) <= MaxReceipts
                      /\ \A n \in 1..Len(rc[s]) : <<s, SubSeq(rc[s], 1, n)>> \in is

(* A database the server has or had.                                       *)
Shown(ep, mk, rc, lk, is) ==
    /\ ep \in Seq(Epochs) /\ Linked(ep, lk)
    /\ DOMAIN mk \subseteq Nat
    /\ rc \in Histories /\ HandedOut(rc, is)

(* What left the server are the receipts of its branches.                  *)
IssuedInv(is) ==
    \A i \in is :
         /\ i \in Scopes \X Seq(Entries)
         /\ Len(i[2]) \in 1..MaxReceipts
         /\ \A n \in 1..Len(i[2]) : <<i[1], SubSeq(i[2], 1, n)>> \in is

ServerInv ==
    /\ Shown(epochs, markers, receipts, links, issued)
    /\ Shown(backup.epochs, backup.markers, backup.receipts, links, issued)
    /\ links \subseteq Keys \X Keys
    /\ IssuedInv(issued)

(* The journal and what the user brought.                                  *)
PinInv ==
    pin # NoPin => /\ pin \in Pins
                   /\ pin.key = KeyOf(pin.receipt)
                   /\ <<Branch, pin.receipt>> \in issued
                   /\ anchor \in 1..Len(pin.receipt)
StatementsInv ==
    /\ recorded \subseteq [kind : {"rotation", "recovery", "branch"}, old : Keys, new : Keys]
    /\ rotations \subseteq [old : Keys, new : Keys, at : Seq(Entries)]
    /\ supplied \subseteq Keys
    /\ configured \in supplied \cup {NoKey}

(* What follows keys by the statements of the server and the operators.    *)
SignedBy(lk, ro) ==
    [k \in Keys |-> {t[2] : t \in {u \in lk : u[1] = k}}
                   \cup {t.new : t \in {u \in ro : u.old = k}}]
AnchoredBy(lk, ro, sp) == Least(Keys, SignedBy(lk, ro), sp)

(* What the journal's own statements explain.                              *)
StepsBy(rec) ==
    [k \in Keys |-> {s.new : s \in {t \in rec :
        t.kind \in {"rotation", "recovery", "branch"} /\ t.old = k}}]
Explained(t, rec, a, b) ==
    \A i \in a + 1 .. b : t[i].key \in Least(Keys, StepsBy(rec), {t[i-1].key})

(* A command holds a chain the server showed and a head that left it, and  *)
(* starts from a key of the user's; a head that may become the first pin   *)
(* has been vetted from there.                                             *)
CommandInv(c, pn, lk, ro, sp, is) ==
    /\ c \in Commands
    /\ Linked(c.served.epochs, lk)
    /\ c.brk \in sp \cup {NoKey}
    /\ c.trusted \in sp \cup {NoKey}
    /\ c.target # <<>> => <<Branch, c.target>> \in is
    /\ c.phase \in {"headed", "checked", "rest", "bundle", "vetted"} => c.target # <<>>
    /\ c.phase = "checked" /\ pn = NoPin => KeyOf(c.target) \in AnchoredBy(lk, ro, sp)

CommandsInv ==
    /\ cmd \in [Processes -> Commands]
    /\ \A p \in Processes : CommandInv(cmd[p], pin, links, rotations, supplied, issued)

TrustInv ==
    /\ ServerInv /\ PinInv /\ StatementsInv /\ CommandsInv
    /\ CrossingsRecorded
    /\ TrustAnchored

-----------------------------------------------------------------------------
(* A statement a client may use leads from an epoch's key to the next.     *)
LEMMA EpochFacts ==
    ASSUME NEW v \in Chains, NEW k, Knows(v, k)
    PROVE  /\ EpochOf(v, k) \in DOMAIN v.epochs /\ v.epochs[EpochOf(v, k)].key = k
           /\ EpochOf(v, k) \in 1..Len(v.epochs) /\ EpochOf(v, k) \in Nat
           /\ k \in Keys
<1>1. EpochOf(v, k) \in DOMAIN v.epochs /\ v.epochs[EpochOf(v, k)].key = k
  BY DEF Knows, EpochOf
<1>2. v.epochs \in Seq(Epochs)
  BY DEF Chains
<1>3. DOMAIN v.epochs = 1..Len(v.epochs) /\ Len(v.epochs) \in Nat
  BY <1>2
<1>4. v.epochs[EpochOf(v, k)] \in Epochs
  BY <1>1, <1>2
<1> QED
  BY <1>1, <1>3, <1>4 DEF Epochs

(* Following a path of rotations stays inside what is closed under them.   *)
LEMMA PathLeads ==
    ASSUME NEW v \in Chains, NEW a, NEW b, Path(v, a, b), NEW next, NEW S,
           a \in Least(Keys, next, S),
           \A e \in EpochOf(v, a) + 1 .. EpochOf(v, b) :
              v.epochs[e].key \in next[v.epochs[e-1].key]
    PROVE  b \in Least(Keys, next, S)
<1> DEFINE m == EpochOf(v, a)
<1> DEFINE n == EpochOf(v, b)
<1> DEFINE key == [e \in Nat |-> v.epochs[e].key]
<1>1. /\ m \in Nat /\ n \in Nat /\ m <= n
      /\ m \in 1..Len(v.epochs) /\ n \in 1..Len(v.epochs)
      /\ v.epochs[m].key = a /\ v.epochs[n].key = b
  BY EpochFacts DEF Path
<1>2. v.epochs \in Seq(Epochs) /\ Len(v.epochs) \in Nat
  BY DEF Chains
<1>3. \A e \in m + 1 .. n : e \in 1..Len(v.epochs) /\ e \in Nat /\ e - 1 \in Nat
  BY <1>1, <1>2
<1>4. ASSUME NEW e \in m + 1 .. n PROVE v.epochs[e].key \in Keys
  <2>1. e \in 1..Len(v.epochs)
    BY <1>3
  <2>2. v.epochs[e] \in Epochs
    BY <1>2, <2>1
  <2> QED
    BY <2>2 DEF Epochs
<1>5. \A e \in m + 1 .. n : v.epochs[e].key \in next[v.epochs[e-1].key]
  OBVIOUS
<1> HIDE DEF m, n
<1>6. key[m] = a /\ key[n] = b
  BY <1>1
<1>7. \A e \in m + 1 .. n : key[e] \in Keys /\ key[e] \in next[key[e-1]]
  BY <1>3, <1>4, <1>5
<1> HIDE DEF key
<1>8. key[n] \in Least(Keys, next, S)
  BY <1>1, <1>6, <1>7, LeastHoldsChain
<1> QED
  BY <1>6, <1>8

(* The rotations of a path are among the links of the server.              *)
LEMMA PathIsSigned ==
    ASSUME NEW v \in Chains, NEW lk, NEW ro, NEW sp, Linked(v.epochs, lk), lk \subseteq Keys \X Keys, NEW a, NEW b, Path(v, a, b)
    PROVE  \A e \in EpochOf(v, a) + 1 .. EpochOf(v, b) :
              v.epochs[e].key \in SignedBy(lk, ro)[v.epochs[e-1].key]
<1> SUFFICES ASSUME NEW e \in EpochOf(v, a) + 1 .. EpochOf(v, b)
             PROVE  v.epochs[e].key \in SignedBy(lk, ro)[v.epochs[e-1].key]
  OBVIOUS
<1>1. /\ EpochOf(v, a) \in 1..Len(v.epochs) /\ EpochOf(v, b) \in 1..Len(v.epochs)
      /\ v.epochs[e].kind # "recovery" /\ Len(v.epochs) \in Nat
  BY EpochFacts DEF Path, Chains
<1>2. e \in 2..Len(v.epochs)
  BY <1>1
<1>3. <<v.epochs[e-1].key, v.epochs[e].key>> \in lk
  BY <1>1, <1>2 DEF Linked
<1>4. v.epochs[e-1].key \in Keys
  BY <1>3
<1> QED
  BY <1>3, <1>4 DEF SignedBy

(* A vetted key follows the user's keys when the key it is vetted from     *)
(* does.                                                                   *)
LEMMA PathAnchored ==
    ASSUME NEW v \in Chains, NEW lk, NEW ro, NEW sp, Linked(v.epochs, lk), lk \subseteq Keys \X Keys,
           NEW a \in AnchoredBy(lk, ro, sp), NEW b, Path(v, a, b)
    PROVE  b \in AnchoredBy(lk, ro, sp)
  BY PathLeads, PathIsSigned DEF AnchoredBy

(* So does the issuer of every receipt that a chain leads to.              *)
LEMMA CrossesAnchored ==
    ASSUME NEW v \in Chains, NEW lk, NEW ro, NEW sp, Linked(v.epochs, lk), lk \subseteq Keys \X Keys,
           NEW r \in Seq(Entries), NEW t \in Seq(Entries), r # <<>>,
           IsPrefixOf(r, t), Crosses(v, r, t), KeyOf(r) \in AnchoredBy(lk, ro, sp)
    PROVE  KeyOf(t) \in AnchoredBy(lk, ro, sp)
<1> DEFINE V == {i \in Nat : t[i].key \in AnchoredBy(lk, ro, sp)}
<1>1. /\ Len(r) \in Nat /\ Len(t) \in Nat /\ Len(r) <= Len(t) /\ Len(r) >= 1
      /\ t[Len(r)] = r[Len(r)]
  BY DEF IsPrefixOf
<1>2. Len(r) \in V
  BY <1>1 DEF KeyOf
<1>3. ASSUME NEW i \in Len(r) + 1 .. Len(t), i - 1 \in V PROVE i \in V
  <2>1. i \in Nat /\ t[i-1].key \in AnchoredBy(lk, ro, sp)
    BY <1>1, <1>3
  <2>2. t[i].key = t[i-1].key \/ Path(v, t[i-1].key, t[i].key)
    BY DEF Crosses
  <2>3. t[i].key \in AnchoredBy(lk, ro, sp)
    BY <2>1, <2>2, PathAnchored
  <2> QED
    BY <2>1, <2>3
<1> HIDE DEF V
<1>4. Len(r) .. Len(t) \subseteq V
  BY <1>1, <1>2, <1>3, RangeInduction
<1>5. Len(t) \in V
  BY <1>1, <1>4
<1> QED
  BY <1>5 DEF V, KeyOf

(* More statements and more keys of the user's leave nothing unanchored.   *)
LEMMA AnchoredGrows ==
    ASSUME NEW lk, NEW ro, NEW sp, NEW lk2, NEW ro2, NEW sp2,
           lk \subseteq lk2, ro \subseteq ro2, sp \subseteq sp2
    PROVE  AnchoredBy(lk, ro, sp) \subseteq AnchoredBy(lk2, ro2, sp2)
<1>1. \A k \in Keys : SignedBy(lk, ro)[k] \subseteq SignedBy(lk2, ro2)[k]
  BY DEF SignedBy
<1> QED
  BY <1>1, LeastGrows DEF AnchoredBy

(* A statement the journal stores explains no less than before.            *)
LEMMA ExplainedGrows ==
    ASSUME NEW rec, NEW rec2, rec \subseteq rec2, NEW S
    PROVE  Least(Keys, StepsBy(rec), S) \subseteq Least(Keys, StepsBy(rec2), S)
<1>1. \A k \in Keys : StepsBy(rec)[k] \subseteq StepsBy(rec2)[k]
  BY DEF StepsBy
<1> QED
  BY <1>1, LeastGrows

(* A longer receipt is explained when its old part was and its new part is.*)
LEMMA ExplainedExtends ==
    ASSUME NEW r \in Seq(Entries), NEW t \in Seq(Entries), IsPrefixOf(r, t),
           NEW rec, NEW rec2, rec \subseteq rec2, NEW a \in 1..Len(r),
           Explained(r, rec, a, Len(r)), Explained(t, rec2, Len(r), Len(t))
    PROVE  Explained(t, rec2, a, Len(t))
<1> SUFFICES ASSUME NEW i \in a + 1 .. Len(t)
             PROVE  t[i].key \in Least(Keys, StepsBy(rec2), {t[i-1].key})
  BY DEF Explained
<1>1. Len(r) \in Nat /\ Len(t) \in Nat /\ DOMAIN r = 1..Len(r)
  OBVIOUS
<1>2. CASE i > Len(r)
  <2>1. i \in Len(r) + 1 .. Len(t)
    BY <1>1, <1>2
  <2> QED
    BY <2>1 DEF Explained
<1>3. CASE i <= Len(r)
  <2>1. i \in a + 1 .. Len(r) /\ i \in DOMAIN r /\ i - 1 \in DOMAIN r
    BY <1>1, <1>3
  <2>2. t[i] = r[i] /\ t[i-1] = r[i-1]
    BY <2>1 DEF IsPrefixOf
  <2>3. r[i].key \in Least(Keys, StepsBy(rec), {r[i-1].key})
    BY <2>1 DEF Explained
  <2> QED
    BY <2>2, <2>3, ExplainedGrows
<1> QED
  BY <1>1, <1>2, <1>3

(* The statements an advance hands back explain every key change it makes. *)
LEMMA AppliedExplains ==
    ASSUME NEW v \in Chains, NEW r \in Seq(Entries), NEW t \in Seq(Entries), r # <<>>,
           Crosses(v, r, t), NEW rec, AppliedTo(v, r, t) \subseteq rec
    PROVE  Explained(t, rec, Len(r), Len(t))
<1> SUFFICES ASSUME NEW i \in Len(r) + 1 .. Len(t)
             PROVE  t[i].key \in Least(Keys, StepsBy(rec), {t[i-1].key})
  BY DEF Explained
<1>1. /\ i \in 1..Len(t) /\ i - 1 \in 1..Len(t) /\ i \in Nat
  <2>1. Len(r) \in Nat /\ Len(t) \in Nat /\ Len(r) >= 1
    OBVIOUS
  <2> QED
    BY <2>1
<1>2. t[i].key \in Keys /\ t[i-1].key \in Keys
  <2>1. t[i] \in Entries /\ t[i-1] \in Entries
    BY <1>1
  <2> QED
    BY <2>1 DEF Entries
<1> DEFINE a == t[i-1].key
<1> DEFINE b == t[i].key
<1>3. a \in Least(Keys, StepsBy(rec), {a})
  BY <1>2, LeastHasRoots
<1>4. CASE a = b
  BY <1>3, <1>4
<1>5. CASE a # b
  <2>1. Path(v, a, b)
    BY <1>5 DEF Crosses
  <2>2. Applied(v, a, b) \subseteq rec
    BY DEF AppliedTo
  <2>3. ASSUME NEW e \in EpochOf(v, a) + 1 .. EpochOf(v, b)
        PROVE  v.epochs[e].key \in StepsBy(rec)[v.epochs[e-1].key]
    <3>1. Link("rotation", v.epochs[e-1].key, v.epochs[e].key) \in rec
      BY <2>2, <1>5 DEF Applied
    <3>2. /\ EpochOf(v, a) \in 1..Len(v.epochs) /\ EpochOf(v, b) \in 1..Len(v.epochs)
          /\ v.epochs \in Seq(Epochs)
      BY <2>1, EpochFacts DEF Path, Chains
    <3>3. e - 1 \in 1..Len(v.epochs)
      BY <3>2
    <3>4. v.epochs[e-1] \in Epochs
      BY <3>2, <3>3
    <3>5. v.epochs[e-1].key \in Keys
      BY <3>4 DEF Epochs
    <3> QED
      BY <3>1, <3>5 DEF StepsBy, Link
  <2> QED
    BY <1>3, <2>1, <2>3, PathLeads
<1> QED
  BY <1>4, <1>5

(* They are statements of the journal's kinds.                             *)
LEMMA AppliedTyped ==
    ASSUME NEW v \in Chains, NEW r \in Seq(Entries), NEW t \in Seq(Entries), r # <<>>,
           Crosses(v, r, t)
    PROVE  AppliedTo(v, r, t) \subseteq
               [kind : {"rotation", "recovery", "branch"}, old : Keys, new : Keys]
<1> SUFFICES ASSUME NEW i \in Len(r) + 1 .. Len(t), NEW s \in Applied(v, t[i-1].key, t[i].key)
             PROVE  s \in [kind : {"rotation", "recovery", "branch"}, old : Keys, new : Keys]
  BY DEF AppliedTo
<1> DEFINE a == t[i-1].key
<1> DEFINE b == t[i].key
<1>1. a # b /\ Path(v, a, b)
  BY DEF Crosses, Applied
<1>2. PICK e \in EpochOf(v, a) + 1 .. EpochOf(v, b) :
         s = Link("rotation", v.epochs[e-1].key, v.epochs[e].key)
  BY <1>1 DEF Applied
<1>3. /\ EpochOf(v, a) \in 1..Len(v.epochs) /\ EpochOf(v, b) \in 1..Len(v.epochs)
      /\ v.epochs \in Seq(Epochs)
  BY <1>1, EpochFacts DEF Path, Chains
<1>4. e - 1 \in 1..Len(v.epochs) /\ e \in 1..Len(v.epochs)
  BY <1>3
<1>5. v.epochs[e-1] \in Epochs /\ v.epochs[e] \in Epochs
  BY <1>3, <1>4
<1> QED
  BY <1>2, <1>5 DEF Link, Epochs

-----------------------------------------------------------------------------
(* The server: a database it has shown stays one as more leaves it.        *)
LEMMA ShownGrows ==
    ASSUME NEW ep, NEW mk, NEW rc, NEW lk, NEW is, NEW lk2, NEW is2,
           lk \subseteq lk2, is \subseteq is2, Shown(ep, mk, rc, lk, is)
    PROVE  Shown(ep, mk, rc, lk2, is2)
  BY DEF Shown, Linked, HandedOut

(* The prefixes of a receipt that is appended to.                          *)
LEMMA PrefixOfAppend ==
    ASSUME NEW S, NEW s \in Seq(S), NEW x \in S, NEW n \in 1..Len(s)
    PROVE  SubSeq(Append(s, x), 1, n) = SubSeq(s, 1, n)
<1>1. Append(s, x) = s \o <<x>> /\ <<x>> \in Seq(S)
  BY AppendIsConcat
<1>2. 1 \in 1..Len(s)
  OBVIOUS
<1> QED
  BY <1>1, <1>2, SubSeqOfConcat1

(* Issuing a receipt (finish of a publication) keeps the server invariant: *)
(* the new entry is handed out and extends its own branch only.            *)
LEMMA IssueKeeps ==
    ASSUME ServerInv, NEW s \in Scopes, NEW c \in Commits, NEW k \in Keys, Issue(s, c, k)
    PROVE  ServerInv'
<1> DEFINE x == [commit |-> c, key |-> k]
<1> DEFINE new == Append(receipts[s], x)
<1>1. /\ x \in Entries /\ receipts \in [Scopes -> Seq(Entries)] /\ receipts[s] \in Seq(Entries)
      /\ HandedOut(receipts, issued)
  BY DEF ServerInv, Shown, Histories, Entries
<1>2. /\ new \in Seq(Entries) /\ Len(new) = Len(receipts[s]) + 1 /\ Len(receipts[s]) \in Nat
  BY <1>1, AppendProperties
<1>3. /\ receipts' = [receipts EXCEPT ![s] = new] /\ receipts'[s] = new
      /\ \A q \in Scopes : q # s => receipts'[q] = receipts[q]
      /\ issued' = issued \cup {<<s, new>>}
      /\ UNCHANGED <<epochs, markers, links, backup, restores>>
      /\ Len(receipts[s]) < MaxReceipts
  BY <1>1 DEF Issue
<1>4. receipts' \in Histories
  BY <1>1, <1>2, <1>3 DEF Histories
<1>5. \A n \in 1..Len(new) : <<s, SubSeq(new, 1, n)>> \in issued'
  <2> SUFFICES ASSUME NEW n \in 1..Len(new) PROVE <<s, SubSeq(new, 1, n)>> \in issued'
    OBVIOUS
  <2>1. CASE n \in 1..Len(receipts[s])
    <3>1. SubSeq(new, 1, n) = SubSeq(receipts[s], 1, n)
      BY <1>1, <2>1, PrefixOfAppend
    <3> QED
      BY <3>1, <2>1, <1>1, <1>3 DEF HandedOut
  <2>2. CASE n = Len(new)
    <3>1. SubSeq(new, 1, n) = new
      BY <1>2, <2>2, SubSeqFull
    <3> QED
      BY <3>1, <1>3
  <2> QED
    BY <2>1, <2>2, <1>2
<1> HIDE DEF new, x
<1>6. Len(new) \in 1..MaxReceipts
  BY <1>2, <1>3, AuthorityAssumption
<1>7. HandedOut(receipts', issued')
  <2> SUFFICES ASSUME NEW q \in Scopes
               PROVE  /\ Len(receipts'[q]) <= MaxReceipts
                      /\ \A n \in 1..Len(receipts'[q]) : <<q, SubSeq(receipts'[q], 1, n)>> \in issued'
    BY DEF HandedOut
  <2>1. CASE q = s
    BY <2>1, <1>3, <1>5, <1>6
  <2>2. CASE q # s
    BY <2>2, <1>1, <1>3 DEF HandedOut
  <2> QED
    BY <2>1, <2>2
<1>8. IssuedInv(issued')
  <2> SUFFICES ASSUME NEW i \in issued'
               PROVE  /\ i \in Scopes \X Seq(Entries)
                      /\ Len(i[2]) \in 1..MaxReceipts
                      /\ \A n \in 1..Len(i[2]) : <<i[1], SubSeq(i[2], 1, n)>> \in issued'
    BY DEF IssuedInv
  <2>1. CASE i = <<s, new>>
    BY <2>1, <1>2, <1>5, <1>6
  <2>2. CASE i \in issued
    BY <2>2, <1>3 DEF ServerInv, IssuedInv
  <2> QED
    BY <2>1, <2>2, <1>3
<1>9. Shown(epochs', markers', receipts', links', issued')
  BY <1>3, <1>4, <1>7 DEF ServerInv, Shown
<1>10. Shown(backup'.epochs, backup'.markers, backup'.receipts, links', issued')
  BY <1>3, ShownGrows DEF ServerInv
<1> QED
  BY <1>3, <1>8, <1>9, <1>10 DEF ServerInv

(* What a step of the server keeps, and that it takes nothing back.        *)
LEMMA ServerKeeps ==
    ASSUME ServerInv, AuthorityNext
    PROVE  ServerInv' /\ links \subseteq links' /\ issued \subseteq issued'
<1>0. /\ Shown(epochs, markers, receipts, links, issued)
      /\ Shown(backup.epochs, backup.markers, backup.receipts, links, issued)
      /\ links \subseteq Keys \X Keys /\ IssuedInv(issued)
  BY DEF ServerInv
<1>1. ASSUME NEW s \in Scopes, NEW c \in Commits, NEW k \in Keys, Issue(s, c, k)
      PROVE  ServerInv' /\ links \subseteq links' /\ issued \subseteq issued'
  BY <1>1, IssueKeeps DEF Issue
<1>2. ASSUME NEW k \in Keys, Install(k)
      PROVE  ServerInv' /\ links \subseteq links' /\ issued \subseteq issued'
  <2>1. [key |-> k, kind |-> "genesis", seal |-> receipts] \in Epochs
    BY <1>0 DEF Shown, Epochs
  <2>2. epochs' \in Seq(Epochs) /\ Len(epochs') = 1
    BY <2>1, <1>2 DEF Install
  <2>3. Linked(epochs', links')
    BY <2>2 DEF Linked
  <2>4. Shown(epochs', markers', receipts', links', issued')
    BY <1>0, <1>2, <2>2, <2>3 DEF Shown, Install
  <2> QED
    BY <1>0, <1>2, <2>4 DEF ServerInv, Install
<1>3. ASSUME NEW kind \in {"rotation", "recovery"}, NEW k \in Keys, Transition(kind, k)
      PROVE  ServerInv' /\ links \subseteq links' /\ issued \subseteq issued'
  <2> DEFINE x == [key |-> k, kind |-> kind, seal |-> receipts]
  <2>1. x \in Epochs /\ epochs \in Seq(Epochs) /\ Len(epochs) \in Nat /\ Len(epochs) > 0
    BY <1>0, <1>3 DEF Shown, Epochs, Transition, MayContinue, Active
  <2>2. /\ epochs' \in Seq(Epochs) /\ Len(epochs') = Len(epochs) + 1
        /\ epochs'[Len(epochs) + 1] = x
        /\ \A e \in 1..Len(epochs) : epochs'[e] = epochs[e]
    BY <2>1, <1>3, AppendProperties DEF Transition
  <2>3. links \subseteq links' /\ (kind # "recovery" => <<epochs[Len(epochs)].key, k>> \in links')
    BY <1>3 DEF Transition, ActiveKey, Active
  <2>4. Linked(epochs', links')
    <3> SUFFICES ASSUME NEW e \in 2..Len(epochs'), epochs'[e].kind # "recovery"
                 PROVE  <<epochs'[e-1].key, epochs'[e].key>> \in links'
      BY DEF Linked
    <3>1. CASE e = Len(epochs) + 1
      <4>1. epochs'[e] = x /\ epochs'[e-1] = epochs[Len(epochs)]
        BY <3>1, <2>1, <2>2
      <4> QED
        BY <4>1, <2>3
    <3>2. CASE e \in 2..Len(epochs)
      <4>1. epochs'[e] = epochs[e] /\ epochs'[e-1] = epochs[e-1]
        BY <3>2, <2>1, <2>2
      <4> QED
        BY <4>1, <3>2, <2>3, <1>0 DEF Shown, Linked
    <3> QED
      BY <3>1, <3>2, <2>1, <2>2
  <2>5. epochs[Len(epochs)].key \in Keys
    <3>1. epochs[Len(epochs)] \in Epochs
      BY <2>1
    <3> QED
      BY <3>1 DEF Epochs
  <2>6. links' \subseteq Keys \X Keys
    BY <2>5, <1>0, <1>3 DEF Transition, ActiveKey, Active
  <2>7. UNCHANGED <<markers, receipts, issued, backup>>
    BY <1>3 DEF Transition
  <2>8. Shown(epochs', markers', receipts', links', issued')
    BY <1>0, <2>2, <2>4, <2>7 DEF Shown
  <2>9. Shown(backup'.epochs, backup'.markers, backup'.receipts, links', issued')
    BY <1>0, <2>3, <2>7, ShownGrows
  <2> QED
    BY <1>0, <2>3, <2>6, <2>7, <2>8, <2>9 DEF ServerInv
<1>4. ASSUME NEW e \in DOMAIN epochs, Revoke(e)
      PROVE  ServerInv' /\ links \subseteq links' /\ issued \subseteq issued'
  <2>1. e \in Nat /\ DOMAIN markers \subseteq Nat
    BY <1>0 DEF Shown
  <2>2. DOMAIN markers' \subseteq Nat
    BY <2>1, <1>4 DEF Revoke
  <2>3. Shown(epochs', markers', receipts', links', issued')
    BY <1>0, <1>4, <2>2 DEF Shown, Revoke
  <2> QED
    BY <1>0, <1>4, <2>3 DEF ServerInv, Revoke
<1>5. CASE Backup
  <2>1. /\ backup'.epochs = epochs /\ backup'.markers = markers /\ backup'.receipts = receipts
        /\ UNCHANGED <<epochs, markers, receipts, issued, links, restores>>
    BY <1>5 DEF Backup, Database
  <2> QED
    BY <1>0, <2>1 DEF ServerInv
<1>6. CASE Restore
  <2>1. /\ epochs' = backup.epochs /\ markers' = backup.markers /\ receipts' = backup.receipts
        /\ UNCHANGED <<issued, links, backup>>
    BY <1>6 DEF Restore
  <2> QED
    BY <1>0, <2>1 DEF ServerInv
<1> QED
  BY <1>1, <1>2, <1>3, <1>4, <1>5, <1>6 DEF AuthorityNext

-----------------------------------------------------------------------------
(* The commands.  What left the server is a receipt a pin may hold.        *)
LEMMA HeldFacts ==
    ASSUME NEW is, IssuedInv(is), NEW r, <<Branch, r>> \in is
    PROVE  /\ r \in Seq(Entries) /\ Len(r) \in 1..MaxReceipts /\ Len(r) \in Nat /\ r # <<>>
           /\ DOMAIN r = 1..Len(r)
           /\ KeyOf(r) \in Keys
           /\ PinAt(r) \in Pins /\ PinAt(r) # NoPin
           /\ \A n \in 1..Len(r) : <<Branch, SubSeq(r, 1, n)>> \in is
<1>1. /\ r \in Seq(Entries) /\ Len(r) \in 1..MaxReceipts
      /\ \A n \in 1..Len(r) : <<Branch, SubSeq(r, 1, n)>> \in is
  BY DEF IssuedInv
<1>2. Len(r) \in Nat /\ r # <<>> /\ DOMAIN r = 1..Len(r) /\ Len(r) \in DOMAIN r
  BY <1>1
<1>3. r[Len(r)] \in Entries
  BY <1>1, <1>2
<1>4. KeyOf(r) \in Keys
  BY <1>3 DEF KeyOf, Entries
<1>5. PinAt(r) \in Pins
  BY <1>1, <1>4 DEF PinAt, Pins
<1> QED
  BY <1>1, <1>2, <1>4, <1>5, TrustAssumption DEF Pins

(* A process that holds nothing satisfies the command invariant, whatever  *)
(* the pin and the server hold.                                            *)
LEMMA IdleKeeps ==
    ASSUME NEW pn, NEW lk, NEW ro, NEW sp, NEW is, NEW phase \in {"idle", "revoking"}
    PROVE  CommandInv([Idle EXCEPT !.phase = phase], pn, lk, ro, sp, is)
<1> DEFINE c == [Idle EXCEPT !.phase = phase]
<1>1. /\ c.phase = phase /\ c.served = NoChain /\ c.brk = NoKey /\ c.trusted = NoKey
      /\ c.target = <<>> /\ c.first = 0
      /\ c = [phase |-> phase, served |-> NoChain, brk |-> NoKey, trusted |-> NoKey,
              target |-> <<>>, first |-> 0]
  BY DEF Idle
<1>2. NoChain \in Chains /\ Len(NoChain.epochs) = 0
  BY DEF NoChain, Chains
<1>3. 0 \in 0..MaxReceipts + 1 /\ phase \in Phases
  BY AuthorityAssumption DEF Phases
<1> HIDE DEF c
<1>4. c \in Commands
  <2>1. NoKey \in Keys \cup {NoKey} /\ <<>> \in Seq(Entries)
    OBVIOUS
  <2> QED
    BY <1>1, <1>2, <1>3, <2>1 DEF Commands
<1>5. Linked(c.served.epochs, lk)
  BY <1>1, <1>2 DEF Linked
<1>6. CommandInv(c, pn, lk, ro, sp, is)
  BY <1>1, <1>4, <1>5 DEF CommandInv
<1> QED
  BY <1>6 DEF c

(* The idle record, in the form the previous lemma speaks of.              *)
LEMMA IdleIs == Idle = [Idle EXCEPT !.phase = "idle"]
  BY DEF Idle

(* The idle record is a command.                                           *)
LEMMA IdleInCommands == Idle \in Commands
<1>1. CommandInv([Idle EXCEPT !.phase = "idle"], NoPin, {}, {}, {}, {})
  BY IdleKeeps
<1> QED
  BY <1>1, IdleIs DEF CommandInv

(* A command that waits keeps what it knows.                               *)
LEMMA CommandGrows ==
    ASSUME NEW c, NEW pn, NEW lk, NEW ro, NEW sp, NEW is,
           NEW pn2, NEW lk2, NEW ro2, NEW sp2, NEW is2,
           CommandInv(c, pn, lk, ro, sp, is), pn2 = NoPin => pn = NoPin,
           lk \subseteq lk2, ro \subseteq ro2, sp \subseteq sp2, is \subseteq is2
    PROVE  CommandInv(c, pn2, lk2, ro2, sp2, is2)
<1>1. AnchoredBy(lk, ro, sp) \subseteq AnchoredBy(lk2, ro2, sp2)
  BY AnchoredGrows
<1>2. Linked(c.served.epochs, lk2)
  BY DEF CommandInv, Linked
<1> QED
  BY <1>1, <1>2 DEF CommandInv

(* What every step keeps: the server takes no statement and no receipt     *)
(* back, the user no key, and the journal no pin.                          *)
Onward ==
    /\ links \subseteq links' /\ rotations \subseteq rotations'
    /\ supplied \subseteq supplied' /\ issued \subseteq issued'
    /\ pin' = NoPin => pin = NoPin

(* A step that only adds to what is known and touches no command keeps the *)
(* invariant of every command.                                             *)
LEMMA CommandsWait ==
    ASSUME CommandsInv, Onward, UNCHANGED cmd
    PROVE  CommandsInv'
  BY CommandGrows DEF CommandsInv, Onward

(* A step that replaces the command of one process keeps them all when the *)
(* new one satisfies its own invariant.                                    *)
LEMMA CommandMoves ==
    ASSUME CommandsInv, Onward, NEW p \in Processes, NEW c,
           cmd' = [cmd EXCEPT ![p] = c],
           CommandInv(c, pin', links', rotations', supplied', issued')
    PROVE  CommandsInv'
<1>1. c \in Commands
  BY DEF CommandInv
<1>2. cmd' \in [Processes -> Commands]
  BY <1>1 DEF CommandsInv
<1>3. ASSUME NEW q \in Processes
      PROVE  CommandInv(cmd'[q], pin', links', rotations', supplied', issued')
  <2>1. CASE q = p
    <3>1. cmd'[q] = c
      BY <2>1 DEF CommandsInv
    <3> QED
      BY <3>1
  <2>2. CASE q # p
    <3>1. cmd'[q] = cmd[q] /\ CommandInv(cmd[q], pin, links, rotations, supplied, issued)
      BY <2>2 DEF CommandsInv
    <3> QED
      BY <3>1, CommandGrows DEF Onward
  <2> QED
    BY <2>1, <2>2
<1> QED
  BY <1>2, <1>3 DEF CommandsInv

(* The properties in the terms of the lemmas.                              *)
LEMMA InTerms ==
    /\ CrossingsRecorded <=>
         (pin # NoPin => Explained(pin.receipt, recorded, anchor, Len(pin.receipt)))
    /\ TrustAnchored <=> (pin # NoPin => pin.key \in AnchoredBy(links, rotations, supplied))
<1>1. Steps({"rotation", "recovery", "branch"}) = StepsBy(recorded)
  BY DEF Steps, StepsBy
<1>2. Signed = SignedBy(links, rotations)
  BY DEF Signed, SignedBy
<1> QED
  BY <1>1, <1>2 DEF CrossingsRecorded, Explained, TrustAnchored, AnchoredBy
(* The two facts about the pin after a step, in terms of the variables     *)
(* they read.                                                              *)
LEMMA InTermsNext ==
    /\ CrossingsRecorded' <=>
         (pin' # NoPin => Explained(pin'.receipt, recorded', anchor', Len(pin'.receipt)))
    /\ TrustAnchored' <=> (pin' # NoPin => pin'.key \in AnchoredBy(links', rotations', supplied'))
<1>1. Steps({"rotation", "recovery", "branch"})' = StepsBy(recorded')
  BY DEF Steps, StepsBy
<1>2. Signed' = SignedBy(links', rotations')
  BY DEF Signed, SignedBy
<1> QED
  BY <1>1, <1>2 DEF CrossingsRecorded, Explained, TrustAnchored, AnchoredBy

-----------------------------------------------------------------------------
(* A pin that moves forward to a receipt that left the server, over key    *)
(* changes the journal explains, stays well formed and explained.          *)
LEMMA PinMoves ==
    ASSUME TrustInv, pin # NoPin, NEW r, <<Branch, r>> \in issued, IsPrefixOf(pin.receipt, r),
           pin' = PinAt(r), anchor' = anchor, issued' = issued, recorded \subseteq recorded',
           Explained(r, recorded', Len(pin.receipt), Len(r))
    PROVE  PinInv' /\ CrossingsRecorded' /\ pin' # NoPin
<1>1. /\ IssuedInv(issued) /\ <<Branch, pin.receipt>> \in issued /\ anchor \in 1..Len(pin.receipt)
      /\ Explained(pin.receipt, recorded, anchor, Len(pin.receipt))
  BY InTerms DEF TrustInv, ServerInv, PinInv
<1>2. /\ pin.receipt \in Seq(Entries) /\ Len(pin.receipt) \in Nat
      /\ r \in Seq(Entries) /\ Len(r) \in Nat /\ PinAt(r) \in Pins /\ PinAt(r) # NoPin
  BY <1>1, HeldFacts
<1>3. /\ pin'.receipt = r /\ pin'.key = KeyOf(r)
  BY DEF PinAt
<1>4. Len(pin.receipt) <= Len(r)
  BY DEF IsPrefixOf
<1>5. PinInv'
  <2>1. anchor' \in 1..Len(r)
    BY <1>1, <1>2, <1>4
  <2> QED
    BY <1>2, <1>3, <2>1 DEF PinInv
<1>6. Explained(r, recorded', anchor, Len(r))
  BY <1>1, <1>2, ExplainedExtends
<1> QED
  BY <1>2, <1>3, <1>5, <1>6, InTermsNext

(* advance_chain.                                                          *)
LEMMA AdvanceKeeps ==
    ASSUME TrustInv, NEW v \in Chains, Linked(v.epochs, links), NEW t, <<Branch, t>> \in issued,
           NEW first, AdvanceChain(v, t, first), UNCHANGED <<authorityVars, supplied>>
    PROVE  /\ PinInv' /\ StatementsInv' /\ CrossingsRecorded' /\ TrustAnchored'
           /\ pin # NoPin /\ pin' # NoPin /\ rotations' = rotations
           /\ ~pin.revoked /\ IsPrefixOf(pin.receipt, pin'.receipt)
<1>1. /\ pin # NoPin /\ ~pin.revoked /\ IsPrefixOf(pin.receipt, t) /\ Crosses(v, pin.receipt, t)
      /\ pin' = PinAt(t) /\ recorded' = recorded \cup AppliedTo(v, pin.receipt, t)
      /\ UNCHANGED <<rotations, configured, anchor>> /\ UNCHANGED <<issued, links>>
  BY DEF AdvanceChain, Advances, Connects, authorityVars
<1>2. /\ IssuedInv(issued) /\ <<Branch, pin.receipt>> \in issued /\ links \subseteq Keys \X Keys
      /\ pin.key = KeyOf(pin.receipt) /\ pin.key \in AnchoredBy(links, rotations, supplied)
  BY <1>1, InTerms DEF TrustInv, ServerInv, PinInv
<1>3. /\ pin.receipt \in Seq(Entries) /\ t \in Seq(Entries) /\ pin.receipt # <<>>
  BY <1>2, HeldFacts
<1>4. Explained(t, recorded', Len(pin.receipt), Len(t))
  BY <1>1, <1>3, AppliedExplains
<1>5. PinInv' /\ CrossingsRecorded' /\ pin' # NoPin
  BY <1>1, <1>4, PinMoves
<1>6. StatementsInv'
  <2>1. AppliedTo(v, pin.receipt, t) \subseteq
           [kind : {"rotation", "recovery", "branch"}, old : Keys, new : Keys]
    BY <1>1, <1>3, AppliedTyped
  <2> QED
    BY <1>1, <2>1 DEF StatementsInv, TrustInv
<1>7. KeyOf(t) \in AnchoredBy(links, rotations, supplied)
  BY <1>1, <1>2, <1>3, CrossesAnchored
<1>8. pin'.key = KeyOf(t) /\ pin'.receipt = t
  BY <1>1 DEF PinAt
<1>9. TrustAnchored'
  BY <1>1, <1>7, <1>8, InTermsNext
<1> QED
  BY <1>1, <1>5, <1>6, <1>8, <1>9

(* A receipt one longer than the pin's, its last key explained by one      *)
(* stored statement.                                                       *)
LEMMA OneStatement ==
    ASSUME NEW r \in Seq(Entries), NEW t \in Seq(Entries), r # <<>>, IsPrefixOf(r, t),
           Len(t) = Len(r) + 1, NEW kind \in {"rotation", "recovery", "branch"},
           NEW rec, Link(kind, KeyOf(r), KeyOf(t)) \in rec, KeyOf(r) \in Keys, KeyOf(t) \in Keys
    PROVE  Explained(t, rec, Len(r), Len(t))
<1>1. Len(r) \in Nat /\ Len(r) \in DOMAIN r
  OBVIOUS
<1>2. t[Len(t)].key = KeyOf(t) /\ t[Len(t) - 1].key = KeyOf(r)
  BY <1>1 DEF KeyOf, IsPrefixOf
<1>3. KeyOf(t) \in StepsBy(rec)[KeyOf(r)]
  BY DEF StepsBy, Link
<1>4. KeyOf(r) \in Least(Keys, StepsBy(rec), {KeyOf(r)})
  BY LeastHasRoots
<1>5. KeyOf(t) \in Least(Keys, StepsBy(rec), {KeyOf(r)})
  BY <1>3, <1>4, LeastFollows
<1>6. \A i \in Len(r) + 1 .. Len(t) : i = Len(t)
  BY <1>1
<1> QED
  BY <1>2, <1>5, <1>6 DEF Explained

(* A crossing written to the journal.                                      *)
LEMMA StatementsGrow ==
    ASSUME StatementsInv, NEW kind \in {"rotation", "recovery", "branch"},
           NEW old \in Keys, NEW new \in Keys,
           recorded' = recorded \cup {Link(kind, old, new)},
           rotations' = rotations, configured' = configured,
           supplied \subseteq supplied', supplied' \subseteq Keys
    PROVE  StatementsInv'
<1>1. Link(kind, old, new) \in [kind : {"rotation", "recovery", "branch"}, old : Keys, new : Keys]
  BY DEF Link
<1>2. recorded' \subseteq [kind : {"rotation", "recovery", "branch"}, old : Keys, new : Keys]
  BY <1>1 DEF StatementsInv
<1>3. configured' \in supplied' \cup {NoKey}
  BY DEF StatementsInv
<1> QED
  BY <1>2, <1>3 DEF StatementsInv

(* accept_break, to a key of the user's.                                   *)
LEMMA AcceptKeeps ==
    ASSUME TrustInv, NEW v, NEW new, NEW r, <<Branch, r>> \in issued, AcceptBreak(v, new, r),
           new \in supplied', supplied \subseteq supplied', supplied' \subseteq Keys,
           UNCHANGED authorityVars
    PROVE  /\ PinInv' /\ StatementsInv' /\ CrossingsRecorded' /\ TrustAnchored'
           /\ pin # NoPin /\ pin' # NoPin /\ rotations' = rotations
           /\ IsPrefixOf(pin.receipt, pin'.receipt) /\ ~pin'.revoked /\ pin'.key = new
           /\ Link("recovery", pin.key, pin'.key) \in recorded'
<1>1. /\ pin # NoPin /\ IsPrefixOf(pin.receipt, r) /\ Len(r) = Len(pin.receipt) + 1
      /\ KeyOf(r) = new /\ pin' = PinAt(r)
      /\ recorded' = recorded \cup {Link("recovery", pin.key, new)}
      /\ UNCHANGED <<rotations, configured, anchor>> /\ UNCHANGED <<issued, links>>
  BY DEF AcceptBreak, authorityVars
<1>2. /\ IssuedInv(issued) /\ <<Branch, pin.receipt>> \in issued
      /\ pin.key = KeyOf(pin.receipt)
  BY <1>1 DEF TrustInv, ServerInv, PinInv
<1>3. /\ pin.receipt \in Seq(Entries) /\ r \in Seq(Entries) /\ pin.receipt # <<>>
      /\ KeyOf(pin.receipt) \in Keys /\ KeyOf(r) \in Keys
  BY <1>2, HeldFacts
<1>4. Explained(r, recorded', Len(pin.receipt), Len(r))
  BY <1>1, <1>2, <1>3, OneStatement
<1>5. PinInv' /\ CrossingsRecorded' /\ pin' # NoPin
  BY <1>1, <1>4, PinMoves
<1>6. StatementsInv'
  <2>1. StatementsInv /\ pin.key \in Keys /\ new \in Keys
    BY <1>1, <1>2, <1>3 DEF TrustInv
  <2> QED
    BY <1>1, <2>1, StatementsGrow
<1>7. pin'.key = new /\ pin'.receipt = r /\ pin'.revoked = FALSE
  BY <1>1 DEF PinAt
<1>8. TrustAnchored'
  <2>1. new \in AnchoredBy(links', rotations', supplied')
    BY LeastHasRoots DEF AnchoredBy
  <2> QED
    BY <2>1, <1>7, InTermsNext
<1> QED
  BY <1>1, <1>5, <1>6, <1>7, <1>8

(* trust_checkpoint, of a receipt whose issuer is anchored.                *)
LEMMA BootstrapKeeps ==
    ASSUME TrustInv, NEW k, NEW r, <<Branch, r>> \in issued, TrustCheckpoint(k, r),
           UNCHANGED authorityVars, supplied \subseteq supplied', supplied' \subseteq Keys,
           KeyOf(r) \in AnchoredBy(links, rotations, supplied')
    PROVE  /\ PinInv' /\ StatementsInv' /\ CrossingsRecorded' /\ TrustAnchored'
           /\ pin = NoPin /\ pin' # NoPin /\ rotations' = rotations
<1>1. /\ pin = NoPin /\ pin' = PinAt(r) /\ anchor' = Len(r)
      /\ UNCHANGED <<recorded, rotations, configured>> /\ UNCHANGED <<issued, links>>
  BY DEF TrustCheckpoint, authorityVars
<1>2. /\ Len(r) \in Nat /\ Len(r) \in 1..MaxReceipts /\ PinAt(r) \in Pins /\ PinAt(r) # NoPin
  BY HeldFacts DEF TrustInv, ServerInv
<1>3. pin'.key = KeyOf(r) /\ pin'.receipt = r
  BY <1>1 DEF PinAt
<1>4. PinInv'
  <2>1. anchor' \in 1..Len(r)
    BY <1>1, <1>2
  <2> QED
    BY <1>1, <1>2, <1>3, <2>1 DEF PinInv
<1>5. StatementsInv'
  BY <1>1 DEF StatementsInv, TrustInv
<1>6. Explained(r, recorded', Len(r), Len(r))
  BY <1>2 DEF Explained
<1> QED
  BY <1>1, <1>2, <1>3, <1>4, <1>5, <1>6, InTermsNext

(* revoke, which leaves a revoked pin as it is.                            *)
LEMMA RevokeKeeps ==
    ASSUME TrustInv, RevokePin, UNCHANGED <<authorityVars, supplied>>
    PROVE  /\ PinInv' /\ StatementsInv' /\ CrossingsRecorded' /\ TrustAnchored'
           /\ pin # NoPin /\ pin' # NoPin /\ rotations' = rotations
           /\ pin'.receipt = pin.receipt /\ (pin.revoked => pin' = pin)
<1>1. /\ pin # NoPin /\ pin' = [pin EXCEPT !.revoked = TRUE]
      /\ UNCHANGED <<recorded, rotations, configured, anchor>> /\ UNCHANGED <<issued, links, supplied>>
  BY DEF RevokePin, authorityVars
<1>2. pin \in Pins /\ PinInv
  BY <1>1 DEF TrustInv, PinInv
<1>3. /\ pin' \in Pins /\ pin'.key = pin.key /\ pin'.receipt = pin.receipt
      /\ (pin.revoked => pin' = pin)
  BY <1>1, <1>2 DEF Pins
<1>4. pin' # NoPin
  BY <1>3, TrustAssumption DEF Pins
<1>5. PinInv'
  BY <1>1, <1>2, <1>3, <1>4 DEF PinInv
<1>6. StatementsInv'
  BY <1>1 DEF StatementsInv, TrustInv
<1>7. CrossingsRecorded' /\ TrustAnchored'
  BY <1>1, <1>3, InTerms, InTermsNext DEF TrustInv
<1> QED
  BY <1>1, <1>3, <1>4, <1>5, <1>6, <1>7

(* A step that leaves the journal's pin and statements alone keeps what is *)
(* said of them.                                                           *)
LEMMA PinStays ==
    ASSUME TrustInv, Onward, UNCHANGED <<pin, anchor>>, recorded' = recorded
    PROVE  PinInv' /\ CrossingsRecorded' /\ TrustAnchored'
<1>1. AnchoredBy(links, rotations, supplied) \subseteq AnchoredBy(links', rotations', supplied')
  BY AnchoredGrows DEF Onward
<1>2. PinInv'
  BY DEF PinInv, TrustInv, Onward
<1> QED
  BY <1>1, <1>2, InTerms, InTermsNext DEF TrustInv
=============================================================================
