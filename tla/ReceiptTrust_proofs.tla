------------------------ MODULE ReceiptTrust_proofs ------------------------
(* Every step of the server, of its operators and of the clients keeps the *)
(* inductive invariant TrustInv of ReceiptTrust_lemmas, and with it what   *)
(* ReceiptTrust promises of the pin and of the journal.                    *)
EXTENDS ReceiptTrust_lemmas

(* What a step does to a pin: it extends it, and it leaves a revoked one   *)
(* only over a recovery that the user accepted.                            *)
Extends == pin # NoPin => pin' # NoPin /\ IsPrefixOf(pin.receipt, pin'.receipt)
Durable ==
    pin # NoPin /\ pin.revoked /\ pin' # pin =>
        /\ ~pin'.revoked
        /\ pin'.key \in supplied'
        /\ Link("recovery", pin.key, pin'.key) \in recorded'
Kept == TrustInv' /\ Extends /\ Durable

(* A step of the journal's owner that moves no pin.                        *)
LEMMA QuietKeeps ==
    ASSUME TrustInv, Onward, ServerInv', UNCHANGED <<pin, anchor, recorded>>,
           StatementsInv', CommandsInv'
    PROVE  Kept
<1>1. PinInv' /\ CrossingsRecorded' /\ TrustAnchored'
  BY PinStays
<1>2. Extends
  <2> SUFFICES ASSUME pin # NoPin PROVE IsPrefixOf(pin.receipt, pin.receipt)
    BY DEF Extends
  <2>1. Len(pin.receipt) \in Nat
    BY HeldFacts DEF TrustInv, ServerInv, PinInv
  <2> QED
    BY <2>1 DEF IsPrefixOf
<1> QED
  BY <1>1, <1>2 DEF Kept, TrustInv, Durable

(* A step that leaves the authority alone keeps its invariant.             *)
LEMMA ServerStays ==
    ASSUME ServerInv, UNCHANGED authorityVars
    PROVE  ServerInv' /\ links' = links /\ issued' = issued
  BY DEF ServerInv, authorityVars

(* The server's own steps.                                                 *)
LEMMA ServerStepKeeps ==
    ASSUME TrustInv, ServerStep
    PROVE  Kept
<1>1. ServerInv' /\ links \subseteq links' /\ issued \subseteq issued'
  BY ServerKeeps DEF TrustInv, ServerStep
<1>2. UNCHANGED <<pin, recorded, rotations, configured, supplied, anchor, cmd>>
  BY DEF ServerStep, client
<1>3. Onward
  BY <1>1, <1>2 DEF Onward
<1>4. StatementsInv'
  BY <1>2 DEF StatementsInv, TrustInv
<1>5. CommandsInv'
  BY <1>2, <1>3, CommandsWait DEF TrustInv
<1> QED
  BY <1>1, <1>2, <1>3, <1>4, <1>5, QuietKeeps

(* The active key is a key of the server.                                  *)
LEMMA ActiveFacts ==
    ASSUME ServerInv
    PROVE  /\ EpochKeys \subseteq Keys
           /\ Active > 0 => ActiveKey \in Keys /\ ActiveKey \in EpochKeys
           /\ Snapshot \in Chains /\ Linked(Snapshot.epochs, links)
<1>1. epochs \in Seq(Epochs) /\ DOMAIN epochs = 1..Len(epochs) /\ Len(epochs) \in Nat
      /\ Linked(epochs, links) /\ DOMAIN markers \subseteq Nat
  BY DEF ServerInv, Shown
<1>2. \A e \in DOMAIN epochs : epochs[e].key \in Keys
  <2>1. \A e \in DOMAIN epochs : epochs[e] \in Epochs
    BY <1>1
  <2> QED
    BY <2>1 DEF Epochs
<1>3. Active > 0 => Len(epochs) \in DOMAIN epochs
  BY <1>1 DEF Active
<1>4. Snapshot \in Chains /\ Snapshot.epochs = epochs
  BY <1>1 DEF Snapshot, Chains
<1> QED
  BY <1>1, <1>2, <1>3, <1>4 DEF EpochKeys, ActiveKey, Active

(* The commands that need no server.                                       *)
LEMMA ReceiptCommandKeeps ==
    ASSUME TrustInv, ReceiptCommand
    PROVE  Kept
<1>0. ServerInv /\ PinInv /\ StatementsInv /\ CommandsInv /\ IssuedInv(issued)
  BY DEF TrustInv, ServerInv
<1>1. ASSUME NEW k \in Keys, NEW i \in issued, Trust(k, i[2]) PROVE Kept
  <2> DEFINE r == i[2]
  <2>1. /\ <<Branch, r>> \in issued /\ TrustCheckpoint(k, r) /\ KeyOf(r) = k
        /\ supplied' = supplied \cup {k} /\ UNCHANGED authorityVars /\ cmd' = cmd
    BY <1>1 DEF Trust, Held, Offline, TrustCheckpoint
  <2>2. supplied \subseteq supplied' /\ supplied' \subseteq Keys
    BY <2>1, <1>0 DEF StatementsInv
  <2> HIDE DEF r
  <2>3. KeyOf(r) \in AnchoredBy(links, rotations, supplied')
    BY <2>1, LeastHasRoots DEF AnchoredBy
  <2>4. /\ PinInv' /\ StatementsInv' /\ CrossingsRecorded' /\ TrustAnchored'
        /\ pin = NoPin /\ pin' # NoPin /\ rotations' = rotations
    BY <2>1, <2>2, <2>3, BootstrapKeeps
  <2>5. ServerInv' /\ links' = links /\ issued' = issued
    BY <1>0, <2>1, ServerStays
  <2>6. Onward
    BY <2>2, <2>4, <2>5 DEF Onward
  <2>7. CommandsInv'
    BY <1>0, <2>1, <2>6, CommandsWait
  <2> QED
    BY <2>4, <2>5, <2>7 DEF Kept, TrustInv, Extends, Durable
<1>2. ASSUME NEW i \in issued, AdvanceArray(i[2]) PROVE Kept
  <2> DEFINE r == i[2]
  <2>1. /\ <<Branch, r>> \in issued /\ pin # NoPin /\ ~pin.revoked /\ IsPrefixOf(pin.receipt, r)
        /\ \A j \in Len(pin.receipt) + 1 .. Len(r) : r[j].key = pin.key
        /\ pin' = PinAt(r) /\ UNCHANGED <<recorded, rotations, configured, anchor, supplied>>
        /\ UNCHANGED authorityVars /\ cmd' = cmd
    BY <1>2 DEF AdvanceArray, Held, Offline, Connects
  <2> HIDE DEF r
  <2>2. ServerInv' /\ links' = links /\ issued' = issued
    BY <1>0, <2>1, ServerStays
  <2>3. /\ <<Branch, pin.receipt>> \in issued /\ pin.key = KeyOf(pin.receipt) /\ pin \in Pins
    BY <1>0, <2>1 DEF PinInv
  <2>4. /\ pin.receipt \in Seq(Entries) /\ r \in Seq(Entries) /\ pin.receipt # <<>>
        /\ pin.key \in Keys /\ Len(r) \in Nat /\ Len(pin.receipt) \in DOMAIN pin.receipt
        /\ Len(pin.receipt) \in Nat
    BY <1>0, <2>1, <2>3, HeldFacts
  <2>5. \A j \in Len(pin.receipt) .. Len(r) : r[j].key = pin.key
    <3>1. r[Len(pin.receipt)].key = pin.key
      BY <2>1, <2>3, <2>4 DEF IsPrefixOf, KeyOf
    <3>2. \A j \in Len(pin.receipt) .. Len(r) :
             j = Len(pin.receipt) \/ j \in Len(pin.receipt) + 1 .. Len(r)
      BY <2>4
    <3> QED
      BY <3>1, <3>2, <2>1
  <2>6. Explained(r, recorded', Len(pin.receipt), Len(r))
    <3> SUFFICES ASSUME NEW j \in Len(pin.receipt) + 1 .. Len(r)
                 PROVE  r[j].key \in Least(Keys, StepsBy(recorded'), {r[j-1].key})
      BY DEF Explained
    <3>1. j \in Len(pin.receipt) .. Len(r) /\ j - 1 \in Len(pin.receipt) .. Len(r)
      BY <2>4
    <3>2. r[j].key = pin.key /\ r[j-1].key = pin.key
      BY <3>1, <2>5
    <3> QED
      BY <3>2, <2>4, LeastHasRoots
  <2>7. PinInv' /\ CrossingsRecorded' /\ pin' # NoPin
    BY <2>1, <2>2, <2>6, PinMoves
  <2>8. pin'.key = pin.key /\ pin'.receipt = r
    <3>1. Len(r) \in Len(pin.receipt) .. Len(r)
      BY <2>1, <2>4 DEF IsPrefixOf
    <3> QED
      BY <3>1, <2>1, <2>5 DEF PinAt, KeyOf
  <2>9. TrustAnchored'
    BY <2>1, <2>2, <2>8, InTerms, InTermsNext DEF TrustInv
  <2>10. Onward /\ StatementsInv'
    BY <1>0, <2>1, <2>2, <2>7 DEF Onward, StatementsInv
  <2>11. CommandsInv'
    BY <1>0, <2>1, <2>10, CommandsWait
  <2> QED
    BY <2>1, <2>2, <2>7, <2>8, <2>9, <2>10, <2>11 DEF Kept, TrustInv, Extends, Durable
<1>3. ASSUME NEW k \in Keys, SignRotation(k) PROVE Kept
  <2>1. /\ pin # NoPin /\ rotations' = rotations \cup {[old |-> pin.key, new |-> k, at |-> pin.receipt]}
        /\ UNCHANGED <<pin, recorded, configured, anchor, supplied>>
        /\ UNCHANGED authorityVars /\ cmd' = cmd
    BY <1>3 DEF SignRotation, Offline
  <2>2. ServerInv' /\ links' = links /\ issued' = issued
    BY <1>0, <2>1, ServerStays
  <2>3. pin \in Pins
    BY <1>0, <2>1 DEF PinInv
  <2>4. pin.key \in Keys /\ pin.receipt \in Seq(Entries)
    BY <2>3 DEF Pins
  <2>5. StatementsInv'
    BY <1>0, <2>1, <2>4 DEF StatementsInv
  <2>6. Onward
    BY <2>1, <2>2 DEF Onward
  <2>7. CommandsInv'
    BY <1>0, <2>1, <2>6, CommandsWait
  <2> QED
    BY <2>1, <2>2, <2>5, <2>6, <2>7, QuietKeeps
<1>4. ASSUME NEW t \in rotations, NEW i \in issued, Rotate(t, i[2]) PROVE Kept
  <2> DEFINE r == i[2]
  <2>1. /\ <<Branch, r>> \in issued /\ pin # NoPin /\ ~pin.revoked /\ t.old = pin.key
        /\ IsPrefixOf(pin.receipt, r) /\ Len(r) = Len(pin.receipt) + 1 /\ KeyOf(r) = t.new
        /\ pin' = PinAt(r) /\ recorded' = recorded \cup {Link("branch", t.old, t.new)}
        /\ UNCHANGED <<rotations, configured, anchor, supplied>>
        /\ UNCHANGED authorityVars /\ cmd' = cmd
    BY <1>4 DEF Rotate, Held, Offline
  <2> HIDE DEF r
  <2>2. ServerInv' /\ links' = links /\ issued' = issued
    BY <1>0, <2>1, ServerStays
  <2>3. /\ <<Branch, pin.receipt>> \in issued /\ pin.key = KeyOf(pin.receipt)
    BY <1>0, <2>1 DEF PinInv
  <2>4. /\ pin.receipt \in Seq(Entries) /\ r \in Seq(Entries) /\ pin.receipt # <<>>
        /\ KeyOf(pin.receipt) \in Keys /\ KeyOf(r) \in Keys
    BY <1>0, <2>1, <2>3, HeldFacts
  <2>5. Explained(r, recorded', Len(pin.receipt), Len(r))
    BY <2>1, <2>3, <2>4, OneStatement
  <2>6. PinInv' /\ CrossingsRecorded' /\ pin' # NoPin
    BY <2>1, <2>2, <2>5, PinMoves
  <2>7. pin'.key = KeyOf(r) /\ pin'.receipt = r
    BY <2>1 DEF PinAt
  <2>8. TrustAnchored'
    <3>1. pin.key \in AnchoredBy(links, rotations, supplied)
      BY <2>1, InTerms DEF TrustInv
    <3>2. KeyOf(r) \in SignedBy(links, rotations)[pin.key]
      BY <2>1, <2>3, <2>4 DEF SignedBy
    <3>3. KeyOf(r) \in AnchoredBy(links, rotations, supplied)
      BY <3>1, <3>2, <2>4, LeastFollows DEF AnchoredBy
    <3> QED
      BY <3>3, <2>1, <2>2, <2>7, InTermsNext
  <2>9. StatementsInv'
    <3>1. StatementsInv /\ supplied \subseteq Keys /\ pin.key \in Keys /\ KeyOf(r) \in Keys
      BY <1>0, <2>3, <2>4 DEF StatementsInv
    <3> QED
      BY <2>1, <3>1, StatementsGrow
  <2>10. Onward
    BY <2>1, <2>2, <2>6 DEF Onward
  <2>11. CommandsInv'
    BY <1>0, <2>1, <2>10, CommandsWait
  <2> QED
    BY <2>1, <2>2, <2>6, <2>7, <2>8, <2>9, <2>11 DEF Kept, TrustInv, Extends, Durable
<1>5. CASE UserRevokes
  <2>1. RevokePin /\ ~pin.revoked /\ supplied' = supplied /\ UNCHANGED authorityVars /\ cmd' = cmd
    BY <1>5 DEF UserRevokes, Offline
  <2>2. ServerInv' /\ links' = links /\ issued' = issued
    BY <1>0, <2>1, ServerStays
  <2>3. /\ PinInv' /\ StatementsInv' /\ CrossingsRecorded' /\ TrustAnchored'
        /\ pin # NoPin /\ pin' # NoPin /\ rotations' = rotations /\ pin'.receipt = pin.receipt
    BY <2>1, RevokeKeeps
  <2>4. Onward
    BY <2>1, <2>2, <2>3 DEF Onward
  <2>5. CommandsInv'
    BY <1>0, <2>1, <2>4, CommandsWait
  <2>6. IsPrefixOf(pin.receipt, pin'.receipt)
    <3>1. Len(pin.receipt) \in Nat
      BY <1>0, <2>3, HeldFacts DEF PinInv
    <3> QED
      BY <3>1, <2>3 DEF IsPrefixOf
  <2> QED
    BY <2>1, <2>2, <2>3, <2>5, <2>6 DEF Kept, TrustInv, Extends, Durable
<1>6. CASE Configure
  <2>1. /\ Active > 0 /\ configured' = ActiveKey /\ supplied' = supplied \cup {ActiveKey}
        /\ UNCHANGED <<pin, recorded, rotations, anchor>> /\ UNCHANGED authorityVars /\ cmd' = cmd
    BY <1>6 DEF Configure, Offline
  <2>2. ServerInv' /\ links' = links /\ issued' = issued
    BY <1>0, <2>1, ServerStays
  <2>3. ActiveKey \in Keys
    BY <1>0, <2>1, ActiveFacts
  <2> HIDE DEF ActiveKey
  <2>4. StatementsInv'
    BY <1>0, <2>1, <2>3 DEF StatementsInv
  <2>5. Onward
    BY <2>1, <2>2 DEF Onward
  <2>6. CommandsInv'
    BY <1>0, <2>1, <2>5, CommandsWait
  <2> QED
    BY <2>1, <2>2, <2>4, <2>5, <2>6, QuietKeeps
<1> QED
  BY <1>1, <1>2, <1>3, <1>4, <1>5, <1>6 DEF ReceiptCommand

-----------------------------------------------------------------------------
(* A step of a command against the server.                                 *)
LEMMA ContinueKeeps ==
    ASSUME TrustInv, NEW p \in Processes, NEW c, Continue(p, c),
           PinInv', StatementsInv', CrossingsRecorded', TrustAnchored', pin' = NoPin => pin = NoPin,
           rotations' = rotations, supplied \subseteq supplied',
           CommandInv(c, pin', links, rotations, supplied', issued)
    PROVE  TrustInv'
<1>1. ServerInv' /\ links' = links /\ issued' = issued
  BY ServerStays DEF TrustInv, Continue
<1>2. Onward
  BY <1>1 DEF Onward
<1>3. CommandsInv'
  BY <1>1, <1>2, CommandMoves DEF TrustInv, Continue
<1> QED
  BY <1>1, <1>3 DEF TrustInv

(* A step of a command that only moves the command on (and may note a key  *)
(* the user supplied) keeps everything.                                    *)
LEMMA QuietContinueKeeps ==
    ASSUME TrustInv, NEW p \in Processes, NEW c, Continue(p, c),
           UNCHANGED <<pin, recorded, rotations, configured, anchor>>,
           supplied \subseteq supplied', supplied' \subseteq Keys,
           CommandInv(c, pin, links, rotations, supplied', issued)
    PROVE  Kept
<1>1. ServerInv' /\ links' = links /\ issued' = issued
  BY ServerStays DEF TrustInv, Continue
<1>2. Onward
  BY <1>1 DEF Onward
<1>3. StatementsInv'
  BY DEF TrustInv, StatementsInv
<1>4. CommandsInv'
  BY <1>1, <1>2, CommandMoves DEF TrustInv, Continue
<1> QED
  BY <1>1, <1>2, <1>3, <1>4, QuietKeeps

(* The stored head left the server.                                        *)
LEMMA HeadFacts ==
    ASSUME ServerInv, receipts[Branch] # <<>>
    PROVE  receipts[Branch] \in Seq(Entries) /\ <<Branch, receipts[Branch]>> \in issued
<1>1. receipts[Branch] \in Seq(Entries) /\ HandedOut(receipts, issued)
  BY TrustAssumption DEF ServerInv, Shown, Histories
<1>2. Len(receipts[Branch]) \in 1..Len(receipts[Branch])
  BY <1>1
<1>3. SubSeq(receipts[Branch], 1, Len(receipts[Branch])) = receipts[Branch]
  BY <1>1, SubSeqFull
<1>4. <<Branch, SubSeq(receipts[Branch], 1, Len(receipts[Branch]))>> \in issued
  BY <1>1, <1>2, TrustAssumption DEF HandedOut
<1> QED
  BY <1>1, <1>3, <1>4

(* Client::authority.                                                      *)
LEMMA BeginKeeps ==
    ASSUME TrustInv, NEW p \in Processes, NEW brk \in EpochKeys \cup {NoKey}, Begin(p, brk)
    PROVE  Kept
<1> DEFINE trusted == IF brk = NoKey THEN configured ELSE brk
<1> DEFINE c == [Idle EXCEPT !.phase = "served", !.served = Snapshot, !.brk = brk,
                             !.trusted = trusted]
<1>1. /\ Continue(p, c) /\ UNCHANGED <<pin, recorded, rotations, configured, anchor>>
      /\ supplied' = supplied \cup ({brk} \ {NoKey})
  BY DEF Begin
<1>2. /\ EpochKeys \subseteq Keys /\ Snapshot \in Chains /\ Linked(Snapshot.epochs, links)
  BY ActiveFacts DEF TrustInv
<1>3. /\ supplied \subseteq supplied' /\ supplied' \subseteq Keys /\ brk \in supplied' \cup {NoKey}
      /\ trusted \in supplied' \cup {NoKey}
  BY <1>1, <1>2 DEF TrustInv, StatementsInv
<1> HIDE DEF trusted
<1>4. Idle \in Commands
  BY IdleInCommands
<1>5. /\ c.phase = "served" /\ c.served = Snapshot /\ c.brk = brk /\ c.trusted = trusted
      /\ c.target = <<>>
  BY DEF Idle
<1>6. c \in Commands
  <2>1. "served" \in Phases /\ brk \in Keys \cup {NoKey} /\ trusted \in Keys \cup {NoKey}
    BY <1>3 DEF Phases
  <2> QED
    BY <1>2, <1>4, <2>1 DEF Commands
<1> HIDE DEF c
<1>7. CommandInv(c, pin, links, rotations, supplied', issued)
  BY <1>2, <1>3, <1>5, <1>6 DEF CommandInv
<1> QED
  BY <1>1, <1>3, <1>7, QuietContinueKeeps

(* The chain of an export.                                                 *)
LEMMA ExportChainKeeps ==
    ASSUME TrustInv, NEW p \in Processes, ExportChain(p)
    PROVE  Kept
<1> DEFINE c == [Idle EXCEPT !.phase = "exporting", !.served = Snapshot]
<1>1. /\ Continue(p, c) /\ UNCHANGED <<pin, recorded, rotations, configured, anchor>>
      /\ supplied' = supplied /\ supplied \subseteq Keys
  BY DEF ExportChain, TrustInv, StatementsInv
<1>2. /\ Snapshot \in Chains /\ Linked(Snapshot.epochs, links)
  BY ActiveFacts DEF TrustInv
<1>3. Idle \in Commands
  BY IdleInCommands
<1>4. /\ c.phase = "exporting" /\ c.served = Snapshot /\ c.brk = NoKey /\ c.trusted = NoKey
      /\ c.target = <<>>
  BY DEF Idle
<1>5. c \in Commands
  <2>1. "exporting" \in Phases
    BY DEF Phases
  <2> QED
    BY <1>2, <1>3, <2>1 DEF Commands
<1> HIDE DEF c
<1>6. CommandInv(c, pin, links, rotations, supplied', issued)
  BY <1>2, <1>4, <1>5 DEF CommandInv
<1> QED
  BY <1>1, <1>6, QuietContinueKeeps

(* A command that reads the head: it keeps its chain and its keys.         *)
LEMMA ReadKeeps ==
    ASSUME TrustInv, NEW p \in Processes, ReadHead(p) \/ ExportReceipts(p)
    PROVE  Kept
<1>1. PICK ph \in {"headed", "bundle"} :
         /\ Continue(p, [cmd[p] EXCEPT !.phase = ph, !.target = receipts[Branch]])
         /\ receipts[Branch] # <<>>
         /\ UNCHANGED <<pin, recorded, rotations, configured, anchor, supplied>>
  BY DEF ReadHead, ExportReceipts
<1> DEFINE c == [cmd[p] EXCEPT !.phase = ph, !.target = receipts[Branch]]
<1>2. receipts[Branch] \in Seq(Entries) /\ <<Branch, receipts[Branch]>> \in issued
  BY <1>1, HeadFacts DEF TrustInv
<1>3. cmd[p] \in Commands /\ CommandInv(cmd[p], pin, links, rotations, supplied, issued)
  BY DEF TrustInv, CommandsInv
<1>4. /\ c \in Commands /\ c.phase = ph /\ c.served = cmd[p].served /\ c.brk = cmd[p].brk
      /\ c.trusted = cmd[p].trusted /\ c.target = receipts[Branch]
  <2>1. ph \in Phases
    BY DEF Phases
  <2> QED
    BY <1>2, <1>3, <2>1 DEF Commands
<1> HIDE DEF c
<1>5. CommandInv(c, pin, links, rotations, supplied, issued)
  BY <1>1, <1>2, <1>3, <1>4 DEF CommandInv
<1>6. Continue(p, c)
  BY <1>1 DEF c
<1>7. supplied' = supplied /\ supplied \subseteq Keys
  BY <1>1 DEF TrustInv, StatementsInv
<1>8. CommandInv(c, pin, links, rotations, supplied', issued)
  BY <1>5, <1>7
<1> QED
  BY <1>1, <1>6, <1>7, <1>8, QuietContinueKeeps

(* A command that gives up or finds a marker.                              *)
LEMMA IdleStepKeeps ==
    ASSUME TrustInv, NEW p \in Processes, NEW ph \in {"idle", "revoking"},
           Continue(p, [Idle EXCEPT !.phase = ph]),
           UNCHANGED <<pin, recorded, rotations, configured, anchor, supplied>>
    PROVE  Kept
<1>1. supplied' = supplied /\ supplied \subseteq Keys
  BY DEF TrustInv, StatementsInv
<1>2. CommandInv([Idle EXCEPT !.phase = ph], pin, links, rotations, supplied', issued)
  BY IdleKeeps
<1> QED
  BY <1>1, <1>2, QuietContinueKeeps

(* proof: a head that may become the first pin has been vetted.            *)
LEMMA ProofKeeps ==
    ASSUME TrustInv, NEW p \in Processes, Proof(p)
    PROVE  Kept
<1>1. /\ cmd[p] \in Commands /\ CommandInv(cmd[p], pin, links, rotations, supplied, issued)
      /\ cmd[p].phase = "headed"
  BY DEF TrustInv, CommandsInv, Proof
<1>2. cmd[p].target # <<>> /\ <<Branch, cmd[p].target>> \in issued
  BY <1>1 DEF CommandInv
<1>3. Len(cmd[p].target) \in 1..MaxReceipts /\ cmd[p].target \in Seq(Entries)
  BY <1>2, HeldFacts DEF TrustInv, ServerInv
<1>4. ASSUME pin # NoPin, IsPrefixOf(pin.receipt, cmd[p].target)
      PROVE  Len(pin.receipt) + 1 \in 0..MaxReceipts + 1
  <2>1. Len(pin.receipt) \in 1..MaxReceipts
    BY <1>4, HeldFacts DEF TrustInv, ServerInv, PinInv
  <2> QED
    BY <2>1, AuthorityAssumption
<1>5. PICK f \in 0..MaxReceipts + 1 :
         /\ Continue(p, [cmd[p] EXCEPT !.phase = "checked", !.first = f])
         /\ pin = NoPin => Vet(cmd[p].served, cmd[p].trusted, KeyOf(cmd[p].target))
         /\ UNCHANGED <<pin, recorded, rotations, configured, anchor, supplied>>
  <2>1. Len(cmd[p].target) + 1 \in 0..MaxReceipts + 1
    BY <1>3, AuthorityAssumption
  <2> QED
    BY <2>1, <1>4 DEF Proof, PagesLead
<1> DEFINE c == [cmd[p] EXCEPT !.phase = "checked", !.first = f]
<1>6. /\ c \in Commands /\ c.phase = "checked" /\ c.served = cmd[p].served /\ c.brk = cmd[p].brk
      /\ c.trusted = cmd[p].trusted /\ c.target = cmd[p].target
  <2>1. "checked" \in Phases
    BY DEF Phases
  <2> QED
    BY <1>1, <2>1 DEF Commands
<1>7. pin = NoPin => KeyOf(cmd[p].target) \in AnchoredBy(links, rotations, supplied)
  <2> SUFFICES ASSUME pin = NoPin
               PROVE  KeyOf(cmd[p].target) \in AnchoredBy(links, rotations, supplied)
    OBVIOUS
  <2>1. Path(cmd[p].served, cmd[p].trusted, KeyOf(cmd[p].target))
    BY <1>5 DEF Vet
  <2>2. cmd[p].served \in Chains /\ Linked(cmd[p].served.epochs, links) /\ links \subseteq Keys \X Keys
    BY <1>1 DEF CommandInv, Commands, TrustInv, ServerInv
  <2>3. cmd[p].trusted \in Keys
    BY <2>1, <2>2, EpochFacts DEF Path
  <2>4. cmd[p].trusted \in supplied
    BY <1>1, <2>3, TrustAssumption DEF CommandInv
  <2>5. cmd[p].trusted \in AnchoredBy(links, rotations, supplied)
    BY <2>3, <2>4, LeastHasRoots DEF AnchoredBy
  <2> QED
    BY <2>1, <2>2, <2>5, PathAnchored
<1> HIDE DEF c
<1>8. CommandInv(c, pin, links, rotations, supplied, issued)
  BY <1>1, <1>2, <1>6, <1>7 DEF CommandInv
<1>9. Continue(p, c)
  BY <1>5 DEF c
<1>10. supplied' = supplied /\ supplied \subseteq Keys
  BY <1>5 DEF TrustInv, StatementsInv
<1>11. CommandInv(c, pin, links, rotations, supplied', issued)
  BY <1>8, <1>10
<1> QED
  BY <1>5, <1>9, <1>10, <1>11, QuietContinueKeeps

(* An advance at the end of a command.                                     *)
EndsAdvanced(p, first) ==
    /\ cmd[p].phase \in {"checked", "rest", "vetted"}
    /\ AdvanceChain(cmd[p].served, cmd[p].target, first)
    /\ UNCHANGED supplied
    /\ Continue(p, Idle)

(* It leaves the pin at a receipt the invariant allows.                    *)
LEMMA AdvanceStepKeeps ==
    ASSUME TrustInv, NEW p \in Processes, NEW first, EndsAdvanced(p, first)
    PROVE  Kept
<1>0. /\ cmd[p].phase \in {"checked", "rest", "vetted"}
      /\ AdvanceChain(cmd[p].served, cmd[p].target, first)
      /\ UNCHANGED supplied /\ Continue(p, Idle)
  BY DEF EndsAdvanced
<1>1. CommandInv(cmd[p], pin, links, rotations, supplied, issued) /\ UNCHANGED authorityVars
  BY <1>0 DEF TrustInv, CommandsInv, Continue
<1>2. /\ cmd[p].served \in Chains /\ Linked(cmd[p].served.epochs, links)
      /\ <<Branch, cmd[p].target>> \in issued
  BY <1>0, <1>1 DEF CommandInv, Commands
<1> DEFINE v == cmd[p].served
<1> DEFINE t == cmd[p].target
<1> HIDE DEF v, t
<1>3. /\ v \in Chains /\ Linked(v.epochs, links) /\ <<Branch, t>> \in issued
      /\ AdvanceChain(v, t, first) /\ UNCHANGED <<authorityVars, supplied>>
  BY <1>0, <1>1, <1>2 DEF v, t
<1>4. /\ PinInv' /\ StatementsInv' /\ CrossingsRecorded' /\ TrustAnchored'
      /\ pin # NoPin /\ pin' # NoPin /\ rotations' = rotations
      /\ ~pin.revoked /\ IsPrefixOf(pin.receipt, pin'.receipt)
  BY <1>3, AdvanceKeeps
<1>5. CommandInv(Idle, pin', links, rotations, supplied', issued)
  BY IdleKeeps, IdleIs
<1>6. TrustInv'
  BY <1>0, <1>4, <1>5, ContinueKeeps
<1> QED
  BY <1>4, <1>6 DEF Kept, Extends, Durable

(* A break the user accepts, after which the command goes on.              *)
LEMMA AcceptStepKeeps ==
    ASSUME TrustInv, NEW p \in Processes, NEW new, NEW n \in 1..Len(cmd[p].target),
           cmd[p].target # <<>>, NEW c \in Commands, c.phase = "rest",
           c.served = cmd[p].served, c.brk = cmd[p].brk, c.trusted = cmd[p].trusted,
           c.target = cmd[p].target,
           AcceptBreak(cmd[p].served, new, SubSeq(cmd[p].target, 1, n)),
           new \in supplied', supplied \subseteq supplied', supplied' \subseteq Keys,
           Continue(p, c)
    PROVE  Kept
<1>1. CommandInv(cmd[p], pin, links, rotations, supplied, issued) /\ UNCHANGED authorityVars
      /\ cmd[p] \in Commands
  BY DEF TrustInv, CommandsInv, Continue
<1>2. <<Branch, cmd[p].target>> \in issued
  BY <1>1 DEF CommandInv
<1>3. <<Branch, SubSeq(cmd[p].target, 1, n)>> \in issued
  BY <1>2, HeldFacts DEF TrustInv, ServerInv
<1> DEFINE r == SubSeq(cmd[p].target, 1, n)
<1> DEFINE v == cmd[p].served
<1>4. AcceptBreak(v, new, r)
  OBVIOUS
<1> HIDE DEF r, v
<1>6. <<Branch, r>> \in issued
  BY <1>3 DEF r
<1>7. /\ PinInv' /\ StatementsInv' /\ CrossingsRecorded' /\ TrustAnchored'
      /\ pin # NoPin /\ pin' # NoPin /\ rotations' = rotations
      /\ IsPrefixOf(pin.receipt, pin'.receipt) /\ ~pin'.revoked /\ pin'.key = new
      /\ Link("recovery", pin.key, pin'.key) \in recorded'
  BY <1>1, <1>4, <1>6, AcceptKeeps
<1>8. CommandInv(c, pin', links, rotations, supplied', issued)
  BY <1>1, <1>7 DEF CommandInv
<1>9. TrustInv'
  BY <1>7, <1>8, ContinueKeeps
<1> QED
  BY <1>7, <1>9 DEF Kept, Extends, Durable

(* track, after its proof.                                                 *)
LEMMA TrackKeeps ==
    ASSUME TrustInv, NEW p \in Processes, Track(p)
    PROVE  Kept
<1>1. /\ CommandInv(cmd[p], pin, links, rotations, supplied, issued)
      /\ cmd[p] \in Commands /\ cmd[p].phase = "checked" /\ supplied' = supplied
      /\ supplied \subseteq Keys /\ IssuedInv(issued)
  BY DEF TrustInv, CommandsInv, Track, StatementsInv, ServerInv
<1>2. cmd[p].target # <<>> /\ <<Branch, cmd[p].target>> \in issued
  BY <1>1 DEF CommandInv
<1>3. CASE TrustCheckpoint(KeyOf(cmd[p].target), cmd[p].target) /\ Continue(p, Idle)
  <2> DEFINE t == cmd[p].target
  <2>1. pin = NoPin /\ UNCHANGED authorityVars
    BY <1>3 DEF TrustCheckpoint, Continue
  <2>2. KeyOf(t) \in AnchoredBy(links, rotations, supplied')
    BY <1>1, <2>1 DEF CommandInv
  <2>3. TrustCheckpoint(KeyOf(t), t) /\ <<Branch, t>> \in issued
    BY <1>2, <1>3
  <2> HIDE DEF t
  <2>4. /\ PinInv' /\ StatementsInv' /\ CrossingsRecorded' /\ TrustAnchored'
        /\ pin = NoPin /\ pin' # NoPin /\ rotations' = rotations
    BY <1>1, <2>1, <2>2, <2>3, BootstrapKeeps
  <2>5. CommandInv(Idle, pin', links, rotations, supplied', issued)
    <3>1. CommandInv([Idle EXCEPT !.phase = "idle"], pin', links, rotations, supplied', issued)
      BY IdleKeeps
    <3> QED
      BY <3>1, IdleIs
  <2>6. TrustInv'
    BY <1>1, <1>3, <2>4, <2>5, ContinueKeeps
  <2> QED
    BY <2>4, <2>6 DEF Kept, Extends, Durable
<1>4. CASE /\ AdvanceChain(cmd[p].served, cmd[p].target, Len(cmd[p].target))
           /\ Continue(p, Idle) /\ UNCHANGED supplied
  <2>1. EndsAdvanced(p, Len(cmd[p].target))
    BY <1>1, <1>4 DEF EndsAdvanced
  <2> QED
    BY <2>1, AdvanceStepKeeps
<1>6. CASE /\ AdvanceChain(cmd[p].served, cmd[p].target, cmd[p].first)
           /\ Continue(p, Idle) /\ UNCHANGED supplied
  <2>1. EndsAdvanced(p, cmd[p].first)
    BY <1>1, <1>6 DEF EndsAdvanced
  <2> QED
    BY <2>1, AdvanceStepKeeps
<1>5. CASE /\ pin # NoPin /\ cmd[p].brk # NoKey /\ cmd[p].first <= Len(cmd[p].target)
           /\ AcceptBreak(cmd[p].served, cmd[p].brk, SubSeq(cmd[p].target, 1, cmd[p].first))
           /\ Continue(p, [cmd[p] EXCEPT !.phase = "rest"])
  <2>1. /\ cmd[p].first \in 0..MaxReceipts + 1 /\ cmd[p].target \in Seq(Entries)
        /\ cmd[p].brk \in supplied
    BY <1>1, <1>5 DEF CommandInv, Commands
  <2>2. cmd[p].first # 0
    <3>1. SUFFICES ASSUME cmd[p].first = 0 PROVE FALSE
      OBVIOUS
    <3>2. Len(SubSeq(cmd[p].target, 1, cmd[p].first)) = 0
      <4>1. SubSeq(cmd[p].target, 1, 0) = <<>>
        BY SubSeqEmpty
      <4> QED
        BY <4>1, <3>1
    <3>3. Len(pin.receipt) \in Nat
      BY <1>1, <1>5, HeldFacts DEF TrustInv, PinInv
    <3>4. Len(SubSeq(cmd[p].target, 1, cmd[p].first)) = Len(pin.receipt) + 1
      BY <1>5 DEF AcceptBreak
    <3>5. 0 = Len(pin.receipt) + 1
      BY <3>2, <3>4, Zenon
    <3> QED
      BY <3>3, <3>5
  <2>3. cmd[p].first \in 1..Len(cmd[p].target)
    BY <1>5, <2>1, <2>2
  <2> DEFINE c == [cmd[p] EXCEPT !.phase = "rest"]
  <2>4. /\ c \in Commands /\ c.phase = "rest" /\ c.served = cmd[p].served
        /\ c.brk = cmd[p].brk /\ c.trusted = cmd[p].trusted /\ c.target = cmd[p].target
    <3>1. "rest" \in Phases
      BY DEF Phases
    <3> QED
      BY <1>1, <3>1 DEF Commands
  <2>5. Continue(p, c)
    BY <1>5
  <2> HIDE DEF c
  <2> QED
    BY <1>1, <1>2, <1>5, <2>1, <2>3, <2>4, <2>5, AcceptStepKeeps
<1> QED
  BY <1>3, <1>4, <1>5, <1>6 DEF Track

(* The commands that work from a file.                                     *)
LEMMA BundleKeeps ==
    ASSUME TrustInv, NEW p \in Processes, VetBundle(p)
    PROVE  Kept
<1>1. CASE Continue(p, [Idle EXCEPT !.phase = "revoking"])
  BY <1>1, IdleStepKeeps DEF VetBundle
<1>2. CASE Continue(p, [cmd[p] EXCEPT !.phase = "vetted"])
  <2> DEFINE c == [cmd[p] EXCEPT !.phase = "vetted"]
  <2>1. /\ CommandInv(cmd[p], pin, links, rotations, supplied, issued)
        /\ cmd[p] \in Commands /\ cmd[p].phase = "bundle"
        /\ UNCHANGED <<pin, recorded, rotations, configured, anchor, supplied>>
        /\ supplied \subseteq Keys
    BY DEF TrustInv, CommandsInv, VetBundle, StatementsInv
  <2>2. /\ c \in Commands /\ c.phase = "vetted" /\ c.served = cmd[p].served
        /\ c.brk = cmd[p].brk /\ c.trusted = cmd[p].trusted /\ c.target = cmd[p].target
    <3>1. "vetted" \in Phases
      BY DEF Phases
    <3> QED
      BY <2>1, <3>1 DEF Commands
  <2> HIDE DEF c
  <2>3. CommandInv(c, pin, links, rotations, supplied', issued)
    BY <2>1, <2>2 DEF CommandInv
  <2>4. Continue(p, c)
    BY <1>2 DEF c
  <2> QED
    BY <2>1, <2>3, <2>4, QuietContinueKeeps
<1> QED
  BY <1>1, <1>2 DEF VetBundle

(* The first receipt of an accepted bundle: the break the user vouched for *)
(* is recorded with the pin.                                               *)
LEMMA AcceptBundleKeeps ==
    ASSUME TrustInv, NEW p \in Processes, NEW new \in Keys, AcceptBundle(p, new)
    PROVE  Kept
<1> DEFINE g == Len(pin.receipt) + 1
<1>1. /\ cmd[p].phase = "bundle" /\ pin # NoPin /\ g <= Len(cmd[p].target)
      /\ AcceptBreak(cmd[p].served, new, SubSeq(cmd[p].target, 1, g))
      /\ supplied' = supplied \cup {new}
      /\ Continue(p, [cmd[p] EXCEPT !.phase = "rest", !.first = g])
  BY DEF AcceptBundle
<1>2. /\ CommandInv(cmd[p], pin, links, rotations, supplied, issued)
      /\ supplied \subseteq Keys /\ IssuedInv(issued) /\ <<Branch, pin.receipt>> \in issued
  BY <1>1 DEF TrustInv, CommandsInv, StatementsInv, ServerInv, PinInv
<1>3. cmd[p].target # <<>> /\ cmd[p].target \in Seq(Entries)
  BY <1>1, <1>2 DEF CommandInv, Commands
<1>4. Len(pin.receipt) \in 1..MaxReceipts
  BY <1>2, HeldFacts
<1>5. g \in 1..Len(cmd[p].target) /\ g \in 0..MaxReceipts + 1
  BY <1>1, <1>3, <1>4, AuthorityAssumption
<1> DEFINE c == [cmd[p] EXCEPT !.phase = "rest", !.first = g]
<1> HIDE DEF g
<1>6. /\ c \in Commands /\ c.phase = "rest" /\ c.served = cmd[p].served
      /\ c.brk = cmd[p].brk /\ c.trusted = cmd[p].trusted /\ c.target = cmd[p].target
  <2>1. "rest" \in Phases /\ cmd[p] \in Commands
    BY <1>2 DEF Phases, CommandInv
  <2> QED
    BY <1>5, <2>1 DEF Commands
<1>7. Continue(p, c)
  BY <1>1
<1> HIDE DEF c
<1> QED
  BY <1>1, <1>2, <1>3, <1>5, <1>6, <1>7, AcceptStepKeeps

(* The marker of the pinned key, found before and written now.             *)
LEMMA WriteMarkerKeeps ==
    ASSUME TrustInv, NEW p \in Processes, WriteMarker(p)
    PROVE  Kept
<1>1. RevokePin /\ supplied' = supplied /\ Continue(p, Idle) /\ UNCHANGED authorityVars
  BY DEF WriteMarker, Continue
<1>2. /\ PinInv' /\ StatementsInv' /\ CrossingsRecorded' /\ TrustAnchored'
      /\ pin # NoPin /\ pin' # NoPin /\ rotations' = rotations
      /\ pin'.receipt = pin.receipt /\ (pin.revoked => pin' = pin)
  BY <1>1, RevokeKeeps
<1>3. CommandInv(Idle, pin', links, rotations, supplied', issued)
  BY IdleKeeps, IdleIs
<1>4. TrustInv'
  BY <1>1, <1>2, <1>3, ContinueKeeps
<1>5. IsPrefixOf(pin.receipt, pin'.receipt)
  <2>1. Len(pin.receipt) \in Nat
    BY <1>2, HeldFacts DEF TrustInv, ServerInv, PinInv
  <2> QED
    BY <2>1, <1>2 DEF IsPrefixOf
<1> QED
  BY <1>2, <1>4, <1>5 DEF Kept, Extends, Durable

(* Every step of a command that synchronizes keeps the invariant.          *)
LEMMA SyncCommandKeeps ==
    ASSUME TrustInv, NEW p \in Processes, SyncCommand(p)
    PROVE  Kept
<1>1. ASSUME NEW brk \in EpochKeys \cup {NoKey}, Begin(p, brk) PROVE Kept
  BY <1>1, BeginKeeps
<1>2. CASE ReadHead(p)
  BY <1>2, ReadKeeps
<1>3. CASE Proof(p)
  BY <1>3, ProofKeeps
<1>4. CASE FindMarker(p)
  BY <1>4, IdleStepKeeps DEF FindMarker
<1>5. CASE WriteMarker(p)
  BY <1>5, WriteMarkerKeeps
<1>6. CASE Track(p)
  BY <1>6, TrackKeeps
<1>7. CASE TrackRest(p)
  <2>1. EndsAdvanced(p, cmd[p].first + 1)
    BY <1>7 DEF TrackRest, EndsAdvanced
  <2> QED
    BY <2>1, AdvanceStepKeeps
<1>8. CASE ExportChain(p)
  BY <1>8, ExportChainKeeps
<1>9. CASE ExportReceipts(p)
  BY <1>9, ReadKeeps
<1>10. CASE VetBundle(p)
  BY <1>10, BundleKeeps
<1>11. CASE ApplyBundle(p)
  <2>1. EndsAdvanced(p, 1)
    BY <1>11 DEF ApplyBundle, EndsAdvanced
  <2> QED
    BY <2>1, AdvanceStepKeeps
<1>12. ASSUME NEW new \in Keys, AcceptBundle(p, new) PROVE Kept
  BY <1>12, AcceptBundleKeeps
<1>13. CASE Stop(p)
  BY <1>13, IdleStepKeeps, IdleIs DEF Stop
<1> QED
  BY <1>1, <1>2, <1>3, <1>4, <1>5, <1>6, <1>7, <1>8, <1>9, <1>10, <1>11, <1>12, <1>13
  DEF SyncCommand

-----------------------------------------------------------------------------
(* The invariant holds when nothing is pinned.                             *)
LEMMA TrustInit_Inv ==
    ASSUME TrustInit
    PROVE  TrustInv
<1>1. Shown(epochs, markers, receipts, links, issued) /\ links \subseteq Keys \X Keys
      /\ IssuedInv(issued)
  <2>1. epochs \in Seq(Epochs) /\ Len(epochs) = 0
    BY DEF TrustInit, AuthorityInit
  <2>2. DOMAIN markers \subseteq Nat
    BY DEF TrustInit, AuthorityInit
  <2>3. receipts \in Histories /\ \A s \in Scopes : Len(receipts[s]) = 0
    BY DEF TrustInit, AuthorityInit, Histories
  <2>4. HandedOut(receipts, issued)
    BY <2>3, AuthorityAssumption DEF HandedOut
  <2>5. Linked(epochs, links)
    BY <2>1 DEF Linked
  <2> QED
    BY <2>1, <2>2, <2>3, <2>4, <2>5 DEF Shown, IssuedInv, TrustInit, AuthorityInit
<1>2. /\ backup.epochs = epochs /\ backup.markers = markers /\ backup.receipts = receipts
  BY DEF TrustInit, AuthorityInit, Database
<1>3. ServerInv
  BY <1>1, <1>2 DEF ServerInv
<1>4. PinInv /\ StatementsInv /\ CrossingsRecorded /\ TrustAnchored
  BY DEF TrustInit, PinInv, StatementsInv, CrossingsRecorded, TrustAnchored
<1>5. cmd = [p \in Processes |-> Idle]
  BY DEF TrustInit
<1>6. CommandInv(Idle, pin, links, rotations, supplied, issued)
  BY IdleKeeps, IdleIs
<1>7. CommandsInv
  BY <1>5, <1>6, IdleInCommands DEF CommandsInv
<1> QED
  BY <1>3, <1>4, <1>7 DEF TrustInv

(* Every step keeps the invariant and treats the pin as promised.          *)
LEMMA TrustStep ==
    ASSUME TrustInv, [TrustNext]_all
    PROVE  Kept
<1>1. CASE TrustNext
  BY <1>1, ServerStepKeeps, ReceiptCommandKeeps, SyncCommandKeeps DEF TrustNext
<1>2. CASE UNCHANGED all
  <2>1. UNCHANGED authorityVars
        /\ UNCHANGED <<pin, recorded, rotations, configured, supplied, anchor, cmd>>
    BY <1>2 DEF all, client
  <2>2. ServerInv' /\ links' = links /\ issued' = issued
    BY <2>1, ServerStays DEF TrustInv
  <2>3. Onward
    BY <2>1, <2>2 DEF Onward
  <2>4. StatementsInv'
    BY <2>1 DEF TrustInv, StatementsInv
  <2>5. CommandsInv'
    BY <2>1, <2>3, CommandsWait DEF TrustInv
  <2> QED
    BY <2>1, <2>2, <2>3, <2>4, <2>5, QuietKeeps
<1> QED
  BY <1>1, <1>2

(* The inductive invariant behind the two results below: the server facts, *)
(* the form of the pin, the statements in the journal, what each running   *)
(* command has read, and that each crossing of the pinned chain is         *)
(* recorded and its key anchored.                                          *)
THEOREM TrustInvariant == TrustSpec => []TrustInv
<1>1. TrustInit => TrustInv
  BY TrustInit_Inv
<1>2. TrustInv /\ [TrustNext]_all => TrustInv'
  BY TrustStep DEF Kept
<1> QED
  BY <1>1, <1>2, PTL DEF TrustSpec

(* What the journal holds is justified, whatever the server shows and      *)
(* however commands interleave: its rows are well formed, every change of  *)
(* issuer since the bootstrap is explained by statements beside it, and    *)
(* the pinned key follows a key of the user's by dual-signed statements.   *)
THEOREM TrustStaysSound == TrustSpec => []TrustSound
<1>1. TrustInv => TrustSound
  <2> SUFFICES ASSUME TrustInv PROVE TrustTypeOK
    BY DEF TrustSound, TrustInv
  <2>1. pin # NoPin => pin.revoked \in BOOLEAN
    BY DEF TrustInv, PinInv, Pins
  <2>2. \A p \in Processes : cmd[p] \in Commands
    BY DEF TrustInv, CommandsInv
  <2>3. \A p \in Processes : cmd[p].first \in 0..MaxReceipts + 1 /\ cmd[p].target \in Seq(Entries)
    BY <2>2 DEF Commands
  <2> QED
    BY <2>1, <2>3 DEF TrustTypeOK, TrustInv, PinInv, StatementsInv
<1> QED
  BY <1>1, TrustInvariant, PTL

(* No command takes a pin back: it only ever extends what is pinned, after *)
(* a restored backup too, and a revoked pin moves only over a recorded     *)
(* recovery to a key the user supplied.                                    *)
THEOREM PinStaysSafe == TrustSpec => PinSafe
<1>1. TrustInv /\ [TrustNext]_all =>
        [pin # NoPin => pin' # NoPin /\ IsPrefixOf(pin.receipt, pin'.receipt)]_all
  BY TrustStep DEF Kept, Extends
<1>2. TrustInv /\ [TrustNext]_all =>
        [pin # NoPin /\ pin.revoked /\ pin' # pin =>
          /\ ~pin'.revoked
          /\ pin'.key \in supplied'
          /\ Link("recovery", pin.key, pin'.key) \in recorded']_all
  BY TrustStep DEF Kept, Durable
<1> QED
  BY <1>1, <1>2, TrustInvariant, PTL DEF TrustSpec, PinSafe, PinOnlyExtends, RevocationDurable
=============================================================================
