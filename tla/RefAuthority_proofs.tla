------------------------ MODULE RefAuthority_proofs ------------------------
(***************************************************************************)
(* Proofs about the receipt authority.  The invariant is stated of one     *)
(* database, so that it holds of the backup as well and survives a         *)
(* restore.                                                                *)
(***************************************************************************)
EXTENDS RefAuthority, TLAPS

KeysKnown(ep, rc) ==
    \A s \in Scopes : \A i \in DOMAIN rc[s] : \E e \in DOMAIN ep : rc[s][i].key = ep[e].key
Seals(ep, rc) ==
    \A e \in 2..Len(ep), s \in Scopes :
        /\ Len(ep[e].seal[s]) <= Len(rc[s])
        /\ \A i \in 1..Len(ep[e].seal[s]) : ep[e].seal[s][i] = rc[s][i]
        /\ \A i \in DOMAIN rc[s] :
             i <= Len(ep[e].seal[s]) <=> \E f \in 1..e-1 : rc[s][i].key = ep[f].key
Stops(ep, mk, rc) ==
    \A e \in DOMAIN mk, s \in Scopes : \A i \in DOMAIN rc[s] :
        rc[s][i].key = ep[e].key => i <= Len(mk[e][s])
Causes(ep, mk) == \A e \in 2..Len(ep) : ep[e].kind = "recovery" => e - 1 \in DOMAIN mk

(* What holds of every database the server has had: its rows are typed, a  *)
(* key has one epoch, and the three properties of AuthorityHistory.        *)
Rows(ep, mk, rc) ==
    /\ ep \in Seq(Epochs)
    /\ DOMAIN mk \subseteq DOMAIN ep
    /\ \A e \in DOMAIN mk : mk[e] \in Histories
    /\ rc \in Histories
Distinct(ep) == \A e, f \in DOMAIN ep : ep[e].key = ep[f].key => e = f
Sound(ep, mk, rc) ==
    /\ Rows(ep, mk, rc)
    /\ Distinct(ep)
    /\ KeysKnown(ep, rc)
    /\ Seals(ep, rc)
    /\ Stops(ep, mk, rc)
    /\ Causes(ep, mk)

(* Storing a receipt of the active key keeps a database sound.             *)
LEMMA IssueKeepsSound ==
    ASSUME NEW ep, NEW mk, NEW rc, Sound(ep, mk, rc),
           NEW s \in Scopes, NEW entry \in Entries,
           Len(ep) > 0, Len(ep) \notin DOMAIN mk, entry.key = ep[Len(ep)].key
    PROVE  Sound(ep, mk, [rc EXCEPT ![s] = Append(@, entry)])
<1> DEFINE new == [rc EXCEPT ![s] = Append(@, entry)]
<1> DEFINE n == Len(rc[s]) + 1
<1>1. /\ ep \in Seq(Epochs) /\ rc \in [Scopes -> Seq(Entries)] /\ rc[s] \in Seq(Entries)
      /\ DOMAIN mk \subseteq DOMAIN ep
  BY DEF Sound, Rows, Histories
<1>2. new \in Histories
  BY <1>1 DEF Histories
<1>3. /\ new[s] = Append(rc[s], entry)
      /\ \A t \in Scopes : t # s => new[t] = rc[t]
  BY <1>1
<1>4. /\ DOMAIN new[s] = DOMAIN rc[s] \cup {n} /\ n \notin DOMAIN rc[s]
      /\ Len(new[s]) = n /\ Len(new[s]) \in Nat /\ Len(rc[s]) \in Nat
      /\ new[s][n] = entry
      /\ \A i \in DOMAIN rc[s] : new[s][i] = rc[s][i]
      /\ DOMAIN rc[s] = 1..Len(rc[s])
  BY <1>1, <1>3
<1>5. Rows(ep, mk, new)
  BY <1>2 DEF Sound, Rows
<1>6. KeysKnown(ep, new)
  <2>1. Len(ep) \in DOMAIN ep
    BY <1>1
  <2>2. \A i \in DOMAIN new[s] : \E e \in DOMAIN ep : new[s][i].key = ep[e].key
    BY <2>1, <1>4 DEF Sound, KeysKnown
  <2> QED
    BY <2>2, <1>3 DEF Sound, KeysKnown
<1>7. Seals(ep, new)
  <2> SUFFICES ASSUME NEW e \in 2..Len(ep), NEW t \in Scopes
               PROVE  /\ Len(ep[e].seal[t]) <= Len(new[t])
                      /\ \A i \in 1..Len(ep[e].seal[t]) : ep[e].seal[t][i] = new[t][i]
                      /\ \A i \in DOMAIN new[t] :
                           i <= Len(ep[e].seal[t]) <=>
                              \E f \in 1..e-1 : new[t][i].key = ep[f].key
    BY DEF Seals
  <2>0. /\ Len(ep[e].seal[t]) <= Len(rc[t])
        /\ \A i \in 1..Len(ep[e].seal[t]) : ep[e].seal[t][i] = rc[t][i]
        /\ \A i \in DOMAIN rc[t] :
             i <= Len(ep[e].seal[t]) <=> \E f \in 1..e-1 : rc[t][i].key = ep[f].key
    BY DEF Sound, Seals
  <2>1. CASE t # s
    BY <2>0, <2>1, <1>3
  <2>2. CASE t = s
    <3>1. e \in DOMAIN ep /\ e \in Nat
      BY <1>1
    <3>2. ep[e] \in Epochs
      BY <1>1, <3>1
    <3>3. Len(ep[e].seal[s]) \in Nat
      BY <3>2 DEF Epochs, Histories
    <3>4. Len(ep[e].seal[s]) <= Len(new[s])
      BY <2>0, <2>2, <3>3, <1>4
    <3>5. \A i \in 1..Len(ep[e].seal[s]) : ep[e].seal[s][i] = new[s][i]
      BY <2>0, <2>2, <3>3, <1>4
    <3>6. ~ (n <= Len(ep[e].seal[s]))
      BY <2>0, <2>2, <3>3, <1>4
    <3>7. ~ \E f \in 1..e-1 : entry.key = ep[f].key
      <4>1. \A f \in 1..e-1 : f \in DOMAIN ep /\ Len(ep) \in DOMAIN ep /\ f # Len(ep)
        BY <1>1, <3>1
      <4> QED
        BY <4>1 DEF Sound, Distinct
    <3> QED
      BY <2>0, <2>2, <3>4, <3>5, <3>6, <3>7, <1>4
  <2> QED
    BY <2>1, <2>2
<1>8. Stops(ep, mk, new)
  <2> SUFFICES ASSUME NEW e \in DOMAIN mk, NEW t \in Scopes, NEW i \in DOMAIN new[t],
                      new[t][i].key = ep[e].key
               PROVE  i <= Len(mk[e][t])
    BY DEF Stops
  <2>1. CASE t = s /\ i = n
    <3>1. e \in DOMAIN ep /\ Len(ep) \in DOMAIN ep /\ e # Len(ep)
      BY <1>1
    <3> QED
      BY <3>1, <2>1, <1>4 DEF Sound, Distinct
  <2>2. CASE ~(t = s /\ i = n)
    <3>1. i \in DOMAIN rc[t] /\ new[t][i] = rc[t][i]
      BY <2>2, <1>3, <1>4
    <3> QED
      BY <3>1 DEF Sound, Stops
  <2> QED
    BY <2>1, <2>2
<1> QED
  BY <1>5, <1>6, <1>7, <1>8 DEF Sound

(* Continuing the active epoch with a fresh key, sealing what is stored.   *)
LEMMA TransitionKeepsSound ==
    ASSUME NEW ep, NEW mk, NEW rc, Sound(ep, mk, rc),
           NEW kind \in {"rotation", "recovery"}, NEW k \in Keys,
           Len(ep) > 0, \A e \in DOMAIN ep : ep[e].key # k,
           kind = "recovery" => Len(ep) \in DOMAIN mk
    PROVE  Sound(Append(ep, [key |-> k, kind |-> kind, seal |-> rc]), mk, rc)
<1> DEFINE row == [key |-> k, kind |-> kind, seal |-> rc]
<1> DEFINE new == Append(ep, row)
<1> DEFINE n == Len(ep) + 1
<1>1. /\ ep \in Seq(Epochs) /\ rc \in Histories
      /\ DOMAIN mk \subseteq DOMAIN ep
  BY DEF Sound, Rows
<1>2. row \in Epochs
  BY <1>1 DEF Epochs
<1>3. /\ new \in Seq(Epochs) /\ Len(new) = n /\ n \in Nat
      /\ DOMAIN ep = 1..Len(ep) /\ DOMAIN new = DOMAIN ep \cup {n} /\ n \notin DOMAIN ep
      /\ new[n] = row
      /\ \A e \in DOMAIN ep : new[e] = ep[e]
      /\ Len(ep) \in Nat
  BY <1>1, <1>2
<1> HIDE DEF new, n
<1>4. Rows(new, mk, rc)
  BY <1>3 DEF Sound, Rows
<1>5. Distinct(new)
  BY <1>3 DEF Sound, Distinct
<1>6. KeysKnown(new, rc)
  BY <1>3 DEF Sound, KeysKnown
<1>7. Seals(new, rc)
  <2> SUFFICES ASSUME NEW e \in 2..Len(new), NEW s \in Scopes
               PROVE  /\ Len(new[e].seal[s]) <= Len(rc[s])
                      /\ \A i \in 1..Len(new[e].seal[s]) : new[e].seal[s][i] = rc[s][i]
                      /\ \A i \in DOMAIN rc[s] :
                           i <= Len(new[e].seal[s]) <=>
                              \E f \in 1..e-1 : rc[s][i].key = new[f].key
    BY DEF Seals
  <2>1. CASE e = n
    <3>1. rc[s] \in Seq(Entries)
      BY <1>1 DEF Histories
    <3>2. new[e].seal[s] = rc[s]
      BY <2>1, <1>3
    <3>3. \A i \in DOMAIN rc[s] : \E f \in 1..e-1 : rc[s][i].key = new[f].key
      <4>1. \A f \in DOMAIN ep : f \in 1..e-1 /\ new[f] = ep[f]
        BY <2>1, <1>3 DEF n
      <4> QED
        BY <4>1 DEF Sound, KeysKnown
    <3> QED
      BY <3>1, <3>2, <3>3
  <2>2. CASE e # n
    <3>1. e \in 2..Len(ep) /\ new[e] = ep[e]
      BY <2>2, <1>3 DEF n
    <3>2. \A f \in 1..e-1 : new[f] = ep[f]
      BY <3>1, <1>3
    <3>3. /\ Len(ep[e].seal[s]) <= Len(rc[s])
          /\ \A i \in 1..Len(ep[e].seal[s]) : ep[e].seal[s][i] = rc[s][i]
          /\ \A i \in DOMAIN rc[s] :
               i <= Len(ep[e].seal[s]) <=> \E f \in 1..e-1 : rc[s][i].key = ep[f].key
      <4>1. Seals(ep, rc)
        BY DEF Sound
      <4> QED
        BY <3>1, <4>1 DEF Seals
    <3>4. /\ Len(new[e].seal[s]) <= Len(rc[s])
          /\ \A i \in 1..Len(new[e].seal[s]) : new[e].seal[s][i] = rc[s][i]
      BY <3>1, <3>3
    <3>5. ASSUME NEW i \in DOMAIN rc[s]
          PROVE  i <= Len(new[e].seal[s]) <=> \E f \in 1..e-1 : rc[s][i].key = new[f].key
      <4>1. i <= Len(new[e].seal[s]) <=> \E f \in 1..e-1 : rc[s][i].key = ep[f].key
        BY <3>1, <3>3
      <4>2. \A f \in 1..e-1 : rc[s][i].key = new[f].key <=> rc[s][i].key = ep[f].key
        BY <3>2
      <4> QED
        BY <4>1, <4>2
    <3> QED
      BY <3>4, <3>5
  <2> QED
    BY <2>1, <2>2
<1>8. Stops(new, mk, rc)
  BY <1>1, <1>3 DEF Sound, Stops
<1>9. Causes(new, mk)
  <2> SUFFICES ASSUME NEW e \in 2..Len(new), new[e].kind = "recovery"
               PROVE  e - 1 \in DOMAIN mk
    BY DEF Causes
  <2>1. CASE e = n
    BY <2>1, <1>3 DEF n
  <2>2. CASE e # n
    <3>1. e \in 2..Len(ep) /\ new[e] = ep[e]
      BY <2>2, <1>3 DEF n
    <3> QED
      BY <3>1 DEF Sound, Causes
  <2> QED
    BY <2>1, <2>2
<1> QED
  BY <1>4, <1>5, <1>6, <1>7, <1>8, <1>9 DEF Sound, new

(* A marker keeps a database sound: it remembers every receipt there is.   *)
LEMMA RevokeKeepsSound ==
    ASSUME NEW ep, NEW mk, NEW rc, Sound(ep, mk, rc), NEW e \in DOMAIN ep
    PROVE  Sound(ep, [f \in DOMAIN mk \cup {e} |-> IF f = e THEN rc ELSE mk[f]], rc)
<1> DEFINE new == [f \in DOMAIN mk \cup {e} |-> IF f = e THEN rc ELSE mk[f]]
<1>1. /\ DOMAIN new = DOMAIN mk \cup {e} /\ new[e] = rc
      /\ \A f \in DOMAIN mk : f # e => new[f] = mk[f]
      /\ rc \in Histories
  BY DEF Sound, Rows
<1> HIDE DEF new
<1>2. Rows(ep, new, rc)
  BY <1>1 DEF Sound, Rows
<1>3. Stops(ep, new, rc)
  <2> SUFFICES ASSUME NEW f \in DOMAIN new, NEW s \in Scopes, NEW i \in DOMAIN rc[s],
                      rc[s][i].key = ep[f].key
               PROVE  i <= Len(new[f][s])
    BY DEF Stops
  <2>1. CASE f = e
    <3>1. rc[s] \in Seq(Entries)
      BY <1>1 DEF Histories
    <3> QED
      BY <3>1, <2>1, <1>1
  <2>2. CASE f # e
    BY <2>2, <1>1 DEF Sound, Stops
  <2> QED
    BY <2>1, <2>2
<1>4. Causes(ep, new)
  BY <1>1 DEF Sound, Causes
<1> QED
  BY <1>2, <1>3, <1>4 DEF Sound, new

(* The first epoch: nothing was issued before there was a key.             *)
LEMMA InstallKeepsSound ==
    ASSUME NEW mk, NEW rc, Sound(<<>>, mk, rc), NEW k \in Keys
    PROVE  Sound(<<[key |-> k, kind |-> "genesis", seal |-> rc]>>, mk, rc)
<1> DEFINE row == [key |-> k, kind |-> "genesis", seal |-> rc]
<1> DEFINE new == <<row>>
<1>0. DOMAIN <<>> = {}
  OBVIOUS
<1>1. rc \in Histories /\ DOMAIN mk = {}
  BY <1>0 DEF Sound, Rows
<1>2. row \in Epochs
  BY <1>1 DEF Epochs
<1>3. new \in Seq(Epochs) /\ Len(new) = 1 /\ DOMAIN new = {1} /\ 2..Len(new) = {}
  BY <1>2
<1>4. \A s \in Scopes : DOMAIN rc[s] = {}
  BY <1>0 DEF Sound, KeysKnown
<1> HIDE DEF new
<1>5. Rows(new, mk, rc)
  BY <1>1, <1>3 DEF Rows
<1>6. Distinct(new) /\ KeysKnown(new, rc) /\ Seals(new, rc) /\ Stops(new, mk, rc) /\ Causes(new, mk)
  BY <1>1, <1>3, <1>4 DEF Distinct, KeysKnown, Seals, Stops, Causes
<1> QED
  BY <1>5, <1>6 DEF Sound, new

-----------------------------------------------------------------------------
(* The inductive invariant: the live database and its backup are sound,    *)
(* and what was signed ahead of time is well formed.                       *)
LiveSound == Sound(epochs, markers, receipts)
BackupSound ==
    /\ backup = [epochs |-> backup.epochs, markers |-> backup.markers, receipts |-> backup.receipts]
    /\ Sound(backup.epochs, backup.markers, backup.receipts)
Requests ==
    /\ mounted \in [Servers -> Keys \cup {NoKey}]
    /\ signing \in [Scopes -> {NoReceipt} \cup [server : Servers, entry : Entries]]
    /\ statements \subseteq Statements
Pending ==
    \A s \in Scopes : signing[s] # NoReceipt =>
        /\ Len(receipts[s]) < MaxReceipts
        /\ signing[s].entry.key = mounted[signing[s].server]
Handed == issued \subseteq Scopes \X Seq(Entries) /\ restores \in 0..MaxRestores
IInv == LiveSound /\ BackupSound /\ Requests /\ Pending /\ Handed

(* Process names are not the placeholder of a request that is not there.   *)
LEMMA PendingIsReceipt ==
    ASSUME Requests, NEW s \in Scopes, signing[s] # NoReceipt
    PROVE  signing[s].entry \in Entries /\ signing[s].server \in Servers
  BY DEF Requests

(* The invariant holds before the first epoch.                             *)
LEMMA InitSound == Init => IInv
<1> SUFFICES ASSUME Init PROVE IInv
  OBVIOUS
<1> USE DEF Init, AuthorityInit
<1>1. Rows(epochs, markers, receipts)
  BY DEF Rows, Histories
<1>2. /\ Len(epochs) = 0 /\ DOMAIN epochs = {} /\ DOMAIN markers = {} /\ 2..Len(epochs) = {}
      /\ \A s \in Scopes : DOMAIN receipts[s] = {}
  OBVIOUS
<1>3. /\ Distinct(epochs) /\ KeysKnown(epochs, receipts) /\ Seals(epochs, receipts)
      /\ Stops(epochs, markers, receipts) /\ Causes(epochs, markers)
  BY <1>2 DEF Distinct, KeysKnown, Seals, Stops, Causes
<1>4. LiveSound
  BY <1>1, <1>3 DEF LiveSound, Sound
<1>5. BackupSound
  BY <1>4 DEF LiveSound, BackupSound, Database
<1>6. Requests /\ Pending /\ Handed
  BY AuthorityAssumption DEF Requests, Pending, Handed
<1> QED
  BY <1>4, <1>5, <1>6 DEF IInv

(* One step of the server, action by action.                               *)
LEMMA StepSound == ASSUME IInv, [Next]_vars PROVE IInv'
<1> USE DEF IInv
<1>1. ASSUME NEW v \in Servers, NEW k \in Keys, Start(v, k) PROVE IInv'
  <2>1. LiveSound' /\ BackupSound'
    BY <1>1 DEF Start, authorityVars, LiveSound, BackupSound
  <2>2. Requests'
    BY <1>1 DEF Start, Requests
  <2>3. Pending' /\ Handed'
    BY <1>1 DEF Start, Pending, Handed, Requests, authorityVars
  <2> QED
    BY <2>1, <2>2, <2>3
<1>2. ASSUME NEW v \in Servers, NEW s \in Scopes, NEW c \in Commits, Sign(v, s, c) PROVE IInv'
  <2>1. LiveSound' /\ BackupSound'
    BY <1>2 DEF Sign, authorityVars, LiveSound, BackupSound
  <2>2. mounted[v] \in Keys
    BY <1>2 DEF Sign, Requests
  <2>3. [server |-> v, entry |-> [commit |-> c, key |-> mounted[v]]] \in [server : Servers, entry : Entries]
    BY <2>2 DEF Entries
  <2>4. Requests'
    BY <1>2, <2>3 DEF Sign, Requests
  <2>5. Pending' /\ Handed'
    BY <1>2 DEF Sign, Pending, Handed, Requests, authorityVars
  <2> QED
    BY <2>1, <2>4, <2>5
<1>3. ASSUME NEW s \in Scopes, Store(s) PROVE IInv'
  <2>1. signing[s].entry \in Entries
    BY <1>3, PendingIsReceipt DEF Store
  <2>2. /\ Len(epochs) > 0 /\ Len(epochs) \notin DOMAIN markers
        /\ signing[s].entry.key = epochs[Len(epochs)].key
    BY <1>3 DEF Store, MayStore, Active, ActiveKey, Revoked
  <2>3. Sound(epochs, markers, [receipts EXCEPT ![s] = Append(@, signing[s].entry)])
    BY <2>1, <2>2, IssueKeepsSound DEF LiveSound
  <2>4. LiveSound' /\ BackupSound'
    BY <1>3, <2>3 DEF Store, LiveSound, BackupSound
  <2>5. Requests'
    BY <1>3 DEF Store, Requests
  <2>6. Pending'
    <3>1. receipts \in [Scopes -> Seq(Entries)]
      BY DEF LiveSound, Sound, Rows, Histories
    <3> QED
      BY <1>3, <3>1 DEF Store, Pending, Requests
  <2>7. Handed'
    <3>1. receipts' \in [Scopes -> Seq(Entries)]
      BY <2>4 DEF LiveSound, Sound, Rows, Histories
    <3>2. <<s, receipts'[s]>> \in Scopes \X Seq(Entries)
      BY <3>1
    <3>3. issued' = issued \cup {<<s, receipts'[s]>>} /\ restores' = restores
      BY <1>3 DEF Store
    <3> QED
      BY <3>2, <3>3 DEF Handed
  <2> QED
    BY <2>4, <2>5, <2>6, <2>7
<1>4. ASSUME NEW s \in Scopes, Abort(s) PROVE IInv'
  <2>1. LiveSound' /\ BackupSound'
    BY <1>4 DEF Abort, authorityVars, LiveSound, BackupSound
  <2>2. Requests'
    BY <1>4 DEF Abort, Requests
  <2>3. Pending' /\ Handed'
    BY <1>4 DEF Abort, Pending, Handed, Requests, authorityVars
  <2> QED
    BY <2>1, <2>2, <2>3
<1>5. ASSUME NEW k \in Keys, Install(k), ServerUnchanged PROVE IInv'
  <2>1. Sound(<<[key |-> k, kind |-> "genesis", seal |-> receipts]>>, markers, receipts)
    BY <1>5, InstallKeepsSound DEF Install, LiveSound
  <2>2. LiveSound' /\ BackupSound'
    BY <1>5, <2>1 DEF Install, LiveSound, BackupSound
  <2>3. Requests' /\ Pending' /\ Handed'
    BY <1>5 DEF ServerUnchanged, Requests, Pending, Handed, Install
  <2> QED
    BY <2>2, <2>3
<1>6. ASSUME NEW kind \in {"rotation", "recovery"}, NEW k \in Keys, SignStatement(kind, k) PROVE IInv'
  <2>1. LiveSound' /\ BackupSound'
    BY <1>6 DEF SignStatement, authorityVars, LiveSound, BackupSound
  <2>2. epochs \in Seq(Epochs) /\ receipts \in Histories
    BY DEF LiveSound, Sound, Rows
  <2>3. Active \in Nat /\ ActiveKey \in Keys
    <3>1. Len(epochs) \in Nat /\ Len(epochs) > 0
      BY <1>6, <2>2 DEF SignStatement, MayContinue, Active
    <3>2. epochs[Len(epochs)] \in Epochs
      BY <3>1, <2>2
    <3> QED
      BY <3>1, <3>2 DEF Active, ActiveKey, Epochs
  <2>4. Requests'
    BY <1>6, <2>2, <2>3 DEF SignStatement, Requests, Statements
  <2>5. Pending' /\ Handed'
    BY <1>6 DEF SignStatement, Pending, Handed, authorityVars
  <2> QED
    BY <2>1, <2>4, <2>5
<1>7. ASSUME NEW t \in statements, InstallTransition(t) PROVE IInv'
  <2>1. t.kind \in {"rotation", "recovery"} /\ t.new \in Keys
    BY DEF Requests, Statements
  <2>2. /\ Len(epochs) > 0 /\ \A e \in DOMAIN epochs : epochs[e].key # t.new
        /\ t.kind = "recovery" => Len(epochs) \in DOMAIN markers
        /\ t.seal = receipts
    BY <1>7 DEF InstallTransition, Fits, Active, Revoked, EpochKeys
  <2>3. Sound(Append(epochs, [key |-> t.new, kind |-> t.kind, seal |-> receipts]), markers, receipts)
    BY <2>1, <2>2, TransitionKeepsSound DEF LiveSound
  <2>4. LiveSound' /\ BackupSound'
    BY <1>7, <2>2, <2>3 DEF InstallTransition, LiveSound, BackupSound
  <2>5. Requests' /\ Pending' /\ Handed'
    BY <1>7 DEF InstallTransition, ServerUnchanged, Requests, Pending, Handed
  <2> QED
    BY <2>4, <2>5
<1>8. ASSUME NEW e \in DOMAIN epochs, Revoke(e), ServerUnchanged PROVE IInv'
  <2>1. Sound(epochs, [f \in DOMAIN markers \cup {e} |-> IF f = e THEN receipts ELSE markers[f]], receipts)
    BY RevokeKeepsSound DEF LiveSound
  <2>2. LiveSound' /\ BackupSound'
    BY <1>8, <2>1 DEF Revoke, LiveSound, BackupSound
  <2>3. Requests' /\ Pending' /\ Handed'
    BY <1>8 DEF ServerUnchanged, Requests, Pending, Handed, Revoke
  <2> QED
    BY <2>2, <2>3
<1>9. ASSUME Backup, ServerUnchanged PROVE IInv'
  <2>1. LiveSound' /\ BackupSound'
    BY <1>9 DEF Backup, Database, LiveSound, BackupSound
  <2>2. Requests' /\ Pending' /\ Handed'
    BY <1>9 DEF ServerUnchanged, Requests, Pending, Handed, Backup
  <2> QED
    BY <2>1, <2>2
<1>10. ASSUME RestoreDatabase PROVE IInv'
  <2>1. LiveSound' /\ BackupSound'
    BY <1>10 DEF RestoreDatabase, Restore, LiveSound, BackupSound
  <2>2. Requests' /\ Pending' /\ Handed'
    BY <1>10, AuthorityAssumption DEF RestoreDatabase, Restore, Requests, Pending, Handed
  <2> QED
    BY <2>1, <2>2
<1>11. CASE UNCHANGED vars
  BY <1>11 DEF vars, authorityVars, LiveSound, BackupSound, Requests, Pending, Handed
<1> QED
  BY <1>1, <1>2, <1>3, <1>4, <1>5, <1>6, <1>7, <1>8, <1>9, <1>10, <1>11 DEF Next

(* The inductive invariant: what is live, what a backup holds and what is  *)
(* in flight agree with what was handed out.                               *)
THEOREM AuthorityInvariant == Spec => []IInv
<1> QED
  BY InitSound, StepSound, PTL DEF Spec

(* The tables and the requests in progress keep their types, and a key has *)
(* one epoch.                                                              *)
THEOREM TypesHold == Spec => []TypeOK
<1>1. IInv => TypeOK
  BY DEF IInv, LiveSound, Sound, Rows, Distinct, Requests, Pending, Handed, TypeOK
<1> QED
  BY <1>1, AuthorityInvariant, PTL

(* For any number of keys, branches, API processes and restores: the seal  *)
(* of an epoch is exactly what earlier epochs had issued.                  *)
THEOREM SealsAreExact == Spec => []SealExact
<1>1. IInv => SealExact
  BY DEF IInv, LiveSound, Sound, Seals, SealExact, Active
<1> QED
  BY <1>1, AuthorityInvariant, PTL

(* A marker stops its epoch at once, although receipts are signed before   *)
(* they are stored.                                                        *)
THEOREM MarkersStop == Spec => []MarkerStops
<1>1. IInv => MarkerStops
  BY DEF IInv, LiveSound, Sound, Stops, MarkerStops
<1> QED
  BY <1>1, AuthorityInvariant, PTL

(* Every recovery epoch follows a marked epoch.                            *)
THEOREM EveryBreakHasCause == Spec => []BreaksHaveCause
<1>1. IInv => BreaksHaveCause
  BY DEF IInv, LiveSound, Sound, Causes, BreaksHaveCause, Active, Revoked
<1> QED
  BY <1>1, AuthorityInvariant, PTL

(* A step of the server is a step of the abstract history or leaves it     *)
(* alone: signing ahead of time never shows.                               *)
LEMMA StepImplements == ASSUME IInv, [Next]_vars PROVE [AuthorityNext]_authorityVars
<1> USE DEF IInv
<1>1. ASSUME NEW v \in Servers, NEW k \in Keys, Start(v, k) PROVE UNCHANGED authorityVars
  BY <1>1 DEF Start
<1>2. ASSUME NEW v \in Servers, NEW s \in Scopes, NEW c \in Commits, Sign(v, s, c)
      PROVE  UNCHANGED authorityVars
  BY <1>2 DEF Sign
<1>3. ASSUME NEW s \in Scopes, Store(s) PROVE AuthorityNext
  <2>1. signing[s].entry \in Entries
    BY <1>3, PendingIsReceipt DEF Store
  <2>2. PICK c \in Commits, k \in Keys : signing[s].entry = [commit |-> c, key |-> k]
    BY <2>1 DEF Entries
  <2>3. Len(receipts[s]) < MaxReceipts
    BY <1>3 DEF Store, Pending
  <2>4. Issue(s, c, k)
    BY <1>3, <2>2, <2>3 DEF Store, MayStore, Issue, MayIssue
  <2> QED
    BY <2>4 DEF AuthorityNext
<1>4. ASSUME NEW s \in Scopes, Abort(s) PROVE UNCHANGED authorityVars
  BY <1>4 DEF Abort
<1>5. ASSUME NEW k \in Keys, Install(k), ServerUnchanged PROVE AuthorityNext
  BY <1>5 DEF AuthorityNext
<1>6. ASSUME NEW kind \in {"rotation", "recovery"}, NEW k \in Keys, SignStatement(kind, k)
      PROVE  UNCHANGED authorityVars
  BY <1>6 DEF SignStatement
<1>7. ASSUME NEW t \in statements, InstallTransition(t) PROVE AuthorityNext
  <2>1. t.kind \in {"rotation", "recovery"} /\ t.new \in Keys
    BY DEF Requests, Statements
  <2>2. MayContinue(t.kind, t.new) /\ t.seal = receipts /\ t.old = ActiveKey
    BY <1>7 DEF InstallTransition, Fits, MayContinue
  <2>3. Transition(t.kind, t.new)
    BY <1>7, <2>2 DEF InstallTransition, Transition
  <2> QED
    BY <2>1, <2>3 DEF AuthorityNext
<1>8. ASSUME NEW e \in DOMAIN epochs, Revoke(e), ServerUnchanged PROVE AuthorityNext
  BY <1>8 DEF AuthorityNext
<1>9. ASSUME Backup, ServerUnchanged PROVE AuthorityNext
  BY <1>9 DEF AuthorityNext
<1>10. ASSUME RestoreDatabase PROVE AuthorityNext
  BY <1>10 DEF AuthorityNext, RestoreDatabase
<1>11. CASE UNCHANGED vars
  BY <1>11 DEF vars
<1> QED
  BY <1>1, <1>2, <1>3, <1>4, <1>5, <1>6, <1>7, <1>8, <1>9, <1>10, <1>11 DEF Next

(* The server implements the abstract history that ReceiptTrust's clients  *)
(* are checked against.                                                    *)
THEOREM AuthorityImplementsHistory == Spec => ImplementsHistory
<1>1. Init => AuthorityInit
  BY DEF Init
<1> QED
  BY <1>1, StepImplements, AuthorityInvariant, PTL DEF Spec, ImplementsHistory, AuthoritySpec

(* All that the authority promises of its tables at once, for any keys,    *)
(* branches, processes and restores.                                       *)
THEOREM AuthorityStaysSound == Spec => []AuthoritySound
  BY TypesHold, SealsAreExact, MarkersStop, EveryBreakHasCause, PTL DEF AuthoritySound
=============================================================================
