-------------------------- MODULE AuthorityHistory --------------------------
(***************************************************************************)
(* What the receipt authority promises: receipts extend their branch under *)
(* the key of the active, unmarked epoch; an epoch continues the one       *)
(* before it at one instant, sealing the receipts of that instant.         *)
(* RefAuthority implements this although it signs a receipt before storing *)
(* it and a statement before installing it.                                *)
(*                                                                         *)
(* A receipt names the address of its predecessor, so it is identified     *)
(* with the sequence of (commit, issuer key) entries that ends in it.      *)
(***************************************************************************)
EXTENDS Naturals, Sequences, FiniteSets

CONSTANTS
    Keys,          \* signing keys
    NoKey,         \* no key at all
    Scopes,        \* branches of different projects
    Commits,
    MaxReceipts,   \* bound on the generation of a branch
    MaxRestores    \* bound on restores of a backup

ASSUME AuthorityAssumption == MaxReceipts \in Nat /\ MaxRestores \in Nat

Entries == [commit : Commits, key : Keys]
Histories == [Scopes -> Seq(Entries)]
Epochs ==
    [key : Keys, kind : {"genesis", "rotation", "recovery"}, seal : Histories]

VARIABLES
    epochs,        \* the epoch rows: key, kind, seal; the newest is active
    markers,       \* revoked epoch -> the receipts there were when it was marked
    receipts,      \* scope -> stored receipts, oldest first
    issued,        \* <<scope, receipt>> that ever left the server
    links,         \* <<old, new>> keys of every rotation ever installed
    backup,        \* the last backup of the database
    restores

authorityVars == <<epochs, markers, receipts, issued, links, backup, restores>>

Active == Len(epochs)
ActiveKey == epochs[Active].key
Revoked(e) == e \in DOMAIN markers
EpochKeys == {epochs[e].key : e \in DOMAIN epochs}
Database == [epochs |-> epochs, markers |-> markers, receipts |-> receipts]

AuthorityInit ==
    /\ epochs = <<>>
    /\ markers = [e \in {} |-> <<>>]
    /\ receipts = [s \in Scopes |-> <<>>]
    /\ issued = {}
    /\ links = {}
    /\ backup = Database
    /\ restores = 0

(* project_ref_event_issuer_guard, at the moment of the insert.            *)
MayIssue(k) == Active > 0 /\ ~Revoked(Active) /\ ActiveKey = k

Issue(s, c, k) ==
    /\ MayIssue(k)
    /\ Len(receipts[s]) < MaxReceipts
    /\ receipts' = [receipts EXCEPT ![s] = Append(@, [commit |-> c, key |-> k])]
    /\ issued' = issued \cup {<<s, receipts'[s]>>}
    /\ UNCHANGED <<epochs, markers, links, backup, restores>>

Install(k) ==
    /\ epochs = <<>>
    /\ epochs' = <<[key |-> k, kind |-> "genesis", seal |-> receipts]>>
    /\ UNCHANGED <<markers, receipts, issued, links, backup, restores>>

(* A transition has the kind the marker of the active epoch asks for.      *)
MayContinue(kind, k) ==
    /\ Active > 0
    /\ Revoked(Active) <=> kind = "recovery"
    /\ k \notin EpochKeys

Transition(kind, k) ==
    /\ MayContinue(kind, k)
    /\ epochs' = Append(epochs, [key |-> k, kind |-> kind, seal |-> receipts])
    /\ links' = IF kind = "rotation" THEN links \cup {<<ActiveKey, k>>} ELSE links
    /\ UNCHANGED <<markers, receipts, issued, backup, restores>>

(* revoke: one marker for any epoch, never changed.                        *)
Revoke(e) ==
    /\ e \in DOMAIN epochs
    /\ ~Revoked(e)
    /\ markers' = [f \in DOMAIN markers \cup {e} |-> IF f = e THEN receipts ELSE markers[f]]
    /\ UNCHANGED <<epochs, receipts, issued, links, backup, restores>>

(* The operators' backup and restore of the whole database.                *)
Backup ==
    /\ restores < MaxRestores
    /\ backup # Database
    /\ backup' = Database
    /\ UNCHANGED <<epochs, markers, receipts, issued, links, restores>>
Restore ==
    /\ restores < MaxRestores
    /\ backup # Database
    /\ epochs' = backup.epochs
    /\ markers' = backup.markers
    /\ receipts' = backup.receipts
    /\ restores' = restores + 1
    /\ UNCHANGED <<issued, links, backup>>

AuthorityNext ==
    \/ \E s \in Scopes, c \in Commits, k \in Keys : Issue(s, c, k)
    \/ \E k \in Keys : Install(k)
    \/ \E kind \in {"rotation", "recovery"}, k \in Keys : Transition(kind, k)
    \/ \E e \in DOMAIN epochs : Revoke(e)
    \/ Backup
    \/ Restore

AuthoritySpec == AuthorityInit /\ [][AuthorityNext]_authorityVars

-----------------------------------------------------------------------------
(***************************************************************************)
(* Properties.                                                             *)
(***************************************************************************)

(* The seal of an epoch is exact: of every branch it names just the        *)
(* receipts signed by the keys of earlier epochs.                          *)
SealExact ==
    \A e \in 2..Active, s \in Scopes :
        LET sealed == epochs[e].seal[s]
        IN  /\ Len(sealed) <= Len(receipts[s])
            /\ \A i \in 1..Len(sealed) : sealed[i] = receipts[s][i]
            /\ \A i \in DOMAIN receipts[s] :
                 i <= Len(sealed) <=> \E f \in 1..e-1 : receipts[s][i].key = epochs[f].key

(* A marker stops an epoch at once: no receipt of its key is stored after  *)
(* the marker is.                                                          *)
MarkerStops ==
    \A e \in DOMAIN markers, s \in Scopes : \A i \in DOMAIN receipts[s] :
        receipts[s][i].key = epochs[e].key => i <= Len(markers[e][s])

(* A break always has a visible cause: the epoch before a recovery carries *)
(* a marker.                                                               *)
BreaksHaveCause ==
    \A e \in 2..Active : epochs[e].kind = "recovery" => Revoked(e - 1)
=============================================================================
