---------------------------- MODULE RefAuthority ----------------------------
(***************************************************************************)
(* The server's receipt authority in detail.  API processes sign a receipt *)
(* and then store it; operators export the state, sign a statement offline *)
(* and later install it; a process keeps the key it was started with.      *)
(* Installing, revoking and storing exclude each other by a table lock on  *)
(* project_ref_event, so each is one step.                                 *)
(***************************************************************************)
EXTENDS AuthorityHistory

CONSTANTS
    Servers,       \* API processes
    MaxStatements  \* bound on statements signed offline

ASSUME ServerAssumption == NoKey \notin Keys /\ MaxStatements \in Nat

Statements ==
    [kind : {"rotation", "recovery"}, from : Nat, old : Keys, new : Keys, seal : Histories]
NoReceipt == [server |-> "none"]

VARIABLES
    mounted,       \* server -> the key it started with
    signing,       \* scope -> the receipt a request has signed and not yet stored
    statements     \* statements signed offline

vars == <<authorityVars, mounted, signing, statements>>

Init ==
    /\ AuthorityInit
    /\ mounted = [v \in Servers |-> NoKey]
    /\ signing = [s \in Scopes |-> NoReceipt]
    /\ statements = {}

-----------------------------------------------------------------------------
(***************************************************************************)
(* API processes.                                                          *)
(***************************************************************************)

(* A mutant: a request survives the restart of its process.                *)
StartKeeping(v, k) ==
    /\ Active > 0
    /\ k = ActiveKey
    /\ mounted[v] # k
    /\ mounted' = [mounted EXCEPT ![v] = k]
    /\ UNCHANGED <<authorityVars, signing, statements>>

(* check_signer, the startup gate: a revoked active epoch still starts.    *)
(* The requests of the process before the restart are gone.                *)
Start(v, k) ==
    /\ Active > 0
    /\ k = ActiveKey
    /\ mounted[v] # k
    /\ mounted' = [mounted EXCEPT ![v] = k]
    /\ signing' = [s \in Scopes |-> IF signing[s].server = v THEN NoReceipt ELSE signing[s]]
    /\ UNCHANGED <<authorityVars, statements>>

(* advance up to the insert, with the project's advisory lock held.        *)
Sign(v, s, c) ==
    /\ mounted[v] # NoKey
    /\ signing[s] = NoReceipt
    /\ Active > 0 /\ ~Revoked(Active)
    /\ ActiveKey = mounted[v]
    /\ Len(receipts[s]) < MaxReceipts
    /\ signing' = [signing EXCEPT ![s] =
                      [server |-> v, entry |-> [commit |-> c, key |-> mounted[v]]]]
    /\ UNCHANGED <<authorityVars, mounted, statements>>

(* A mutant: the insert trusts the check made before signing.              *)
MayStoreAny(k) == TRUE

(* project_ref_event_issuer_guard, at the moment of the insert.            *)
MayStore(k) == Active > 0 /\ ~Revoked(Active) /\ ActiveKey = k

(* The insert and the commit.                                              *)
Store(s) ==
    /\ signing[s] # NoReceipt
    /\ MayStore(signing[s].entry.key)
    /\ receipts' = [receipts EXCEPT ![s] = Append(@, signing[s].entry)]
    /\ issued' = issued \cup {<<s, receipts'[s]>>}
    /\ signing' = [signing EXCEPT ![s] = NoReceipt]
    /\ UNCHANGED <<epochs, markers, links, backup, restores, mounted, statements>>

(* A refusal, a timeout or a crash of the process rolls back.              *)
Abort(s) ==
    /\ signing[s] # NoReceipt
    /\ signing' = [signing EXCEPT ![s] = NoReceipt]
    /\ UNCHANGED <<authorityVars, mounted, statements>>

-----------------------------------------------------------------------------
(***************************************************************************)
(* Operators.                                                              *)
(***************************************************************************)
ServerUnchanged == UNCHANGED <<mounted, signing, statements>>

(* state, then rotate (offline), which refuses a kind that does not fit    *)
(* the marker and a key of an earlier epoch.                               *)
SignStatement(kind, k) ==
    /\ MayContinue(kind, k)
    /\ Cardinality(statements) < MaxStatements
    /\ statements' = statements \cup
          {[kind |-> kind, from |-> Active, old |-> ActiveKey, new |-> k, seal |-> receipts]}
    /\ UNCHANGED <<authorityVars, mounted, signing>>

(* A mutant: the seal is not compared under the lock.                      *)
FitsAnySeal(t) ==
    /\ Active > 0 /\ t.from = Active /\ t.old = ActiveKey
    /\ Revoked(Active) <=> t.kind = "recovery"
    /\ t.new \notin EpochKeys

(* A mutant: the marker is not read again under the lock.                  *)
FitsStaleMarker(t) ==
    /\ Active > 0 /\ t.from = Active /\ t.old = ActiveKey
    /\ t.new \notin EpochKeys
    /\ t.seal = receipts

(* A mutant: a recovery is installed without looking for its marker.       *)
FitsUnmarked(t) ==
    /\ Active > 0 /\ t.from = Active /\ t.old = ActiveKey
    /\ t.kind = "rotation" => ~Revoked(Active)
    /\ t.new \notin EpochKeys
    /\ t.seal = receipts

(* install_transition: continues the active epoch, has the kind its marker *)
(* asks for, a fresh key and the exact seal.                               *)
Fits(t) ==
    /\ Active > 0 /\ t.from = Active /\ t.old = ActiveKey
    /\ Revoked(Active) <=> t.kind = "recovery"
    /\ t.new \notin EpochKeys
    /\ t.seal = receipts
InstallTransition(t) ==
    /\ t \in statements
    /\ Fits(t)
    /\ epochs' = Append(epochs, [key |-> t.new, kind |-> t.kind, seal |-> t.seal])
    /\ links' = IF t.kind = "rotation" THEN links \cup {<<t.old, t.new>>} ELSE links
    /\ UNCHANGED <<markers, receipts, issued, backup, restores>>
    /\ ServerUnchanged

(* A restore ends every request; the processes keep running.               *)
RestoreDatabase ==
    /\ Restore
    /\ signing' = [s \in Scopes |-> NoReceipt]
    /\ UNCHANGED <<mounted, statements>>

Next ==
    \/ \E v \in Servers, k \in Keys : Start(v, k)
    \/ \E v \in Servers, s \in Scopes, c \in Commits : Sign(v, s, c)
    \/ \E s \in Scopes : Store(s) \/ Abort(s)
    \/ \E k \in Keys : Install(k) /\ ServerUnchanged
    \/ \E kind \in {"rotation", "recovery"}, k \in Keys : SignStatement(kind, k)
    \/ \E t \in statements : InstallTransition(t)
    \/ \E e \in DOMAIN epochs : Revoke(e) /\ ServerUnchanged
    \/ Backup /\ ServerUnchanged
    \/ RestoreDatabase

Spec == Init /\ [][Next]_vars

-----------------------------------------------------------------------------
(***************************************************************************)
(* Properties.                                                             *)
(***************************************************************************)
(* The tables, the requests in progress and the operators' files; a key    *)
(* belongs to one epoch only, markers name existing epochs, and a request  *)
(* signs with the key its process was started with.                        *)
TypeOK ==
    /\ epochs \in Seq(Epochs)
    /\ \A e, f \in DOMAIN epochs : epochs[e].key = epochs[f].key => e = f
    /\ DOMAIN markers \subseteq DOMAIN epochs
    /\ \A e \in DOMAIN markers : markers[e] \in Histories
    /\ receipts \in Histories
    /\ mounted \in [Servers -> Keys \cup {NoKey}]
    /\ signing \in [Scopes -> {NoReceipt} \cup [server : Servers, entry : Entries]]
    /\ \A s \in Scopes : signing[s] # NoReceipt =>
                            signing[s].entry.key = mounted[signing[s].server]
    /\ statements \subseteq Statements
    /\ issued \subseteq Scopes \X Seq(Entries)
    /\ restores \in 0..MaxRestores

(* The authority implements its abstract history: whatever is signed ahead *)
(* of time takes effect at one instant, or not at all.                     *)
ImplementsHistory == AuthoritySpec

(* The authority's tables at every moment, with requests and statements    *)
(* signed ahead of time and backups restored: exact seals, markers that    *)
(* stop their epoch, breaks with a cause.                                  *)
AuthoritySound == TypeOK /\ SealExact /\ MarkerStops /\ BreaksHaveCause
=============================================================================
