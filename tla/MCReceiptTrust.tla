--------------------------- MODULE MCReceiptTrust ---------------------------
(***************************************************************************)
(* The receipt authority and the clients that trust it, for TLC.  A        *)
(* behaviour is of one of three kinds, chosen by Init:                     *)
(*   "servers"  the processes and operators of the server, in detail;      *)
(*   "fork"     one sync command at a time, with the key configured once,  *)
(*              against a server that may restore a backup of a time       *)
(*              before any marker and any rotation;                        *)
(*   "shared"   two commands at once on one journal, one of them from a    *)
(*              file, with an operator's branch rotation.                  *)
(***************************************************************************)
EXTENDS RefAuthority, ReceiptTrust, TLC

VARIABLE kind

trustworld == <<vars, client, kind>>

Running == {p \in Processes : cmd[p] # Idle}

Exporting == {p \in Processes : cmd[p].phase \in {"exporting", "bundle", "vetted"}}

MCInit == Init /\ TrustInit /\ kind \in {"servers", "fork", "shared"}

Clients ==
    /\ TrustNext
    /\ UNCHANGED <<mounted, signing, statements>>
MCNext ==
    /\ UNCHANGED kind
    /\ \/ kind = "servers" /\ Next /\ UNCHANGED client
       \/ /\ kind = "fork" /\ Clients
          /\ Len(backup'.epochs) <= 1 /\ DOMAIN backup'.markers = {}
          /\ rotations' = {} /\ Cardinality(Running') <= 1
          /\ Exporting' = {} /\ (ReceiptCommand => Configure)
          /\ configured # NoKey => UNCHANGED configured
       \/ /\ kind = "shared" /\ Clients /\ UNCHANGED <<backup, restores>>
          /\ Cardinality(Exporting') <= 1
          /\ configured # NoKey => UNCHANGED configured

MCSpec == MCInit /\ [][MCNext]_trustworld

Symmetry ==
    Permutations(Keys) \cup Permutations(Scopes) \cup Permutations(Servers)
    \cup Permutations(Commits) \cup Permutations(Processes)
=============================================================================
