---------------------------- MODULE Reachability ----------------------------
(***************************************************************************)
(* What a walk over immutable content visits.  Every traversal of the      *)
(* engine (object graphs below a state root, commit ancestry, provenance)  *)
(* keeps a set of seen addresses and a queue of pending ones; what it has  *)
(* seen when the queue is empty is the least set that contains the start   *)
(* and is closed under the references.                                     *)
(***************************************************************************)
Closed(next, T) == \A x \in T : next[x] \subseteq T
Least(U, next, S) ==
    {x \in U : \A T \in SUBSET U : S \subseteq T /\ Closed(next, T) => x \in T}
=============================================================================
