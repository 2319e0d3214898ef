-------------------------- MODULE SelectionContract --------------------------
(***************************************************************************)
(* What selectEntriesForDeletion returns when all entries have size 1, in  *)
(* closed form: what PruningService takes from PruneSelection, where       *)
(* UnitSelection checks it against the loops of the code.                  *)
(*                                                                         *)
(* X is the set of expired entries, O of those not accessed for a day, K   *)
(* of those accessed within the last day; n is bytesToRemove.              *)
(***************************************************************************)
EXTENDS Integers, FiniteSets, FiniteSetsExt

(* The selections the three passes can arrive at: everything expired, then  *)
(* as many old entries as are missing, then recent ones.  Which ones, among *)
(* entries of one class, depends on the sort and on what the second pass    *)
(* skips.                                                                   *)
Selections(X, O, K, n) ==
    LET missing == n - Cardinality(X)
        rest == missing - Cardinality(O)
    IN  IF missing <= 0 THEN {X}
        ELSE IF rest <= 0 THEN {X \cup S : S \in kSubset(missing, O)}
        ELSE IF rest >= Cardinality(K) THEN {X \cup O \cup K}
        ELSE {X \cup O \cup S : S \in kSubset(rest, K)}

(* The second pass selects every other candidate.  When the first half of   *)
(* its steps does not suffice, it goes on into the removed part of the      *)
(* array: harmless when the newest candidate, whose copies are there, is    *)
(* one that the heuristics keep, and a panic otherwise.                     *)
Panics(X, O, K, n) ==
    /\ K = {} /\ Cardinality(O) >= 2
    /\ n - Cardinality(X) > (Cardinality(O) + 1) \div 2
=============================================================================
