---------------------------- MODULE PruneSelection ----------------------------
(***************************************************************************)
(* selectEntriesForDeletion of the in-server pruner                        *)
(* (internal/pruning/service.go), one loop iteration per step.             *)
(*                                                                         *)
(* The second pass ranges over the slice candidates while it removes from  *)
(* it: `range` keeps the length the slice had, the removal shifts the      *)
(* backing array, which both share.  So the backing array (cand) and the   *)
(* current length (live) are separate here, and slicing beyond live is the *)
(* panic that it is in Go.                                                 *)
(*                                                                         *)
(* Entries are named by their index in the listing.  An age is the number  *)
(* of whole days since LastAccessed, when the selection starts.            *)
(***************************************************************************)
EXTENDS Integers, Sequences, SelectionContract

CONSTANTS
    MaxEntries,     \* bound on the entries of the listing
    Sizes,          \* sizes of entries
    Ages,           \* ages of entries, in days
    Needs,          \* values of bytesToRemove (positive: RunPruning)
    RetentionDays,  \* Config.RetentionDays
    LargeSize       \* 100 MB in the unit of Sizes

ASSUME SelectionAssumption ==
    /\ MaxEntries \in Nat /\ Sizes \subseteq Nat /\ Ages \subseteq Nat
    /\ Needs \subseteq Nat \ {0} /\ RetentionDays \in Nat /\ LargeSize \in Nat

VARIABLES
    entries,    \* the listing: what List returned
    need,       \* bytesToRemove
    cand,       \* the backing array of candidates
    live,       \* len(candidates)
    toDelete,   \* the selection so far, in order of deletion
    pass,       \* expire, sort, lru, more, done, or panic
    i           \* the loop index

vars == <<entries, need, cand, live, toDelete, pass, i>>

Entry == [size : Sizes, age : Ages]
Index == DOMAIN entries
Selected == {toDelete[j] : j \in DOMAIN toDelete}

Expired(e) == entries[e].age > RetentionDays

(* Mutant: the last test is turned round.                                   *)
ShouldDeleteRecent(e) ==
    \/ entries[e].age > 7
    \/ entries[e].size > LargeSize /\ entries[e].age > 3
    \/ entries[e].age < 1

ShouldDelete(e) ==
    \/ entries[e].age > 7
    \/ entries[e].size > LargeSize /\ entries[e].age > 3
    \/ ~(entries[e].age < 1)

Init ==
    /\ entries \in UNION {[1 .. n -> Entry] : n \in 0 .. MaxEntries}
    /\ need \in Needs
    /\ cand = <<>> /\ live = 0 /\ toDelete = <<>>
    /\ pass = "expire" /\ i = 1

Select(e) ==
    /\ toDelete' = Append(toDelete, e)
    /\ need' = need - entries[e].size

-----------------------------------------------------------------------------
(* Mutant: the length grows for the entries of both branches.               *)
ExpireMiscounting ==
    /\ pass = "expire" /\ i <= Len(entries)
    /\ i' = i + 1
    /\ live' = live + 1
    /\ \/ Expired(i) /\ Select(i) /\ UNCHANGED cand
       \/ ~Expired(i) /\ cand' = Append(cand, i) /\ UNCHANGED <<toDelete, need>>
    /\ UNCHANGED <<entries, pass>>

(* First pass: what is older than the retention period goes, the rest are   *)
(* candidates.                                                              *)
Expire ==
    /\ pass = "expire" /\ i <= Len(entries)
    /\ i' = i + 1
    /\ \/ Expired(i) /\ Select(i) /\ UNCHANGED <<cand, live>>
       \/ /\ ~Expired(i)
          /\ cand' = Append(cand, i)
          /\ live' = live + 1
          /\ UNCHANGED <<toDelete, need>>
    /\ UNCHANGED <<entries, pass>>

ExpireEnds ==
    /\ pass = "expire" /\ i > Len(entries)
    /\ pass' = IF need > 0 /\ live > 0 THEN "sort" ELSE "done"
    /\ UNCHANGED <<entries, need, cand, live, toDelete, i>>

(* sort.Slice is not stable: any order with the oldest first.               *)
OldestFirst(s) ==
    \A a, b \in DOMAIN s : a < b => entries[s[a]].age >= entries[s[b]].age

Sort ==
    /\ pass = "sort"
    /\ \E p \in [1 .. live -> 1 .. live] :
          /\ \A a, b \in 1 .. live : a # b => p[a] # p[b]
          /\ cand' = [a \in 1 .. live |-> cand[p[a]]]
          /\ OldestFirst(cand')
    /\ pass' = "lru" /\ i' = 1
    /\ UNCHANGED <<entries, need, live, toDelete>>

(* append(candidates[:i], candidates[i+1:]...) on the shared array.         *)
Shifted ==
    [a \in 1 .. Len(cand) |->
        IF i <= a /\ a < live THEN cand[a + 1] ELSE cand[a]]

(* Second pass, the entry is kept for now.                                  *)
LruKeep ==
    /\ pass = "lru" /\ i <= Len(cand) /\ need > 0
    /\ ~ShouldDelete(cand[i])
    /\ i' = i + 1
    /\ UNCHANGED <<entries, need, cand, live, toDelete, pass>>

(* Mutant: the entry is selected and stays a candidate.                     *)
LruTakeKeeping ==
    /\ pass = "lru" /\ i <= Len(cand) /\ need > 0
    /\ ShouldDelete(cand[i]) /\ i <= live
    /\ Select(cand[i])
    /\ i' = i + 1
    /\ UNCHANGED <<entries, cand, live, pass>>

(* Second pass, the entry is selected and removed from the candidates.      *)
LruTake ==
    /\ pass = "lru" /\ i <= Len(cand) /\ need > 0
    /\ ShouldDelete(cand[i]) /\ i <= live
    /\ Select(cand[i])
    /\ cand' = Shifted
    /\ live' = live - 1
    /\ i' = i + 1
    /\ UNCHANGED <<entries, pass>>

(* Second pass, the index has left the shortened slice: candidates[i+1:]    *)
(* is out of range.                                                         *)
LruPanics ==
    /\ pass = "lru" /\ i <= Len(cand) /\ need > 0
    /\ ShouldDelete(cand[i]) /\ i > live
    /\ Select(cand[i])
    /\ pass' = "panic"
    /\ UNCHANGED <<entries, cand, live, i>>

(* Mutant: the third pass is missing.                                       *)
LruEndsSelection ==
    /\ pass = "lru" /\ (i > Len(cand) \/ need <= 0)
    /\ pass' = "done" /\ i' = 1
    /\ UNCHANGED <<entries, need, cand, live, toDelete>>

LruEnds ==
    /\ pass = "lru" /\ (i > Len(cand) \/ need <= 0)
    /\ pass' = "more" /\ i' = 1
    /\ UNCHANGED <<entries, need, cand, live, toDelete>>

(* Mutant: the third pass takes every candidate left.                       *)
MoreUnconditionally ==
    /\ pass = "more" /\ i <= live
    /\ Select(cand[i])
    /\ i' = i + 1
    /\ UNCHANGED <<entries, cand, live, pass>>

(* Third pass: what is left of the candidates, as long as space is needed.  *)
More ==
    /\ pass = "more" /\ i <= live /\ need > 0
    /\ Select(cand[i])
    /\ i' = i + 1
    /\ UNCHANGED <<entries, cand, live, pass>>

MoreEnds ==
    /\ pass = "more" /\ (i > live \/ need <= 0)
    /\ pass' = "done"
    /\ UNCHANGED <<entries, need, cand, live, toDelete, i>>

Next ==
    \/ Expire \/ ExpireEnds \/ Sort
    \/ LruKeep \/ LruTake \/ LruPanics \/ LruEnds
    \/ More \/ MoreEnds

Spec == Init /\ [][Next]_vars

-----------------------------------------------------------------------------
TypeOK ==
    /\ entries \in Seq(Entry)
    /\ need \in Int
    /\ cand \in Seq(Index)
    /\ live \in 0 .. Len(cand)
    /\ toDelete \in Seq(Index)
    /\ pass \in {"expire", "sort", "lru", "more", "done", "panic"}
    /\ i \in Nat \ {0}

(* No entry is deleted (and counted) twice, although removed entries stay   *)
(* in the part of the array that the second pass still ranges over: reading *)
(* one of them again would be beyond the slice, a panic.                    *)
NoDuplicates ==
    pass # "panic" =>
        \A a, b \in DOMAIN toDelete : a # b => toDelete[a] # toDelete[b]

(* A selection that was returned frees what was asked for or everything,    *)
(* and holds every expired entry.                                           *)
EnoughSelected ==
    pass = "done" =>
        /\ need <= 0 \/ Selected = Index
        /\ \A e \in Index : Expired(e) => e \in Selected

(* Only expired entries go beyond what was asked for: without the last      *)
(* entry selected by need, too little would be freed.                       *)
NothingTakenInVain ==
    \A j \in DOMAIN toDelete :
        ~Expired(toDelete[j]) => need + entries[toDelete[Len(toDelete)]].size > 0

(* An entry accessed within the last day goes only if every older one goes: *)
(* the passes together protect recent entries, though the second skips.     *)
RecentGoLast ==
    pass = "done" =>
        \A e, f \in Index :
            e \in Selected /\ ~Expired(e) /\ entries[e].age < 1
                /\ entries[f].age >= 1 => f \in Selected

(* When all entries have size 1, what the loops select is one of the sets   *)
(* of SelectionContract, and they panic exactly when it says so.  It fixes  *)
(* how many go of each class, not which; asked is the bytesToRemove that    *)
(* the selection was called with.                                           *)
UnitSelection ==
    LET X == {e \in Index : Expired(e)}
        O == {e \in Index \ X : entries[e].age >= 1}
        K == Index \ (X \cup O)
        asked == need + Len(toDelete)
    IN  (\A e \in Index : entries[e].size = 1) =>
        /\ pass = "done" => /\ Selected \in Selections(X, O, K, asked)
                            /\ ~Panics(X, O, K, asked)
        /\ pass = "panic" => Panics(X, O, K, asked)
=============================================================================
