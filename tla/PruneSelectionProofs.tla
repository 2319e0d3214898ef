------------------------- MODULE PruneSelectionProofs -------------------------
(***************************************************************************)
(* What the three passes of the selection guarantee for listings of any    *)
(* length and any sizes, ages and limits.  The argument follows the slice  *)
(* of candidates: up to its length it holds, once each and oldest first,   *)
(* exactly the entries not yet selected, although the array behind it goes *)
(* on holding removed ones.                                                *)
(***************************************************************************)
EXTENDS PruneSelection, FiniteSetTheorems, SequenceTheorems, TLAPS

Distinct(s, n) == \A a, b \in 1 .. n : a # b => s[a] # s[b]

(* The candidates from position k on.                                       *)
Rest(k) == {cand[a] : a \in k .. live}

Sorted == \A a, b \in 1 .. live :
              a < b => entries[cand[a]].age >= entries[cand[b]].age

ExpiredSelected == \A e \in Index : Expired(e) => e \in Selected

NothingTwice ==
    pass # "panic" => Distinct(toDelete, Len(toDelete)) /\ Distinct(cand, live)

ExpireInv ==
    pass \in {"expire", "sort"} =>
        /\ live = Len(cand)
        /\ i \in 1 .. Len(entries) + 1
        /\ pass = "sort" => i = Len(entries) + 1
        /\ Selected = {e \in 1 .. i - 1 : Expired(e)}
        /\ Rest(1) = {e \in 1 .. i - 1 : ~Expired(e)}

LruInv ==
    pass = "lru" =>
        /\ Sorted /\ ExpiredSelected
        /\ Rest(1) = Index \ Selected
        /\ \A e \in Selected : Expired(e) \/ entries[e].age >= 1

MoreInv ==
    pass = "more" =>
        /\ Sorted /\ ExpiredSelected
        /\ i <= live + 1
        /\ Rest(i) = Index \ Selected
        /\ \A e \in Selected :
              \/ Expired(e) \/ entries[e].age >= 1
              \/ \E a \in 1 .. i - 1 : cand[a] = e

(* How the second pass leaves the slice, whatever the sizes: one element     *)
(* shorter for each entry selected.  Behind it the array holds copies of the *)
(* newest candidate only, and when there is no recent entry every step       *)
(* selects, as long as the index is within the slice.                        *)
Removed == Len(cand) - live
Newest == cand[Len(cand)]

Outdated == {e \in Index : Expired(e)}
Old == {e \in Index \ Outdated : entries[e].age >= 1}
Recent == Index \ (Outdated \cup Old)
Asked == need + Len(toDelete)

ArrayInv ==
    pass = "lru" =>
        /\ Len(cand) = Cardinality(Index \ Outdated)
        /\ Len(toDelete) = Cardinality(Outdated) + Removed
        /\ \A a \in 1 .. Len(cand) :
              a > live \/ (a = live /\ i <= live) => cand[a] = Newest
        /\ \A e \in Index \ Outdated : entries[e].age >= entries[Newest].age
        /\ Recent = {} => i = Removed + 1 /\ 2 * i <= Len(cand) + 3

(* The selection panics exactly when its closed form says so.               *)
PanicInv ==
    (\A e \in Index : entries[e].size = 1) =>
        /\ pass \in {"more", "done"} => ~Panics(Outdated, Old, Recent, Asked)
        /\ pass = "panic" => Panics(Outdated, Old, Recent, Asked)

SelectionInv ==
    /\ TypeOK
    /\ NothingTwice
    /\ ExpireInv /\ LruInv /\ MoreInv
    /\ EnoughSelected /\ RecentGoLast
    /\ NothingTakenInVain

-----------------------------------------------------------------------------
LEMMA Entries ==
  ASSUME TypeOK
  PROVE  /\ Len(entries) \in Nat /\ Index = 1 .. Len(entries)
         /\ \A e \in Index : entries[e].size \in Nat /\ entries[e].age \in Nat
<1>1. entries \in Seq(Entry)
  BY DEF TypeOK
<1>2. Len(entries) \in Nat /\ Index = 1 .. Len(entries)
  BY <1>1 DEF Index
<1>3. \A e \in Index : entries[e] \in Entry
  BY <1>1, <1>2, ElementOfSeq
<1>4. QED
  BY <1>2, <1>3, SelectionAssumption DEF Entry

(* One entry more is selected, at the end.                                  *)
LEMMA SelectStep ==
  ASSUME TypeOK, NEW e \in Index, Select(e), entries' = entries
  PROVE  /\ Index' = Index
         /\ toDelete' \in Seq(Index) /\ need' \in Int
         /\ need' = need - entries[e].size /\ entries[e].size \in Nat
         /\ Len(toDelete') = Len(toDelete) + 1 /\ toDelete'[Len(toDelete')] = e
         /\ \A j \in DOMAIN toDelete' :
               \/ j = Len(toDelete')
               \/ j \in DOMAIN toDelete /\ toDelete'[j] = toDelete[j]
         /\ Selected' = Selected \cup {e}
         /\ Distinct(toDelete, Len(toDelete)) /\ e \notin Selected
                => Distinct(toDelete', Len(toDelete'))
<1>1. /\ toDelete' = Append(toDelete, e) /\ toDelete \in Seq(Index)
      /\ Len(toDelete) \in Nat /\ need \in Int
      /\ DOMAIN toDelete = 1 .. Len(toDelete) /\ Index' = Index
  BY DEF Select, TypeOK, Index
<1>2. /\ toDelete' \in Seq(Index) /\ Len(toDelete') = Len(toDelete) + 1
      /\ DOMAIN toDelete' = 1 .. Len(toDelete) + 1
      /\ \A j \in 1 .. Len(toDelete) : toDelete'[j] = toDelete[j]
      /\ toDelete'[Len(toDelete) + 1] = e
  BY <1>1
<1>3. entries[e].size \in Nat
  BY Entries
<1>4. need' = need - entries[e].size /\ need' \in Int
  BY <1>1, <1>3 DEF Select
<1>5. Selected' = Selected \cup {e}
  BY <1>1, <1>2 DEF Selected
<1>6. Distinct(toDelete, Len(toDelete)) /\ e \notin Selected
          => Distinct(toDelete', Len(toDelete'))
  BY <1>1, <1>2 DEF Distinct, Selected
<1>7. QED
  BY <1>1, <1>2, <1>3, <1>4, <1>5, <1>6

LEMMA SelectionInit == Init => SelectionInv
<1> SUFFICES ASSUME Init PROVE SelectionInv
  OBVIOUS
<1>1. PICK n \in 0 .. MaxEntries : entries \in [1 .. n -> Entry]
  BY DEF Init
<1>2. entries \in Seq(Entry) /\ Len(entries) = n /\ Len(entries) \in Nat
  BY <1>1, SelectionAssumption
<1>3. /\ cand = <<>> /\ live = 0 /\ toDelete = <<>> /\ pass = "expire" /\ i = 1
      /\ need \in Int
  BY SelectionAssumption DEF Init
<1>4. Selected = {} /\ Rest(1) = {}
  BY <1>3 DEF Selected, Rest
<1>5. TypeOK
  BY <1>2, <1>3 DEF TypeOK
<1>6. NothingTwice /\ ExpireInv /\ NothingTakenInVain
  BY <1>2, <1>3, <1>4 DEF NothingTwice, Distinct, ExpireInv, NothingTakenInVain
<1>7. LruInv /\ MoreInv /\ EnoughSelected /\ RecentGoLast
  BY <1>3 DEF LruInv, MoreInv, EnoughSelected, RecentGoLast
<1>8. QED
  BY <1>5, <1>6, <1>7 DEF SelectionInv

-----------------------------------------------------------------------------
(* The first pass keeps apart what it selects and what it keeps.            *)
LEMMA ExpireStep == SelectionInv /\ Expire => SelectionInv'
<1> SUFFICES ASSUME SelectionInv, Expire PROVE SelectionInv'
  OBVIOUS
<1>1. /\ TypeOK /\ NothingTwice /\ ExpireInv /\ NothingTakenInVain
      /\ pass = "expire" /\ pass' = "expire" /\ entries' = entries
      /\ i' = i + 1 /\ i <= Len(entries) /\ Index' = Index
  BY DEF SelectionInv, Expire, Index
<1>2. /\ Len(entries) \in Nat /\ Index = 1 .. Len(entries)
      /\ i \in Index /\ i \in Nat
      /\ \A e \in Index : entries[e].size \in Nat /\ entries[e].age \in Nat
  BY <1>1, Entries DEF TypeOK
<1>3. /\ live = Len(cand)
      /\ Selected = {e \in 1 .. i - 1 : Expired(e)}
      /\ Rest(1) = {e \in 1 .. i - 1 : ~Expired(e)}
      /\ Distinct(toDelete, Len(toDelete)) /\ Distinct(cand, live)
  BY <1>1 DEF ExpireInv, NothingTwice
<1>4. LruInv' /\ MoreInv' /\ EnoughSelected' /\ RecentGoLast'
  BY <1>1 DEF LruInv, MoreInv, EnoughSelected, RecentGoLast
<1>5. CASE Expired(i) /\ Select(i) /\ UNCHANGED <<cand, live>>
  <2>1. /\ Selected' = Selected \cup {i} /\ i \notin Selected
        /\ toDelete' \in Seq(Index) /\ need' \in Int
        /\ Distinct(toDelete', Len(toDelete'))
    BY <1>1, <1>2, <1>3, <1>5, SelectStep
  <2>2. TypeOK'
    BY <1>1, <1>2, <1>5, <2>1 DEF TypeOK
  <2>3. NothingTwice'
    BY <1>3, <1>5, <2>1 DEF NothingTwice, Distinct
  <2>4. Selected' = {e \in 1 .. i' - 1 : Expired(e)'}
    BY <1>1, <1>2, <1>3, <1>5, <2>1 DEF Expired
  <2>5. Rest(1)' = {e \in 1 .. i' - 1 : ~Expired(e)'}
    BY <1>1, <1>2, <1>3, <1>5 DEF Expired, Rest
  <2>6. ExpireInv'
    BY <1>1, <1>2, <1>3, <1>5, <2>4, <2>5 DEF ExpireInv
  <2>7. NothingTakenInVain'
    BY <1>1, <2>4 DEF NothingTakenInVain, Expired, Selected
  <2>8. QED
    BY <1>4, <2>2, <2>3, <2>6, <2>7 DEF SelectionInv
<1>6. CASE /\ ~Expired(i) /\ cand' = Append(cand, i) /\ live' = live + 1
           /\ UNCHANGED <<toDelete, need>>
  <2>1. /\ cand \in Seq(Index) /\ cand' \in Seq(Index)
        /\ Len(cand) \in Nat /\ Len(cand') = Len(cand) + 1
        /\ \A a \in 1 .. Len(cand) : cand'[a] = cand[a]
        /\ cand'[Len(cand) + 1] = i
    BY <1>1, <1>2, <1>6 DEF TypeOK
  <2>2. TypeOK'
    BY <1>1, <1>2, <1>3, <1>6, <2>1 DEF TypeOK
  <2>3. Rest(1)' = Rest(1) \cup {i}
    BY <1>3, <1>6, <2>1 DEF Rest
  <2>4. \A a \in 1 .. live : cand[a] # i
    <3>1. i \notin Rest(1)
      BY <1>2, <1>3
    <3>2. QED
      BY <3>1 DEF Rest
  <2>5. Distinct(cand', live')
    BY <1>3, <1>6, <2>1, <2>4 DEF Distinct
  <2>6. NothingTwice'
    BY <1>3, <1>6, <2>5 DEF NothingTwice
  <2>7. Selected' = Selected
    BY <1>6 DEF Selected
  <2>8. Selected' = {e \in 1 .. i' - 1 : Expired(e)'}
    BY <1>1, <1>2, <1>3, <1>6, <2>7 DEF Expired
  <2>9. Rest(1)' = {e \in 1 .. i' - 1 : ~Expired(e)'}
    BY <1>1, <1>2, <1>3, <1>6, <2>3 DEF Expired
  <2>10. ExpireInv'
    BY <1>1, <1>2, <1>3, <1>6, <2>1, <2>8, <2>9 DEF ExpireInv
  <2>11. NothingTakenInVain'
    BY <1>1, <1>6 DEF NothingTakenInVain, Expired
  <2>12. QED
    BY <1>4, <2>2, <2>6, <2>10, <2>11 DEF SelectionInv
<1>7. QED
  BY <1>5, <1>6 DEF Expire

(* The selection may be over after the first pass.                          *)
LEMMA ExpireEndsStep == SelectionInv /\ ExpireEnds => SelectionInv'
<1> SUFFICES ASSUME SelectionInv, ExpireEnds PROVE SelectionInv'
  OBVIOUS
<1>1. /\ TypeOK /\ NothingTwice /\ ExpireInv /\ NothingTakenInVain
      /\ pass = "expire" /\ i > Len(entries)
      /\ pass' = IF need > 0 /\ live > 0 THEN "sort" ELSE "done"
      /\ UNCHANGED <<entries, need, cand, live, toDelete, i>>
  BY DEF SelectionInv, ExpireEnds
<1>2. Len(entries) \in Nat /\ Index = 1 .. Len(entries) /\ i = Len(entries) + 1
  BY <1>1, Entries DEF ExpireInv
<1>3. /\ live = Len(cand) /\ live \in Nat
      /\ Selected = {e \in Index : Expired(e)}
      /\ Rest(1) = {e \in Index : ~Expired(e)}
  BY <1>1, <1>2 DEF ExpireInv, TypeOK
<1>4. TypeOK' /\ NothingTwice' /\ NothingTakenInVain' /\ LruInv' /\ MoreInv'
  BY <1>1 DEF TypeOK, Index, NothingTwice, Distinct, NothingTakenInVain,
     Expired, LruInv, MoreInv
<1>5. ExpireInv'
  BY <1>1, <1>2 DEF ExpireInv, Selected, Rest, Expired
<1>6. RecentGoLast'
  BY <1>1, <1>3 DEF RecentGoLast, Selected, Index, Expired
<1>7. ASSUME pass' = "done" PROVE need <= 0 \/ Selected = Index
  <2>1. CASE live = 0
    <3>1. Rest(1) = {}
      BY <2>1 DEF Rest
    <3>2. QED
      BY <1>3, <3>1
  <2>2. QED
    BY <1>1, <1>3, <1>7, <2>1 DEF TypeOK
<1>8. EnoughSelected'
  BY <1>1, <1>3, <1>7 DEF EnoughSelected, Selected, Index, Expired
<1>9. QED
  BY <1>4, <1>5, <1>6, <1>8 DEF SelectionInv

-----------------------------------------------------------------------------
(* Sorting rearranges the candidates and loses none: an injection of a      *)
(* finite interval into itself is onto.                                     *)
LEMMA SortStep == SelectionInv /\ Sort => SelectionInv'
<1> SUFFICES ASSUME SelectionInv, Sort PROVE SelectionInv'
  OBVIOUS
<1>1. /\ TypeOK /\ NothingTwice /\ ExpireInv /\ NothingTakenInVain
      /\ pass = "sort" /\ pass' = "lru" /\ i' = 1
      /\ UNCHANGED <<entries, need, live, toDelete>>
  BY DEF SelectionInv, Sort
<1>2. PICK p \in [1 .. live -> 1 .. live] :
          /\ \A a, b \in 1 .. live : a # b => p[a] # p[b]
          /\ cand' = [a \in 1 .. live |-> cand[p[a]]]
          /\ OldestFirst(cand')
  BY DEF Sort
<1>3. Len(entries) \in Nat /\ Index = 1 .. Len(entries) /\ i = Len(entries) + 1
  BY <1>1, Entries DEF ExpireInv
<1>4. /\ live = Len(cand) /\ live \in Nat /\ cand \in Seq(Index)
      /\ Selected = {e \in Index : Expired(e)}
      /\ Rest(1) = {e \in Index : ~Expired(e)}
      /\ Distinct(toDelete, Len(toDelete)) /\ Distinct(cand, live)
  BY <1>1, <1>3 DEF ExpireInv, NothingTwice, TypeOK
<1>5. \A b \in 1 .. live : \E a \in 1 .. live : p[a] = b
  <2>1. IsFiniteSet(1 .. live)
    BY <1>4, FS_Interval
  <2>2. p \in Injection(1 .. live, 1 .. live)
    BY <1>2 DEF Injection, IsInjective
  <2>3. p \in Surjection(1 .. live, 1 .. live)
    BY <2>1, <2>2, FS_Injection
  <2>4. QED
    BY <2>3 DEF Surjection
<1>6. \A a \in 1 .. live : cand[p[a]] \in Index
  BY <1>2, <1>4, ElementOfSeq
<1>7. cand' \in Seq(Index) /\ Len(cand') = live /\ DOMAIN cand' = 1 .. live
  BY <1>2, <1>4, <1>6
<1>8. TypeOK'
  BY <1>1, <1>4, <1>7 DEF TypeOK, Index
<1>9. NothingTwice'
  <2>1. Distinct(cand', live')
    <3>1. \A a \in 1 .. live : cand'[a] = cand[p[a]] /\ p[a] \in 1 .. live
      BY <1>2
    <3>2. QED
      BY <1>1, <1>2, <1>4, <3>1 DEF Distinct
  <2>2. QED
    BY <1>1, <1>4, <2>1 DEF NothingTwice, Distinct
<1>10. LruInv'
  <2>1. Rest(1)' = Rest(1)
    <3>1. \A a \in 1 .. live : cand'[a] = cand[p[a]] /\ p[a] \in 1 .. live
      BY <1>2
    <3>2. ASSUME NEW b \in 1 .. live
          PROVE  \E a \in 1 .. live : cand'[a] = cand[b]
      <4>1. PICK a \in 1 .. live : p[a] = b
        BY <1>5
      <4>2. cand'[a] = cand[b]
        BY <3>1, <4>1
      <4>3. QED
        BY <4>2
    <3>3. {cand'[a] : a \in 1 .. live} = {cand[b] : b \in 1 .. live}
      <4>1. {cand'[a] : a \in 1 .. live} \subseteq {cand[b] : b \in 1 .. live}
        BY <3>1
      <4>2. {cand[b] : b \in 1 .. live} \subseteq {cand'[a] : a \in 1 .. live}
        BY <3>2
      <4>3. QED
        BY <4>1, <4>2
    <3>4. QED
      BY <1>1, <3>3 DEF Rest
  <2>2. Sorted'
    BY <1>1, <1>2, <1>7 DEF OldestFirst, Sorted
  <2>3. Selected' = Selected /\ Index' = Index
    BY <1>1 DEF Selected, Index
  <2>4. Rest(1)' = Index' \ Selected'
    BY <1>4, <2>1, <2>3
  <2>5. QED
    BY <1>1, <1>4, <2>2, <2>3, <2>4 DEF LruInv, ExpiredSelected, Expired
<1>11. /\ ExpireInv' /\ MoreInv' /\ EnoughSelected' /\ RecentGoLast'
       /\ NothingTakenInVain'
  BY <1>1 DEF ExpireInv, MoreInv, EnoughSelected, RecentGoLast,
     NothingTakenInVain, Expired
<1>12. QED
  BY <1>8, <1>9, <1>10, <1>11 DEF SelectionInv

(* In the second pass an entry that is removed leaves the rest in order.    *)
LEMMA LruTakeStep == SelectionInv /\ LruTake => SelectionInv'
<1> SUFFICES ASSUME SelectionInv, LruTake PROVE SelectionInv'
  OBVIOUS
<1>1. /\ TypeOK /\ NothingTwice /\ LruInv /\ NothingTakenInVain
      /\ pass = "lru" /\ pass' = "lru" /\ i' = i + 1 /\ entries' = entries
      /\ i <= live /\ need > 0 /\ ShouldDelete(cand[i]) /\ Select(cand[i])
      /\ cand' = Shifted /\ live' = live - 1 /\ Index' = Index
  BY DEF SelectionInv, LruTake, Index
<1>2. /\ Len(cand) \in Nat /\ cand \in Seq(Index) /\ live \in 0 .. Len(cand)
      /\ i \in 1 .. live /\ \A a \in 1 .. Len(cand) : cand[a] \in Index
  BY <1>1, ElementOfSeq DEF TypeOK
<1>3. /\ Distinct(toDelete, Len(toDelete)) /\ Distinct(cand, live)
      /\ Sorted /\ ExpiredSelected /\ Rest(1) = Index \ Selected
      /\ \A e \in Selected : Expired(e) \/ entries[e].age >= 1
  BY <1>1 DEF NothingTwice, LruInv
<1>4. cand[i] \in Index /\ cand[i] \notin Selected
  BY <1>2, <1>3 DEF Rest
<1>5. /\ toDelete' \in Seq(Index) /\ need' \in Int
      /\ need' = need - entries[cand[i]].size
      /\ toDelete'[Len(toDelete')] = cand[i]
      /\ Selected' = Selected \cup {cand[i]}
      /\ Distinct(toDelete', Len(toDelete'))
      /\ entries[cand[i]].size \in Nat
  BY <1>1, <1>3, <1>4, SelectStep
<1>6. /\ cand' \in Seq(Index) /\ Len(cand') = Len(cand)
      /\ \A a \in 1 .. Len(cand) :
            cand'[a] = IF i <= a /\ a < live THEN cand[a + 1] ELSE cand[a]
  BY <1>1, <1>2 DEF Shifted
<1>7. /\ live' = live - 1 /\ live' \in 0 .. Len(cand')
      /\ \A a \in 1 .. live' : cand'[a] = cand[IF a < i THEN a ELSE a + 1]
  BY <1>1, <1>2, <1>6
<1>8. TypeOK'
  BY <1>1, <1>5, <1>6, <1>7 DEF TypeOK
<1>9. NothingTwice'
  <2>1. Distinct(cand', live')
    BY <1>2, <1>3, <1>7 DEF Distinct
  <2>2. QED
    BY <1>5, <2>1 DEF NothingTwice
<1>10. LruInv'
  <2>1. Sorted'
    BY <1>1, <1>2, <1>3, <1>7 DEF Sorted
  <2>2. Rest(1)' = Rest(1) \ {cand[i]}
    <3>1. ASSUME NEW a \in 1 .. live' PROVE cand'[a] \in Rest(1) \ {cand[i]}
      BY <1>2, <1>3, <1>7 DEF Rest, Distinct
    <3>2. ASSUME NEW a \in 1 .. live, a # i
          PROVE  \E b \in 1 .. live' : cand'[b] = cand[a]
      <4>1. CASE a < i
        BY <1>2, <1>7, <4>1
      <4>2. CASE a > i
        <5>1. a - 1 \in 1 .. live' /\ ~(a - 1 < i) /\ (a - 1) + 1 = a
          BY <1>2, <1>7, <4>2
        <5>2. QED
          BY <1>7, <5>1
      <4>3. QED
        BY <1>2, <3>2, <4>1, <4>2
    <3>3. QED
      BY <3>1, <3>2 DEF Rest
  <2>3. Rest(1)' = Index' \ Selected'
    BY <1>1, <1>3, <1>5, <2>2
  <2>4. ExpiredSelected'
    BY <1>1, <1>3, <1>5 DEF ExpiredSelected, Expired
  <2>5. entries[cand[i]].age >= 1
    BY <1>1, <1>4, Entries DEF ShouldDelete
  <2>6. \A e \in Selected' : Expired(e)' \/ entries'[e].age >= 1
    BY <1>1, <1>3, <1>5, <2>5 DEF Expired
  <2>7. QED
    BY <2>1, <2>3, <2>4, <2>6 DEF LruInv
<1>11. NothingTakenInVain'
  <2>1. need' + entries'[toDelete'[Len(toDelete')]].size = need
    BY <1>1, <1>5 DEF TypeOK
  <2>2. QED
    BY <1>1, <2>1 DEF NothingTakenInVain
<1>12. ExpireInv' /\ MoreInv' /\ EnoughSelected' /\ RecentGoLast'
  BY <1>1 DEF ExpireInv, MoreInv, EnoughSelected, RecentGoLast
<1>13. QED
  BY <1>8, <1>9, <1>10, <1>11, <1>12 DEF SelectionInv

(* An entry that is kept, an index beyond the slice, the end of the pass.   *)
LEMMA LruOtherStep ==
  SelectionInv /\ (LruKeep \/ LruPanics \/ LruEnds) => SelectionInv'
<1> SUFFICES ASSUME SelectionInv, LruKeep \/ LruPanics \/ LruEnds
             PROVE  SelectionInv'
  OBVIOUS
<1>1. /\ TypeOK /\ NothingTwice /\ LruInv /\ NothingTakenInVain
      /\ pass = "lru" /\ UNCHANGED <<entries, cand, live>>
      /\ Index' = Index
  BY DEF SelectionInv, LruKeep, LruPanics, LruEnds, Index
<1>2. live \in Nat /\ i \in Nat
  BY <1>1 DEF TypeOK
<1>3. CASE LruKeep
  <2>1. pass' = pass /\ i' = i + 1 /\ need' = need /\ toDelete' = toDelete
    BY <1>3 DEF LruKeep
  <2>2. TypeOK' /\ NothingTwice' /\ LruInv' /\ NothingTakenInVain'
    BY <1>1, <1>2, <2>1
       DEF TypeOK, NothingTwice, Distinct, LruInv, Sorted, ExpiredSelected,
           Expired, Selected, Rest, NothingTakenInVain
  <2>3. ExpireInv' /\ MoreInv' /\ EnoughSelected' /\ RecentGoLast'
    BY <1>1, <2>1 DEF ExpireInv, MoreInv, EnoughSelected, RecentGoLast
  <2>4. QED
    BY <2>2, <2>3 DEF SelectionInv
<1>4. CASE LruPanics
  <2>1. /\ pass' = "panic" /\ i' = i /\ need > 0 /\ Select(cand[i])
        /\ i \in 1 .. Len(cand) /\ cand \in Seq(Index)
    BY <1>1, <1>4 DEF LruPanics, TypeOK
  <2>2. cand[i] \in Index
    BY <2>1, ElementOfSeq
  <2>3. /\ toDelete' \in Seq(Index) /\ need' \in Int
        /\ need' = need - entries[cand[i]].size
        /\ toDelete'[Len(toDelete')] = cand[i]
        /\ entries[cand[i]].size \in Nat
    BY <1>1, <2>1, <2>2, SelectStep
  <2>4. need' + entries'[toDelete'[Len(toDelete')]].size = need
    BY <1>1, <2>3 DEF TypeOK
  <2>5. TypeOK' /\ NothingTakenInVain'
    BY <1>1, <2>1, <2>3, <2>4 DEF TypeOK, NothingTakenInVain
  <2>6. /\ NothingTwice' /\ ExpireInv' /\ LruInv' /\ MoreInv'
        /\ EnoughSelected' /\ RecentGoLast'
    BY <2>1 DEF NothingTwice, ExpireInv, LruInv, MoreInv, EnoughSelected,
       RecentGoLast
  <2>7. QED
    BY <2>5, <2>6 DEF SelectionInv
<1>5. CASE LruEnds
  <2>1. pass' = "more" /\ i' = 1 /\ need' = need /\ toDelete' = toDelete
    BY <1>5 DEF LruEnds
  <2>2. TypeOK' /\ NothingTwice' /\ NothingTakenInVain'
    BY <1>1, <2>1
       DEF TypeOK, NothingTwice, Distinct, NothingTakenInVain, Expired
  <2>3. MoreInv'
    BY <1>1, <1>2, <2>1
       DEF LruInv, MoreInv, Sorted, ExpiredSelected, Expired, Selected, Rest
  <2>4. ExpireInv' /\ LruInv' /\ EnoughSelected' /\ RecentGoLast'
    BY <2>1 DEF ExpireInv, LruInv, EnoughSelected, RecentGoLast
  <2>5. QED
    BY <2>2, <2>3, <2>4 DEF SelectionInv
<1>6. QED
  BY <1>3, <1>4, <1>5

(* The third pass takes the candidates in order, from the first on.         *)
LEMMA MoreStep == SelectionInv /\ More => SelectionInv'
<1> SUFFICES ASSUME SelectionInv, More PROVE SelectionInv'
  OBVIOUS
<1>1. /\ TypeOK /\ NothingTwice /\ MoreInv
      /\ pass = "more" /\ i <= live /\ need > 0 /\ Select(cand[i]) /\ i' = i + 1
      /\ UNCHANGED <<entries, cand, live, pass>> /\ Index' = Index
  BY DEF SelectionInv, More, Index
<1>2. /\ Len(cand) \in Nat /\ cand \in Seq(Index) /\ live \in 0 .. Len(cand)
      /\ i \in 1 .. live /\ cand[i] \in Index
  BY <1>1, ElementOfSeq DEF TypeOK
<1>3. /\ Distinct(toDelete, Len(toDelete)) /\ Distinct(cand, live)
      /\ Sorted /\ ExpiredSelected /\ Rest(i) = Index \ Selected
  BY <1>1 DEF NothingTwice, MoreInv
<1>4. cand[i] \notin Selected
  BY <1>2, <1>3 DEF Rest
<1>5. /\ toDelete' \in Seq(Index) /\ need' \in Int
      /\ need' = need - entries[cand[i]].size
      /\ toDelete'[Len(toDelete')] = cand[i]
      /\ Selected' = Selected \cup {cand[i]}
      /\ Distinct(toDelete', Len(toDelete'))
      /\ entries[cand[i]].size \in Nat
  BY <1>1, <1>2, <1>3, <1>4, SelectStep
<1>6. TypeOK'
  BY <1>1, <1>2, <1>5 DEF TypeOK
<1>7. NothingTwice'
  BY <1>1, <1>3, <1>5 DEF NothingTwice, Distinct
<1>8. NothingTakenInVain'
  <2>1. need' + entries'[toDelete'[Len(toDelete')]].size = need
    BY <1>1, <1>5 DEF TypeOK
  <2>2. QED
    BY <1>1, <2>1 DEF NothingTakenInVain
<1>9. MoreInv'
  <2>1. \A a \in i + 1 .. live : cand[a] # cand[i]
    BY <1>2, <1>3 DEF Distinct
  <2>2. {cand[a] : a \in i + 1 .. live} = Rest(i) \ {cand[i]}
    BY <1>2, <2>1 DEF Rest
  <2>3. Rest(i)' = Index' \ Selected'
    BY <1>1, <1>3, <1>5, <2>2 DEF Rest
  <2>4. Sorted' /\ ExpiredSelected' /\ i' <= live' + 1
    BY <1>1, <1>2, <1>3, <1>5 DEF Sorted, ExpiredSelected, Expired
  <2>5. ASSUME NEW e \in Selected'
        PROVE  \/ Expired(e)' \/ entries'[e].age >= 1
               \/ \E a \in 1 .. i' - 1 : cand'[a] = e
    <3>1. CASE e \in Selected
      BY <1>1, <1>2, <3>1 DEF MoreInv, Expired
    <3>2. CASE e = cand[i]
      BY <1>1, <1>2, <3>2
    <3>3. QED
      BY <1>5, <3>1, <3>2
  <2>6. QED
    BY <2>3, <2>4, <2>5 DEF MoreInv
<1>10. ExpireInv' /\ LruInv' /\ EnoughSelected' /\ RecentGoLast'
  BY <1>1 DEF ExpireInv, LruInv, EnoughSelected, RecentGoLast
<1>11. QED
  BY <1>6, <1>7, <1>8, <1>9, <1>10 DEF SelectionInv

(* At the end of the third pass either enough is selected or all is, and a  *)
(* recent entry was reached only over every older one.                      *)
LEMMA MoreEndsStep == SelectionInv /\ MoreEnds => SelectionInv'
<1> SUFFICES ASSUME SelectionInv, MoreEnds PROVE SelectionInv'
  OBVIOUS
<1>1. /\ TypeOK /\ NothingTwice /\ MoreInv /\ NothingTakenInVain
      /\ pass = "more" /\ pass' = "done" /\ (i > live \/ need <= 0)
      /\ UNCHANGED <<entries, need, cand, live, toDelete, i>>
  BY DEF SelectionInv, MoreEnds
<1>2. /\ live \in Nat /\ i \in Nat \ {0} /\ i <= live + 1
      /\ Sorted /\ ExpiredSelected /\ Rest(i) = Index \ Selected
      /\ \A e \in Selected :
            \/ Expired(e) \/ entries[e].age >= 1
            \/ \E a \in 1 .. i - 1 : cand[a] = e
  BY <1>1 DEF MoreInv, TypeOK
<1>3. /\ TypeOK' /\ NothingTwice' /\ NothingTakenInVain'
      /\ ExpireInv' /\ LruInv' /\ MoreInv'
  BY <1>1 DEF TypeOK, Index, NothingTwice, Distinct, NothingTakenInVain,
     Expired, ExpireInv, LruInv, MoreInv
<1>4. need <= 0 \/ Selected = Index
  <2>1. CASE i > live
    <3>1. Rest(i) = {}
      BY <1>2, <2>1 DEF Rest
    <3>2. Selected \subseteq Index
      BY <1>1, ElementOfSeq DEF TypeOK, Selected
    <3>3. QED
      BY <1>2, <3>1, <3>2
  <2>2. QED
    BY <1>1, <2>1
<1>5. EnoughSelected'
  BY <1>1, <1>2, <1>4
     DEF EnoughSelected, ExpiredSelected, Expired, Selected, Index
<1>6. ASSUME NEW e \in Selected, NEW f \in Index,
             ~Expired(e), entries[e].age < 1, entries[f].age >= 1
      PROVE  f \in Selected
  <2>1. entries[e].age \in Nat /\ entries[f].age \in Nat
    <3>1. e \in Index
      BY <1>1, ElementOfSeq DEF TypeOK, Selected
    <3>2. QED
      BY <1>1, <3>1, Entries
  <2>2. PICK a \in 1 .. i - 1 : cand[a] = e
    BY <1>2, <1>6, <2>1
  <2>3. SUFFICES ASSUME f \notin Selected PROVE FALSE
    OBVIOUS
  <2>4. PICK b \in i .. live : cand[b] = f
    BY <1>2, <2>3 DEF Rest
  <2>5. entries[cand[a]].age >= entries[cand[b]].age
    BY <1>2, <2>2, <2>4 DEF Sorted
  <2>6. QED
    BY <1>6, <2>1, <2>2, <2>4, <2>5
<1>7. RecentGoLast'
  BY <1>1, <1>6 DEF RecentGoLast, Expired, Selected, Index
<1>8. QED
  BY <1>3, <1>5, <1>7 DEF SelectionInv

-----------------------------------------------------------------------------
(* Every reachable state of the selection satisfies its invariant.          *)
LEMMA SelectionInvHolds == Spec => []SelectionInv
<1>1. SelectionInv /\ [Next]_vars => SelectionInv'
  <2> SUFFICES ASSUME SelectionInv, [Next]_vars PROVE SelectionInv'
    OBVIOUS
  <2>1. CASE UNCHANGED vars
    <3>1. TypeOK' /\ NothingTwice' /\ NothingTakenInVain'
      BY <2>1 DEF SelectionInv, vars, TypeOK, Index, NothingTwice, Distinct,
         NothingTakenInVain, Expired
    <3>2. ExpireInv'
      BY <2>1 DEF SelectionInv, vars, ExpireInv, Selected, Rest, Expired
    <3>3. LruInv' /\ MoreInv'
      BY <2>1 DEF SelectionInv, vars, LruInv, MoreInv, Sorted,
         ExpiredSelected, Expired, Selected, Index, Rest
    <3>4. EnoughSelected' /\ RecentGoLast'
      BY <2>1 DEF SelectionInv, vars, EnoughSelected, RecentGoLast, Expired,
         Selected, Index
    <3>5. QED
      BY <3>1, <3>2, <3>3, <3>4 DEF SelectionInv
  <2>2. QED
    BY <2>1, ExpireStep, ExpireEndsStep, SortStep, LruTakeStep, LruOtherStep,
       MoreStep, MoreEndsStep DEF Next
<1>2. QED
  BY <1>1, SelectionInit, PTL DEF Spec

(* Type correctness: among others, the slice of candidates is never longer  *)
(* than its array, whatever the passes remove.                              *)
THEOREM TypeCorrect == Spec => []TypeOK
<1>1. SelectionInv => TypeOK
  BY DEF SelectionInv
<1>2. QED
  BY <1>1, SelectionInvHolds, PTL

(* No entry is selected twice although the second pass ranges over an array *)
(* that goes on holding the entries removed from the slice.                 *)
THEOREM SelectedOnce == Spec => []NoDuplicates
<1>1. SelectionInv => NoDuplicates
  BY DEF SelectionInv, NothingTwice, Distinct, NoDuplicates, TypeOK
<1>2. QED
  BY <1>1, SelectionInvHolds, PTL

(* A selection that is returned frees what was asked for or is everything,  *)
(* and holds every entry beyond the retention period.                       *)
THEOREM SelectsEnough == Spec => []EnoughSelected
<1>1. SelectionInv => EnoughSelected
  BY DEF SelectionInv
<1>2. QED
  BY <1>1, SelectionInvHolds, PTL

(* Only expired entries go beyond what was asked for.                       *)
THEOREM SelectsNothingInVain == Spec => []NothingTakenInVain
<1>1. SelectionInv => NothingTakenInVain
  BY DEF SelectionInv
<1>2. QED
  BY <1>1, SelectionInvHolds, PTL

(* An entry accessed within the last day goes only if every older one goes: *)
(* the removals from the slice being ranged over do not upset this.         *)
THEOREM SelectsRecentLast == Spec => []RecentGoLast
<1>1. SelectionInv => RecentGoLast
  BY DEF SelectionInv
<1>2. QED
  BY <1>1, SelectionInvHolds, PTL

-----------------------------------------------------------------------------
(* The closed form.  What is selected follows from the theorems above, by   *)
(* counting; that the second pass panics when SelectionContract says so     *)
(* needs how it leaves the array.                                           *)

LEMMA DistinctCount ==
  ASSUME NEW s, NEW n \in Nat, Distinct(s, n)
  PROVE  /\ IsFiniteSet({s[a] : a \in 1 .. n})
         /\ Cardinality({s[a] : a \in 1 .. n}) = n
<1> DEFINE T == {s[a] : a \in 1 .. n}
           f == [a \in 1 .. n |-> s[a]]
<1>1. f \in Injection(1 .. n, T)
  BY DEF Distinct, Injection, IsInjective
<1>2. f \in Surjection(1 .. n, T)
  BY DEF Surjection
<1>3. ExistsBijection(1 .. n, T)
  BY <1>1, <1>2 DEF Bijection, ExistsBijection
<1>4. IsFiniteSet(1 .. n) /\ Cardinality(1 .. n) = n
  BY FS_Interval
<1>5. QED
  BY <1>3, <1>4, FS_Bijection

(* The three classes of entries are apart and make up the listing.          *)
LEMMA Classes ==
  ASSUME TypeOK
  PROVE  /\ IsFiniteSet(Index) /\ Index = Outdated \cup Old \cup Recent
         /\ Outdated \cap Old = {} /\ Outdated \cap Recent = {} /\ Old \cap Recent = {}
         /\ IsFiniteSet(Outdated) /\ IsFiniteSet(Old) /\ IsFiniteSet(Recent)
         /\ Cardinality(Outdated) \in Nat /\ Cardinality(Old) \in Nat
         /\ Cardinality(Recent) \in Nat
         /\ \A S : S \subseteq Index => IsFiniteSet(S) /\ Cardinality(S) \in Nat
<1>1. IsFiniteSet(Index)
  BY Entries, FS_Interval
<1>2. Outdated \subseteq Index /\ Old \subseteq Index /\ Recent \subseteq Index
  BY DEF Outdated, Old, Recent
<1>3. \A S : S \subseteq Index => IsFiniteSet(S) /\ Cardinality(S) \in Nat
  BY <1>1, FS_Subset, FS_CardinalityType
<1>4. /\ Index = Outdated \cup Old \cup Recent
      /\ Outdated \cap Old = {} /\ Outdated \cap Recent = {} /\ Old \cap Recent = {}
  BY <1>2 DEF Old, Recent
<1>5. QED
  BY <1>1, <1>2, <1>3, <1>4

LEMMA SelectedCount ==
  ASSUME TypeOK, Distinct(toDelete, Len(toDelete))
  PROVE  Cardinality(Selected) = Len(toDelete)
<1>1. Len(toDelete) \in Nat /\ DOMAIN toDelete = 1 .. Len(toDelete)
  BY DEF TypeOK
<1>2. Selected = {toDelete[j] : j \in 1 .. Len(toDelete)}
  BY <1>1 DEF Selected
<1>3. QED
  BY <1>1, <1>2, DistinctCount

(* With unit sizes a selection does not change what was asked for.          *)
LEMMA AskedStep ==
  ASSUME TypeOK, NEW e \in Index, Select(e), entries' = entries,
         entries[e].size = 1
  PROVE  Asked' = Asked
<1>1. /\ need' = need - 1 /\ need \in Int
      /\ Len(toDelete') = Len(toDelete) + 1 /\ Len(toDelete) \in Nat
  BY SelectStep DEF TypeOK
<1>2. QED
  BY <1>1 DEF Asked

LEMMA ClassesUnchanged ==
  ASSUME entries' = entries
  PROVE  /\ Index' = Index /\ Outdated' = Outdated /\ Old' = Old /\ Recent' = Recent
BY DEF Index, Outdated, Old, Recent, Expired

-----------------------------------------------------------------------------
LEMMA ArraySorted == SelectionInv /\ SelectionInv' /\ Sort => ArrayInv'
<1> SUFFICES ASSUME SelectionInv, SelectionInv', Sort PROVE ArrayInv'
  OBVIOUS
<1>1. /\ TypeOK /\ pass = "sort" /\ pass' = "lru" /\ i' = 1 /\ live \in Nat
      /\ UNCHANGED <<entries, need, live, toDelete>>
  BY DEF SelectionInv, Sort, TypeOK
<1>2. Len(entries) \in Nat /\ Index = 1 .. Len(entries) /\ i = Len(entries) + 1
  BY <1>1, Entries DEF SelectionInv, ExpireInv
<1>3. /\ Selected = Outdated /\ Rest(1) = Index \ Outdated
      /\ Distinct(toDelete, Len(toDelete)) /\ Distinct(cand, live)
  BY <1>1, <1>2 DEF SelectionInv, ExpireInv, NothingTwice, Outdated
<1>4. Len(toDelete) = Cardinality(Outdated)
  BY <1>1, <1>3, SelectedCount
<1>5. live = Cardinality(Index \ Outdated)
  BY <1>1, <1>3, DistinctCount DEF Rest
<1>6. /\ Index' = Index /\ Outdated' = Outdated
  BY <1>1, ClassesUnchanged
<1>7. Len(cand') = live
  BY <1>1 DEF Sort
<1>8. /\ Rest(1)' = Index \ Outdated
      /\ \A a, b \in 1 .. live :
            a < b => entries[cand'[a]].age >= entries[cand'[b]].age
  <2>1. Selected' = Selected /\ Rest(1)' = Index' \ Selected'
    BY <1>1 DEF SelectionInv, LruInv, Selected
  <2>2. Sorted'
    BY <1>1 DEF SelectionInv, LruInv
  <2>3. QED
    BY <1>1, <1>3, <1>6, <2>1, <2>2 DEF Sorted
<1>9. ASSUME NEW e \in Index \ Outdated
      PROVE  entries[e].age >= entries[cand'[live]].age
  <2>1. PICK a \in 1 .. live : cand'[a] = e
    BY <1>1, <1>8 DEF Rest
  <2>2. entries[e].age \in Nat
    BY <1>1, Entries
  <2>3. CASE a = live
    BY <2>1, <2>2, <2>3
  <2>4. CASE a < live
    BY <1>1, <1>8, <2>1, <2>4
  <2>5. QED
    BY <1>1, <2>1, <2>3, <2>4
<1>10. Removed' = 0
  BY <1>1, <1>7 DEF Removed
<1>11. Newest' = cand'[live]
  BY <1>7 DEF Newest
<1>12. \A a \in 1 .. live : a > live \/ a = live => cand'[a] = cand'[live]
  BY <1>1
<1>13. Recent' = {} => i' = Removed' + 1 /\ 2 * i' <= Len(cand') + 3
  BY <1>1, <1>7, <1>10
<1>14. /\ Len(cand') = Cardinality(Index' \ Outdated')
       /\ Len(toDelete') = Cardinality(Outdated') + Removed'
  BY <1>1, <1>4, <1>5, <1>6, <1>7, <1>10, Classes
<1>15. \A a \in 1 .. Len(cand') :
          a > live' \/ (a = live' /\ i' <= live') => cand'[a] = Newest'
  BY <1>1, <1>7, <1>11, <1>12
<1>16. \A e \in Index' \ Outdated' : entries'[e].age >= entries'[Newest'].age
  BY <1>1, <1>6, <1>9, <1>11
<1>17. QED
  BY <1>13, <1>14, <1>15, <1>16 DEF ArrayInv

LEMMA ArrayTaken == SelectionInv /\ ArrayInv /\ LruTake => ArrayInv'
<1> SUFFICES ASSUME SelectionInv, ArrayInv, LruTake PROVE ArrayInv'
  OBVIOUS
<1>1. /\ TypeOK /\ pass = "lru" /\ pass' = "lru" /\ i' = i + 1 /\ entries' = entries
      /\ i <= live /\ Select(cand[i]) /\ cand' = Shifted /\ live' = live - 1
  BY DEF SelectionInv, LruTake
<1>2. /\ Len(cand) \in Nat /\ cand \in Seq(Index) /\ live \in 0 .. Len(cand)
      /\ i \in 1 .. live /\ cand[i] \in Index
  BY <1>1, ElementOfSeq DEF TypeOK
<1>3. /\ Len(cand) = Cardinality(Index \ Outdated)
      /\ Len(toDelete) = Cardinality(Outdated) + Removed
      /\ \A a \in 1 .. Len(cand) : a > live \/ (a = live /\ i <= live) => cand[a] = Newest
      /\ \A e \in Index \ Outdated : entries[e].age >= entries[Newest].age
      /\ Recent = {} => i = Removed + 1 /\ 2 * i <= Len(cand) + 3
  BY <1>1 DEF ArrayInv
<1>4. Index' = Index /\ Outdated' = Outdated /\ Recent' = Recent
  BY <1>1, ClassesUnchanged
<1>5. /\ Len(cand') = Len(cand)
      /\ \A a \in 1 .. Len(cand) :
            cand'[a] = IF i <= a /\ a < live THEN cand[a + 1] ELSE cand[a]
  BY <1>1, <1>2 DEF Shifted
<1>6. Newest' = Newest /\ Removed' = Removed + 1
  BY <1>1, <1>2, <1>5 DEF Newest, Removed
<1>7. ASSUME NEW a \in 1 .. Len(cand), a > live' \/ (a = live' /\ i' <= live')
      PROVE  cand'[a] = Newest
  <2>1. CASE a >= live
    <3>1. cand'[a] = cand[a]
      BY <1>2, <1>5, <2>1
    <3>2. a > live \/ (a = live /\ i <= live)
      BY <1>2, <2>1
    <3>3. QED
      BY <1>3, <3>1, <3>2
  <2>2. CASE a < live
    <3>1. i <= a /\ a + 1 = live
      BY <1>1, <1>2, <1>7, <2>2
    <3>2. cand'[a] = cand[live]
      BY <1>5, <2>2, <3>1
    <3>3. cand[live] = Newest
      <4>1. live \in 1 .. Len(cand) /\ i <= live
        BY <1>2
      <4>2. QED
        BY <1>3, <4>1
    <3>4. QED
      BY <3>2, <3>3
  <2>3. QED
    BY <1>2, <2>1, <2>2
<1>8. Len(toDelete') = Cardinality(Outdated) + Removed'
  <2>1. Len(toDelete') = Len(toDelete) + 1
    BY <1>1, <1>2, SelectStep
  <2>2. Cardinality(Outdated) \in Nat /\ Removed \in Nat
    BY <1>1, <1>2, Classes DEF Removed
  <2>3. QED
    BY <1>3, <1>6, <2>1, <2>2
<1>9. Recent' = {} => i' = Removed' + 1 /\ 2 * i' <= Len(cand') + 3
  <2>1. ASSUME Recent = {} PROVE i' = Removed' + 1 /\ 2 * i' <= Len(cand') + 3
    <3>1. i = Len(cand) - live + 1
      BY <1>3, <2>1 DEF Removed
    <3>2. i' = Removed' + 1
      BY <1>1, <1>2, <1>3, <1>6, <2>1 DEF Removed
    <3>3. 2 * i' <= Len(cand') + 3
      BY <1>1, <1>2, <1>5, <3>1
    <3>4. QED
      BY <3>2, <3>3
  <2>2. QED
    BY <1>4, <2>1
<1>10. QED
  BY <1>1, <1>3, <1>4, <1>5, <1>6, <1>7, <1>8, <1>9 DEF ArrayInv

(* Only a recent entry is kept.                                             *)
LEMMA ArrayKept == SelectionInv /\ ArrayInv /\ LruKeep => ArrayInv'
<1> SUFFICES ASSUME SelectionInv, ArrayInv, LruKeep PROVE ArrayInv'
  OBVIOUS
<1>1. /\ TypeOK /\ pass = "lru" /\ i' = i + 1 /\ ~ShouldDelete(cand[i])
      /\ UNCHANGED <<entries, need, cand, live, toDelete, pass>>
      /\ i \in 1 .. Len(cand) /\ live \in 0 .. Len(cand) /\ Len(cand) \in Nat
      /\ cand[i] \in Index
  BY ElementOfSeq DEF SelectionInv, LruKeep, TypeOK
<1>2. Recent # {}
  <2>1. entries[cand[i]].age < 1 /\ entries[cand[i]].age \in Nat
    BY <1>1, Entries DEF ShouldDelete
  <2>2. cand[i] \notin Old
    BY <2>1 DEF Old
  <2>3. cand[i] \notin Outdated
    BY <2>1, SelectionAssumption DEF Outdated, Expired
  <2>4. QED
    BY <1>1, <2>2, <2>3 DEF Recent
<1>3. /\ Index' = Index /\ Outdated' = Outdated /\ Recent' = Recent
      /\ Newest' = Newest /\ Removed' = Removed
  BY <1>1, ClassesUnchanged DEF Newest, Removed
<1>4. ASSUME NEW a \in 1 .. Len(cand), a > live \/ (a = live /\ i' <= live)
      PROVE  cand[a] = Newest
  <2>1. a > live \/ (a = live /\ i <= live)
    BY <1>1, <1>4
  <2>2. QED
    BY <1>1, <2>1 DEF ArrayInv
<1>5. /\ Len(cand) = Cardinality(Index \ Outdated)
      /\ Len(toDelete) = Cardinality(Outdated) + Removed
      /\ \A e \in Index \ Outdated : entries[e].age >= entries[Newest].age
  BY <1>1 DEF ArrayInv
<1>6. QED
  BY <1>1, <1>2, <1>3, <1>4, <1>5 DEF ArrayInv

-----------------------------------------------------------------------------
UnitSizes == \A e \in Index : entries[e].size = 1

(* After the first pass nothing is asked for any more, or nothing is left.  *)
LEMMA NoPanicAfterExpire ==
  ASSUME SelectionInv, ExpireEnds, pass' = "done"
  PROVE  ~Panics(Outdated, Old, Recent, Asked)
<1>1. /\ TypeOK /\ pass = "expire" /\ i > Len(entries) /\ live \in Nat /\ need \in Int
      /\ need <= 0 \/ live = 0
  BY DEF SelectionInv, ExpireEnds, TypeOK
<1>2. Len(entries) \in Nat /\ Index = 1 .. Len(entries) /\ i = Len(entries) + 1
  BY <1>1, Entries DEF SelectionInv, ExpireInv
<1>3. /\ Selected = Outdated /\ Rest(1) = Index \ Outdated
      /\ Distinct(toDelete, Len(toDelete))
  BY <1>1, <1>2 DEF SelectionInv, ExpireInv, NothingTwice, Outdated
<1>4. Asked - Cardinality(Outdated) = need
  BY <1>1, <1>3, SelectedCount, Classes DEF Asked
<1>5. CASE need <= 0
  <2>1. Cardinality(Old) \in Nat
    BY <1>1, Classes
  <2>2. ~(need > (Cardinality(Old) + 1) \div 2)
    BY <1>1, <1>5, <2>1
  <2>3. Panics(Outdated, Old, Recent, Asked) =>
            Asked - Cardinality(Outdated) > (Cardinality(Old) + 1) \div 2
    BY DEF Panics
  <2>4. QED
    BY <1>4, <2>2, <2>3
<1>6. CASE live = 0
  <2>1. Rest(1) = {}
    BY <1>6 DEF Rest
  <2>2. Old = {}
    BY <1>3, <2>1 DEF Old
  <2>3. QED
    BY <2>2, FS_EmptySet DEF Panics
<1>7. QED
  BY <1>1, <1>5, <1>6

(* Without recent entries, so many steps of the second pass selected.       *)
LEMMA TakenSoFar ==
  ASSUME SelectionInv, ArrayInv, pass = "lru", Recent = {}
  PROVE  /\ Len(cand) = Cardinality(Old) /\ Len(cand) \in Nat
         /\ live = Len(cand) - (i - 1) /\ i \in Nat \ {0} /\ need \in Int
         /\ 2 * i <= Len(cand) + 3
         /\ Asked - Cardinality(Outdated) = need + (i - 1)
<1>1. /\ TypeOK /\ Len(cand) \in Nat /\ live \in Nat /\ i \in Nat \ {0} /\ need \in Int
  BY DEF SelectionInv, TypeOK
<1>2. Index \ Outdated = Old
  BY <1>1, Classes
<1>3. /\ Len(cand) = Cardinality(Index \ Outdated)
      /\ Len(toDelete) = Cardinality(Outdated) + Removed
      /\ i = Removed + 1 /\ 2 * i <= Len(cand) + 3
  BY DEF ArrayInv
<1>4. live = Len(cand) - (i - 1)
  BY <1>1, <1>3 DEF Removed
<1>5. Asked - Cardinality(Outdated) = need + (i - 1)
  <2>1. Cardinality(Outdated) \in Nat /\ Removed \in Int
    BY <1>1, Classes DEF Removed
  <2>2. QED
    BY <1>1, <1>3, <2>1 DEF Asked
<1>6. QED
  BY <1>1, <1>2, <1>3, <1>4, <1>5

(* The second pass ends before it would have panicked.                      *)
LEMMA NoPanicAfterLru ==
  ASSUME SelectionInv, ArrayInv, LruEnds
  PROVE  ~Panics(Outdated, Old, Recent, Asked)
<1> SUFFICES ASSUME Panics(Outdated, Old, Recent, Asked) PROVE FALSE
  OBVIOUS
<1>1. /\ Recent = {} /\ Cardinality(Old) >= 2
      /\ Asked - Cardinality(Outdated) > (Cardinality(Old) + 1) \div 2
  BY DEF Panics
<1>2. pass = "lru" /\ (i > Len(cand) \/ need <= 0)
  BY DEF LruEnds
<1> DEFINE m == Len(cand)
<1>3. /\ Cardinality(Old) = m /\ m \in Nat /\ i \in Nat \ {0} /\ need \in Int
      /\ 2 * i <= m + 3 /\ Asked - Cardinality(Outdated) = need + (i - 1)
  BY <1>1, <1>2, TakenSoFar
<1> HIDE DEF m
<1>4. need <= 0
  <2>1. i <= m
    BY <1>1, <1>3
  <2>2. QED
    BY <1>2, <1>3, <2>1 DEF m
<1>5. i - 1 <= (m + 1) \div 2
  BY <1>3
<1>6. QED
  BY <1>1, <1>3, <1>4, <1>5

(* Where the index has left the slice, only copies of the newest candidate  *)
(* are left: that it is selected means that no entry is recent.             *)
LEMMA PanicsPastSlice ==
  ASSUME SelectionInv, ArrayInv, LruPanics
  PROVE  Panics(Outdated, Old, Recent, Asked)
<1>1. /\ TypeOK /\ pass = "lru" /\ need > 0 /\ i > live /\ ShouldDelete(cand[i])
      /\ i \in 1 .. Len(cand) /\ Len(cand) \in Nat /\ live \in Nat /\ cand[i] \in Index
  BY ElementOfSeq DEF SelectionInv, LruPanics, TypeOK
<1>2. cand[i] = Newest
  BY <1>1 DEF ArrayInv
<1>3. entries[Newest].age >= 1 /\ entries[Newest].age \in Nat
  BY <1>1, <1>2, Entries DEF ShouldDelete
<1>4. Recent = {}
  <2>1. ASSUME NEW e \in Index \ Outdated PROVE e \in Old
    <3>1. entries[e].age >= entries[Newest].age /\ entries[e].age \in Nat
      BY <1>1, <2>1, Entries DEF ArrayInv
    <3>2. QED
      BY <1>3, <3>1 DEF Old
  <2>2. QED
    BY <2>1 DEF Recent
<1> DEFINE m == Len(cand)
<1>5. /\ Cardinality(Old) = m /\ m \in Nat /\ need \in Int /\ i \in 1 .. m
      /\ live = m - (i - 1)
      /\ Asked - Cardinality(Outdated) = need + (i - 1)
  BY <1>1, <1>4, TakenSoFar
<1> HIDE DEF m
<1>6. m >= 2 /\ i > (m + 1) \div 2
  BY <1>1, <1>5
<1>7. need + (i - 1) > (m + 1) \div 2
  BY <1>1, <1>5, <1>6
<1>8. QED
  BY <1>4, <1>5, <1>6, <1>7 DEF Panics

LEMMA PanicStep ==
  SelectionInv /\ ArrayInv /\ PanicInv /\ [Next]_vars => PanicInv'
<1> SUFFICES ASSUME SelectionInv, ArrayInv, PanicInv, [Next]_vars PROVE PanicInv'
  OBVIOUS
<1>0. entries' = entries
  <2>1. Expire \/ ExpireEnds \/ Sort => entries' = entries
    BY DEF Expire, ExpireEnds, Sort
  <2>2. LruKeep \/ LruTake \/ LruPanics \/ LruEnds => entries' = entries
    BY DEF LruKeep, LruTake, LruPanics, LruEnds
  <2>3. More \/ MoreEnds \/ UNCHANGED vars => entries' = entries
    BY DEF More, MoreEnds, vars
  <2>4. QED
    BY <2>1, <2>2, <2>3 DEF Next
<1> SUFFICES ASSUME UnitSizes
             PROVE  /\ pass' \in {"more", "done"} => ~Panics(Outdated, Old, Recent, Asked')
                    /\ pass' = "panic" => Panics(Outdated, Old, Recent, Asked')
  <2>1. Index' = Index /\ Outdated' = Outdated /\ Old' = Old /\ Recent' = Recent
    BY <1>0, ClassesUnchanged
  <2>2. QED
    BY <1>0, <2>1 DEF PanicInv, UnitSizes
<1>1. TypeOK
  BY DEF SelectionInv
<1>2. CASE Expire \/ Sort \/ LruKeep \/ LruTake
  BY <1>2 DEF Expire, Sort, LruKeep, LruTake
<1>3. CASE ExpireEnds
  <2>1. Asked' = Asked /\ pass' \in {"sort", "done"}
    BY <1>3 DEF ExpireEnds, Asked
  <2>2. QED
    BY <1>3, <2>1, NoPanicAfterExpire
<1>4. CASE LruPanics
  <2>1. pass' = "panic" /\ Select(cand[i]) /\ cand[i] \in Index /\ entries' = entries
    BY <1>1, <1>4, ElementOfSeq DEF LruPanics, TypeOK
  <2>2. Asked' = Asked
    BY <1>1, <2>1, AskedStep DEF UnitSizes
  <2>3. QED
    BY <1>4, <2>1, <2>2, PanicsPastSlice
<1>5. CASE LruEnds
  <2>1. Asked' = Asked /\ pass' = "more"
    BY <1>5 DEF LruEnds, Asked
  <2>2. QED
    BY <1>5, <2>1, NoPanicAfterLru
<1>6. CASE More
  <2>1. /\ pass = "more" /\ pass' = "more" /\ Select(cand[i]) /\ cand[i] \in Index
        /\ entries' = entries
    BY <1>1, <1>6, ElementOfSeq DEF More, TypeOK
  <2>2. Asked' = Asked
    BY <1>1, <2>1, AskedStep DEF UnitSizes
  <2>3. QED
    BY <2>1, <2>2 DEF PanicInv, UnitSizes
<1>7. CASE MoreEnds
  <2>1. Asked' = Asked /\ pass = "more" /\ pass' = "done"
    BY <1>7 DEF MoreEnds, Asked
  <2>2. QED
    BY <2>1 DEF PanicInv, UnitSizes
<1>8. CASE UNCHANGED vars
  <2>1. Asked' = Asked /\ pass' = pass
    BY <1>8 DEF vars, Asked
  <2>2. QED
    BY <2>1 DEF PanicInv, UnitSizes
<1>9. QED
  BY <1>2, <1>3, <1>4, <1>5, <1>6, <1>7, <1>8 DEF Next

LEMMA ContractStep ==
  SelectionInv /\ ArrayInv /\ PanicInv /\ [Next]_vars /\ SelectionInv'
      => ArrayInv' /\ PanicInv'
<1> SUFFICES ASSUME SelectionInv, ArrayInv, PanicInv, [Next]_vars, SelectionInv'
             PROVE  ArrayInv'
  BY PanicStep
<1>1. CASE Expire \/ ExpireEnds \/ LruPanics \/ LruEnds \/ More \/ MoreEnds
  <2>1. pass' # "lru"
    BY <1>1 DEF Expire, ExpireEnds, LruPanics, LruEnds, More, MoreEnds
  <2>2. QED
    BY <2>1 DEF ArrayInv
<1>2. CASE UNCHANGED vars
  <2>1. UNCHANGED <<entries, cand, live, toDelete, pass, i>>
    BY <1>2 DEF vars
  <2>2. /\ Index' = Index /\ Outdated' = Outdated /\ Recent' = Recent
        /\ Newest' = Newest /\ Removed' = Removed
    BY <2>1, ClassesUnchanged DEF Newest, Removed
  <2>3. QED
    BY <2>1, <2>2 DEF ArrayInv
<1>3. QED
  BY <1>1, <1>2, ArraySorted, ArrayTaken, ArrayKept DEF Next

(* The last way to select: everything older, and some of the recent ones.   *)
LEMMA SomeRecentSelected ==
  ASSUME NEW X, NEW O, NEW K, NEW n \in Int, NEW S,
         Cardinality(X) \in Nat, Cardinality(O) \in Nat, Cardinality(K) \in Nat,
         n - Cardinality(X) > 0, n - Cardinality(X) - Cardinality(O) > 0,
         n - Cardinality(X) - Cardinality(O) < Cardinality(K),
         S \subseteq K, Cardinality(S) = n - Cardinality(X) - Cardinality(O)
  PROVE  X \cup O \cup S \in Selections(X, O, K, n)
<1> DEFINE missing == n - Cardinality(X)
           rest == missing - Cardinality(O)
<1>1. ~(missing <= 0) /\ ~(rest <= 0) /\ ~(rest >= Cardinality(K))
  OBVIOUS
<1>2. S \in kSubset(rest, K)
  BY DEF kSubset
<1> HIDE DEF missing, rest
<1>3. X \cup O \cup S \in {X \cup O \cup T : T \in kSubset(rest, K)}
  BY <1>2
<1>4. Selections(X, O, K, n) = {X \cup O \cup T : T \in kSubset(rest, K)}
  <2>1. Selections(X, O, K, n) =
           IF missing <= 0 THEN {X}
           ELSE IF rest <= 0 THEN {X \cup T : T \in kSubset(missing, O)}
           ELSE IF rest >= Cardinality(K) THEN {X \cup O \cup K}
           ELSE {X \cup O \cup T : T \in kSubset(rest, K)}
    BY Zenon DEF Selections, missing, rest
  <2>2. QED
    BY <1>1, <2>1, Zenon
<1>5. QED
  BY <1>3, <1>4

(* What is selected, given that it is enough, nothing in vain, recent       *)
(* entries last: with unit sizes, counting leaves the closed form only.     *)
LEMMA SelectsByContract ==
  ASSUME SelectionInv, UnitSizes, pass = "done"
  PROVE  Selected \in Selections(Outdated, Old, Recent, Asked)
<1> DEFINE S == Selected \ Outdated
           x == Cardinality(Outdated)
           o == Cardinality(Old)
           k == Cardinality(Recent)
           s == Cardinality(S)
<1>1. /\ TypeOK /\ Distinct(toDelete, Len(toDelete)) /\ need \in Int
      /\ need <= 0 \/ Selected = Index
      /\ Outdated \subseteq Selected
      /\ Selected \subseteq Index
  BY ElementOfSeq
     DEF SelectionInv, TypeOK, NothingTwice, EnoughSelected, Outdated, Selected
<1>2. /\ Selected = Outdated \cup S /\ S \subseteq Old \cup Recent
      /\ IsFiniteSet(S) /\ x \in Nat /\ o \in Nat /\ k \in Nat /\ s \in Nat
      /\ IsFiniteSet(Old) /\ IsFiniteSet(Recent) /\ IsFiniteSet(Outdated)
      /\ Old \cap Recent = {}
  <2>1. S \subseteq Index
    BY <1>1
  <2>2. QED
    BY <1>1, <2>1, Classes
<1>3. Asked - x = need + s
  <2>1. Cardinality(Outdated \cup S) = x + s
    <3>1. Cardinality(Outdated \cap S) = 0
      <4>1. Outdated \cap S = {}
        OBVIOUS
      <4>2. QED
        BY <4>1, FS_EmptySet
    <3>2. Cardinality(Outdated \cup S) = x + s - Cardinality(Outdated \cap S)
      BY <1>2, FS_Union
    <3>3. QED
      BY <1>2, <3>1, <3>2
  <2>2. Len(toDelete) = x + s
    BY <1>1, <1>2, <2>1, SelectedCount
  <2>3. QED
    BY <1>1, <1>2, <2>2 DEF Asked
<1>4. S # {} => need >= 0
  <2>1. ASSUME NEW e \in S PROVE need >= 0
    <3>1. PICK j \in DOMAIN toDelete : toDelete[j] = e
      BY DEF Selected
    <3>2. ~Expired(toDelete[j])
      BY <1>1, <3>1 DEF Outdated
    <3>3. need + entries[toDelete[Len(toDelete)]].size > 0
      BY <3>2 DEF SelectionInv, NothingTakenInVain
    <3>4. toDelete[Len(toDelete)] \in Index
      BY <1>1, <3>1, ElementOfSeq DEF TypeOK
    <3>5. QED
      BY <1>1, <3>3, <3>4 DEF UnitSizes
  <2>2. QED
    BY <2>1
<1>5. S \cap Recent # {} => Old \subseteq S
  <2>1. ASSUME NEW e \in S \cap Recent, NEW f \in Old PROVE f \in S
    <3>1. /\ e \in Index /\ e \in Selected /\ ~Expired(e) /\ entries[e].age < 1
          /\ f \in Index /\ f \notin Outdated /\ entries[f].age >= 1
      BY <1>1, Entries DEF Outdated, Old, Recent
    <3>2. QED
      BY <3>1 DEF SelectionInv, RecentGoLast
  <2>2. QED
    BY <2>1
<1> HIDE DEF S, x, o, k, s
<1>6. Selections(Outdated, Old, Recent, Asked) =
         IF Asked - x <= 0 THEN {Outdated}
         ELSE IF Asked - x - o <= 0
              THEN {Outdated \cup T : T \in {t \in SUBSET Old : Cardinality(t) = Asked - x}}
         ELSE IF Asked - x - o >= k THEN {Outdated \cup Old \cup Recent}
         ELSE {Outdated \cup Old \cup T :
                 T \in {t \in SUBSET Recent : Cardinality(t) = Asked - x - o}}
  BY DEF Selections, kSubset, x, o, k
<1>7. CASE S = {}
  <2>1. s = 0 /\ Selected = Outdated
    BY <1>2, <1>7, FS_EmptySet DEF s
  <2>2. CASE need <= 0
    BY <1>1, <1>3, <1>6, <2>1, <2>2
  <2>3. CASE need > 0
    <3>1. Old = {} /\ Recent = {}
      BY <1>1, <2>1, <2>3, Classes
    <3>2. o = 0 /\ k = 0
      BY <3>1, FS_EmptySet DEF o, k
    <3>3. QED
      BY <1>1, <1>3, <1>6, <2>1, <2>3, <3>1, <3>2
  <2>4. QED
    BY <1>1, <2>2, <2>3
<1>8. CASE S # {} /\ need > 0
  <2>1. S = Old \cup Recent
    BY <1>1, <1>2, <1>8, Classes DEF S
  <2>2. s = o + k
    <3>1. Cardinality(Old \cap Recent) = 0
      BY <1>2, FS_EmptySet
    <3>2. s = o + k - Cardinality(Old \cap Recent)
      BY <1>2, <2>1, FS_Union DEF s, o, k
    <3>3. QED
      BY <1>2, <3>1, <3>2
  <2>3. Selected = Outdated \cup Old \cup Recent
    BY <1>2, <2>1
  <2>4. QED
    BY <1>1, <1>2, <1>3, <1>6, <1>8, <2>2, <2>3
<1>9. CASE S # {} /\ need = 0 /\ S \subseteq Old
  <2>1. s <= o /\ s # 0
    BY <1>2, <1>9, FS_Subset, FS_EmptySet DEF s, o
  <2>2. QED
    BY <1>2, <1>3, <1>6, <1>9, <2>1 DEF s
<1>10. CASE need = 0 /\ ~(S \subseteq Old)
  <2> DEFINE T == S \ Old
  <2>1. Old \subseteq S /\ T \subseteq Recent /\ T # {}
    BY <1>2, <1>5, <1>10
  <2>2. IsFiniteSet(T) /\ Cardinality(T) = s - o
    <3>1. S \cap Old = Old
      BY <2>1
    <3>2. QED
      BY <1>2, <3>1, FS_Difference DEF s, o
  <2>3. Cardinality(T) \in Nat /\ Cardinality(T) # 0 /\ Cardinality(T) <= k
    BY <1>2, <2>1, <2>2, FS_EmptySet, FS_CardinalityType, FS_Subset DEF k
  <2>4. Selected = Outdated \cup Old \cup T
    BY <1>2, <2>1
  <2>5. Asked - x - o = Cardinality(T)
    BY <1>2, <1>3, <1>10, <2>2
  <2>6. CASE Cardinality(T) = k
    <3>1. T = Recent
      BY <1>2, <2>1, <2>6, FS_Subset DEF k
    <3>2. QED
      BY <1>2, <1>3, <1>6, <1>10, <2>3, <2>4, <2>5, <2>6, <3>1
  <2>7. CASE Cardinality(T) < k
    <3>1. Asked \in Int
      BY <1>1 DEF TypeOK, Asked
    <3>2. Asked - x > 0 /\ Asked - x - o > 0 /\ Asked - x - o < k
      BY <1>2, <1>3, <1>10, <2>3, <2>5, <2>7
    <3>3. QED
      BY <1>2, <2>1, <2>4, <2>5, <3>1, <3>2, SomeRecentSelected DEF x, o, k
  <2>8. QED
    BY <1>2, <2>3, <2>6, <2>7
<1>11. QED
  BY <1>1, <1>4, <1>7, <1>8, <1>9, <1>10

(* For entries of equal size, whatever their number, the three passes       *)
(* select exactly the sets of SelectionContract, and panic exactly when it  *)
(* says so: PruningService may use it in place of the loops.                *)
THEOREM SelectsAsContracted == Spec => []UnitSelection
<1>1. Init => ArrayInv /\ PanicInv
  BY DEF Init, ArrayInv, PanicInv
<1>2. SelectionInv /\ ArrayInv /\ PanicInv => UnitSelection
  <2> SUFFICES ASSUME SelectionInv, PanicInv, UnitSizes
               PROVE  /\ pass = "done" =>
                             /\ Selected \in Selections(Outdated, Old, Recent, Asked)
                             /\ ~Panics(Outdated, Old, Recent, Asked)
                      /\ pass = "panic" => Panics(Outdated, Old, Recent, Asked)
    BY DEF UnitSelection, UnitSizes, Outdated, Old, Recent, Asked
  <2>1. QED
    BY SelectsByContract DEF PanicInv, UnitSizes
<1>3. QED
  BY <1>1, <1>2, SelectionInvHolds, ContractStep, PTL DEF Spec
=============================================================================
