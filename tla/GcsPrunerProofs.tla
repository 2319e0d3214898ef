--------------------------- MODULE GcsPrunerProofs ---------------------------
(***************************************************************************)
(* What a job of the external pruner guarantees for buckets of any size,   *)
(* any limit and age, and whatever others do to the bucket meanwhile.  The *)
(* properties compare sums of bytes, so that the first part shows what the *)
(* proofs need of sums: their type, what one element adds, and that they   *)
(* grow along an injection.  Induction is done on sets of numbers.         *)
(***************************************************************************)
EXTENDS GcsPruner, FiniteSetTheorems, TLAPS

-----------------------------------------------------------------------------
(* Sums.                                                                    *)

(* Induction over the natural numbers, with a set for the formula: a number *)
(* missing from it would have a least one below it.                         *)
LEMMA SetInduction ==
  ASSUME NEW A, 0 \in A, \A n \in Nat : n \in A => n + 1 \in A
  PROVE  Nat \subseteq A
<1> DEFINE T == Nat \ A
<1> SUFFICES ASSUME T # {} PROVE FALSE
  OBVIOUS
<1>1. \E x \in T : \A y \in T : ~(<<y, x>> \in OpToRel(<, Nat))
  BY NatLessThanWellFounded, WFMin
<1>2. PICK x \in T : \A y \in T : ~(<<y, x>> \in OpToRel(<, Nat))
  BY <1>1
<1>3. x # 0 /\ x - 1 \in Nat /\ x - 1 < x
  OBVIOUS
<1>4. x - 1 \in T
  BY <1>3
<1>5. <<x - 1, x>> \in OpToRel(<, Nat)
  BY <1>3 DEF OpToRel
<1>6. QED
  BY <1>2, <1>4, <1>5

First(s) == CHOOSE x \in s : TRUE

(* g adds up f over the subsets of S, as MapThenSumSet does.                *)
Sums(g, f, S) ==
    g = [s \in SUBSET S |-> IF s = {} THEN 0 ELSE f[First(s)] + g[s \ {First(s)}]]

(* What is removed from a finite set makes it smaller.                      *)
LEMMA Smaller ==
  ASSUME NEW S, IsFiniteSet(S), NEW s \in SUBSET S, NEW x \in s
  PROVE  /\ s \ {x} \in SUBSET S /\ IsFiniteSet(s) /\ Cardinality(s) \in Nat
         /\ Cardinality(s \ {x}) \in Nat
         /\ Cardinality(s \ {x}) = Cardinality(s) - 1
<1>1. IsFiniteSet(s) /\ IsFiniteSet(s \ {x})
  BY FS_Subset
<1>2. QED
  BY <1>1, FS_RemoveElement, FS_CardinalityType

(* There is such a sum: it is defined for one more element at a time.       *)
LEMMA SumExists ==
  ASSUME NEW S, IsFiniteSet(S), NEW f
  PROVE  \E g : Sums(g, f, S)
<1> DEFINE D(n) == {s \in SUBSET S : Cardinality(s) <= n}
           Adds(g, n) == \A s \in D(n) :
               g[s] = IF s = {} THEN 0 ELSE f[First(s)] + g[s \ {First(s)}]
           A == {n \in Nat : \E g : Adds(g, n)}
<1>1. \A s \in SUBSET S : IsFiniteSet(s) /\ Cardinality(s) \in Nat
  BY FS_Subset, FS_CardinalityType
<1>2. 0 \in A
  <2>1. \A s \in D(0) : s = {}
    BY <1>1, FS_EmptySet
  <2>2. Adds([s \in D(0) |-> 0], 0)
    BY <2>1
  <2>3. QED
    BY <2>2
<1>3. ASSUME NEW n \in Nat, n \in A PROVE n + 1 \in A
  <2>1. PICK g : Adds(g, n)
    BY <1>3
  <2> DEFINE h == [s \in D(n + 1) |->
                     IF s = {} THEN 0 ELSE f[First(s)] + g[s \ {First(s)}]]
  <2>2. \A s \in D(n) : s \in D(n + 1)
    BY <1>1
  <2>3. \A s \in D(n) : h[s] = g[s]
    BY <2>1, <2>2
  <2>4. ASSUME NEW s \in D(n + 1), s # {}
        PROVE  s \ {First(s)} \in D(n)
    <3>1. First(s) \in s
      BY <2>4 DEF First
    <3>2. QED
      BY <2>4, <3>1, Smaller
  <2>5. ASSUME NEW s \in D(n + 1)
        PROVE  h[s] = IF s = {} THEN 0 ELSE f[First(s)] + h[s \ {First(s)}]
    <3> HIDE DEF D, h
    <3>1. CASE s = {}
      BY <3>1 DEF h
    <3>2. CASE s # {}
      <4>1. h[s] = f[First(s)] + g[s \ {First(s)}]
        BY <3>2 DEF h
      <4>2. QED
        BY <2>3, <2>4, <3>2, <4>1
    <3>3. QED
      BY <3>1, <3>2
  <2>6. Adds(h, n + 1)
    BY <2>5
  <2> HIDE DEF h, Adds
  <2>7. QED
    BY <2>6
<1>4. Cardinality(S) \in A
  <2> HIDE DEF A
  <2>1. Nat \subseteq A
    BY <1>2, <1>3, SetInduction
  <2>2. QED
    BY <2>1, FS_CardinalityType
<1>5. PICK g : Adds(g, Cardinality(S))
  BY <1>4
<1>6. \A s \in SUBSET S : s \in D(Cardinality(S))
  BY FS_Subset
<1> DEFINE h == [s \in SUBSET S |-> g[s]]
<1>7. ASSUME NEW s \in SUBSET S
      PROVE  h[s] = IF s = {} THEN 0 ELSE f[First(s)] + h[s \ {First(s)}]
  BY <1>5, <1>6
<1>8. h = [s \in SUBSET S |-> IF s = {} THEN 0 ELSE f[First(s)] + h[s \ {First(s)}]]
  <2>1. h = [s \in SUBSET S |-> h[s]]
    OBVIOUS
  <2> HIDE DEF h
  <2>2. QED
    BY <1>7, <2>1
<1>9. QED
  BY <1>8 DEF Sums

LEMMA SumEquation ==
  ASSUME NEW S, NEW f, NEW g, Sums(g, f, S), NEW s \in SUBSET S
  PROVE  /\ s = {} => g[s] = 0
         /\ s # {} => First(s) \in s /\ g[s] = f[First(s)] + g[s \ {First(s)}]
<1>1. s # {} => First(s) \in s
  BY DEF First
<1>2. g[s] = IF s = {} THEN 0 ELSE f[First(s)] + g[s \ {First(s)}]
  BY DEF Sums
<1>3. QED
  BY <1>1, <1>2

LEMMA SumType ==
  ASSUME NEW S, IsFiniteSet(S), NEW f, \A x \in S : f[x] \in Nat,
         NEW g, Sums(g, f, S)
  PROVE  \A s \in SUBSET S : g[s] \in Nat
<1> DEFINE A == {n \in Nat : \A s \in SUBSET S : Cardinality(s) = n => g[s] \in Nat}
<1>1. \A s \in SUBSET S : IsFiniteSet(s) /\ Cardinality(s) \in Nat
  BY FS_Subset, FS_CardinalityType
<1>2. 0 \in A
  BY <1>1, FS_EmptySet, SumEquation
<1>3. ASSUME NEW n \in Nat, n \in A PROVE n + 1 \in A
  <2> SUFFICES ASSUME NEW s \in SUBSET S, Cardinality(s) = n + 1
               PROVE  g[s] \in Nat
    OBVIOUS
  <2>1. s # {}
    BY FS_EmptySet
  <2>2. First(s) \in s /\ g[s] = f[First(s)] + g[s \ {First(s)}]
    BY <2>1, SumEquation
  <2>3. s \ {First(s)} \in SUBSET S /\ Cardinality(s \ {First(s)}) = n
    BY <2>2, Smaller
  <2>4. g[s \ {First(s)}] \in Nat
    BY <1>3, <2>3
  <2>5. QED
    BY <2>2, <2>4
<1>4. Nat \subseteq A
  <2> HIDE DEF A
  <2>1. QED
    BY <1>2, <1>3, SetInduction
<1>5. QED
  BY <1>1, <1>4

(* The order does not matter: any element may be taken first.               *)
LEMMA SumSplit ==
  ASSUME NEW S, IsFiniteSet(S), NEW f, \A x \in S : f[x] \in Nat,
         NEW g, Sums(g, f, S)
  PROVE  \A s \in SUBSET S : \A x \in s : g[s] = f[x] + g[s \ {x}]
<1> DEFINE Splits(s) == \A x \in s : g[s] = f[x] + g[s \ {x}]
           A == {n \in Nat : \A s \in SUBSET S : Cardinality(s) = n => Splits(s)}
<1>1. \A s \in SUBSET S : IsFiniteSet(s) /\ Cardinality(s) \in Nat
  BY FS_Subset, FS_CardinalityType
<1>2. 0 \in A
  BY <1>1, FS_EmptySet
<1>3. ASSUME NEW n \in Nat, n \in A PROVE n + 1 \in A
  <2> SUFFICES ASSUME NEW s \in SUBSET S, Cardinality(s) = n + 1, NEW x \in s
               PROVE  g[s] = f[x] + g[s \ {x}]
    OBVIOUS
  <2> DEFINE y == First(s)
  <2>1. y \in s /\ g[s] = f[y] + g[s \ {y}]
    BY SumEquation
  <2>2. CASE x = y
    BY <2>1, <2>2
  <2>3. CASE x # y
    <3> HIDE DEF y
    <3> DEFINE r == (s \ {y}) \ {x}
    <3>1. /\ s \ {y} \in SUBSET S /\ Cardinality(s \ {y}) = n /\ x \in s \ {y}
          /\ s \ {x} \in SUBSET S /\ Cardinality(s \ {x}) = n /\ y \in s \ {x}
      BY <2>1, <2>3, Smaller
    <3>2. r \in SUBSET S /\ (s \ {x}) \ {y} = r
      OBVIOUS
    <3>3. g[s \ {y}] = f[x] + g[r]
      BY <1>3, <3>1
    <3>4. g[s \ {x}] = f[y] + g[(s \ {x}) \ {y}]
      BY <1>3, <3>1
    <3>5. f[x] \in Nat /\ f[y] \in Nat /\ g[r] \in Nat
      BY <2>1, <3>2, SumType
    <3> HIDE DEF r
    <3>6. g[s] = f[y] + (f[x] + g[r]) /\ g[s \ {x}] = f[y] + g[r]
      BY <2>1, <3>2, <3>3, <3>4
    <3>7. QED
      BY <3>5, <3>6
  <2>4. QED
    BY <2>2, <2>3
<1>4. Nat \subseteq A
  <2> HIDE DEF A
  <2>1. QED
    BY <1>2, <1>3, SetInduction
<1>5. QED
  BY <1>1, <1>4

(* If every element of s has one of its own in t that weighs as much or     *)
(* more, t weighs as much as s or more.                                     *)
LEMMA SumAlong ==
  ASSUME NEW S, IsFiniteSet(S), NEW f, \A x \in S : f[x] \in Nat,
         NEW g, Sums(g, f, S),
         NEW T, IsFiniteSet(T), NEW e, \A y \in T : e[y] \in Nat,
         NEW h, Sums(h, e, T),
         NEW m \in [S -> T], \A x, y \in S : m[x] = m[y] => x = y,
         \A x \in S : f[x] <= e[m[x]]
  PROVE  g[S] <= h[T]
<1> DEFINE Fits(s, t) == \A x \in s : m[x] \in t
           A == {n \in Nat : \A s \in SUBSET S, t \in SUBSET T :
                   Cardinality(s) = n /\ Fits(s, t) => g[s] <= h[t]}
<1>1. \A s \in SUBSET S : IsFiniteSet(s) /\ Cardinality(s) \in Nat
  BY FS_Subset, FS_CardinalityType
<1>2. /\ \A s \in SUBSET S : g[s] \in Nat
      /\ \A t \in SUBSET T : h[t] \in Nat
  BY SumType
<1>3. 0 \in A
  <2> SUFFICES ASSUME NEW s \in SUBSET S, NEW t \in SUBSET T, Cardinality(s) = 0
               PROVE  g[s] <= h[t]
    OBVIOUS
  <2>1. s = {}
    BY <1>1, FS_EmptySet
  <2>2. g[s] = 0
    <3>1. g[{}] = 0
      BY DEF Sums
    <3>2. QED
      BY <2>1, <3>1
  <2>3. QED
    BY <1>2, <2>2
<1>4. ASSUME NEW n \in Nat, n \in A PROVE n + 1 \in A
  <2> SUFFICES ASSUME NEW s \in SUBSET S, NEW t \in SUBSET T,
                      Cardinality(s) = n + 1, Fits(s, t)
               PROVE  g[s] <= h[t]
    OBVIOUS
  <2>1. PICK x : x \in s
    BY FS_EmptySet
  <2>2. m[x] \in t /\ x \in S /\ m[x] \in T
    BY <2>1
  <2>3. /\ s \ {x} \in SUBSET S /\ t \ {m[x]} \in SUBSET T
        /\ Cardinality(s \ {x}) = n
    BY <2>1, Smaller
  <2>4. Fits(s \ {x}, t \ {m[x]})
    BY <2>1
  <2>5. g[s \ {x}] <= h[t \ {m[x]}]
    BY <1>4, <2>3, <2>4
  <2>6. g[s] = f[x] + g[s \ {x}] /\ h[t] = e[m[x]] + h[t \ {m[x]}]
    BY <2>1, <2>2, SumSplit
  <2>7. /\ f[x] \in Nat /\ e[m[x]] \in Nat /\ f[x] <= e[m[x]]
        /\ g[s \ {x}] \in Nat /\ h[t \ {m[x]}] \in Nat
    BY <1>2, <2>2, <2>3
  <2>8. QED
    BY <2>5, <2>6, <2>7
<1>5. Nat \subseteq A
  <2> HIDE DEF A
  <2>1. QED
    BY <1>3, <1>4, SetInduction
<1>6. Fits(S, T) /\ Cardinality(S) \in A
  BY <1>1, <1>5
<1>7. QED
  BY <1>6

-----------------------------------------------------------------------------
(* The inductive invariant.                                                 *)

BytesOf(X) == MapThenSumSet(LAMBDA o : o.size, X)

(* Time passes with every write.                                            *)
ClockAhead == MinAge <= now /\ \A k \in Present : bucket[k].created <= now

(* A name is listed once, before the cursor, and what was listed was        *)
(* created by then.                                                         *)
ListedOnce ==
    /\ IsFiniteSet(listed)
    /\ \A o \in listed : o.name < cursor /\ o.created <= now
    /\ \A o, p \in listed : o.name = p.name => o = p
    /\ objects \subseteq listed /\ failed \subseteq listed

(* Nothing is kept between jobs; nothing is passed while the listing lasts. *)
FreshJob ==
    /\ ~Active => listed = {} /\ totalBytes = 0
    /\ pc = "scanning" => objects = listed

(* What the loop has passed is gone, too recent, or could not be deleted.   *)
PassedIsDone ==
    pc = "deleting" =>
        \A o \in listed \ (objects \cup failed) : Remains(o) => o.updated > threshold

(* The total covers what remains, and also what the loop has still to come  *)
(* to: the object of that name may have been replaced since.                *)
Counted == {o \in listed : Remains(o) \/ o \in objects}
TotalCovers == BytesOf(Counted) <= totalBytes

(* But for what was lost all of the total is there: under the names listed  *)
(* are objects as large as those listed, or larger.                         *)
Standing == {o \in listed : o.name \in Present /\ o.size <= bucket[o.name].size}
TotalStands == totalBytes <= BytesOf(Standing) + lost

JobInv ==
    /\ TypeOK /\ ClockAhead
    /\ ListedOnce /\ FreshJob /\ PassedIsDone /\ TotalCovers /\ TotalStands

-----------------------------------------------------------------------------
(* The sums of the model.                                                   *)

SizeOf == [o \in Attrs |-> o.size]

LEMMA SizeType == \A o \in Attrs : SizeOf[o] = o.size /\ o.size \in Nat
BY GcsAssumption DEF SizeOf, Attrs

LEMMA BytesSum ==
  ASSUME NEW X, X \subseteq Attrs, IsFiniteSet(X)
  PROVE  \E g : Sums(g, SizeOf, X) /\ BytesOf(X) = g[X]
<1> DEFINE Adds(g) == g = [s \in SUBSET X |->
                 IF s = {} THEN 0 ELSE First(s).size + g[s \ {First(s)}]]
           G == CHOOSE g : Adds(g)
<1>1. \A s \in SUBSET X : s # {} => SizeOf[First(s)] = First(s).size
  BY SizeType DEF First
<1>2. ASSUME NEW g PROVE Sums(g, SizeOf, X) <=> Adds(g)
  BY <1>1 DEF Sums
<1>3. Sums(G, SizeOf, X)
  BY <1>2, SumExists
<1>4. BytesOf(X) = G[X]
  BY DEF BytesOf, MapThenSumSet, MapThenFoldSet, First
<1>5. QED
  BY <1>3, <1>4

LEMMA EmptyBytes == BytesOf({}) = 0
<1>1. PICK g : Sums(g, SizeOf, {}) /\ BytesOf({}) = g[{}]
  BY FS_EmptySet, BytesSum
<1>2. g[{}] = 0
  BY <1>1 DEF Sums
<1>3. QED
  BY <1>1, <1>2

LEMMA BytesType ==
  ASSUME NEW X, X \subseteq Attrs, IsFiniteSet(X)
  PROVE  BytesOf(X) \in Nat
<1>1. PICK g : Sums(g, SizeOf, X) /\ BytesOf(X) = g[X]
  BY BytesSum
<1>2. \A o \in X : SizeOf[o] \in Nat
  BY SizeType
<1>3. \A s \in SUBSET X : g[s] \in Nat
  BY <1>1, <1>2, SumType
<1>4. QED
  BY <1>1, <1>3

LEMMA BytesGrow ==
  ASSUME NEW X, X \subseteq Attrs, IsFiniteSet(X), NEW Y \in SUBSET X
  PROVE  BytesOf(Y) <= BytesOf(X)
<1>1. PICK g : Sums(g, SizeOf, X) /\ BytesOf(X) = g[X]
  BY BytesSum
<1>2. IsFiniteSet(Y)
  BY FS_Subset
<1>3. PICK h : Sums(h, SizeOf, Y) /\ BytesOf(Y) = h[Y]
  BY <1>2, BytesSum
<1>4. \A o \in X : SizeOf[o] \in Nat
  BY SizeType
<1> DEFINE m == [o \in Y |-> o]
<1>5. /\ m \in [Y -> X] /\ \A o, p \in Y : m[o] = m[p] => o = p
      /\ \A o \in Y : SizeOf[o] <= SizeOf[m[o]]
  BY <1>4
<1> HIDE DEF m
<1>6. h[Y] <= g[X]
  BY <1>1, <1>2, <1>3, <1>4, <1>5, SumAlong
<1>7. QED
  BY <1>1, <1>3, <1>6

LEMMA BytesTake ==
  ASSUME NEW X, X \subseteq Attrs, IsFiniteSet(X), NEW o \in X
  PROVE  BytesOf(X) = o.size + BytesOf(X \ {o})
<1> DEFINE Y == X \ {o}
<1>1. PICK g : Sums(g, SizeOf, X) /\ BytesOf(X) = g[X]
  BY BytesSum
<1>2. IsFiniteSet(Y) /\ Y \in SUBSET X
  BY FS_Subset
<1>3. PICK h : Sums(h, SizeOf, Y) /\ BytesOf(Y) = h[Y]
  BY <1>2, BytesSum
<1>4. \A p \in X : SizeOf[p] \in Nat
  BY SizeType
<1>5. Sums(g, SizeOf, X) /\ X \in SUBSET X
  BY <1>1
<1>6. g[X] = SizeOf[o] + g[Y]
  BY <1>4, <1>5, SumSplit
<1>7. g[Y] = h[Y]
  <2> HIDE DEF Y
  <2>1. Sums([s \in SUBSET Y |-> g[s]], SizeOf, Y)
    <3>1. \A s \in SUBSET Y : s \in SUBSET X
      BY <1>2
    <3>2. \A s \in SUBSET Y : g[s] = IF s = {} THEN 0 ELSE SizeOf[First(s)] + g[s \ {First(s)}]
      BY <1>1, <3>1 DEF Sums
    <3>3. QED
      BY <3>2 DEF Sums
  <2> DEFINE r == [s \in SUBSET Y |-> g[s]]
             m == [p \in Y |-> p]
  <2>2. /\ m \in [Y -> Y] /\ \A p, q \in Y : m[p] = m[q] => p = q
        /\ \A p \in Y : SizeOf[p] \in Nat /\ SizeOf[p] <= SizeOf[m[p]]
    BY <1>2, <1>4
  <2>3. r[Y] = g[Y] /\ Sums(r, SizeOf, Y)
    BY <2>1
  <2> HIDE DEF r, m
  <2>4. r[Y] <= h[Y] /\ h[Y] <= r[Y]
    BY <1>2, <1>3, <2>2, <2>3, SumAlong
  <2>5. r[Y] \in Nat /\ h[Y] \in Nat
    BY <1>2, <1>3, <2>2, <2>3, SumType
  <2>6. QED
    BY <2>3, <2>4, <2>5
<1>8. QED
  BY <1>1, <1>3, <1>6, <1>7, SizeType

(* What has objects of its own in the bucket weighs no more than it.        *)
LEMMA BytesInBucket ==
  ASSUME bucket \in [Key -> Object \cup {NoObject}],
         NEW X, X \subseteq Attrs, IsFiniteSet(X),
         \A o, p \in X : o.name = p.name => o = p,
         \A o \in X : o.name \in Present /\ o.size <= bucket[o.name].size
  PROVE  BytesOf(X) <= BucketBytes /\ BucketBytes \in Nat
<1> DEFINE W == [k \in Key |-> bucket[k].size]
           Adds(g) == g = [s \in SUBSET Present |->
                 IF s = {} THEN 0 ELSE bucket[First(s)].size + g[s \ {First(s)}]]
           G == CHOOSE g : Adds(g)
<1>1. Present \in SUBSET Key /\ IsFiniteSet(Present)
  BY GcsAssumption, FS_Interval, FS_Subset DEF Present, Key
<1>2. \A k \in Present : W[k] = bucket[k].size /\ W[k] \in Nat
  BY <1>1, GcsAssumption DEF Present, Object
<1>3. \A s \in SUBSET Present : s # {} => W[First(s)] = bucket[First(s)].size
  BY <1>2 DEF First
<1>4. ASSUME NEW g PROVE Sums(g, W, Present) <=> Adds(g)
  <2> HIDE DEF W
  <2>1. QED
    BY <1>3 DEF Sums
<1>5. Sums(G, W, Present)
  <2> HIDE DEF W, Adds
  <2>1. QED
    BY <1>1, <1>4, SumExists
<1>6. BucketBytes = G[Present]
  BY DEF BucketBytes, MapThenSumSet, MapThenFoldSet, First
<1>7. PICK h : Sums(h, SizeOf, X) /\ BytesOf(X) = h[X]
  BY BytesSum
<1> DEFINE m == [o \in X |-> o.name]
<1> HIDE DEF W, G
<1>8. /\ m \in [X -> Present] /\ \A o, p \in X : m[o] = m[p] => o = p
      /\ \A o \in X : SizeOf[o] \in Nat /\ SizeOf[o] <= W[m[o]]
  BY <1>2, SizeType
<1> HIDE DEF m
<1>9. h[X] <= G[Present] /\ G[Present] \in Nat
  BY <1>1, <1>2, <1>5, <1>7, <1>8, SumAlong, SumType
<1>10. QED
  BY <1>6, <1>7, <1>9

-----------------------------------------------------------------------------
(* The invariant holds.                                                     *)

LEMMA JobInit == Init => JobInv
<1> SUFFICES ASSUME Init PROVE JobInv
  OBVIOUS
<1>1. TypeOK
  <2>1. /\ now \in 0 .. MaxTime /\ cursor \in 1 .. NumKeys + 1
        /\ totalBytes \in Nat /\ threshold \in 0 .. MaxTime
        /\ errors \in 0 .. MaxErrors
    BY GcsAssumption DEF Init
  <2>2. bucket \in [Key -> Object \cup {NoObject}]
    <3>1. 0 \in 0 .. MaxTime
      BY GcsAssumption
    <3>2. {[size |-> s, created |-> 0, updated |-> 0] : s \in Sizes} \subseteq Object
      BY <3>1 DEF Object
    <3>3. QED
      BY <3>2 DEF Init
  <2>3. QED
    BY <2>1, <2>2 DEF Init, TypeOK
<1>2. ListedOnce /\ FreshJob /\ PassedIsDone /\ ClockAhead
  <2>1. ClockAhead
    <3>1. \A k \in Present : bucket[k].created = 0
      BY DEF Init, Present
    <3>2. QED
      BY <3>1, GcsAssumption DEF Init, ClockAhead
  <2>2. QED
    BY <2>1, FS_EmptySet DEF Init, ListedOnce, FreshJob, PassedIsDone, Active
<1>3. Counted = {} /\ Standing = {}
  BY DEF Init, Counted, Standing
<1>4. TotalCovers /\ TotalStands
  BY <1>3, EmptyBytes DEF Init, TotalCovers, TotalStands
<1>5. QED
  BY <1>1, <1>2, <1>4 DEF JobInv

LEMMA SumsTyped ==
  ASSUME JobInv
  PROVE  /\ Counted \subseteq Attrs /\ IsFiniteSet(Counted) /\ BytesOf(Counted) \in Nat
         /\ Standing \subseteq Attrs /\ IsFiniteSet(Standing) /\ BytesOf(Standing) \in Nat
<1>1. IsFiniteSet(listed) /\ listed \subseteq Attrs
  BY DEF JobInv, ListedOnce, TypeOK
<1>2. Counted \in SUBSET listed /\ Standing \in SUBSET listed
  BY DEF Counted, Standing
<1>3. QED
  BY <1>1, <1>2, FS_Subset, BytesType

(* A step that leaves the total alone, and counts nothing more.             *)
LEMMA CoversKept ==
  ASSUME JobInv, Counted' \subseteq Counted, totalBytes' = totalBytes
  PROVE  TotalCovers'
<1>1. BytesOf(Counted') <= BytesOf(Counted)
  BY SumsTyped, BytesGrow
<1>2. IsFiniteSet(Counted') /\ Counted' \subseteq Attrs
  BY SumsTyped, FS_Subset
<1>3. BytesOf(Counted') \in Nat
  BY <1>2, BytesType
<1>4. QED
  BY <1>1, <1>3, SumsTyped DEF JobInv, TotalCovers, TypeOK

(* A step that leaves the total alone, and after which as much stands.      *)
LEMMA StandsKept ==
  ASSUME JobInv, TypeOK', ListedOnce', Standing \subseteq Standing',
         totalBytes' = totalBytes, lost <= lost'
  PROVE  TotalStands'
<1>1. IsFiniteSet(Standing') /\ Standing' \subseteq Attrs
  <2>1. Standing' \in SUBSET listed'
    BY DEF Standing
  <2>2. QED
    BY <2>1, FS_Subset DEF ListedOnce, TypeOK
<1>2. BytesOf(Standing) <= BytesOf(Standing') /\ BytesOf(Standing') \in Nat
  BY <1>1, BytesGrow, BytesType
<1>3. QED
  BY <1>2, SumsTyped DEF JobInv, TotalStands, TypeOK

(* Steps that see neither the bucket nor what was listed of it.             *)
LEMMA QuietStep ==
  ASSUME JobInv, Start \/ ScanGap \/ OverLimit \/ Tick \/ UNCHANGED vars
  PROVE  JobInv'
<1> USE DEF JobInv
<1>1. UNCHANGED <<bucket, objects, failed, listed, totalBytes, zeroBatch, lost,
                  errors>>
  BY DEF Start, ScanGap, OverLimit, Tick, vars
<1>2. TypeOK' /\ ClockAhead'
  <2>1. /\ now' \in 0 .. MaxTime /\ cursor' \in 1 .. NumKeys + 1
        /\ threshold' \in 0 .. MaxTime /\ now <= now'
    BY GcsAssumption DEF TypeOK, ClockAhead, Start, ScanGap, OverLimit, Tick, vars, Key
  <2>2. pc' \in {"waiting", "scanning", "deleting", "dead"}
    BY DEF TypeOK, Start, ScanGap, OverLimit, Tick, vars
  <2>3. ClockAhead'
    <3>1. \A k \in Present : bucket[k].created \in Int /\ bucket[k].created <= now
      BY DEF TypeOK, ClockAhead, Present, Object
    <3>2. QED
      BY <1>1, <2>1, <3>1, GcsAssumption DEF TypeOK, ClockAhead, Present
  <2>4. QED
    BY <1>1, <2>1, <2>2, <2>3 DEF TypeOK
<1>3. ListedOnce'
  <2>1. cursor <= cursor' /\ now <= now'
    BY DEF TypeOK, Start, ScanGap, OverLimit, Tick, vars
  <2>2. \A o \in listed : /\ o.name \in Int /\ o.created \in Int
                           /\ o.name < cursor /\ o.created <= now
    BY DEF ListedOnce, TypeOK, Attrs, Key
  <2>3. \A o \in listed : o.name < cursor' /\ o.created <= now'
    BY <1>2, <2>1, <2>2 DEF TypeOK
  <2>4. QED
    BY <1>1, <2>3 DEF ListedOnce
<1>4. FreshJob'
  BY <1>1 DEF FreshJob, ListedOnce, Active, Start, ScanGap, OverLimit, Tick, vars
<1>5. PassedIsDone'
  BY <1>1 DEF FreshJob, PassedIsDone, Remains, Present, Start, ScanGap, OverLimit,
     Tick, vars
<1>6. Counted' = Counted /\ Standing' = Standing
  BY <1>1 DEF Counted, Standing, Remains, Present
<1>7. TotalCovers' /\ TotalStands'
  BY <1>1, <1>6 DEF TotalCovers, TotalStands
<1>8. QED
  BY <1>2, <1>3, <1>4, <1>5, <1>7

(* One more object is listed, with its size.                                *)
LEMMA ScanStep ==
  ASSUME JobInv, ScanObject
  PROVE  JobInv'
<1> USE DEF JobInv
<1> DEFINE new == AttrsOf(cursor)
<1>1. /\ pc = "scanning" /\ cursor \in Present /\ pc' = pc /\ cursor' = cursor + 1
      /\ objects' = objects \cup {new} /\ listed' = listed \cup {new}
      /\ totalBytes' = totalBytes + bucket[cursor].size
      /\ UNCHANGED <<bucket, now, failed, threshold, zeroBatch, lost, errors>>
  BY DEF ScanObject
<1>2. /\ cursor \in Key /\ bucket[cursor] \in Object
      /\ bucket[cursor].size \in Nat
  BY <1>1, GcsAssumption DEF TypeOK, Present, Object
<1>3. /\ new \in Attrs /\ new.name = cursor /\ new.size = bucket[cursor].size
      /\ new.created = bucket[cursor].created
  BY <1>2 DEF AttrsOf, Attrs, Object
<1> HIDE DEF new
<1>4. TypeOK'
  <2>1. cursor' \in 1 .. NumKeys + 1 /\ totalBytes' \in Nat
    BY <1>1, <1>2, GcsAssumption DEF TypeOK, Key
  <2>2. QED
    BY <1>1, <1>3, <2>1 DEF TypeOK
<1>5. ListedOnce' /\ FreshJob' /\ PassedIsDone' /\ ClockAhead'
  <2>1. new.created <= now
    BY <1>1, <1>3 DEF ClockAhead
  <2>2. cursor \in Int /\ \A o \in listed : o.name \in Int /\ o.name < cursor
    BY DEF ListedOnce, TypeOK, Attrs, Key
  <2>3. \A o \in listed' : o.name < cursor' /\ o.created <= now'
    BY <1>1, <1>3, <2>1, <2>2 DEF ListedOnce
  <2>4. \A o, p \in listed' : o.name = p.name => o = p
    BY <1>1, <1>3, <2>2 DEF ListedOnce
  <2>5. IsFiniteSet(listed') /\ objects' \subseteq listed' /\ failed' \subseteq listed'
    BY <1>1, FS_AddElement DEF ListedOnce
  <2>6. QED
    BY <1>1, <2>3, <2>4, <2>5
       DEF ListedOnce, FreshJob, PassedIsDone, ClockAhead, Active, Present
<1>6. new \notin listed
  <2>1. \A o \in listed : o.name \in Int /\ o.name < cursor /\ cursor \in Int
    BY DEF ListedOnce, TypeOK, Attrs, Key
  <2>2. QED
    BY <1>3, <2>1
<1>7. TotalCovers'
  <2>1. Counted' = Counted \cup {new}
    BY <1>1 DEF Counted, Remains, Present
  <2>2. (Counted' \ {new}) = Counted
    BY <1>6, <2>1 DEF Counted
  <2>3. IsFiniteSet(Counted') /\ Counted' \subseteq Attrs /\ new \in Counted'
    BY <1>3, <2>1, SumsTyped, FS_AddElement
  <2>4. BytesOf(Counted') = new.size + BytesOf(Counted)
    BY <2>2, <2>3, BytesTake
  <2>5. QED
    BY <1>1, <1>2, <1>3, <2>4, SumsTyped DEF TotalCovers, TypeOK
<1>8. TotalStands'
  <2>1. Standing' = Standing \cup {new}
    BY <1>1, <1>2, <1>3 DEF Standing, Present
  <2>2. (Standing' \ {new}) = Standing
    BY <1>6, <2>1 DEF Standing
  <2>3. IsFiniteSet(Standing') /\ Standing' \subseteq Attrs /\ new \in Standing'
    BY <1>3, <2>1, SumsTyped, FS_AddElement
  <2>4. BytesOf(Standing') = new.size + BytesOf(Standing)
    BY <2>2, <2>3, BytesTake
  <2>5. QED
    BY <1>1, <1>2, <1>3, <2>4, SumsTyped DEF TotalStands, TypeOK
<1>9. QED
  BY <1>4, <1>5, <1>7, <1>8

(* The job ends, and keeps nothing.                                         *)
LEMMA EndStep ==
  ASSUME JobInv, UnderLimit \/ Finish \/ Die
  PROVE  JobInv'
<1> USE DEF JobInv
<1>1. /\ pc' \in {"waiting", "dead"} /\ cursor' = 1
      /\ objects' = {} /\ failed' = {} /\ listed' = {}
      /\ totalBytes' = 0 /\ threshold' = 0 /\ lost' = 0 /\ zeroBatch' = zeroBatch
      /\ UNCHANGED <<bucket, now>> /\ errors' \in 0 .. MaxErrors
  BY GcsAssumption DEF UnderLimit, Finish, Die, Ends, TypeOK
<1>2. TypeOK'
  <2>1. 1 \in 1 .. NumKeys + 1 /\ 0 \in 0 .. MaxTime /\ 0 \in Nat
    BY GcsAssumption
  <2>2. QED
    BY <1>1, <2>1 DEF TypeOK
<1>3. ListedOnce' /\ FreshJob' /\ PassedIsDone' /\ ClockAhead'
  BY <1>1, FS_EmptySet
     DEF ListedOnce, FreshJob, PassedIsDone, ClockAhead, Active, Present
<1>4. Counted' = {} /\ Standing' = {}
  BY <1>1 DEF Counted, Standing
<1>5. BytesOf({}) = 0
  BY EmptyBytes
<1>6. TotalCovers' /\ TotalStands'
  BY <1>1, <1>4, <1>5 DEF TotalCovers, TotalStands
<1>7. QED
  BY <1>2, <1>3, <1>6

(* The loop passes an object that it does not delete, or that was gone.     *)
LEMMA PassStep ==
  ASSUME JobInv, SkipRecent \/ DeleteFails
  PROVE  JobInv'
<1> USE DEF JobInv
<1>1. PICK o \in objects :
        /\ pc = "deleting" /\ pc' = pc /\ objects' = objects \ {o}
        /\ failed' \in {failed, failed \cup {o}}
        /\ o \in failed' \/ o.updated > threshold
        /\ UNCHANGED <<bucket, now, cursor, totalBytes, threshold, listed, zeroBatch, lost>>
        /\ errors' \in 0 .. MaxErrors
  BY GcsAssumption DEF SkipRecent, DeleteFails, Oldest, TypeOK
<1>2. TypeOK'
  BY <1>1 DEF TypeOK
<1>3. ListedOnce' /\ FreshJob' /\ ClockAhead'
  BY <1>1 DEF ListedOnce, FreshJob, ClockAhead, Active, Present
<1>4. PassedIsDone'
  BY <1>1 DEF PassedIsDone, Remains, Present
<1>5. Counted' \subseteq Counted /\ Standing' = Standing
  BY <1>1 DEF Counted, Standing, Remains, Present
<1>6. TotalCovers' /\ TotalStands'
  <2>1. lost <= lost'
    BY <1>1 DEF TypeOK
  <2>2. QED
    BY <1>1, <1>2, <1>3, <1>5, <2>1, CoversKept, StandsKept
<1>7. QED
  BY <1>2, <1>3, <1>4, <1>6

(* The loop deletes what is under the name now, and takes from the total    *)
(* the size that was listed for it.                                         *)
LEMMA DeleteStep ==
  ASSUME JobInv, DeleteObject
  PROVE  JobInv'
<1> USE DEF JobInv
<1>1. PICK o \in objects :
        /\ pc = "deleting" /\ pc' = pc /\ totalBytes > MaxTotalBytes
        /\ o.name \in Present /\ bucket' = [bucket EXCEPT ![o.name] = NoObject]
        /\ objects' = objects \ {o} /\ totalBytes' = totalBytes - o.size
        /\ UNCHANGED <<now, cursor, failed, threshold, listed, zeroBatch,
                      lost, errors>>
  BY DEF DeleteObject, Oldest
<1>2. o \in listed /\ o \in Attrs /\ o.size \in Nat /\ o.name \in Key
  BY <1>1, SizeType DEF ListedOnce, TypeOK, Present
<1>3. Present' = Present \ {o.name} /\ \A k \in Present' : bucket'[k] = bucket[k]
  BY <1>1, <1>2 DEF Present, TypeOK
<1>4. /\ Counted \subseteq Attrs /\ IsFiniteSet(Counted) /\ BytesOf(Counted) \in Nat
      /\ Standing \subseteq Attrs /\ IsFiniteSet(Standing) /\ BytesOf(Standing) \in Nat
      /\ totalBytes \in Nat
  BY SumsTyped DEF TypeOK
<1>5. o \in Counted /\ Counted' \in SUBSET (Counted \ {o})
  BY <1>1, <1>2, <1>3 DEF Counted, Remains, ListedOnce
<1>6. /\ BytesOf(Counted) = o.size + BytesOf(Counted \ {o})
      /\ IsFiniteSet(Counted \ {o}) /\ Counted \ {o} \subseteq Attrs
      /\ BytesOf(Counted \ {o}) \in Nat
  BY <1>4, <1>5, BytesTake, FS_RemoveElement, BytesType
<1>7. /\ BytesOf(Counted') <= BytesOf(Counted \ {o})
      /\ BytesOf(Counted') \in Nat
  BY <1>5, <1>6, BytesGrow, FS_Subset, BytesType
<1>8. TotalCovers' /\ totalBytes' \in Nat
  BY <1>1, <1>2, <1>4, <1>6, <1>7 DEF TotalCovers
<1>9. TypeOK'
  BY <1>1, <1>8 DEF TypeOK
<1>10. ListedOnce' /\ FreshJob' /\ ClockAhead'
  BY <1>1, <1>3 DEF ListedOnce, FreshJob, ClockAhead, Active
<1>11. PassedIsDone'
  BY <1>1, <1>2, <1>3 DEF PassedIsDone, Remains
<1>12. Standing' = Standing \ {o}
  <2>1. \A p \in listed : p.name = o.name => p = o
    BY <1>2 DEF ListedOnce
  <2>2. QED
    BY <1>1, <1>2, <1>3, <2>1 DEF Standing
<1>13. TotalStands'
  <2>1. CASE o \in Standing
    <3>1. BytesOf(Standing) = o.size + BytesOf(Standing')
      BY <1>4, <1>12, <2>1, BytesTake
    <3>2. BytesOf(Standing') \in Nat
      BY <1>4, <1>12, FS_RemoveElement, BytesType
    <3>3. lost \in Nat /\ lost' = lost
      BY <1>1 DEF TypeOK
    <3>4. QED
      BY <1>1, <1>2, <1>4, <3>1, <3>2, <3>3 DEF TotalStands
  <2>2. CASE o \notin Standing
    <3>1. Standing' = Standing
      BY <1>12, <2>2
    <3>2. lost \in Nat /\ lost' = lost
      BY <1>1 DEF TypeOK
    <3>3. QED
      BY <1>1, <1>2, <1>4, <3>1, <3>2 DEF TotalStands
  <2>3. QED
    BY <2>1, <2>2
<1>14. QED
  BY <1>8, <1>9, <1>10, <1>11, <1>13

(* A job that panics after a deletion leaves the bucket without an object   *)
(* and keeps nothing.                                                       *)
LEMMA PanicStep ==
  ASSUME JobInv, DeletePanics
  PROVE  JobInv'
<1> USE DEF JobInv
<1>1. PICK o \in objects : bucket' = [bucket EXCEPT ![o.name] = NoObject]
  BY DEF DeletePanics
<1>2. /\ pc' = "dead" /\ cursor' = 1
      /\ objects' = {} /\ failed' = {} /\ listed' = {}
      /\ totalBytes' = 0 /\ threshold' = 0 /\ lost' = 0
      /\ UNCHANGED <<now, zeroBatch, errors>>
  BY DEF DeletePanics, Ends
<1>3. TypeOK'
  <2>1. 1 \in 1 .. NumKeys + 1 /\ 0 \in 0 .. MaxTime /\ 0 \in Nat
    BY GcsAssumption
  <2>2. bucket' \in [Key -> Object \cup {NoObject}]
    BY <1>1 DEF TypeOK
  <2>3. QED
    BY <1>2, <2>1, <2>2 DEF TypeOK
<1>4. ClockAhead'
  <2>1. \A k \in Present' : k \in Present /\ bucket'[k] = bucket[k]
    BY <1>1 DEF Present, TypeOK
  <2>2. QED
    BY <1>2, <2>1 DEF ClockAhead
<1>5. ListedOnce' /\ FreshJob' /\ PassedIsDone'
  BY <1>2, FS_EmptySet DEF ListedOnce, FreshJob, PassedIsDone, Active
<1>6. Counted' = {} /\ Standing' = {}
  BY <1>2 DEF Counted, Standing
<1>7. TotalCovers' /\ TotalStands'
  BY <1>2, <1>6, EmptyBytes DEF TotalCovers, TotalStands
<1>8. QED
  BY <1>3, <1>4, <1>5, <1>7

(* Steps that change the bucket alone: what is put there is younger than    *)
(* anything listed, and what is taken is no longer there to be counted.     *)
LEMMA BucketStep ==
  ASSUME JobInv, NEW k \in Key, NEW b \in Object \cup {NoObject},
         bucket' = [bucket EXCEPT ![k] = b],
         UNCHANGED <<pc, cursor, totalBytes, threshold, listed, zeroBatch>>,
         now' \in {now, now + 1}, now' \in 0 .. MaxTime,
         failed' \in SUBSET listed, failed \subseteq failed',
         objects' \in SUBSET objects, objects \subseteq objects' \cup failed',
         pc = "scanning" => objects' = objects,
         errors' \in 0 .. MaxErrors, lost' \in Nat, lost <= lost',
         \/ b = NoObject
         \/ b.created = now' /\ now' > now
         \/ k \in Present /\ b.created = bucket[k].created,
         \/ k \notin Names \cap Present
         \/ b # NoObject /\ bucket[k].size <= b.size
         \/ lost' = lost + bucket[k].size
  PROVE  JobInv'
<1> USE DEF JobInv
<1>1. TypeOK'
  <2>1. bucket' \in [Key -> Object \cup {NoObject}]
    BY DEF TypeOK
  <2>2. QED
    BY <2>1 DEF TypeOK, ListedOnce
<1>2. /\ \A x \in Key \ {k} : bucket'[x] = bucket[x]
      /\ bucket'[k] = b /\ now \in Nat /\ now' \in Nat
      /\ \A x \in Key : x \in Present <=> bucket[x] # NoObject
      /\ \A x \in Key : x \in Present' <=> bucket'[x] # NoObject
      /\ Present \subseteq Key /\ Present' \subseteq Key
  BY DEF TypeOK, Present
<1>3. \A x \in Present : bucket[x].created \in Nat /\ bucket[x].created <= now
  BY <1>2 DEF TypeOK, ClockAhead, Object
<1>4. ClockAhead'
  BY <1>2, <1>3, GcsAssumption DEF ClockAhead
<1>5. \A o \in listed : /\ o.created \in Nat /\ o.created <= now
                         /\ o.name \in Key /\ o.size \in Nat
  BY SizeType DEF ListedOnce, TypeOK, Attrs
<1>6. ListedOnce'
  <2>1. \A o \in listed : o.created <= now'
    BY <1>2, <1>5
  <2>2. QED
    BY <2>1 DEF ListedOnce
<1>7. FreshJob'
  BY DEF FreshJob, Active
<1>8. \A o \in listed : Remains(o)' => Remains(o)
  BY <1>2, <1>3, <1>5 DEF Remains
<1>9. PassedIsDone'
  BY <1>8 DEF PassedIsDone
<1>10. Counted' \subseteq Counted
  BY <1>8 DEF Counted
<1>11. \A o \in Standing :
          \/ o \in Standing'
          \/ o.name = k /\ o.size <= bucket[k].size /\ lost' = lost + bucket[k].size
  <2> SUFFICES ASSUME NEW o \in Standing
               PROVE  \/ o \in Standing'
                      \/ /\ o.name = k /\ o.size <= bucket[k].size
                         /\ lost' = lost + bucket[k].size
    OBVIOUS
  <2>1. o \in listed /\ o.name \in Present /\ o.size <= bucket[o.name].size
    BY DEF Standing
  <2>2. o.name \in Names
    BY <2>1 DEF Names
  <2>3. o.size \in Nat /\ bucket[o.name].size \in Nat
    BY <1>5, <2>1, GcsAssumption DEF TypeOK, Object, Present
  <2>4. CASE o.name # k
    BY <1>2, <2>1, <2>4 DEF Standing
  <2>5. CASE o.name = k /\ b # NoObject /\ bucket[k].size <= b.size
    <3>1. b.size \in Nat
      BY <2>5, GcsAssumption DEF Object
    <3>2. QED
      BY <1>2, <2>1, <2>3, <2>5, <3>1 DEF Standing
  <2>6. CASE o.name = k /\ lost' = lost + bucket[k].size
    BY <2>1, <2>6
  <2>7. QED
    BY <2>1, <2>2, <2>4, <2>5, <2>6
<1>12. TotalCovers'
  BY <1>10, CoversKept
<1>13. TotalStands'
  <2>1. CASE Standing \subseteq Standing'
    BY <1>1, <1>6, <2>1, StandsKept
  <2>2. CASE ~(Standing \subseteq Standing')
    <3>1. PICK o \in Standing : /\ o.name = k /\ o.size <= bucket[k].size
                                /\ lost' = lost + bucket[k].size
      BY <1>11, <2>2
    <3>2. Standing \ {o} \subseteq Standing'
      <4>1. \A p \in Standing : p.name = k => p = o
        BY <3>1 DEF Standing, ListedOnce
      <4>2. QED
        BY <1>11, <4>1
    <3>3. BytesOf(Standing) = o.size + BytesOf(Standing \ {o})
      BY SumsTyped, BytesTake
    <3>4. IsFiniteSet(Standing') /\ Standing' \subseteq Attrs
      <4>1. Standing' \in SUBSET listed
        BY DEF Standing
      <4>2. QED
        BY <4>1, FS_Subset DEF ListedOnce, TypeOK
    <3>5. /\ BytesOf(Standing \ {o}) <= BytesOf(Standing')
          /\ BytesOf(Standing \ {o}) \in Nat /\ BytesOf(Standing') \in Nat
      <4>1. IsFiniteSet(Standing \ {o}) /\ Standing \ {o} \subseteq Attrs
        BY SumsTyped, FS_RemoveElement
      <4>2. QED
        BY <3>2, <3>4, <4>1, BytesGrow, BytesType
    <3>6. o.size \in Nat /\ bucket[k].size \in Nat /\ lost \in Nat /\ totalBytes \in Nat
      <4>1. k \in Present /\ o \in Attrs
        BY <3>1, SumsTyped DEF Standing
      <4>2. QED
        BY <4>1, SizeType, GcsAssumption DEF TypeOK, Object, Present
    <3>7. totalBytes <= BytesOf(Standing) + lost
      BY DEF TotalStands
    <3>8. totalBytes <= BytesOf(Standing') + lost'
      BY <3>1, <3>3, <3>5, <3>6, <3>7
    <3>9. QED
      BY <3>8 DEF TotalStands
  <2>3. QED
    BY <2>1, <2>2
<1>14. QED
  BY <1>1, <1>4, <1>6, <1>7, <1>9, <1>12, <1>13

LEMMA OthersStep ==
  ASSUME JobInv,
         \/ DeleteAnswerLost
         \/ \E k \in Key : \/ Access(k) \/ DeletedByOther(k)
                           \/ \E s \in Sizes : Store(k, s)
  PROVE  JobInv'
<1>1. /\ TypeOK /\ errors \in 0 .. MaxErrors /\ now \in 0 .. MaxTime /\ lost \in Nat
      /\ objects \subseteq listed /\ failed \subseteq listed
      /\ MaxErrors \in Nat /\ MaxTime \in Nat
      /\ \A k \in Present : k \in Key /\ bucket[k] \in Object /\ bucket[k].size \in Nat
  BY GcsAssumption DEF JobInv, TypeOK, ListedOnce, Object, Present
<1>2. ASSUME DeleteAnswerLost PROVE JobInv'
  <2>1. PICK o \in objects :
          /\ pc = "deleting" /\ o.name \in Present
          /\ bucket' = [bucket EXCEPT ![o.name] = NoObject]
          /\ objects' = objects \ {o} /\ failed' = failed \cup {o}
          /\ lost' = lost + bucket[o.name].size /\ errors' = errors + 1
          /\ errors < MaxErrors
          /\ UNCHANGED <<now, pc, cursor, totalBytes, threshold, listed, zeroBatch>>
    BY <1>2 DEF DeleteAnswerLost
  <2>2. /\ o.name \in Key /\ lost' \in Nat /\ lost <= lost'
        /\ errors' \in 0 .. MaxErrors
    BY <1>1, <2>1
  <2>3. QED
    BY <1>1, <2>1, <2>2, BucketStep
<1>3. ASSUME NEW k \in Key, Access(k) PROVE JobInv'
  <2>1. /\ now' = now + 1 /\ now' \in 0 .. MaxTime
        /\ k \in Present /\ bucket[k] \in Object
        /\ UNCHANGED <<pc, cursor, objects, failed, totalBytes, threshold, listed,
                       zeroBatch, lost, errors>>
    BY <1>1, <1>3 DEF Access
  <2> DEFINE b == [bucket[k] EXCEPT !.updated = now']
  <2>2. /\ b \in Object /\ b.created = bucket[k].created /\ b.size = bucket[k].size
        /\ b.size \in Nat
    BY <2>1, GcsAssumption DEF Object
  <2>3. bucket' = [bucket EXCEPT ![k] = b] /\ b # NoObject
    BY <1>3, <2>2, NoObjectAssumption DEF Access
  <2>4. bucket[k].size <= b.size
    BY <2>2
  <2> HIDE DEF b
  <2>5. /\ errors' \in 0 .. MaxErrors /\ lost' \in Nat /\ lost <= lost'
        /\ failed' \in SUBSET listed /\ failed \subseteq failed'
        /\ objects' \in SUBSET objects /\ objects \subseteq objects' \cup failed'
    BY <1>1, <2>1
  <2>6. QED
    BY <2>1, <2>2, <2>3, <2>4, <2>5, BucketStep
<1>4. ASSUME NEW k \in Key, DeletedByOther(k) PROVE JobInv'
  <2>1. /\ bucket' = [bucket EXCEPT ![k] = NoObject] /\ k \in Present
        /\ lost' = IF k \in Names THEN lost + bucket[k].size ELSE lost
        /\ errors' = errors + 1 /\ errors < MaxErrors
        /\ UNCHANGED <<now, pc, cursor, objects, failed, totalBytes, threshold, listed,
                       zeroBatch>>
    BY <1>4 DEF DeletedByOther
  <2>2. /\ lost' \in Nat /\ lost <= lost' /\ errors' \in 0 .. MaxErrors
        /\ k \notin Names \/ lost' = lost + bucket[k].size
    BY <1>1, <2>1
  <2>3. QED
    BY <1>1, <2>1, <2>2, BucketStep
<1>5. ASSUME NEW k \in Key, NEW s \in Sizes, Store(k, s) PROVE JobInv'
  <2> DEFINE b == [size |-> s, created |-> now', updated |-> now']
  <2>1. /\ now' = now + 1 /\ now' \in 0 .. MaxTime
        /\ bucket' = [bucket EXCEPT ![k] = b]
        /\ lost' = IF k \in Names \cap Present /\ s < bucket[k].size
                   THEN lost + bucket[k].size ELSE lost
        /\ UNCHANGED <<pc, cursor, objects, failed, totalBytes, threshold, listed,
                       zeroBatch, errors>>
    BY <1>1, <1>5 DEF Store
  <2>2. /\ b \in Object /\ b.created = now' /\ b.size = s /\ s \in Nat
        /\ b # NoObject
    BY <2>1, GcsAssumption, NoObjectAssumption DEF Object
  <2> HIDE DEF b
  <2>3. /\ lost' \in Nat /\ lost <= lost'
        /\ \/ k \notin Names \cap Present
           \/ b # NoObject /\ bucket[k].size <= b.size
           \/ lost' = lost + bucket[k].size
    BY <1>1, <2>1, <2>2
  <2>4. now' > now
    BY <1>1, <2>1
  <2>5. QED
    BY <1>1, <2>1, <2>2, <2>3, <2>4, BucketStep
<1>6. QED
  BY <1>2, <1>3, <1>4, <1>5

LEMMA JobStep == JobInv /\ [Next]_vars => JobInv'
BY QuietStep, ScanStep, EndStep, PassStep, DeleteStep, PanicStep, OthersStep
   DEF Next, Job

LEMMA JobInvHolds == Spec => []JobInv
BY JobInit, JobStep, PTL DEF Spec

-----------------------------------------------------------------------------
(* The state of a job and of the bucket has its types: totalBytes never     *)
(* goes below zero, whatever was replaced under the names it deletes.       *)
THEOREM TypeCorrect == Spec => []TypeOK
<1>1. JobInv => TypeOK
  BY DEF JobInv
<1>2. QED
  BY <1>1, JobInvHolds, PTL

(* What Prune reports as the total covers all that is left of its listing.  *)
THEOREM ReportIsSafe == Spec => []ReportedTotalIsSafe
<1>1. ASSUME JobInv PROVE ReportedTotalIsSafe
  <2> DEFINE R == {o \in listed : Remains(o)}
  <2>1. R \in SUBSET Counted
    BY DEF Counted
  <2>2. BytesOf(R) <= BytesOf(Counted)
    BY <1>1, <2>1, SumsTyped, BytesGrow
  <2>3. BytesOf(R) \in Nat
    BY <1>1, <2>1, SumsTyped, FS_Subset, BytesType
  <2>4. BytesOf(R) <= totalBytes
    BY <1>1, <2>2, <2>3, SumsTyped DEF JobInv, TotalCovers, TypeOK
  <2>5. QED
    BY <2>4 DEF BytesOf, ReportedTotalIsSafe
<1>2. QED
  BY <1>1, JobInvHolds, PTL

(* Prune deletes nothing from a bucket that is within the limit, but for as *)
(* much as went from under the names of its listing without its knowing.    *)
THEOREM DeletesNoMore == Spec => DeletesOnlyOverLimit
<1>1. ASSUME JobInv, [Next]_vars,
             pc = "deleting", Present' # Present, objects' # objects
      PROVE  BucketBytes + lost > MaxTotalBytes
  <2>1. totalBytes > MaxTotalBytes
    BY <1>1 DEF Next, Job, Start, ScanObject, ScanGap, UnderLimit, OverLimit, SkipRecent,
       DeleteObject, DeletePanics, DeleteFails, DeleteAnswerLost, Finish, Die, Ends, Store,
       Access, DeletedByOther, Tick, vars, Present
  <2>2. totalBytes <= BytesOf(Standing) + lost
    BY <1>1 DEF JobInv, TotalStands
  <2>3. BytesOf(Standing) <= BucketBytes /\ BucketBytes \in Nat
    <3>1. /\ bucket \in [Key -> Object \cup {NoObject}]
          /\ \A o, p \in Standing : o.name = p.name => o = p
          /\ \A o \in Standing : o.name \in Present /\ o.size <= bucket[o.name].size
      BY <1>1 DEF JobInv, TypeOK, ListedOnce, Standing
    <3>2. QED
      BY <1>1, <3>1, SumsTyped, BytesInBucket
  <2>4. totalBytes \in Nat /\ lost \in Nat /\ MaxTotalBytes \in Nat /\ BytesOf(Standing) \in Nat
    BY <1>1, SumsTyped, GcsAssumption DEF JobInv, TypeOK
  <2>5. QED
    BY <2>1, <2>2, <2>3, <2>4
<1>2. QED
  BY <1>1, JobInvHolds, PTL DEF DeletesOnlyOverLimit, Spec

(* Prune gives up above the limit only after it tried all that is old       *)
(* enough.                                                                  *)
THEOREM TriesAllThatIsOld == Spec => GivesUpOnlyOnRecent
<1>1. ASSUME JobInv, [Next]_vars,
             pc = "deleting", pc' = "waiting", totalBytes > MaxTotalBytes,
             NEW o \in listed, Remains(o)
      PROVE  o.updated > threshold \/ o \in failed
  <2>1. Finish
    BY <1>1 DEF Next, Job, Start, ScanObject, ScanGap, UnderLimit, OverLimit, SkipRecent,
       DeleteObject, DeletePanics, DeleteFails, DeleteAnswerLost, Die, Ends, Store, Access,
       DeletedByOther, Tick, vars
  <2>2. totalBytes \in Nat /\ MaxTotalBytes \in Nat
    BY <1>1, GcsAssumption DEF JobInv, TypeOK
  <2>3. objects = {}
    BY <1>1, <2>1, <2>2 DEF Finish
  <2>4. QED
    BY <1>1, <2>3 DEF JobInv, PassedIsDone
<1>2. JobInv /\ [Next]_vars =>
        [pc = "deleting" /\ pc' = "waiting" /\ totalBytes > MaxTotalBytes =>
           \A o \in listed : Remains(o) => o.updated > threshold \/ o \in failed]_vars
  BY <1>1
<1>3. QED
  BY <1>2, JobInvHolds, PTL DEF GivesUpOnlyOnRecent, Spec
=============================================================================
