--------------------------- MODULE HashTableProofs ---------------------------
(***************************************************************************)
(* Proofs about HashTable: for every size, every set of keys and data, the *)
(* table is the map of KeyTable, and what becomes of the data it owns.     *)
(***************************************************************************)
EXTENDS HashTable, FiniteSetTheorems, WellFoundedInduction, TLAPS

-----------------------------------------------------------------------------
(* The least element of a set of naturals: singled out among the intervals *)
(* 0 .. n, which strict inclusion orders well.                             *)
LEMMA LeastNat ==
  ASSUME NEW S, S \subseteq Nat, S # {}
  PROVE  \E m \in S : \A n \in S : m <= n
<1> DEFINE T == {0 .. n : n \in S}
<1> DEFINE R == StrictSubsetOrdering(Nat)
<1> DEFINE F == FiniteSubsetsOf(Nat)
<1>1. IsWellFoundedOn(R, F)
  BY FS_StrictSubsetOrderingWellFounded
<1>2. T \subseteq F
  <2> SUFFICES ASSUME NEW n \in S PROVE 0 .. n \in F
    OBVIOUS
  <2>1. n \in Nat
    OBVIOUS
  <2>2. IsFiniteSet(0 .. n)
    BY <2>1, FS_Interval, 0 \in Int, n \in Int
  <2>3. 0 .. n \subseteq Nat
    BY <2>1
  <2> QED BY <2>2, <2>3 DEF FiniteSubsetsOf
<1>3. T # {}
  OBVIOUS
<1>4. PICK x \in T : \A y \in T : ~ (<<y, x>> \in R)
  <2> HIDE DEF R, F, T
  <2> QED BY <1>1, <1>2, <1>3, WFMin
<1>5. PICK m \in S : x = 0 .. m
  OBVIOUS
<1>6. \A n \in S : m <= n
  <2> TAKE n \in S
  <2>1. <<0 .. n, x>> \notin R
    BY <1>4
  <2>2. m \in Nat /\ n \in Nat
    OBVIOUS
  <2>3. ASSUME n < m PROVE FALSE
    <3>1. 0 .. n \subseteq 0 .. m /\ 0 .. n # 0 .. m
      <4>1. m \in 0 .. m /\ m \notin 0 .. n
        BY <2>2, <2>3
      <4>2. 0 .. n \subseteq 0 .. m
        BY <2>2, <2>3
      <4> QED BY <4>1, <4>2
    <3>2. 0 .. n \subseteq Nat /\ 0 .. m \subseteq Nat
      BY <2>2
    <3>3. <<0 .. n, 0 .. m>> \in R
      BY <3>1, <3>2 DEF StrictSubsetOrdering
    <3> QED BY <3>3, <2>1, <1>5
  <2> QED BY <2>2, <2>3
<1> QED BY <1>6

-----------------------------------------------------------------------------
(* The probe.                                                              *)

LEMMA HomeIsSlot == ASSUME NEW k \in Keys PROVE Home(k) \in Slots
<1>1. k \in Nat /\ Size \in Nat \ {0}
  BY HashAssumption
<1>2. k % Size \in 0 .. Size - 1
  BY <1>1
<1> QED BY <1>2 DEF Home, Slots

(* The probe passes a slot after as many steps as no other slot.           *)
LEMMA StepsFacts ==
  ASSUME NEW h \in Slots
  PROVE  /\ \A i \in Slots : Steps(h, i) \in Nat
         /\ \A i, j \in Slots : Steps(h, i) = Steps(h, j) => i = j
<1>1. Size \in Nat \ {0}
  BY HashAssumption
<1>2. h \in Nat /\ h < Size
  BY <1>1 DEF Slots
<1>3. ASSUME NEW i \in Slots PROVE i \in Nat /\ i < Size
  BY <1>1 DEF Slots
<1>4. ASSUME NEW i \in Slots PROVE Steps(h, i) \in Nat
  BY <1>1, <1>2, <1>3 DEF Steps
<1>5. ASSUME NEW i \in Slots, NEW j \in Slots, Steps(h, i) = Steps(h, j)
      PROVE  i = j
  BY <1>1, <1>2, <1>3, <1>5 DEF Steps
<1> QED BY <1>4, <1>5

LEMMA LandsUnique ==
  ASSUME NEW t, NEW k \in Keys, NEW i \in Slots, NEW j \in Slots,
         Lands(t, k, i), Lands(t, k, j)
  PROVE  i = j
<1> DEFINE a == Steps(Home(k), i)
           b == Steps(Home(k), j)
<1>1. a \in Nat /\ b \in Nat /\ (a = b => i = j)
  BY HomeIsSlot, StepsFacts
<1>2. ~(a < b) /\ ~(b < a)
  BY DEF Lands
<1>3. a = b
  <2> HIDE DEF a, b
  <2> QED BY <1>1, <1>2
<1> QED BY <1>1, <1>3

(* A probe that ends, ends at one slot.                                    *)
LEMMA SlotLands ==
  ASSUME NEW t, NEW k \in Keys, Ends(t, k)
  PROVE  Slot(t, k) \in Slots /\ Lands(t, k, Slot(t, k))
<1> DEFINE S == {Steps(Home(k), i) : i \in {j \in Slots : ~Other(t, k, j)}}
<1>1. S \subseteq Nat /\ S # {}
  BY HomeIsSlot, StepsFacts DEF Ends
<1>2. PICK m \in S : \A n \in S : m <= n
  <2> HIDE DEF S
  <2> QED BY <1>1, LeastNat
<1>3. PICK i \in Slots : ~Other(t, k, i) /\ m = Steps(Home(k), i)
  BY <1>2
<1>4. ASSUME NEW j \in Slots, Steps(Home(k), j) < Steps(Home(k), i)
      PROVE  Other(t, k, j)
  <2>1. SUFFICES ASSUME ~Other(t, k, j) PROVE FALSE
    OBVIOUS
  <2>2. Steps(Home(k), j) \in S
    BY <2>1
  <2>3. m <= Steps(Home(k), j)
    BY <1>2, <2>2
  <2>4. m \in Nat /\ Steps(Home(k), j) \in Nat
    BY <1>1, <2>2
  <2> QED BY <2>3, <2>4, <1>3, <1>4
<1>5. Lands(t, k, i)
  BY <1>3, <1>4 DEF Lands
<1> QED BY <1>5 DEF Slot

LEMMA SlotIs ==
  ASSUME NEW t, NEW k \in Keys, NEW i \in Slots, Lands(t, k, i)
  PROVE  Ends(t, k) /\ Slot(t, k) = i
<1>1. Ends(t, k)
  BY DEF Lands, Ends
<1>2. Slot(t, k) \in Slots /\ Lands(t, k, Slot(t, k))
  BY <1>1, SlotLands
<1> QED BY <1>1, <1>2, LandsUnique

-----------------------------------------------------------------------------
(* Lookups in a table whose probes all arrive.                             *)

Items == [key : Keys \cup {NoKey}, data : Data \cup {NoData}]

Typed(t) ==
  /\ t \in [Slots -> Items]
  /\ \A i \in Slots : t[i].key = NoKey <=> t[i].data = NoData

LEMMA GetStored ==
  ASSUME NEW t, Chains(t), NEW i \in Slots, t[i].key \in Keys
  PROVE  HashtableGet(t, t[i].key) = t[i].data
<1>1. t[i].key # NoKey
  BY HashAssumption
<1>2. Lands(t, t[i].key, i)
  BY <1>1 DEF Chains
<1>3. Ends(t, t[i].key) /\ Slot(t, t[i].key) = i
  BY <1>2, SlotIs
<1> QED BY <1>3 DEF HashtableGet

LEMMA GetAbsent ==
  ASSUME NEW t, NEW k \in Keys, \A i \in Slots : t[i].key # k
  PROVE  HashtableGet(t, k) = NoData
<1>1. CASE Ends(t, k)
  BY <1>1, SlotLands DEF HashtableGet
<1>2. CASE ~Ends(t, k)
  BY <1>2 DEF HashtableGet
<1> QED BY <1>1, <1>2

(* What is stored is a datum; what is not, is not.                         *)
LEMMA GetChar ==
  ASSUME NEW t, Typed(t), Chains(t), NEW k \in Keys
  PROVE  HashtableGet(t, k) # NoData <=> \E i \in Slots : t[i].key = k
<1>1. CASE \E i \in Slots : t[i].key = k
  <2>1. PICK i \in Slots : t[i].key = k
    BY <1>1
  <2>2. HashtableGet(t, k) = t[i].data
    BY <2>1, GetStored
  <2>3. t[i].key # NoKey
    BY <2>1, HashAssumption
  <2> QED BY <1>1, <2>2, <2>3 DEF Typed
<1>2. CASE \A i \in Slots : t[i].key # k
  BY <1>2, GetAbsent
<1> QED BY <1>1, <1>2

-----------------------------------------------------------------------------
(* Storing k at the slot its probe lands on.                               *)

Stores(t, s, k, d) == [t EXCEPT ![s] = [key |-> k, data |-> d]]

LEMMA StoreTyped ==
  ASSUME NEW t, Typed(t), NEW k \in Keys, NEW d \in Data, NEW s \in Slots
  PROVE  Typed(Stores(t, s, k, d))
<1>1. [key |-> k, data |-> d] \in Items
  BY DEF Items
<1>2. Stores(t, s, k, d) \in [Slots -> Items]
  BY <1>1 DEF Typed, Stores
<1>3. k # NoKey /\ d # NoData
  BY HashAssumption
<1>4. ASSUME NEW i \in Slots
      PROVE  Stores(t, s, k, d)[i].key = NoKey <=> Stores(t, s, k, d)[i].data = NoData
  BY <1>3 DEF Typed, Stores
<1> QED BY <1>2, <1>4 DEF Typed

LEMMA StoreChains ==
  ASSUME NEW t, Typed(t), Chains(t), NEW k \in Keys, NEW d \in Data,
         NEW s \in Slots, Lands(t, k, s)
  PROVE  Chains(Stores(t, s, k, d))
<1> DEFINE u == Stores(t, s, k, d)
<1>1. u[s].key = k /\ \A i \in Slots : i # s => u[i] = t[i]
  BY DEF Typed, Stores
<1>2. k # NoKey
  BY HashAssumption
<1>3. t[s].key = NoKey \/ t[s].key = k
  BY DEF Lands, Other
<1>4. ASSUME NEW i \in Slots, u[i].key # NoKey
      PROVE  Lands(u, u[i].key, i)
  <2>1. CASE i = s
    <3>1. ~Other(u, k, s)
      BY <1>1 DEF Other
    <3>2. ASSUME NEW j \in Slots, Steps(Home(k), j) < Steps(Home(k), s)
          PROVE  Other(u, k, j)
      <4>1. Other(t, k, j)
        BY <3>2 DEF Lands
      <4>2. j # s
        BY <4>1 DEF Lands
      <4> QED BY <4>1, <4>2, <1>1 DEF Other
    <3> QED BY <3>1, <3>2, <2>1, <1>1 DEF Lands
  <2>2. CASE i # s
    <3> DEFINE q == t[i].key
    <3>1. u[i] = t[i]
      BY <2>2, <1>1
    <3>2. q # NoKey /\ Lands(t, q, i)
      BY <3>1, <1>4 DEF Chains
    <3>3. ~Other(u, q, i)
      BY <3>1 DEF Other
    <3>4. ASSUME NEW j \in Slots, Steps(Home(q), j) < Steps(Home(q), i)
          PROVE  Other(u, q, j)
      <4>1. Other(t, q, j)
        BY <3>2, <3>4 DEF Lands
      <4>2. CASE j = s
        <5>1. t[s].key = k /\ k # q
          BY <4>1, <4>2, <1>3 DEF Other
        <5> QED BY <5>1, <4>2, <1>1, <1>2 DEF Other
      <4>3. CASE j # s
        BY <4>1, <4>3, <1>1 DEF Other
      <4> QED BY <4>2, <4>3
    <3> QED BY <3>1, <3>3, <3>4 DEF Lands
  <2> QED BY <2>1, <2>2
<1> HIDE DEF u
<1>5. Chains(u)
  BY <1>4 DEF Chains
<1> QED BY <1>5 DEF u

(* The stored key finds the datum, the others find what they found.        *)
LEMMA StoreGets ==
  ASSUME NEW t, Typed(t), Chains(t), NEW k \in Keys, NEW d \in Data,
         NEW s \in Slots, Lands(t, k, s)
  PROVE  \A q \in Keys : HashtableGet(Stores(t, s, k, d), q)
                           = IF q = k THEN d ELSE HashtableGet(t, q)
<1> DEFINE u == Stores(t, s, k, d)
<1>1. /\ u[s].key = k /\ u[s].data = d
      /\ \A i \in Slots : i # s => u[i] = t[i]
  BY DEF Typed, Stores
<1>2. k # NoKey
  BY HashAssumption
<1>3. t[s].key = NoKey \/ t[s].key = k
  BY DEF Lands, Other
<1>4. Chains(u)
  BY StoreChains
<1> HIDE DEF u
<1> SUFFICES ASSUME NEW q \in Keys
             PROVE  HashtableGet(u, q) = IF q = k THEN d ELSE HashtableGet(t, q)
  BY DEF u
<1>5. CASE q = k
  BY <1>1, <1>4, <1>5, GetStored
<1>6. CASE q # k
  <2>1. q # NoKey
    BY HashAssumption
  <2>2. CASE \E i \in Slots : t[i].key = q
    <3>1. PICK i \in Slots : t[i].key = q
      BY <2>2
    <3>2. i # s
      BY <3>1, <2>1, <1>3, <1>6
    <3>3. u[i].key = q /\ u[i].data = t[i].data
      BY <3>1, <3>2, <1>1
    <3>4. HashtableGet(u, q) = t[i].data
      BY <3>3, <1>4, GetStored
    <3>5. HashtableGet(t, q) = t[i].data
      BY <3>1, GetStored
    <3> QED BY <3>4, <3>5, <1>6
  <2>3. CASE \A i \in Slots : t[i].key # q
    <3>1. \A i \in Slots : u[i].key # q
      BY <2>3, <1>1, <1>6
    <3>2. HashtableGet(u, q) = NoData /\ HashtableGet(t, q) = NoData
      BY <3>1, <2>3, GetAbsent
    <3> QED BY <3>2, <1>6
  <2> QED BY <2>2, <2>3
<1> QED BY <1>5, <1>6

-----------------------------------------------------------------------------
(* hashtable_add() and hashtable_del() followed by hashtable_add().        *)

LEMMA AddStores ==
  ASSUME NEW t, NEW k \in Keys, NEW d, Ends(t, k)
  PROVE  HashtableAdd(t, k, d) = Stores(t, Slot(t, k), k, d)
BY DEF HashtableAdd, Stores

(* The hole that hashtable_del() leaves is the slot the next               *)
(* hashtable_add() of the same key finds.                                  *)
LEMMA UpdatedStores ==
  ASSUME NEW t, Typed(t), NEW k \in Keys, NEW d \in Data, Ends(t, k)
  PROVE  Updated(t, k, d) = Stores(t, Slot(t, k), k, d)
<1> DEFINE s == Slot(t, k)
           u == [t EXCEPT ![s] = NoItem]
<1>1. s \in Slots /\ Lands(t, k, s)
  BY SlotLands
<1>2. HashtableDel(t, k) = u
  BY DEF HashtableDel
<1>3. u[s] = NoItem /\ \A i \in Slots : i # s => u[i] = t[i]
  BY <1>1 DEF Typed
<1>4. ~Other(u, k, s)
  BY <1>3 DEF Other, NoItem
<1>5. ASSUME NEW j \in Slots, Steps(Home(k), j) < Steps(Home(k), s)
      PROVE  Other(u, k, j)
  <2>1. Other(t, k, j) /\ j # s
    BY <1>1, <1>5 DEF Lands
  <2> QED BY <2>1, <1>3 DEF Other
<1>6. Lands(u, k, s)
  BY <1>4, <1>5 DEF Lands
<1>7. Ends(u, k) /\ Slot(u, k) = s
  <2> HIDE DEF u, s
  <2> QED BY <1>1, <1>6, SlotIs
<1>8. HashtableAdd(u, k, d) = [u EXCEPT ![s] = [key |-> k, data |-> d]]
  BY <1>7 DEF HashtableAdd
<1>9. [u EXCEPT ![s] = [key |-> k, data |-> d]] = [t EXCEPT ![s] = [key |-> k, data |-> d]]
  BY <1>1 DEF Typed
<1> QED BY <1>2, <1>8, <1>9 DEF Updated, Stores

-----------------------------------------------------------------------------
(* How many keys are stored.                                               *)

Held(t) == {k \in Keys : HashtableGet(t, k) # NoData}

(* The slots in use map onto the stored keys.                              *)
LEMMA HeldIsImage ==
  ASSUME NEW t, Typed(t), Chains(t)
  PROVE  LET U == {i \in Slots : t[i].key # NoKey}
         IN  [i \in U |-> t[i].key] \in Surjection(U, Held(t))
<1> DEFINE U == {i \in Slots : t[i].key # NoKey}
           f == [i \in U |-> t[i].key]
<1>1. ASSUME NEW i \in U PROVE t[i].key \in Held(t)
  <2>1. t[i].key \in Keys
    BY DEF Typed, Items
  <2> QED BY <2>1, GetChar DEF Held
<1>2. ASSUME NEW k \in Held(t) PROVE \E i \in U : f[i] = k
  <2>1. k \in Keys /\ HashtableGet(t, k) # NoData
    BY DEF Held
  <2>2. PICK i \in Slots : t[i].key = k
    BY <2>1, GetChar
  <2>3. i \in U
    BY <2>1, <2>2, HashAssumption
  <2> QED BY <2>2, <2>3
<1>3. f \in [U -> Held(t)]
  BY <1>1
<1> QED BY <1>2, <1>3 DEF Surjection

LEMMA SlotsFinite == IsFiniteSet(Slots) /\ Cardinality(Slots) = Size
<1>1. Size \in Nat \ {0} /\ 0 \in Int /\ Size - 1 \in Int
  BY HashAssumption
<1>2. IsFiniteSet(0 .. Size - 1) /\ Cardinality(0 .. Size - 1)
        = IF 0 > Size - 1 THEN 0 ELSE (Size - 1) - 0 + 1
  BY <1>1, FS_Interval
<1> QED BY <1>1, <1>2 DEF Slots

(* A probe that finds its key absent at an empty slot leaves room.         *)
LEMMA RoomLeft ==
  ASSUME NEW t, Typed(t), Chains(t), NEW s \in Slots, t[s].key = NoKey
  PROVE  Cardinality(Held(t)) < Size
<1> DEFINE U == {i \in Slots : t[i].key # NoKey}
<1>1. U \in SUBSET (Slots \ {s})
  OBVIOUS
<1>2. IsFiniteSet(Slots \ {s}) /\ Cardinality(Slots \ {s}) = Size - 1
  <2>1. Cardinality(Slots \ {s}) = Cardinality(Slots) - 1
    BY SlotsFinite, FS_RemoveElement
  <2> QED BY <2>1, SlotsFinite, FS_RemoveElement
<1>3. IsFiniteSet(U) /\ Cardinality(U) <= Size - 1
  <2> HIDE DEF U
  <2> QED BY <1>1, <1>2, FS_Subset
<1>4. PICK f : f \in Surjection(U, Held(t))
  BY HeldIsImage
<1>5. IsFiniteSet(Held(t)) /\ Cardinality(Held(t)) <= Cardinality(U)
  <2> HIDE DEF U
  <2> QED BY <1>3, <1>4, FS_Surjection
<1>6. Cardinality(U) \in Nat /\ Cardinality(Held(t)) \in Nat
  <2> HIDE DEF U
  <2> QED BY <1>3, <1>5, FS_CardinalityType
<1>7. Size \in Nat
  BY HashAssumption
<1> HIDE DEF U
<1> QED BY <1>3, <1>5, <1>6, <1>7

(* Two slots never hold the same key.                                      *)
LEMMA KeysDiffer ==
  ASSUME NEW t, Typed(t), Chains(t), NEW i \in Slots, NEW j \in Slots,
         t[i].key = t[j].key, t[i].key # NoKey
  PROVE  i = j
<1>1. t[i].key \in Keys
  BY DEF Typed, Items
<1>2. Lands(t, t[i].key, i) /\ Lands(t, t[i].key, j)
  BY DEF Chains
<1> QED BY <1>1, <1>2, LandsUnique

(* A probe that comes round finds as many keys as there are slots.         *)
LEMMA NoRoomLeft ==
  ASSUME NEW t, Typed(t), Chains(t), NEW k \in Keys, ~Ends(t, k)
  PROVE  Cardinality(Held(t)) >= Size
<1> DEFINE U == {i \in Slots : t[i].key # NoKey}
           f == [i \in U |-> t[i].key]
<1>1. U = Slots
  BY DEF Ends, Other
<1>2. f \in Surjection(U, Held(t))
  BY HeldIsImage
<1>3. \A i, j \in U : f[i] = f[j] => i = j
  BY KeysDiffer
<1>4. f \in Injection(U, Held(t))
  BY <1>2, <1>3 DEF Injection, Surjection, IsInjective
<1>5. Cardinality(Held(t)) = Cardinality(U)
  <2> HIDE DEF U, f
  <2>1. IsFiniteSet(U)
    BY <1>1, SlotsFinite
  <2>2. Cardinality(Held(t)) = Cardinality(U) <=> f \in Injection(U, Held(t))
    BY <2>1, <1>2, FS_Surjection
  <2> QED BY <2>2, <1>4
<1>6. Size \in Nat
  BY HashAssumption
<1> HIDE DEF U, f
<1>7. Cardinality(Held(t)) = Size
  BY <1>1, <1>5, SlotsFinite
<1> QED BY <1>6, <1>7

-----------------------------------------------------------------------------
(* The inductive invariant.                                                *)

(* No datum is in two slots.                                               *)
Unshared ==
  \A i, j \in Slots :
     (items[i].key # NoKey /\ items[i].data = items[j].data) => i = j

(* What is in the table was given to it and not refused.                   *)
HeldWasGiven == Contents(items) \subseteq given

IInv == TypeOK /\ Chained /\ Unshared /\ HeldWasGiven /\ Accounted

LEMMA TypedItems == TypeOK => Typed(items)
BY DEF TypeOK, Typed, Items

(* The slot in which a key that is looked up without success would go.     *)
LEMMA AbsentSlot ==
  ASSUME NEW t, Typed(t), Chains(t), NEW k \in Keys, Ends(t, k),
         HashtableGet(t, k) = NoData
  PROVE  t[Slot(t, k)].key = NoKey
<1>1. Slot(t, k) \in Slots /\ Lands(t, k, Slot(t, k))
  BY SlotLands
<1>2. t[Slot(t, k)].key # k
  BY <1>1, GetChar
<1> QED BY <1>1, <1>2 DEF Lands, Other

(* The slot of a key that is looked up with success.                       *)
LEMMA PresentSlot ==
  ASSUME NEW t, Typed(t), Chains(t), NEW k \in Keys,
         HashtableGet(t, k) # NoData
  PROVE  /\ Ends(t, k)
         /\ t[Slot(t, k)].key = k
         /\ t[Slot(t, k)].data = HashtableGet(t, k)
<1>1. Ends(t, k) /\ t[Slot(t, k)].key = k
  BY DEF HashtableGet
<1> QED BY <1>1 DEF HashtableGet

LEMMA InitIInv == Init => IInv
<1> SUFFICES ASSUME Init PROVE IInv
  OBVIOUS
<1> USE DEF Init, NoItems, NoItem
<1>1. TypeOK
  BY DEF TypeOK
<1>2. Chained
  BY DEF Chained, Chains
<1>3. Unshared
  BY DEF Unshared
<1>4. Contents(items) = {}
  BY DEF Contents
<1> QED BY <1>1, <1>2, <1>3, <1>4 DEF IInv, HeldWasGiven, Accounted

(* Storing a datum not given before keeps each part of the invariant that  *)
(* is about the slots.                                                     *)
LEMMA StoreStep ==
  ASSUME IInv, NEW k \in Keys, NEW d \in Data \ given, Ends(items, k),
         items' = Stores(items, Slot(items, k), k, d)
  PROVE  /\ Typed(items)' /\ Chained' /\ Unshared'
         /\ Contents(items') = (Contents(items) \ {items[Slot(items, k)].data})
                                  \cup {d}
<1> DEFINE s == Slot(items, k)
<1>1. Typed(items) /\ Chains(items)
  BY TypedItems DEF IInv, Chained
<1>2. s \in Slots /\ Lands(items, k, s)
  BY SlotLands
<1>3. Typed(items)'
  BY <1>1, <1>2, StoreTyped DEF Typed
<1>4. Chained'
  BY <1>1, <1>2, StoreChains DEF Chained
<1>5. /\ items'[s].key = k /\ items'[s].data = d
      /\ \A i \in Slots : i # s => items'[i] = items[i]
  BY <1>1, <1>2 DEF Typed, Stores
<1>6. k # NoKey
  BY HashAssumption
<1>7. \A i \in Slots : items[i].key # NoKey => items[i].data # d
  BY DEF IInv, HeldWasGiven, Contents
<1>8. \A i \in Slots : items[i].data # d
  BY <1>1, <1>7, HashAssumption DEF Typed
<1> HIDE DEF s
<1>9. Unshared'
  <2> SUFFICES ASSUME NEW i \in Slots, NEW j \in Slots,
                      items'[i].key # NoKey, items'[i].data = items'[j].data
               PROVE  i = j
    BY DEF Unshared
  <2>1. CASE i = s \/ j = s
    BY <2>1, <1>5, <1>8
  <2>2. CASE i # s /\ j # s
    BY <2>2, <1>5 DEF IInv, Unshared
  <2> QED BY <2>1, <2>2
<1>10. Contents(items') = (Contents(items) \ {items[s].data}) \cup {d}
  <2>1. ASSUME NEW i \in Slots, i # s, items[i].key # NoKey
        PROVE  items[i].data # items[s].data
    BY <1>2, <2>1 DEF IInv, Unshared
  <2>2. ASSUME NEW x \in Contents(items')
        PROVE  x \in (Contents(items) \ {items[s].data}) \cup {d}
    <3>1. PICK i \in Slots : items'[i].key # NoKey /\ x = items'[i].data
      BY DEF Contents
    <3>2. CASE i = s
      BY <3>1, <3>2, <1>5
    <3>3. CASE i # s
      BY <3>1, <3>3, <1>5, <2>1 DEF Contents
    <3> QED BY <3>2, <3>3
  <2>3. ASSUME NEW x \in Contents(items), x # items[s].data
        PROVE  x \in Contents(items')
    <3>1. PICK i \in Slots : items[i].key # NoKey /\ x = items[i].data
      BY DEF Contents
    <3>2. i # s
      BY <3>1, <2>3
    <3> QED BY <3>1, <3>2, <1>5 DEF Contents
  <2>4. d \in Contents(items')
    BY <1>2, <1>5, <1>6 DEF Contents
  <2> QED BY <2>2, <2>3, <2>4
<1> QED BY <1>3, <1>4, <1>9, <1>10 DEF s

LEMMA AddPreserves ==
  ASSUME IInv, NEW k \in Keys, NEW d \in Data, Add(k, d)
  PROVE  IInv'
<1> USE DEF Add
<1>1. Typed(items) /\ Chains(items)
  BY TypedItems DEF IInv, Chained
<1>2. NoData \notin Data
  BY HashAssumption
<1>3. CASE Ends(items, k)
  <2>1. items' = Stores(items, Slot(items, k), k, d)
    BY <1>3, AddStores
  <2>2. /\ Typed(items)' /\ Chained' /\ Unshared'
        /\ Contents(items') = (Contents(items) \ {items[Slot(items, k)].data})
                                 \cup {d}
    BY <1>3, <2>1, StoreStep
  <2>3. items[Slot(items, k)].data = NoData
    <3>1. Slot(items, k) \in Slots /\ items[Slot(items, k)].key = NoKey
      BY <1>1, <1>3, SlotLands, AbsentSlot
    <3> QED BY <3>1, <1>1 DEF Typed
  <2>4. Contents(items') = Contents(items) \cup {d}
    <3>1. NoData \notin Contents(items)
      BY <1>1 DEF Typed, Contents
    <3> QED BY <2>2, <2>3, <3>1
  <2>5. TypeOK'
    BY <2>2, <1>3 DEF IInv, TypeOK, Typed, Items
  <2>6. HeldWasGiven'
    BY <2>4 DEF IInv, HeldWasGiven
  <2>7. Accounted'
    <3>1. /\ refused' = refused /\ freed' = freed /\ given' = given \cup {d}
          /\ owned' = owned /\ leaked' = leaked
      BY <1>3
    <3>2. /\ d \notin given /\ refused \subseteq given /\ freed \subseteq given
          /\ leaked \subseteq given
      BY DEF IInv, TypeOK
    <3> QED BY <2>4, <3>1, <3>2 DEF IInv, Accounted
  <2> QED BY <2>2, <2>5, <2>6, <2>7 DEF IInv
<1>4. CASE ~Ends(items, k)
  <2>1. items' = items
    BY <1>4 DEF HashtableAdd
  <2>2. TypeOK'
    <3>1. ok' = FALSE
      BY <1>4 DEF Ends
    <3>2. given' = given \cup {d} /\ refused' = refused \cup {d}
      BY <1>4
    <3> QED BY <2>1, <3>1, <3>2 DEF IInv, TypeOK
  <2>3. Chained' /\ Unshared' /\ HeldWasGiven'
    BY <2>1 DEF IInv, Chained, Unshared, HeldWasGiven
  <2>4. Accounted'
    <3>1. /\ refused' = refused \cup {d} /\ freed' = freed
          /\ given' = given \cup {d} /\ owned' = owned /\ leaked' = leaked
      BY <1>4
    <3>2. /\ d \notin given /\ Contents(items) \subseteq given
          /\ freed \subseteq given /\ leaked \subseteq given
      BY DEF IInv, TypeOK, HeldWasGiven
    <3> QED BY <2>1, <3>1, <3>2 DEF IInv, Accounted
  <2> QED BY <2>2, <2>3, <2>4 DEF IInv
<1> QED BY <1>3, <1>4

LEMMA ReplacePreserves ==
  ASSUME IInv, NEW k \in Keys, NEW d \in Data, Replace(k, d)
  PROVE  IInv'
<1> USE DEF Replace
<1> DEFINE old == HashtableGet(items, k)
<1>1. Typed(items) /\ Chains(items)
  BY TypedItems DEF IInv, Chained
<1>2. /\ Ends(items, k)
      /\ items[Slot(items, k)].key = k
      /\ items[Slot(items, k)].data = old
  BY <1>1, PresentSlot
<1>3. items' = Stores(items, Slot(items, k), k, d)
  BY <1>1, <1>2, UpdatedStores
<1>4. /\ Typed(items)' /\ Chained' /\ Unshared'
      /\ Contents(items') = (Contents(items) \ {items[Slot(items, k)].data})
                               \cup {d}
  BY <1>2, <1>3, StoreStep
<1>5. old \in Contents(items)
  <2>1. Slot(items, k) \in Slots /\ k # NoKey
    BY <1>2, SlotLands, HashAssumption
  <2> QED BY <1>2, <2>1 DEF Contents
<1> HIDE DEF old
<1>6. Contents(items') = (Contents(items) \ {old}) \cup {d}
  BY <1>2, <1>4
<1>7. /\ freed' = freed \cup {old} /\ refused' = refused
      /\ given' = given \cup {d} /\ owned' = owned /\ leaked' = leaked
  BY DEF old
<1>8. /\ d \notin given /\ refused \subseteq given /\ freed \subseteq given
      /\ Contents(items) \subseteq given /\ leaked \subseteq given
  BY DEF IInv, TypeOK, HeldWasGiven
<1>9. TypeOK'
  <2>1. freed' \subseteq given'
    BY <1>5, <1>7, <1>8
  <2> QED BY <2>1, <1>4 DEF IInv, TypeOK, Typed, Items
<1>10. HeldWasGiven'
  BY <1>6, <1>7, <1>8 DEF HeldWasGiven
<1>11. Accounted'
  BY <1>5, <1>6, <1>7, <1>8 DEF IInv, Accounted
<1> QED BY <1>4, <1>9, <1>10, <1>11 DEF IInv

(* The datum under a stored key is overwritten: it is nowhere any more.    *)
LEMMA OverwritePreserves ==
  ASSUME IInv, NEW k \in Keys, NEW d \in Data, Overwrite(k, d)
  PROVE  IInv'
<1> USE DEF Overwrite
<1> DEFINE old == HashtableGet(items, k)
<1>1. Typed(items) /\ Chains(items)
  BY TypedItems DEF IInv, Chained
<1>2. /\ Ends(items, k)
      /\ items[Slot(items, k)].key = k
      /\ items[Slot(items, k)].data = old
  BY <1>1, PresentSlot
<1>3. items' = Stores(items, Slot(items, k), k, d)
  BY <1>2, AddStores
<1>4. /\ Typed(items)' /\ Chained' /\ Unshared'
      /\ Contents(items') = (Contents(items) \ {items[Slot(items, k)].data})
                               \cup {d}
  BY <1>2, <1>3, StoreStep
<1>5. old \in Contents(items)
  <2>1. Slot(items, k) \in Slots /\ k # NoKey
    BY <1>2, SlotLands, HashAssumption
  <2> QED BY <1>2, <2>1 DEF Contents
<1> HIDE DEF old
<1>6. Contents(items') = (Contents(items) \ {old}) \cup {d}
  BY <1>2, <1>4
<1>7. /\ leaked' = leaked \cup {old} /\ refused' = refused
      /\ given' = given \cup {d} /\ owned' = owned /\ freed' = freed
  BY DEF old
<1>8. /\ d \notin given /\ refused \subseteq given /\ freed \subseteq given
      /\ Contents(items) \subseteq given /\ leaked \subseteq given
  BY DEF IInv, TypeOK, HeldWasGiven
<1>9. TypeOK'
  <2>1. leaked' \subseteq given'
    BY <1>5, <1>7, <1>8
  <2> QED BY <2>1, <1>4 DEF IInv, TypeOK, Typed, Items
<1>10. HeldWasGiven'
  BY <1>6, <1>7, <1>8 DEF HeldWasGiven
<1>11. Accounted'
  BY <1>5, <1>6, <1>7, <1>8 DEF IInv, Accounted
<1> QED BY <1>4, <1>9, <1>10, <1>11 DEF IInv

LEMMA EmptyTable ==
  ASSUME NEW t, t = NoItems
  PROVE  /\ Typed(t) /\ Chains(t) /\ Contents(t) = {}
         /\ \A k \in Keys : HashtableGet(t, k) = NoData
<1>1. \A i \in Slots : t[i].key = NoKey /\ t[i].data = NoData
  BY DEF NoItems, NoItem
<1>2. Typed(t)
  BY DEF Typed, Items, NoItems, NoItem
<1>3. Chains(t) /\ Contents(t) = {}
  BY <1>1 DEF Chains, Contents
<1>4. \A k \in Keys : HashtableGet(t, k) = NoData
  BY <1>1, GetAbsent, HashAssumption
<1> QED BY <1>2, <1>3, <1>4

(* hashtable_invalidate_contents() and hashtable_destroy().                *)
LEMMA EmptyingPreserves ==
  ASSUME IInv, Invalidate \/ Destroy
  PROVE  IInv'
<1>1. items' = NoItems
  BY DEF Invalidate, Destroy
<1>2. Typed(items)' /\ Chained' /\ Contents(items') = {}
  <2>1. Typed(items') /\ Chains(items') /\ Contents(items') = {}
    BY <1>1, EmptyTable
  <2> QED BY <2>1 DEF Typed, Chained
<1>3. Unshared' /\ HeldWasGiven'
  <2>1. \A i \in Slots : items'[i].key = NoKey
    BY <1>1 DEF NoItems, NoItem
  <2> QED BY <1>2, <2>1 DEF Unshared, HeldWasGiven
<1>4. TypeOK'
  <2>1. freed' \subseteq given'
    BY DEF IInv, TypeOK, HeldWasGiven, Invalidate, Destroy
  <2>2. /\ given' = given /\ refused' = refused /\ ok' = ok
        /\ open' \in BOOLEAN /\ owned' = owned /\ leaked' = leaked
    BY DEF IInv, TypeOK, Invalidate, Destroy
  <2> QED BY <1>2, <2>1, <2>2 DEF IInv, TypeOK, Typed, Items
<1>5. Accounted'
  <2>1. CASE ~owned
    <3>1. owned' = owned
      BY DEF Invalidate, Destroy
    <3> QED BY <2>1, <3>1 DEF Accounted
  <2>2. CASE owned
    <3>1. /\ freed' = freed \cup Contents(items)
          /\ given' = given /\ refused' = refused /\ owned' = owned
          /\ leaked' = leaked
      BY <2>2 DEF Invalidate, Destroy
    <3> QED BY <2>2, <3>1, <1>2 DEF IInv, Accounted
  <2> QED BY <2>1, <2>2
<1> QED BY <1>2, <1>3, <1>4, <1>5 DEF IInv

LEMMA NextIInv == IInv /\ [Next]_vars => IInv'
<1> SUFFICES ASSUME IInv, [Next]_vars PROVE IInv'
  OBVIOUS
<1>1. ASSUME NEW k \in Keys, NEW d \in Data, Add(k, d) PROVE IInv'
  BY <1>1, AddPreserves
<1>2. ASSUME NEW k \in Keys, NEW d \in Data, Replace(k, d) PROVE IInv'
  BY <1>2, ReplacePreserves
<1>3. ASSUME NEW k \in Keys, NEW d \in Data, Overwrite(k, d) PROVE IInv'
  BY <1>3, OverwritePreserves
<1>4. CASE Invalidate \/ Destroy
  BY <1>4, EmptyingPreserves
<1>5. CASE UNCHANGED vars
  BY <1>5 DEF vars, IInv, TypeOK, Chained, Unshared, HeldWasGiven, Accounted
<1> QED BY <1>1, <1>2, <1>3, <1>4, <1>5 DEF Next

(* Whatever is added, replaced, refused and dropped: every probe for a     *)
(* stored key arrives at it (hashtable_get() of src/src/hash.c).           *)
THEOREM AlwaysChained == Spec => []Chained
<1>1. IInv => Chained
  BY DEF IInv
<1> QED BY InitIInv, NextIInv, <1>1, PTL DEF Spec

(* Every datum a table with a free_function was given is in the table, was *)
(* freed once it left it, was refused by hashtable_add(), or had another   *)
(* written over it: no two of these, and there is no other way to lose it. *)
THEOREM EachAccountedFor == Spec => []Accounted
<1>1. IInv => Accounted
  BY DEF IInv
<1> QED BY InitIInv, NextIInv, <1>1, PTL DEF Spec

-----------------------------------------------------------------------------
(* Refinement.                                                             *)

LEMMA SameCardinality == \A S : Table!Cardinality(S) = Cardinality(S)
BY DEF Table!Cardinality, Cardinality

LEMMA InitRefines == Init => Table!Init
<1> SUFFICES ASSUME Init PROVE Table!Init
  OBVIOUS
<1>1. \A k \in Keys : HashtableGet(items, k) = NoData
  BY EmptyTable DEF Init
<1>2. Lookup = Table!Empty
  BY <1>1 DEF Lookup, Table!Empty
<1> QED BY <1>2 DEF Init, Table!Init

LEMMA StoreRefines ==
  ASSUME IInv, NEW k \in Keys, NEW d \in Data, Ends(items, k),
         items' = Stores(items, Slot(items, k), k, d), ok' = TRUE
  PROVE  Table!Put(k, d)
<1>1. Typed(items) /\ Chains(items)
  BY TypedItems DEF IInv, Chained
<1>2. Slot(items, k) \in Slots /\ Lands(items, k, Slot(items, k))
  BY SlotLands
<1>3. \A q \in Keys : HashtableGet(items', q)
                          = IF q = k THEN d ELSE HashtableGet(items, q)
  BY <1>1, <1>2, StoreGets
<1>4. Lookup' = [Lookup EXCEPT ![k] = d]
  BY <1>3 DEF Lookup
<1>5. Held(items) = Table!Stored
  BY DEF Held, Lookup, Table!Stored
<1>6. Lookup[k] # NoData \/ Cardinality(Held(items)) < Size
  <2>1. CASE HashtableGet(items, k) # NoData
    BY <2>1 DEF Lookup
  <2>2. CASE HashtableGet(items, k) = NoData
    <3>1. items[Slot(items, k)].key = NoKey
      BY <1>1, <2>2, AbsentSlot
    <3> QED BY <1>1, <1>2, <3>1, RoomLeft
  <2> QED BY <2>1, <2>2
<1> QED BY <1>4, <1>5, <1>6, SameCardinality DEF Table!Put

LEMMA StepRefines ==
  IInv /\ [Next]_vars
    => [Table!Next]_<<Lookup, ok>>
<1> SUFFICES ASSUME IInv, [Next]_vars
             PROVE  [Table!Next]_<<Lookup, ok>>
  OBVIOUS
<1>1. Typed(items) /\ Chains(items)
  BY TypedItems DEF IInv, Chained
<1>2. ASSUME NEW k \in Keys, NEW d \in Data, Add(k, d) PROVE Table!Next
  <2>1. CASE Ends(items, k)
    <3>1. items' = Stores(items, Slot(items, k), k, d) /\ ok' = TRUE
      BY <1>2, <2>1, AddStores DEF Add
    <3>2. Table!Put(k, d)
      BY <2>1, <3>1, StoreRefines
    <3> QED BY <3>2 DEF Table!Next
  <2>2. CASE ~Ends(items, k)
    <3>1. Lookup' = Lookup /\ ok' = FALSE
      BY <1>2, <2>2 DEF Add, HashtableAdd, Ends, Lookup
    <3>2. Held(items) = Table!Stored
      BY DEF Held, Lookup, Table!Stored
    <3>3. Cardinality(Held(items)) >= Size
      BY <1>1, <2>2, NoRoomLeft
    <3>4. Table!Refuse
      BY <3>1, <3>2, <3>3, SameCardinality DEF Table!Refuse
    <3> QED BY <3>4 DEF Table!Next
  <2> QED BY <2>1, <2>2
<1>3. ASSUME NEW k \in Keys, NEW d \in Data, Replace(k, d) PROVE Table!Next
  <2>1. Ends(items, k)
    BY <1>1, <1>3, PresentSlot DEF Replace
  <2>2. items' = Stores(items, Slot(items, k), k, d) /\ ok' = TRUE
    BY <1>1, <1>3, <2>1, UpdatedStores DEF Replace
  <2>3. Table!Put(k, d)
    BY <2>1, <2>2, StoreRefines
  <2> QED BY <2>3 DEF Table!Next
<1>4. ASSUME NEW k \in Keys, NEW d \in Data, Overwrite(k, d) PROVE Table!Next
  <2>1. Ends(items, k)
    BY <1>1, <1>4, PresentSlot DEF Overwrite
  <2>2. items' = Stores(items, Slot(items, k), k, d) /\ ok' = TRUE
    BY <1>4, <2>1, AddStores DEF Overwrite
  <2>3. Table!Put(k, d)
    BY <2>1, <2>2, StoreRefines
  <2> QED BY <2>3 DEF Table!Next
<1>5. CASE Invalidate \/ Destroy
  <2>1. items' = NoItems /\ ok' = ok
    BY <1>5 DEF Invalidate, Destroy
  <2>2. \A k \in Keys : HashtableGet(items', k) = NoData
    BY <2>1, EmptyTable
  <2>3. Table!Clear
    BY <2>1, <2>2 DEF Table!Clear, Table!Empty, Lookup
  <2> QED BY <2>3 DEF Table!Next
<1>6. CASE UNCHANGED vars
  BY <1>6 DEF vars, Lookup
<1> QED BY <1>2, <1>3, <1>4, <1>5, <1>6 DEF Next

(* A hash table of src/src/hash.c, used as the parsers use it, is a map    *)
(* with room for its size: a lookup returns what was last stored, and only *)
(* a full table refuses.                                                   *)
THEOREM IsMap == Spec => TableSpec
<1> QED BY InitRefines, StepRefines, InitIInv, NextIInv, PTL
        DEF Spec, TableSpec, Table!Spec
=============================================================================
