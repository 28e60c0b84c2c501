------------------------------- MODULE KeyTable -------------------------------
(***************************************************************************)
(* What the clients of a hash table of src/src/hash.c count on: a map from *)
(* keys to data with room for so many keys.  HashTable implements it.      *)
(***************************************************************************)
EXTENDS Naturals, FiniteSets

CONSTANTS
  Keys,     \* the keys in use
  Data,     \* the values stored (pointers)
  NoData,   \* what hashtable_get() returns for a key that is not there
  Room      \* how many keys fit

VARIABLES
  map,      \* what is stored under each key
  ok        \* the result of the last hashtable_add()

Stored == {k \in Keys : map[k] # NoData}

Empty == [k \in Keys |-> NoData]

Init == map = Empty /\ ok = TRUE

Put(k, d) ==
  /\ map[k] # NoData \/ Cardinality(Stored) < Room
  /\ map' = [map EXCEPT ![k] = d]
  /\ ok' = TRUE

(* A put is refused only when there is no room left.                       *)
Refuse ==
  /\ Cardinality(Stored) >= Room
  /\ ok' = FALSE
  /\ UNCHANGED map

Clear ==
  /\ map' = Empty
  /\ UNCHANGED ok

Next == (\E k \in Keys, d \in Data : Put(k, d)) \/ Refuse \/ Clear

Spec == Init /\ [][Next]_<<map, ok>>
=============================================================================
