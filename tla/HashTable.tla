------------------------------ MODULE HashTable ------------------------------
(***************************************************************************)
(* The open-addressing hash table of src/src/hash.c, driven the way the    *)
(* parsers drive the five tables of struct demuxfs_data: a key is looked   *)
(* up, then added if it is absent; a table that owns its data (psi_tables) *)
(* is updated by hashtable_del() followed by hashtable_add() of the same   *)
(* key, within one handler of the only thread that uses the table.  Some   *)
(* handlers look one key, or one table, up and add to another: they        *)
(* overwrite what is stored there, and nobody frees it.                    *)
(*                                                                         *)
(* hashtable_del() leaves an empty slot behind it.  A probe stops at an    *)
(* empty slot, so the keys that lie beyond would be out of reach: the      *)
(* table is a map only thanks to the way it is used.                       *)
(***************************************************************************)
EXTENDS Integers, FiniteSets

CONSTANTS
  Size,     \* number of slots: DEMUXFS_MAX_PIDS (256) for every table
  Keys,     \* the keys in use (PIDs, inode numbers)
  NoKey,    \* stands for a NULL slot
  Data,     \* the values to store (pointers)
  NoData    \* NULL

ASSUME HashAssumption ==
  /\ Size \in Nat \ {0}
  /\ Keys \subseteq Nat /\ NoKey \notin Keys
  /\ NoData \notin Data

VARIABLES
  owned,    \* the items have a free_function: the table owns its data
  items,    \* table->items
  ok,       \* result of the last hashtable_add()
  open,     \* hashtable_destroy() has not been called yet
  given,    \* history: the data passed to hashtable_add() so far
  refused,  \* history: those of them hashtable_add() returned false for
  freed,    \* history: those of them given to the free_function
  leaked    \* history: those of them another datum was written over

vars == <<owned, items, ok, open, given, refused, freed, leaked>>

Slots == 0 .. Size - 1
Home(k) == k % Size

(* How many slots the probe that starts at slot h passes before slot i.    *)
Steps(h, i) == IF i >= h THEN i - h ELSE i + Size - h

NoItem == [key |-> NoKey, data |-> NoData]
NoItems == [i \in Slots |-> NoItem]

-----------------------------------------------------------------------------
(* The probing loop common to hashtable_get(), _add() and _del(): go on    *)
(* from slot to slot while it holds another key, once round at most.       *)

Other(t, k, i) == t[i].key # NoKey /\ t[i].key # k

(* The loop for key k comes to an end at slot i.                           *)
Lands(t, k, i) ==
  /\ ~Other(t, k, i)
  /\ \A j \in Slots : Steps(Home(k), j) < Steps(Home(k), i) => Other(t, k, j)

(* The loop does not come back to where it began without ending.           *)
Ends(t, k) == \E i \in Slots : ~Other(t, k, i)

Slot(t, k) == CHOOSE i \in Slots : Lands(t, k, i)

(* Mutant of HashtableGet: it looks no further than the home slot.         *)
HashtableGet_NoProbe(t, k) ==
  IF t[Home(k)].key = k THEN t[Home(k)].data ELSE NoData

HashtableGet(t, k) ==
  IF Ends(t, k) /\ t[Slot(t, k)].key = k THEN t[Slot(t, k)].data ELSE NoData

(* A new item in the empty slot found, or its previous content overwritten *)
(* where it holds the key already; nothing if the table is full.           *)
HashtableAdd(t, k, d) ==
  IF Ends(t, k) THEN [t EXCEPT ![Slot(t, k)] = [key |-> k, data |-> d]] ELSE t

HashtableDel(t, k) ==
  IF Ends(t, k) THEN [t EXCEPT ![Slot(t, k)] = NoItem] ELSE t

-----------------------------------------------------------------------------
Init ==
  /\ owned \in BOOLEAN
  /\ items = NoItems
  /\ ok = TRUE
  /\ open = TRUE
  /\ given = {}
  /\ refused = {}
  /\ freed = {}
  /\ leaked = {}

(* `if (! hashtable_get(table, key)) hashtable_add(table, key, data)'; no  *)
(* caller looks at the result.                                             *)
Add(k, d) ==
  /\ open
  /\ HashtableGet(items, k) = NoData
  /\ d \notin given
  /\ items' = HashtableAdd(items, k, d)
  /\ ok' = Ends(items, k)
  /\ given' = given \cup {d}
  /\ refused' = IF Ends(items, k) THEN refused ELSE refused \cup {d}
  /\ UNCHANGED <<owned, open, freed, leaked>>

(* The key looked up is not the one stored under.  A NIT looks up its own  *)
(* key, then CREATE_COMMON gives it the dentry of the one NIT directory,   *)
(* whose inode is the key of another section (nit.c:83, 137; so do the     *)
(* other tables that share a directory); a PMT looks a stream up in        *)
(* pes_parsers and adds it to psi_parsers (pmt.c:202-206).  The item found *)
(* is given the new datum; its free_function is not called for the old.    *)
Overwrite(k, d) ==
  /\ open
  /\ HashtableGet(items, k) # NoData
  /\ d \notin given
  /\ items' = HashtableAdd(items, k, d)
  /\ ok' = TRUE
  /\ given' = given \cup {d}
  /\ leaked' = leaked \cup {HashtableGet(items, k)}
  /\ UNCHANGED <<owned, open, refused, freed>>

(* Mutants of Updated: the new item is added before the old one goes; only *)
(* the old one is dealt with.                                              *)
Updated_AddFirst(t, k, d) == HashtableDel(HashtableAdd(t, k, d), k)
Updated_DelOnly(t, k, d) == HashtableDel(t, k)

Updated(t, k, d) == HashtableAdd(HashtableDel(t, k), k, d)

(* A new version of a table: `hashtable_del(psi_tables, key)', which frees *)
(* the old one, then `hashtable_add(psi_tables, key, new, free)'.          *)
Replace(k, d) ==
  /\ open /\ owned
  /\ HashtableGet(items, k) # NoData
  /\ d \notin given
  /\ items' = Updated(items, k, d)
  /\ ok' = TRUE
  /\ given' = given \cup {d}
  /\ freed' = freed \cup {HashtableGet(items, k)}
  /\ UNCHANGED <<owned, open, refused, leaked>>

(* hashtable_invalidate_contents(pes_tables), when a PMT is updated: the   *)
(* items are forgotten, not freed.                                         *)
Invalidate ==
  /\ open /\ ~owned
  /\ items' = NoItems
  /\ UNCHANGED <<owned, ok, open, given, refused, freed, leaked>>

Contents(t) == {t[i].data : i \in {j \in Slots : t[j].key # NoKey}}

(* hashtable_destroy() when the file system is unmounted.                  *)
Destroy ==
  /\ open
  /\ items' = NoItems
  /\ open' = FALSE
  /\ freed' = IF owned THEN freed \cup Contents(items) ELSE freed
  /\ UNCHANGED <<owned, ok, given, refused, leaked>>

Next ==
  \/ \E k \in Keys, d \in Data : Add(k, d) \/ Overwrite(k, d) \/ Replace(k, d)
  \/ Invalidate
  \/ Destroy

Spec == Init /\ [][Next]_vars

-----------------------------------------------------------------------------
(* Properties.                                                             *)

TypeOK ==
  /\ owned \in BOOLEAN
  /\ items \in [Slots -> [key : Keys \cup {NoKey}, data : Data \cup {NoData}]]
  /\ \A i \in Slots : items[i].key = NoKey <=> items[i].data = NoData
  /\ ok \in BOOLEAN /\ open \in BOOLEAN
  /\ given \subseteq Data /\ refused \subseteq given
  /\ freed \subseteq given /\ leaked \subseteq given

(* No key is stored twice, and no empty slot cuts a stored key off from    *)
(* its home slot: every probe for it arrives.                              *)
Chains(t) == \A i \in Slots : t[i].key # NoKey => Lands(t, t[i].key, i)

Chained == Chains(items)

(* Every key's lookup: the map that the table stands for.                  *)
Lookup == [k \in Keys |-> HashtableGet(items, k)]

Table == INSTANCE KeyTable WITH map <- Lookup, Room <- Size

(* The table behaves as a map with room for Size keys: a lookup returns    *)
(* what was last stored under the key, whatever else was stored, replaced  *)
(* or refused, and only a full table refuses.                              *)
TableSpec == Table!Spec

(* What becomes of the data of a table that owns them: each is in the      *)
(* table, or was freed, or was refused, or another was stored over it, and *)
(* no two of these.  A datum that is refused or overwritten is out of the  *)
(* table's reach and never freed; none is lost in another way, and none    *)
(* that the table still hands out has been freed.                          *)
Accounted ==
  owned =>
    /\ given = Contents(items) \cup freed \cup refused \cup leaked
    /\ Contents(items) \cap (freed \cup refused \cup leaked) = {}
    /\ freed \cap (refused \cup leaked) = {}
    /\ refused \cap leaked = {}
=============================================================================
