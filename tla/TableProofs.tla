---------------------------- MODULE TableProofs ----------------------------
(***************************************************************************)
(* Proofs about TableVersions and Descriptors.                             *)
(*                                                                         *)
(* However many tables share a directory, and in whatever order their      *)
(* versions come, a dentry has one owner, a version is lost only to the    *)
(* next of its number, Current leads to the last one, and a directory one  *)
(* table uses has all of them or is not in the tree.                       *)
(*                                                                         *)
(* However many descriptors a loop has, if they can be counted each is     *)
(* parsed once, from its first byte; and the files of those of a fixed     *)
(* sequence of fields, whatever these hold, show what was sent.            *)
(***************************************************************************)
EXTENDS TableVersions, Layouts, SequenceTheorems, FiniteSetTheorems, WellFoundedInduction, TLAPS

-----------------------------------------------------------------------------
(* What holds as long as no freed dentry was used and no SDT broke off.    *)
Dentry == [state : {"free", "named", "nameless"}, files : [Versions -> Tables \cup {NoDentry}],
           current : Versions \cup {NoVersion}, inode : Tables \cup {NoDentry}]

Owned ==
  /\ \A k \in Tables : table[k] # NoTable => Alive(table[k].dir)
  /\ \A k, l \in Tables : table[k].dir = table[l].dir => k = l \/ table[k] = NoTable
  /\ \A d \in Dentries : dentry[d].state = "named" <=> d = visible
  /\ \A d \in Dentries : Alive(d) => d = visible \/ \E k \in Tables : table[k].dir = d

(* Parsers that go through CREATE_COMMON: one dentry, in the tree, held    *)
(* under the key it was created for.                                       *)
LinkedOne ==
  ~Unlinked => \A k \in Tables :
    table[k] # NoTable => table[k].dir = visible /\ dentry[visible].inode = k

(* A table, and the directory's creator, have versions; where no section   *)
(* broke off, and one table has the directory for itself, it holds it.     *)
Creators ==
  /\ visible # NoDentry => dentry[visible].inode \in Tables
  /\ torn = 0 =>
       /\ \A k \in Tables : table[k] # NoTable => parsed[k] # {}
       /\ visible # NoDentry => parsed[dentry[visible].inode] # {}
Sole(k) == \A l \in Tables \ {k} : parsed[l] = {}
SoleHolds == torn = 0 => \A k \in Tables : Sole(k) => visible \in {NoDentry, table[k].dir}

(* Whoever announced a number last parsed it, unless a section broke off.  *)
Writers ==
  /\ \A k \in Tables : \A v \in parsed[k] : writer[v] # NoDentry
  /\ torn = 0 => \A v \in Versions :
       writer[v] # NoDentry => writer[v] \in Tables /\ v \in parsed[writer[v]]

Inner == TypeOK /\ Owned /\ Writers /\ LinkedOne /\ Creators /\ SoleHolds /\ VersionsKept /\ CurrentIsLast
IInv ==
  /\ torn \in Nat
  /\ Unlinked => ~fault
  /\ Sound => Inner
  /\ AllOrNothing

-----------------------------------------------------------------------------
(* There is a dentry to be had: all those alive have an owner, and there   *)
(* are at most as many as tables and one more.                             *)
LEMMA FreshFree ==
  ASSUME TypeOK, Owned
  PROVE  Fresh \in Dentries /\ dentry[Fresh].state = "free"
<1> DEFINE dirs == {table[k].dir : k \in Tables}
<1>1. IsFiniteSet(Tables) /\ IsFiniteSet(Dentries) /\ Cardinality(Dentries) >= Cardinality(Tables) + 2
  BY VersionsAssumption
<1>2. IsFiniteSet(dirs) /\ Cardinality(dirs) <= Cardinality(Tables)
  <2> DEFINE dirOf == [k \in Tables |-> table[k].dir]
  <2>1. dirOf \in Surjection(Tables, dirs)
    BY DEF Surjection
  <2> HIDE DEF dirOf, dirs
  <2> QED BY <1>1, <2>1, FS_Surjection
<1>3. IsFiniteSet(dirs \cup {visible}) /\ Cardinality(dirs \cup {visible}) <= Cardinality(dirs) + 1
  <2> HIDE DEF dirs
  <2>1. Cardinality(dirs) \in Nat
    BY <1>2, FS_CardinalityType
  <2> QED BY <1>2, <2>1, FS_AddElement
<1>4. \E d \in Dentries : dentry[d].state = "free"
  <2> SUFFICES ASSUME \A d \in Dentries : dentry[d].state # "free" PROVE FALSE
    OBVIOUS
  <2>1. Dentries \subseteq dirs \cup {visible}
    BY VersionsAssumption DEF Owned, Alive
  <2>2. Cardinality(Dentries) <= Cardinality(dirs \cup {visible})
    BY <1>3, <2>1, FS_Subset
  <2>3. /\ Cardinality(Dentries) \in Nat /\ Cardinality(Tables) \in Nat
        /\ Cardinality(dirs) \in Nat /\ Cardinality(dirs \cup {visible}) \in Nat
    BY <1>1, <1>2, <1>3, FS_CardinalityType
  <2> HIDE DEF dirs
  <2> QED BY <1>1, <1>2, <1>3, <2>2, <2>3
<1> QED BY <1>4 DEF Fresh

(* What <table>_create_directory() does.                                   *)
LEMMA CreatedFacts ==
  ASSUME TypeOK, Owned, NEW k \in Tables, NEW v \in Versions
  PROVE  /\ Home \in Dentries /\ NewDentry \in Dentries
         /\ IF visible = NoDentry THEN Home = Fresh /\ NewDentry = Fresh ELSE Home = visible
         /\ NewDentry = IF Unlinked THEN Fresh ELSE Home
         /\ Created(k, v) \in [Dentries -> Dentry]
         /\ \A d \in Dentries \ {Home, NewDentry} : Created(k, v)[d] = dentry[d]
         /\ Created(k, v)[Home].state = "named" /\ Created(k, v)[Home].current = v
         /\ Created(k, v)[Home].files[v] = k
         /\ Created(k, v)[Home].inode = IF visible = NoDentry THEN k ELSE dentry[visible].inode
         /\ visible # NoDentry =>
              \A u \in Versions \ {v} : Created(k, v)[Home].files[u] = dentry[Home].files[u]
         /\ NewDentry # Home =>
              Created(k, v)[NewDentry].state = "nameless" /\ Created(k, v)[NewDentry].inode = k
         /\ NewDentry = Fresh =>
              \A u \in Versions : u # v \/ NewDentry # Home =>
                Created(k, v)[NewDentry].files[u] = NoDentry
<1>1. Fresh \in Dentries /\ dentry[Fresh].state = "free" /\ NoDentry \notin Dentries
  BY FreshFree, VersionsAssumption
<1>2. dentry \in [Dentries -> Dentry] /\ visible \in Dentries \cup {NoDentry}
  BY DEF TypeOK, Dentry
<1>3. visible # NoDentry => dentry[visible].state = "named"
  BY <1>2 DEF Owned
<1>4. /\ Home \in Dentries /\ NewDentry \in Dentries
      /\ IF visible = NoDentry THEN Home = Fresh /\ NewDentry = Fresh ELSE Home = visible
      /\ NewDentry = IF Unlinked THEN Fresh ELSE Home
  BY <1>1, <1>2 DEF Home, NewDentry
<1> DEFINE named == [Freed EXCEPT !.state = "named", !.inode = k]
           bare == [Freed EXCEPT !.state = "nameless", !.inode = k]
           home == IF visible # NoDentry THEN dentry[visible] ELSE named
           new == IF NewDentry = Home THEN dentry ELSE [dentry EXCEPT ![NewDentry] = bare]
<1>5. Created(k, v) = [new EXCEPT ![Home] = VersionDir(home, k, v)]
  BY DEF Created
<1>6. named \in Dentry /\ bare \in Dentry /\ home \in Dentry
  BY <1>2 DEF Freed, Absent, Dentry
<1>7. /\ named.state = "named" /\ named.inode = k /\ bare.state = "nameless" /\ bare.inode = k
      /\ \A u \in Versions : named.files[u] = NoDentry /\ bare.files[u] = NoDentry
  BY DEF Freed, Absent
<1>8. /\ VersionDir(home, k, v) \in Dentry
      /\ VersionDir(home, k, v).state = home.state /\ VersionDir(home, k, v).inode = home.inode
      /\ VersionDir(home, k, v).current = v
      /\ VersionDir(home, k, v).files[v] = k
      /\ \A u \in Versions \ {v} : VersionDir(home, k, v).files[u] = home.files[u]
  <2> HIDE DEF home
  <2> QED BY <1>6 DEF VersionDir, Dentry
<1>9. new \in [Dentries -> Dentry] /\ \A d \in Dentries : d # NewDentry => new[d] = dentry[d]
  BY <1>2, <1>4, <1>6
<1>10. NewDentry # Home => new[NewDentry] = bare
  BY <1>2, <1>4
<1>13. visible = NoDentry => \A u \in Versions : home.files[u] = NoDentry
  BY <1>7
<1>14. NewDentry = Fresh /\ NewDentry = Home => visible = NoDentry
  BY <1>1, <1>3, <1>4
<1> HIDE DEF named, bare, new
<1>11. home.state = "named" /\ home.inode = IF visible = NoDentry THEN k ELSE dentry[visible].inode
  BY <1>3, <1>7
<1>12. visible # NoDentry => home = dentry[Home]
  BY <1>4
<1> HIDE DEF home
<1>15. /\ Created(k, v) \in [Dentries -> Dentry]
       /\ Created(k, v)[Home] = VersionDir(home, k, v)
       /\ \A d \in Dentries \ {Home} : Created(k, v)[d] = new[d]
  BY <1>4, <1>5, <1>8, <1>9
<1>16. NewDentry = Fresh => \A u \in Versions : u # v \/ NewDentry # Home =>
         Created(k, v)[NewDentry].files[u] = NoDentry
  BY <1>4, <1>7, <1>8, <1>10, <1>13, <1>14, <1>15
<1> QED BY <1>4, <1>7, <1>8, <1>9, <1>10, <1>11, <1>12, <1>15, <1>16

(* What fsutils_migrate_children() does.                                   *)
LEMMA MigratedFacts ==
  ASSUME NEW ds \in [Dentries -> Dentry], NEW s \in Dentries, NEW t \in Dentries, s # t
  PROVE  /\ Migrated(ds, s, t) \in [Dentries -> Dentry]
         /\ \A d \in Dentries \ {s, t} : Migrated(ds, s, t)[d] = ds[d]
         /\ Migrated(ds, s, t)[t].state = ds[t].state
         /\ Migrated(ds, s, t)[t].inode = ds[t].inode
         /\ \A u \in Versions : Migrated(ds, s, t)[t].files[u]
              = IF ds[t].files[u] = NoDentry THEN ds[s].files[u] ELSE ds[t].files[u]
         /\ ds[t].current # NoVersion => Migrated(ds, s, t)[t].current = ds[t].current
<1> DEFINE filesA == [v \in Versions |-> IF ds[t].files[v] = NoDentry THEN ds[s].files[v] ELSE ds[t].files[v]]
           filesB == [v \in Versions |-> IF ds[t].files[v] = NoDentry THEN NoDentry ELSE ds[s].files[v]]
           nowA == IF ds[t].current = NoVersion THEN ds[s].current ELSE ds[t].current
           nowB == IF ds[t].current = NoVersion THEN NoVersion ELSE ds[s].current
           a == [state |-> ds[t].state, files |-> filesA, current |-> nowA, inode |-> ds[t].inode]
           b == [state |-> ds[s].state, files |-> filesB, current |-> nowB, inode |-> ds[s].inode]
<1>1. a \in Dentry /\ b \in Dentry
  <2>1. ds[s] \in Dentry /\ ds[t] \in Dentry
    OBVIOUS
  <2>2. /\ filesA \in [Versions -> Tables \cup {NoDentry}]
        /\ filesB \in [Versions -> Tables \cup {NoDentry}]
    BY <2>1 DEF Dentry
  <2>3. nowA \in Versions \cup {NoVersion} /\ nowB \in Versions \cup {NoVersion}
    BY <2>1 DEF Dentry
  <2> HIDE DEF filesA, filesB, nowA, nowB
  <2> QED BY <2>1, <2>2, <2>3 DEF Dentry
<1> DEFINE m1 == [ds EXCEPT ![t].files = filesA]
           m2 == [m1 EXCEPT ![t].current = nowA]
           m3 == [m2 EXCEPT ![s].files = filesB]
           m4 == [m3 EXCEPT ![s].current = nowB]
<1>2. Migrated(ds, s, t) = m4
  BY DEF Migrated
<1>3. \A u \in Versions : a.files[u] = IF ds[t].files[u] = NoDentry THEN ds[s].files[u] ELSE ds[t].files[u]
  OBVIOUS
<1>4. a.current = nowA /\ a.state = ds[t].state /\ a.inode = ds[t].inode
  OBVIOUS
<1>5. m4 = [ds EXCEPT ![t] = a, ![s] = b]
  <2> HIDE DEF filesA, filesB, nowA, nowB
  <2>1. ds[s] \in Dentry /\ ds[t] \in Dentry
    OBVIOUS
  <2>2. m1 = [ds EXCEPT ![t] = [ds[t] EXCEPT !.files = filesA]]
    OBVIOUS
  <2> DEFINE ra == [state |-> ds[t].state, files |-> filesA, current |-> ds[t].current, inode |-> ds[t].inode]
             rb == [state |-> ds[s].state, files |-> filesB, current |-> ds[s].current, inode |-> ds[s].inode]
  <2>3. [ds[t] EXCEPT !.files = filesA] = ra /\ [ds[s] EXCEPT !.files = filesB] = rb
    BY <2>1 DEF Dentry
  <2>4. [ra EXCEPT !.current = nowA] = a /\ [rb EXCEPT !.current = nowB] = b
    OBVIOUS
  <2> HIDE DEF ra, rb, a, b
  <2>5. m1[t] = ra /\ m1 = [ds EXCEPT ![t] = ra]
    BY <2>2, <2>3
  <2> HIDE DEF m1
  <2>6. m2 = [m1 EXCEPT ![t] = [m1[t] EXCEPT !.current = nowA]]
    OBVIOUS
  <2>7. m2 = [m1 EXCEPT ![t] = a]
    BY <2>4, <2>5, <2>6
  <2>8. m2 = [ds EXCEPT ![t] = a] /\ m2[s] = ds[s]
    BY <2>5, <2>7
  <2> HIDE DEF m2
  <2>9. m3 = [m2 EXCEPT ![s] = [m2[s] EXCEPT !.files = filesB]]
    OBVIOUS
  <2>10. m3 = [m2 EXCEPT ![s] = rb]
    BY <2>3, <2>8, <2>9
  <2>11. m3[s] = rb
    BY <2>8, <2>10
  <2> HIDE DEF m3
  <2>12. m4 = [m3 EXCEPT ![s] = [m3[s] EXCEPT !.current = nowB]]
    OBVIOUS
  <2>13. m4 = [m3 EXCEPT ![s] = b]
    BY <2>4, <2>11, <2>12
  <2> HIDE DEF m4
  <2> QED BY <2>8, <2>10, <2>13
<1> HIDE DEF a, b, m4
<1> QED BY <1>1, <1>2, <1>3, <1>4, <1>5

(* No dentry in use loses anything by it, and the fresh one is new.        *)
LEMMA CreatedKeeps ==
  ASSUME TypeOK, Owned, NEW k \in Tables, NEW v \in Versions
  PROVE  /\ \A d \in Dentries : Alive(d) =>
              d # Fresh /\ Created(k, v)[d].state # "free"
              /\ \A u \in Versions \ {v} : Created(k, v)[d].files[u] = dentry[d].files[u]
         /\ \A d \in Dentries : Created(k, v)[d].state = "named" <=> d = Home
         /\ \A d \in Dentries : Created(k, v)[d].state = "free" =>
              Created(k, v)[d] = Freed /\ d \notin {Home, NewDentry}
         /\ Unlinked /\ visible # NoDentry => NewDentry # Home
         /\ \A l \in Tables : table[l] # NoTable =>
              table[l].dir \in Dentries /\ table[l].dir # Fresh /\ dentry[table[l].dir].state # "free"
<1> DEFINE c == Created(k, v)
<1>1. Fresh \in Dentries /\ dentry[Fresh].state = "free" /\ NoDentry \notin Dentries
  BY FreshFree, VersionsAssumption
<1>2. /\ Home \in Dentries /\ NewDentry \in Dentries
      /\ IF visible = NoDentry THEN Home = Fresh /\ NewDentry = Fresh ELSE Home = visible
      /\ NewDentry = IF Unlinked THEN Fresh ELSE Home
      /\ \A d \in Dentries \ {Home, NewDentry} : c[d] = dentry[d]
      /\ c[Home].state = "named"
      /\ visible # NoDentry => \A u \in Versions \ {v} : c[Home].files[u] = dentry[Home].files[u]
      /\ NewDentry # Home => c[NewDentry].state = "nameless"
  BY CreatedFacts
<1>3. /\ visible \in Dentries \cup {NoDentry}
      /\ \A d \in Dentries : dentry[d].state = "named" <=> d = visible
      /\ \A d \in Dentries : dentry[d].state = "free" => dentry[d] = Freed
  BY DEF TypeOK, Owned
<1>4. \A l \in Tables : table[l] # NoTable =>
        table[l].dir \in Dentries /\ table[l].dir # Fresh /\ dentry[table[l].dir].state # "free"
  <2> SUFFICES ASSUME NEW l \in Tables, table[l] # NoTable
               PROVE  table[l].dir \in Dentries /\ dentry[table[l].dir].state # "free"
    BY <1>1
  <2>1. table[l] \in [version : Versions, dir : Dentries]
    BY DEF TypeOK
  <2>2. Alive(table[l].dir)
    BY DEF Owned
  <2> QED BY <2>1, <2>2 DEF Alive
<1>5. \A d \in Dentries : Alive(d) =>
        d # Fresh /\ c[d].state # "free" /\ \A u \in Versions \ {v} : c[d].files[u] = dentry[d].files[u]
  <2> HIDE DEF c
  <2> SUFFICES ASSUME NEW d \in Dentries, dentry[d].state # "free"
               PROVE  d # Fresh /\ c[d].state # "free"
                      /\ \A u \in Versions \ {v} : c[d].files[u] = dentry[d].files[u]
    BY DEF Alive
  <2>1. CASE d \notin {Home, NewDentry}
    BY <1>1, <1>2, <2>1
  <2>2. CASE d = Home
    BY <1>1, <1>2, <2>2
  <2>3. CASE d = NewDentry /\ d # Home
    BY <1>1, <1>2, <2>3
  <2> QED BY <2>1, <2>2, <2>3
<1>6. \A d \in Dentries : c[d].state = "named" <=> d = Home
  <2> HIDE DEF c
  <2> QED BY <1>1, <1>2, <1>3
<1>7. \A d \in Dentries : c[d].state = "free" => c[d] = Freed /\ d \notin {Home, NewDentry}
  <2> HIDE DEF c
  <2> QED BY <1>2, <1>3
<1>8. Unlinked /\ visible # NoDentry => NewDentry # Home
  BY <1>1, <1>2, <1>3
<1> QED BY <1>4, <1>5, <1>6, <1>7, <1>8

-----------------------------------------------------------------------------
LEMMA InitIInv == Init => IInv
<1> SUFFICES ASSUME Init PROVE IInv
  OBVIOUS
<1>1. /\ kind \in Kinds /\ dentry = [d \in Dentries |-> Freed] /\ visible = NoDentry
      /\ table = [k \in Tables |-> NoTable] /\ fault = FALSE /\ parsed = [k \in Tables |-> {}]
      /\ torn = 0 /\ last = NoSection /\ writer = [v \in Versions |-> NoDentry] /\ MaxTorn \in Nat /\ NoDentry \notin Dentries
  BY VersionsAssumption DEF Init
<1>2. Freed \in Dentry /\ Freed.state = "free"
  BY DEF Freed, Absent, Dentry
<1>3. NoTable.dir = NoDentry
  BY DEF NoTable
<1>4. TypeOK
  <2>1. dentry \in [Dentries -> Dentry]
    BY <1>1, <1>2
  <2>2. fault \in BOOLEAN
    BY <1>1
  <2>3. kind \in Kinds /\ torn \in 0 .. MaxTorn /\ visible \in Dentries \cup {NoDentry}
    BY <1>1
  <2>4. parsed \in [Tables -> SUBSET Versions]
    BY <1>1
  <2>5. table \in [Tables -> [version : Versions, dir : Dentries] \cup {NoTable}]
    BY <1>1
  <2>6. \A d \in Dentries : dentry[d].state = "free" => dentry[d] = Freed
    BY <1>1
  <2>7. last \in [key : Tables, version : Versions] \cup {NoSection}
    BY <1>1
  <2>8. writer \in [Versions -> Tables \cup {NoDentry}]
    BY <1>1
  <2> QED BY <2>1, <2>2, <2>3, <2>4, <2>5, <2>6, <2>7, <2>8 DEF TypeOK, Dentry
<1>5. Owned
  BY <1>1, <1>2, <1>3 DEF Owned, Alive
<1>6. LinkedOne /\ Creators /\ SoleHolds /\ Writers /\ VersionsKept /\ CurrentIsLast /\ AllOrNothing
  BY <1>1 DEF LinkedOne, Writers, Creators, SoleHolds, VersionsKept, CurrentIsLast, AllOrNothing
<1> QED BY <1>1, <1>4, <1>5, <1>6 DEF IInv, Inner

-----------------------------------------------------------------------------
(* What First() writes, in the terms of the lemmas above.                  *)
LEMMA FirstFacts ==
  ASSUME Inner, NEW k \in Tables, NEW v \in Versions, First(k, v)
  PROVE  \E i \in Tables :
           /\ dentry' = Created(k, v) /\ visible' = Home
           /\ table' = [table EXCEPT ![i] = [version |-> v, dir |-> NewDentry]]
           /\ i = Created(k, v)[NewDentry].inode
           /\ visible = NoDentry => i = k
           /\ visible # NoDentry /\ Unlinked => i = k /\ NewDentry # Home
           /\ visible # NoDentry /\ ~Unlinked => i = dentry[visible].inode /\ NewDentry = visible
           /\ table[i] = NoTable \/ table[i].dir = NewDentry
           /\ \A l \in Tables \ {i} : table[l].dir # NewDentry
<1> DEFINE i == Created(k, v)[NewDentry].inode
<1>1. /\ Home \in Dentries /\ NewDentry \in Dentries
      /\ IF visible = NoDentry THEN Home = Fresh /\ NewDentry = Fresh ELSE Home = visible
      /\ NewDentry = IF Unlinked THEN Fresh ELSE Home
      /\ Created(k, v)[Home].inode = IF visible = NoDentry THEN k ELSE dentry[visible].inode
      /\ NewDentry # Home => Created(k, v)[NewDentry].inode = k
  BY CreatedFacts DEF Inner
<1>2. /\ Unlinked /\ visible # NoDentry => NewDentry # Home
      /\ \A l \in Tables : table[l] # NoTable => table[l].dir \in Dentries /\ table[l].dir # Fresh
  BY CreatedKeeps DEF Inner
<1>3. dentry' = Created(k, v) /\ visible' = Home /\ table[k] = NoTable
      /\ table' = [table EXCEPT ![i] = [version |-> v, dir |-> NewDentry]]
  BY DEF First
<1> HIDE DEF i
<1>4. i = Created(k, v)[NewDentry].inode
  BY DEF i
<1>5. /\ visible = NoDentry => i = k
      /\ visible # NoDentry /\ Unlinked => i = k /\ NewDentry # Home
      /\ visible # NoDentry /\ ~Unlinked => i = dentry[visible].inode /\ NewDentry = visible
  BY <1>1, <1>2, <1>4
<1>6. i \in Tables
  BY <1>5 DEF Inner, Creators
<1>7. NoTable.dir = NoDentry /\ NoDentry \notin Dentries
  BY VersionsAssumption DEF NoTable
<1>8. visible # NoDentry /\ ~Unlinked => \A l \in Tables : table[l] # NoTable => table[l].dir = visible /\ l = i
  BY <1>5 DEF Inner, LinkedOne
<1>9. table[i] = NoTable \/ table[i].dir = NewDentry
  BY <1>3, <1>5, <1>6, <1>8
<1>10. \A l \in Tables \ {i} : table[l].dir # NewDentry
  BY <1>1, <1>2, <1>7, <1>8
<1> QED BY <1>3, <1>4, <1>5, <1>6, <1>9, <1>10

(* What Update() writes where the new dentry is kept out of the tree.      *)
LEMMA UpdateFacts ==
  ASSUME Inner, Unlinked, NEW k \in Tables, NEW v \in Versions, Update(k, v)
  PROVE  LET old == table[k].dir IN
         /\ old \in Dentries /\ NewDentry = Fresh /\ old # NewDentry
         /\ fault' = FALSE
         /\ visible' = IF old = Home THEN NoDentry ELSE Home
         /\ table' = [table EXCEPT ![k] = [version |-> v, dir |-> NewDentry]]
         /\ dentry' \in [Dentries -> Dentry]
         /\ dentry'[old] = Freed
         /\ \A d \in Dentries \ {old, NewDentry} : dentry'[d] = Created(k, v)[d]
         /\ dentry'[NewDentry].state = Created(k, v)[NewDentry].state
         /\ dentry'[NewDentry].inode = Created(k, v)[NewDentry].inode
         /\ \A u \in Versions :
              dentry'[NewDentry].files[u] = IF Created(k, v)[NewDentry].files[u] = NoDentry
                 THEN Created(k, v)[old].files[u] ELSE Created(k, v)[NewDentry].files[u]
         /\ Created(k, v)[NewDentry].current # NoVersion =>
              dentry'[NewDentry].current = Created(k, v)[NewDentry].current
         /\ \A l \in Tables \ {k} : table[l].dir # old /\ table[l].dir # NewDentry
<1> DEFINE old == table[k].dir
           c == Created(k, v)
           m == Migrated(c, old, NewDentry)
<1>1. NewDentry \in Dentries /\ NewDentry = Fresh /\ c \in [Dentries -> Dentry]
  BY CreatedFacts DEF Inner
<1>2. \A l \in Tables : table[l] # NoTable => table[l].dir \in Dentries /\ table[l].dir # Fresh
  BY CreatedKeeps DEF Inner
<1>3. table[k] # NoTable /\ dentry' = [m EXCEPT ![old] = Freed]
      /\ visible' = (IF old = Home THEN NoDentry ELSE Home)
      /\ fault' = (~Alive(old) \/ old = NewDentry)
      /\ table' = [table EXCEPT ![k] = IF fault' THEN NoTable ELSE [version |-> v, dir |-> NewDentry]]
  BY DEF Update, Disposed
<1>4. old \in Dentries /\ old # NewDentry
  BY <1>1, <1>2, <1>3
<1>5. fault' = FALSE
  BY <1>3, <1>4 DEF Inner, Owned
<1>6. /\ m \in [Dentries -> Dentry]
      /\ \A d \in Dentries \ {old, NewDentry} : m[d] = c[d]
      /\ m[NewDentry].state = c[NewDentry].state
      /\ m[NewDentry].inode = c[NewDentry].inode
      /\ \A u \in Versions : m[NewDentry].files[u] = IF c[NewDentry].files[u] = NoDentry THEN c[old].files[u] ELSE c[NewDentry].files[u]
      /\ c[NewDentry].current # NoVersion => m[NewDentry].current = c[NewDentry].current
  <2> HIDE DEF c, old
  <2> QED BY <1>1, <1>4, MigratedFacts
<1>7. Freed \in Dentry
  BY DEF Freed, Absent, Dentry
<1>8. NoTable.dir = NoDentry /\ NoDentry \notin Dentries
  BY VersionsAssumption DEF NoTable
<1>9. \A l \in Tables \ {k} : table[l].dir # old /\ table[l].dir # NewDentry
  BY <1>1, <1>2, <1>3, <1>4, <1>8 DEF Inner, Owned
<1> HIDE DEF c, m
<1>10. /\ dentry' \in [Dentries -> Dentry] /\ dentry'[old] = Freed
       /\ \A d \in Dentries \ {old} : dentry'[d] = m[d]
  BY <1>3, <1>4, <1>6, <1>7
<1>11. table' = [table EXCEPT ![k] = [version |-> v, dir |-> NewDentry]]
  BY <1>3, <1>5
<1>12. \A d \in Dentries \ {old, NewDentry} : dentry'[d] = c[d]
  BY <1>6, <1>10
<1>13. dentry'[NewDentry] = m[NewDentry]
  BY <1>1, <1>4, <1>10
<1> HIDE DEF old
<1>14. /\ old \in Dentries /\ NewDentry = Fresh /\ old # NewDentry
       /\ fault' = FALSE
       /\ visible' = IF old = Home THEN NoDentry ELSE Home
       /\ table' = [table EXCEPT ![k] = [version |-> v, dir |-> NewDentry]]
       /\ dentry' \in [Dentries -> Dentry]
       /\ dentry'[old] = Freed
       /\ \A d \in Dentries \ {old, NewDentry} : dentry'[d] = c[d]
       /\ dentry'[NewDentry].state = c[NewDentry].state
       /\ dentry'[NewDentry].inode = c[NewDentry].inode
       /\ \A u \in Versions : dentry'[NewDentry].files[u]
              = IF c[NewDentry].files[u] = NoDentry THEN c[old].files[u] ELSE c[NewDentry].files[u]
       /\ c[NewDentry].current # NoVersion => dentry'[NewDentry].current = c[NewDentry].current
       /\ \A l \in Tables \ {k} : table[l].dir # old /\ table[l].dir # NewDentry
  BY <1>1, <1>3, <1>4, <1>5, <1>6, <1>9, <1>10, <1>11, <1>12, <1>13
<1> QED BY <1>14 DEF old, c

(* What was last written of each number is under a dentry that is in use.  *)
LEMMA Kept ==
  ASSUME Inner, Sound
  PROVE  \A u \in Versions : writer[u] # NoDentry =>
           \E d \in Dentries : dentry[d].files[u] = writer[u] /\ Alive(d)
             /\ (d = visible \/ \E m \in Tables : table[m].dir = d)
<1> SUFFICES ASSUME NEW u \in Versions, writer[u] # NoDentry
             PROVE  \E d \in Dentries : dentry[d].files[u] = writer[u] /\ Alive(d)
                      /\ (d = visible \/ \E m \in Tables : table[m].dir = d)
  OBVIOUS
<1>1. PICK d \in Held \cup ({visible} \ {NoDentry}) : dentry[d].files[u] = writer[u]
  BY DEF Inner, VersionsKept
<1>2. d # NoDentry /\ (d = visible \/ \E m \in Tables : table[m].dir = d)
  BY DEF Held
<1>3. CASE d = visible
  <2>1. d \in Dentries /\ dentry[d].state = "named"
    BY <1>2, <1>3 DEF Inner, TypeOK, Owned
  <2> QED BY <1>1, <1>2, <2>1 DEF Alive
<1>4. CASE \E m \in Tables : table[m].dir = d
  <2>1. PICK m \in Tables : table[m].dir = d
    BY <1>4
  <2>2. table[m] # NoTable
    BY <1>2, <2>1 DEF NoTable
  <2>3. d \in Dentries /\ Alive(d)
    BY <1>2, <2>1, <2>2, CreatedKeeps DEF Inner, TypeOK, Owned
  <2> QED BY <1>1, <1>2, <2>3
<1> QED BY <1>2, <1>3, <1>4

(* The first section of a table keeps all of the invariant.                *)
LEMMA FirstKeeps ==
  ASSUME Inner, Sound, NEW k \in Tables, NEW v \in Versions, First(k, v),
         kind' = kind, last' = [key |-> k, version |-> v],
         writer' = [writer EXCEPT ![v] = k]
  PROVE  Inner' /\ AllOrNothing'
<1> DEFINE c == Created(k, v)
           n == NewDentry
           h == Home
<1>1. PICK i \in Tables :
           /\ dentry' = c /\ visible' = h
           /\ table' = [table EXCEPT ![i] = [version |-> v, dir |-> n]]
           /\ i = c[n].inode
           /\ visible = NoDentry => i = k
           /\ visible # NoDentry /\ Unlinked => i = k /\ n # h
           /\ visible # NoDentry /\ ~Unlinked => i = dentry[visible].inode /\ n = visible
           /\ table[i] = NoTable \/ table[i].dir = n
           /\ \A l \in Tables \ {i} : table[l].dir # n
  BY FirstFacts
<1>2. /\ h \in Dentries /\ n \in Dentries
      /\ IF visible = NoDentry THEN h = Fresh /\ n = Fresh ELSE h = visible
      /\ n = IF Unlinked THEN Fresh ELSE h
      /\ c \in [Dentries -> Dentry]
      /\ \A d \in Dentries \ {h, n} : c[d] = dentry[d]
      /\ c[h].state = "named" /\ c[h].current = v
      /\ c[h].files[v] = k
      /\ c[h].inode = IF visible = NoDentry THEN k ELSE dentry[visible].inode
      /\ n # h => c[n].state = "nameless" /\ c[n].inode = k
  BY CreatedFacts DEF Inner
<1>3. /\ \A d \in Dentries : Alive(d) =>
           d # Fresh /\ c[d].state # "free"
           /\ \A u \in Versions \ {v} : c[d].files[u] = dentry[d].files[u]
      /\ \A d \in Dentries : c[d].state = "named" <=> d = h
      /\ \A d \in Dentries : c[d].state = "free" => c[d] = Freed /\ d \notin {h, n}
      /\ \A l \in Tables : table[l] # NoTable =>
           table[l].dir \in Dentries /\ table[l].dir # Fresh /\ dentry[table[l].dir].state # "free"
  BY CreatedKeeps DEF Inner
<1>4. /\ table[k] = NoTable /\ parsed' = [parsed EXCEPT ![k] = @ \cup {v}]
      /\ fault' = fault /\ torn' = torn
  BY DEF First
<1>5. /\ kind \in Kinds /\ torn \in 0 .. MaxTorn
      /\ visible \in Dentries \cup {NoDentry}
      /\ table \in [Tables -> [version : Versions, dir : Dentries] \cup {NoTable}]
      /\ fault \in BOOLEAN
      /\ parsed \in [Tables -> SUBSET Versions]
  BY DEF Inner, TypeOK
<1>6. NoTable.dir = NoDentry /\ NoDentry \notin Dentries /\ NoVersion \notin Versions
  BY VersionsAssumption DEF NoTable
<1>7. Unlinked' = Unlinked
  BY DEF Unlinked
<1> DEFINE row == [version |-> v, dir |-> n]
<1>8. row \in [version : Versions, dir : Dentries] /\ row.dir = n
  BY <1>2
<1> HIDE DEF c, n, h, row
<1>9. /\ table'[i] = row /\ \A l \in Tables \ {i} : table'[l] = table[l]
      /\ parsed'[k] = parsed[k] \cup {v} /\ \A l \in Tables \ {k} : parsed'[l] = parsed[l]
  BY <1>1, <1>4, <1>5 DEF row
<1>10. /\ \A l \in Tables : parsed[l] \subseteq parsed'[l]
       /\ v \in parsed'[k]
  BY <1>9
<1>11. \A d \in Dentries : Alive(d) => c[d].state # "free"
  BY <1>3
<1>23. /\ writer \in [Versions -> Tables \cup {NoDentry}]
       /\ writer'[v] = k /\ \A u \in Versions \ {v} : writer'[u] = writer[u]
       /\ writer' \in [Versions -> Tables \cup {NoDentry}]
       /\ NoDentry \notin Tables
  BY VersionsAssumption DEF Inner, TypeOK
<1>24. Writers'
  <2>1. \A l \in Tables : \A u \in parsed'[l] : writer'[u] # NoDentry
    <3> SUFFICES ASSUME NEW l \in Tables, NEW u \in parsed'[l] PROVE writer'[u] # NoDentry
      OBVIOUS
    <3>1. CASE u = v
      BY <1>23, <3>1
    <3>2. CASE u # v
      <4>1. u \in parsed[l] /\ u \in Versions
        BY <1>5, <1>9, <3>2
      <4>2. writer[u] # NoDentry
        BY <4>1 DEF Inner, Writers
      <4> QED BY <1>23, <3>2, <4>1, <4>2
    <3> QED BY <3>1, <3>2
  <2>2. ASSUME torn = 0, NEW u \in Versions, writer'[u] # NoDentry
        PROVE  writer'[u] \in Tables /\ u \in parsed'[writer'[u]]
    <3>1. CASE u = v
      BY <1>10, <1>23, <3>1
    <3>2. CASE u # v
      BY <1>10, <1>23, <2>2, <3>2 DEF Inner, Writers
    <3> QED BY <3>1, <3>2
  <2> QED BY <1>4, <2>1, <2>2 DEF Writers
<1>12. TypeOK'
  <2>1. table' \in [Tables -> [version : Versions, dir : Dentries] \cup {NoTable}]
    BY <1>1, <1>5, <1>8 DEF row
  <2>2. parsed' \in [Tables -> SUBSET Versions]
    BY <1>4, <1>5
  <2>3. \A d \in Dentries : dentry'[d].state = "free" => dentry'[d] = Freed
    BY <1>1, <1>3
  <2>4. dentry' \in [Dentries -> Dentry]
    BY <1>1, <1>2
  <2>5. visible' \in Dentries \cup {NoDentry}
    BY <1>1, <1>2
  <2>6. fault' \in BOOLEAN
    BY <1>4, <1>5
  <2>7. last' \in [key : Tables, version : Versions] \cup {NoSection}
    OBVIOUS
  <2>8. kind' \in Kinds /\ torn' \in 0 .. MaxTorn
    BY <1>4, <1>5
  <2> QED BY <1>23, <2>1, <2>2, <2>3, <2>4, <2>5, <2>6, <2>7, <2>8 DEF TypeOK, Dentry, Freed, Absent
<1>13. Owned'
  <2>1. \A l \in Tables : table'[l] # NoTable =>
          table'[l].dir \in Dentries /\ dentry'[table'[l].dir].state # "free"
    <3> SUFFICES ASSUME NEW l \in Tables, table'[l] # NoTable
                 PROVE  table'[l].dir \in Dentries /\ dentry'[table'[l].dir].state # "free"
      OBVIOUS
    <3>1. CASE l = i
      BY <1>1, <1>2, <1>3, <1>8, <1>9, <3>1
    <3>2. CASE l # i
      BY <1>1, <1>3, <1>9, <3>2 DEF Alive, Inner, Owned
    <3> QED BY <3>1, <3>2
  <2>2. \A l, m \in Tables : table'[l].dir = table'[m].dir => l = m \/ table'[l] = NoTable
    <3> SUFFICES ASSUME NEW l \in Tables, NEW m \in Tables, table'[l].dir = table'[m].dir, l # m
                 PROVE  table'[l] = NoTable
      OBVIOUS
    <3>1. l # i /\ m # i
      BY <1>1, <1>8, <1>9
    <3> QED BY <1>9, <3>1 DEF Inner, Owned
  <2>3. \A d \in Dentries : dentry'[d].state = "named" <=> d = visible'
    BY <1>1, <1>3
  <2>4. \A d \in Dentries : dentry'[d].state # "free" =>
          d = visible' \/ \E l \in Tables : table'[l].dir = d
    <3> SUFFICES ASSUME NEW d \in Dentries, dentry'[d].state # "free", d # h, d # n
                 PROVE  \E l \in Tables : table'[l].dir = d
      BY <1>1, <1>8, <1>9
    <3>1. dentry[d].state # "free" /\ d # visible /\ d # NoDentry
      BY <1>1, <1>2, <1>6
    <3>2. PICK l \in Tables : table[l].dir = d
      BY <3>1 DEF Inner, Owned, Alive
    <3>3. l # i
      BY <1>1, <1>6, <3>1, <3>2
    <3> QED BY <1>9, <3>2, <3>3
  <2> QED BY <1>6, <2>1, <2>2, <2>3, <2>4 DEF Owned, Alive
<1>14. LinkedOne'
  <2> SUFFICES ASSUME ~Unlinked, NEW l \in Tables, table'[l] # NoTable
               PROVE  table'[l].dir = visible' /\ dentry'[visible'].inode = l
    BY <1>7 DEF LinkedOne
  <2>1. n = h
    BY <1>2
  <2>2. CASE l = i
    BY <1>1, <1>8, <1>9, <2>1, <2>2
  <2>3. CASE l # i
    <3>1. table[l] # NoTable
      BY <1>9, <2>3
    <3>2. table[l].dir = visible /\ dentry[visible].inode = l
      BY <3>1 DEF Inner, LinkedOne
    <3>3. visible # NoDentry
      BY <1>3, <1>6, <3>1, <3>2
    <3> QED BY <1>1, <2>3, <3>2, <3>3
  <2> QED BY <2>2, <2>3
<1>15. dentry'[visible'].inode = IF visible = NoDentry THEN k ELSE dentry[visible].inode
  BY <1>1, <1>2
<1>16. Creators'
  <2>1. dentry'[visible'].inode \in Tables
    BY <1>15 DEF Inner, Creators
  <2>2. torn = 0 => \A l \in Tables : table'[l] # NoTable => parsed'[l] # {}
    <3> SUFFICES ASSUME torn = 0, NEW l \in Tables, table'[l] # NoTable PROVE parsed'[l] # {}
      OBVIOUS
    <3>1. CASE l = k
      BY <1>10, <3>1
    <3>2. CASE l = i /\ l # k
      <4>1. visible # NoDentry /\ i = dentry[visible].inode
        BY <1>1, <3>2
      <4>2. parsed[i] # {}
        BY <4>1 DEF Inner, Creators
      <4> QED BY <1>10, <3>2, <4>2
    <3>3. CASE l # i
      BY <1>9, <1>10, <3>3 DEF Inner, Creators
    <3> QED BY <3>1, <3>2, <3>3
  <2>3. torn = 0 => parsed'[dentry'[visible'].inode] # {}
    <3>1. CASE visible = NoDentry
      BY <1>10, <1>15, <3>1
    <3>2. CASE visible # NoDentry
      BY <1>10, <1>15, <2>1, <3>2 DEF Inner, Creators
    <3> QED BY <3>1, <3>2
  <2> QED BY <1>4, <2>1, <2>2, <2>3 DEF Creators
<1>17. ASSUME torn = 0, NEW m \in Tables, \A l \in Tables \ {m} : parsed'[l] = {}
       PROVE  m = k /\ visible = NoDentry /\ Sole(k)
  <2>1. m = k
    BY <1>10, <1>17
  <2>2. Sole(k)
    BY <1>9, <1>17, <2>1 DEF Sole
  <2>3. visible = NoDentry
    <3> SUFFICES ASSUME visible # NoDentry PROVE FALSE
      OBVIOUS
    <3>1. visible = table[k].dir
      BY <1>17, <2>2 DEF Inner, SoleHolds
    <3> QED BY <1>4, <1>6, <3>1
  <2> QED BY <2>1, <2>2, <2>3
<1>18. SoleHolds'
  <2> SUFFICES ASSUME torn = 0, NEW m \in Tables, \A l \in Tables \ {m} : parsed'[l] = {}
               PROVE  visible' = table'[m].dir
    BY <1>4 DEF SoleHolds, Sole
  <2>1. m = k /\ visible = NoDentry
    BY <1>17
  <2> QED BY <1>1, <1>2, <1>8, <1>9, <2>1
<1>19. \A u \in Versions : writer[u] # NoDentry =>
         \E d \in Dentries : dentry[d].files[u] = writer[u] /\ Alive(d)
           /\ (d = visible \/ \E m \in Tables : table[m].dir = d)
  BY Kept
<1>20. VersionsKept'
  <2> SUFFICES ASSUME NEW u \in Versions, writer'[u] # NoDentry
               PROVE  \E d \in Dentries : dentry'[d].files[u] = writer'[u]
                        /\ (d = visible' \/ \E m \in Tables : table'[m].dir = d)
    BY <1>6 DEF VersionsKept, Held
  <2>1. CASE u = v
    BY <1>1, <1>2, <1>23, <2>1
  <2>2. CASE u # v
    <3>1. writer'[u] = writer[u]
      BY <1>23, <2>2
    <3>2. PICK d \in Dentries : dentry[d].files[u] = writer[u] /\ Alive(d)
            /\ (d = visible \/ \E m \in Tables : table[m].dir = d)
      BY <1>19, <3>1
    <3>3. dentry'[d].files[u] = writer'[u]
      BY <1>1, <1>3, <2>2, <3>1, <3>2
    <3>4. CASE d = visible
      BY <1>1, <1>2, <1>6, <3>3, <3>4
    <3>5. CASE \E m \in Tables : table[m].dir = d
      <4>1. PICK m \in Tables : table[m].dir = d
        BY <3>5
      <4>2. table'[m].dir = d
        BY <1>1, <1>6, <1>8, <1>9, <4>1
      <4> QED BY <3>3, <4>2
    <3> QED BY <3>2, <3>4, <3>5
  <2> QED BY <2>1, <2>2
<1>21. CurrentIsLast'
  BY <1>1, <1>2 DEF CurrentIsLast
<1>22. AllOrNothing'
  <2> SUFFICES ASSUME torn = 0, NEW m \in Tables, \A l \in Tables \ {m} : parsed'[l] = {},
                      NEW u \in parsed'[m]
               PROVE  dentry'[visible'].files[u] = m /\ visible' # NoDentry
    BY <1>1, <1>2, <1>4, <1>6 DEF AllOrNothing, Shown
  <2>1. m = k /\ visible = NoDentry /\ Sole(k)
    BY <1>17
  <2>2. u = v
    <3> SUFFICES ASSUME u # v PROVE FALSE
      OBVIOUS
    <3>1. u \in Versions /\ writer[u] # NoDentry
      BY <1>5, <1>9, <2>1 DEF Inner, Writers
    <3>2. PICK d \in Dentries : d = visible \/ \E l \in Tables : table[l].dir = d
      BY <1>19, <3>1
    <3>3. PICK l \in Tables : table[l].dir = d
      BY <1>6, <2>1, <3>2
    <3>4. table[l] # NoTable
      BY <1>6, <3>3
    <3>5. parsed[l] # {}
      BY <3>4 DEF Inner, Creators
    <3> QED BY <1>4, <2>1, <3>4, <3>5 DEF Sole
  <2> QED BY <1>1, <1>2, <1>6, <2>1, <2>2
<1> QED BY <1>12, <1>13, <1>14, <1>16, <1>18, <1>20, <1>21, <1>22, <1>24 DEF Inner

(* So does a new version of a table whose dentry is not in the tree.       *)
LEMMA UpdateKeeps ==
  ASSUME Inner, Sound, Unlinked, NEW k \in Tables, NEW v \in Versions, Update(k, v),
         kind' = kind, last' = [key |-> k, version |-> v],
         writer' = [writer EXCEPT ![v] = k]
  PROVE  Inner' /\ AllOrNothing' /\ fault' = FALSE
<1> DEFINE c == Created(k, v)
           n == NewDentry
           h == Home
           old == table[k].dir
           row == [version |-> v, dir |-> n]
<1>1. /\ old \in Dentries /\ n = Fresh /\ old # n
      /\ fault' = FALSE
      /\ visible' = IF old = h THEN NoDentry ELSE h
      /\ table' = [table EXCEPT ![k] = row]
      /\ dentry' \in [Dentries -> Dentry]
      /\ dentry'[old] = Freed
      /\ \A d \in Dentries \ {old, n} : dentry'[d] = c[d]
      /\ dentry'[n].state = c[n].state
      /\ dentry'[n].inode = c[n].inode
      /\ \A u \in Versions : dentry'[n].files[u]
           = IF c[n].files[u] = NoDentry THEN c[old].files[u] ELSE c[n].files[u]
      /\ c[n].current # NoVersion => dentry'[n].current = c[n].current
      /\ \A l \in Tables \ {k} : table[l].dir # old /\ table[l].dir # n
  BY UpdateFacts
<1>2. /\ h \in Dentries /\ n \in Dentries
      /\ IF visible = NoDentry THEN h = Fresh /\ n = Fresh ELSE h = visible
      /\ c \in [Dentries -> Dentry]
      /\ \A d \in Dentries \ {h, n} : c[d] = dentry[d]
      /\ c[h].state = "named" /\ c[h].current = v
      /\ c[h].files[v] = k
      /\ c[h].inode = IF visible = NoDentry THEN k ELSE dentry[visible].inode
      /\ n # h => c[n].state = "nameless" /\ c[n].inode = k
      /\ \A u \in Versions : u # v \/ n # h => c[n].files[u] = NoDentry
  BY <1>1, CreatedFacts DEF Inner
<1>3. /\ \A d \in Dentries : Alive(d) =>
           d # n /\ c[d].state # "free"
           /\ \A u \in Versions \ {v} : c[d].files[u] = dentry[d].files[u]
      /\ \A d \in Dentries : c[d].state = "named" <=> d = h
      /\ \A d \in Dentries : c[d].state = "free" => c[d] = Freed /\ d \notin {h, n}
      /\ \A l \in Tables : table[l] # NoTable =>
           table[l].dir \in Dentries /\ table[l].dir # n /\ dentry[table[l].dir].state # "free"
  BY <1>1, CreatedKeeps DEF Inner
<1>4. /\ table[k] # NoTable /\ parsed' = [parsed EXCEPT ![k] = @ \cup {v}]
      /\ torn' = torn
  BY DEF Update
<1>5. /\ kind \in Kinds /\ torn \in 0 .. MaxTorn
      /\ visible \in Dentries \cup {NoDentry}
      /\ table \in [Tables -> [version : Versions, dir : Dentries] \cup {NoTable}]
      /\ parsed \in [Tables -> SUBSET Versions]
  BY DEF Inner, TypeOK
<1>6. /\ NoTable.dir = NoDentry /\ NoDentry \notin Dentries /\ NoVersion \notin Versions
      /\ Freed.state = "free"
  BY VersionsAssumption DEF NoTable, Freed
<1>7. Unlinked'
  BY DEF Unlinked
<1>8. row \in [version : Versions, dir : Dentries] /\ row.dir = n
  BY <1>2
<1> HIDE DEF c, n, h, old, row
<1>9. /\ table'[k] = row /\ \A l \in Tables \ {k} : table'[l] = table[l]
      /\ parsed'[k] = parsed[k] \cup {v} /\ \A l \in Tables \ {k} : parsed'[l] = parsed[l]
  BY <1>1, <1>4, <1>5
<1>10. /\ \A l \in Tables : parsed[l] \subseteq parsed'[l]
       /\ v \in parsed'[k]
  BY <1>9
<1>11. visible' # NoDentry => visible' = h /\ h # old
  BY <1>1
<1>23. /\ writer \in [Versions -> Tables \cup {NoDentry}]
       /\ writer'[v] = k /\ \A u \in Versions \ {v} : writer'[u] = writer[u]
       /\ writer' \in [Versions -> Tables \cup {NoDentry}]
       /\ NoDentry \notin Tables
  BY VersionsAssumption DEF Inner, TypeOK
<1>24. Writers'
  <2>1. \A l \in Tables : \A u \in parsed'[l] : writer'[u] # NoDentry
    <3> SUFFICES ASSUME NEW l \in Tables, NEW u \in parsed'[l] PROVE writer'[u] # NoDentry
      OBVIOUS
    <3>1. CASE u = v
      BY <1>23, <3>1
    <3>2. CASE u # v
      <4>1. u \in parsed[l] /\ u \in Versions
        BY <1>5, <1>9, <3>2
      <4>2. writer[u] # NoDentry
        BY <4>1 DEF Inner, Writers
      <4> QED BY <1>23, <3>2, <4>1, <4>2
    <3> QED BY <3>1, <3>2
  <2>2. ASSUME torn = 0, NEW u \in Versions, writer'[u] # NoDentry
        PROVE  writer'[u] \in Tables /\ u \in parsed'[writer'[u]]
    <3>1. CASE u = v
      BY <1>10, <1>23, <3>1
    <3>2. CASE u # v
      BY <1>10, <1>23, <2>2, <3>2 DEF Inner, Writers
    <3> QED BY <3>1, <3>2
  <2> QED BY <1>4, <2>1, <2>2 DEF Writers
<1>12. TypeOK'
  <2>1. table' \in [Tables -> [version : Versions, dir : Dentries] \cup {NoTable}]
    BY <1>1, <1>5, <1>8
  <2>2. parsed' \in [Tables -> SUBSET Versions]
    BY <1>4, <1>5
  <2>3. \A d \in Dentries : dentry'[d].state = "free" => dentry'[d] = Freed
    BY <1>1, <1>3
  <2>4. visible' \in Dentries \cup {NoDentry}
    BY <1>1, <1>2
  <2>5. fault' \in BOOLEAN
    BY <1>1
  <2>6. last' \in [key : Tables, version : Versions] \cup {NoSection}
    OBVIOUS
  <2>7. kind' \in Kinds /\ torn' \in 0 .. MaxTorn
    BY <1>4, <1>5
  <2> QED BY <1>1, <1>23, <2>1, <2>2, <2>3, <2>4, <2>5, <2>6, <2>7 DEF TypeOK, Dentry, Freed, Absent
<1>13. Owned'
  <2>1. \A l \in Tables : table'[l] # NoTable =>
          table'[l].dir \in Dentries /\ dentry'[table'[l].dir].state # "free"
    <3> SUFFICES ASSUME NEW l \in Tables, table'[l] # NoTable
                 PROVE  table'[l].dir \in Dentries /\ dentry'[table'[l].dir].state # "free"
      OBVIOUS
    <3>1. CASE l = k
      BY <1>1, <1>2, <1>3, <1>8, <1>9, <3>1
    <3>2. CASE l # k
      BY <1>1, <1>3, <1>9, <3>2 DEF Alive, Inner, Owned
    <3> QED BY <3>1, <3>2
  <2>2. \A l, m \in Tables : table'[l].dir = table'[m].dir => l = m \/ table'[l] = NoTable
    <3> SUFFICES ASSUME NEW l \in Tables, NEW m \in Tables, table'[l].dir = table'[m].dir, l # m
                 PROVE  table'[l] = NoTable
      OBVIOUS
    <3>1. l # k /\ m # k
      BY <1>1, <1>8, <1>9
    <3> QED BY <1>9, <3>1 DEF Inner, Owned
  <2>3. \A d \in Dentries : dentry'[d].state = "named" <=> d = visible'
    <3> SUFFICES ASSUME NEW d \in Dentries PROVE dentry'[d].state = "named" <=> d = visible'
      OBVIOUS
    <3>1. CASE d = old
      BY <1>1, <1>6, <3>1
    <3>2. CASE d = n
      BY <1>1, <1>3, <1>6, <3>2
    <3>3. CASE d \notin {old, n}
      BY <1>1, <1>3, <1>6, <3>3
    <3> QED BY <3>1, <3>2, <3>3
  <2>4. \A d \in Dentries : dentry'[d].state # "free" =>
          d = visible' \/ \E l \in Tables : table'[l].dir = d
    <3> SUFFICES ASSUME NEW d \in Dentries, dentry'[d].state # "free", d # visible', d # n
                 PROVE  \E l \in Tables : table'[l].dir = d
      BY <1>8, <1>9
    <3>1. d # old /\ d # h
      BY <1>1, <1>6
    <3>2. dentry[d].state # "free" /\ d # visible /\ d # NoDentry
      BY <1>1, <1>2, <1>6, <3>1
    <3>3. PICK l \in Tables : table[l].dir = d
      BY <3>2 DEF Inner, Owned, Alive
    <3>4. l # k
      BY <3>1, <3>3 DEF old
    <3> QED BY <1>9, <3>3, <3>4
  <2> QED BY <1>6, <2>1, <2>2, <2>3, <2>4 DEF Owned, Alive
<1>14. LinkedOne'
  BY <1>7 DEF LinkedOne
<1>15. visible' # NoDentry =>
         dentry'[visible'].inode = IF visible = NoDentry THEN k ELSE dentry[visible].inode
  <2> SUFFICES ASSUME visible' = h, h # old
               PROVE  dentry'[h].inode = c[h].inode
    BY <1>2, <1>11
  <2> QED BY <1>1, <1>2
<1>16. Creators'
  <2>1. visible' # NoDentry => dentry'[visible'].inode \in Tables
    BY <1>15 DEF Inner, Creators
  <2>2. torn = 0 => \A l \in Tables : table'[l] # NoTable => parsed'[l] # {}
    BY <1>9, <1>10 DEF Inner, Creators
  <2>3. torn = 0 /\ visible' # NoDentry => parsed'[dentry'[visible'].inode] # {}
    <3>1. CASE visible = NoDentry
      BY <1>10, <1>15, <3>1
    <3>2. CASE visible # NoDentry
      BY <1>10, <1>15, <2>1, <3>2 DEF Inner, Creators
    <3> QED BY <3>1, <3>2
  <2> QED BY <1>4, <2>1, <2>2, <2>3 DEF Creators
<1>17. ASSUME torn = 0, visible' # NoDentry,
              NEW m \in Tables, \A l \in Tables \ {m} : parsed'[l] = {}
       PROVE  m = k /\ visible' = n /\ Sole(k)
  <2>1. m = k
    BY <1>10, <1>17
  <2>2. Sole(k)
    BY <1>9, <1>17, <2>1 DEF Sole
  <2>3. visible \in {NoDentry, old}
    BY <1>17, <2>2 DEF Inner, SoleHolds, old
  <2>4. visible = NoDentry
    BY <1>2, <1>11, <1>17, <2>3
  <2> QED BY <1>1, <1>2, <1>11, <1>17, <2>1, <2>2, <2>4
<1>18. SoleHolds'
  <2> SUFFICES ASSUME torn = 0, NEW m \in Tables, \A l \in Tables \ {m} : parsed'[l] = {},
                      visible' # NoDentry
               PROVE  visible' = table'[m].dir
    BY <1>4 DEF SoleHolds, Sole
  <2>1. m = k /\ visible' = n
    BY <1>17
  <2> QED BY <1>8, <1>9, <2>1
<1>19. \A u \in Versions : writer[u] # NoDentry =>
         \E d \in Dentries : dentry[d].files[u] = writer[u] /\ Alive(d)
           /\ (d = visible \/ \E m \in Tables : table[m].dir = d)
  BY Kept
<1>20. VersionsKept'
  <2> SUFFICES ASSUME NEW u \in Versions, writer'[u] # NoDentry
               PROVE  \E d \in Dentries : dentry'[d].files[u] = writer'[u]
                        /\ (d = visible' \/ \E m \in Tables : table'[m].dir = d)
    BY <1>6 DEF VersionsKept, Held
  <2>1. c[n].files[u] \in {NoDentry, writer'[u]}
    BY <1>2, <1>23
  <2>2. PICK d \in Dentries : c[d].files[u] = writer'[u]
           /\ (d = h \/ d = old \/ \E m \in Tables \ {k} : table[m].dir = d)
    <3>1. CASE u = v
      BY <1>2, <1>23, <3>1
    <3>2. CASE u # v
      <4>1. writer'[u] = writer[u]
        BY <1>23, <3>2
      <4>2. PICK d \in Dentries : dentry[d].files[u] = writer[u] /\ Alive(d)
               /\ (d = visible \/ \E m \in Tables : table[m].dir = d)
        BY <1>19, <4>1
      <4>3. c[d].files[u] = writer'[u]
        BY <1>3, <3>2, <4>1, <4>2
      <4>4. d = visible => d = h
        BY <1>2, <1>6
      <4> QED BY <4>2, <4>3, <4>4 DEF old
    <3> QED BY <3>1, <3>2
  <2>3. CASE d \in {old, n}
    <3>1. dentry'[n].files[u] = writer'[u] /\ table'[k].dir = n
      BY <1>1, <1>8, <1>9, <2>1, <2>2, <2>3
    <3> QED BY <1>2, <3>1
  <2>4. CASE d \notin {old, n}
    <3>1. dentry'[d].files[u] = writer'[u]
      BY <1>1, <2>2, <2>4
    <3>2. CASE d = h
      BY <1>1, <2>4, <3>1, <3>2
    <3>3. CASE \E m \in Tables \ {k} : table[m].dir = d
      BY <1>9, <3>1, <3>3
    <3> QED BY <2>2, <2>4, <3>2, <3>3
  <2> QED BY <2>3, <2>4
<1>21. CurrentIsLast'
  <2> SUFFICES ASSUME visible' = h, h # old
               PROVE  dentry'[h].current = v /\ dentry'[h].files[v] = k
    BY <1>11 DEF CurrentIsLast
  <2>1. CASE h = n
    BY <1>1, <1>2, <1>6, <1>23, <2>1
  <2>2. CASE h # n
    BY <1>1, <1>2, <2>2
  <2> QED BY <2>1, <2>2
<1>22. AllOrNothing'
  <2> SUFFICES ASSUME torn = 0, visible' # NoDentry,
                      NEW m \in Tables, \A l \in Tables \ {m} : parsed'[l] = {},
                      NEW u \in parsed'[m]
               PROVE  dentry'[visible'].files[u] = m
    BY <1>4 DEF AllOrNothing, Shown
  <2>1. m = k /\ visible' = n /\ Sole(k)
    BY <1>17
  <2>2. Sound'
    BY <1>1, <1>4 DEF Sound
  <2>6. u \in Versions /\ writer'[u] = k
    <3>1. u \in Versions
      BY <1>5, <1>9, <2>1
    <3>2. writer'[u] # NoDentry /\ writer'[u] \in Tables /\ u \in parsed'[writer'[u]]
      BY <1>4, <1>24, <2>1, <3>1 DEF Writers
    <3> QED BY <2>1, <3>1, <3>2
  <2>3. PICK d \in Held' \cup ({visible'} \ {NoDentry}) : dentry'[d].files[u] = k
    BY <1>20, <1>23, <2>2, <2>6 DEF VersionsKept
  <2>4. CASE d = visible'
    BY <2>1, <2>3, <2>4
  <2>5. CASE d \in Held'
    <3>1. PICK l \in Tables : table'[l].dir = d /\ d # NoDentry
      BY <2>5 DEF Held
    <3>2. CASE l = k
      BY <1>8, <1>9, <2>1, <2>3, <3>1, <3>2
    <3>3. CASE l # k
      <4>1. table[l] # NoTable
        BY <1>6, <1>9, <3>1, <3>3
      <4>2. parsed[l] # {}
        BY <2>1, <4>1 DEF Inner, Creators
      <4> QED BY <2>1, <3>3, <4>2 DEF Sole
    <3> QED BY <3>2, <3>3
  <2> QED BY <2>3, <2>4, <2>5
<1> QED BY <1>1, <1>12, <1>13, <1>14, <1>16, <1>18, <1>20, <1>21, <1>22, <1>24 DEF Inner

(* What SdtParse() and AitParse() do with a section that breaks off.       *)
SdtTorn(k, v) ==
  /\ kind = "SDT" /\ torn < MaxTorn /\ torn' = torn + 1
  /\ visible' = NoDentry /\ UNCHANGED <<table, fault, parsed>>
AitTorn(k, v) ==
  /\ kind = "AIT" /\ torn < MaxTorn /\ torn' = torn + 1
  /\ dentry' = [dentry EXCEPT ![Home] = Created(k, v)[Home]]
  /\ visible' = Home /\ UNCHANGED <<table, fault, parsed>>

(* What is left by a section of the AIT that broke off is complete but     *)
(* for a directory that shows what was never filed.                        *)
LEMMA AitTornKeeps ==
  ASSUME Inner, Sound, NEW k \in Tables, NEW v \in Versions, AitTorn(k, v),
         kind' = kind, last' = [key |-> k, version |-> v],
         writer' = [writer EXCEPT ![v] = k]
  PROVE  Inner' /\ AllOrNothing'
<1> DEFINE c == Created(k, v)
           h == Home
<1>1. /\ kind = "AIT" /\ torn < MaxTorn /\ torn' = torn + 1
      /\ dentry' = [dentry EXCEPT ![h] = c[h]] /\ visible' = h
      /\ table' = table /\ fault' = fault /\ parsed' = parsed
  BY DEF AitTorn
<1>2. /\ h \in Dentries
      /\ IF visible = NoDentry THEN h = Fresh ELSE h = visible
      /\ c \in [Dentries -> Dentry]
      /\ c[h].state = "named" /\ c[h].current = v
      /\ c[h].files[v] = k
      /\ c[h].inode = IF visible = NoDentry THEN k ELSE dentry[visible].inode
      /\ visible # NoDentry => \A u \in Versions \ {v} : c[h].files[u] = dentry[h].files[u]
  BY CreatedFacts DEF Inner
<1>3. \A l \in Tables : table[l] # NoTable =>
        table[l].dir \in Dentries /\ dentry[table[l].dir].state # "free"
  BY CreatedKeeps DEF Inner
<1>4. /\ kind \in Kinds /\ torn \in 0 .. MaxTorn /\ MaxTorn \in Nat
      /\ dentry \in [Dentries -> Dentry]
      /\ \A d \in Dentries : dentry[d].state = "free" => dentry[d] = Freed
      /\ visible \in Dentries \cup {NoDentry} /\ NoDentry \notin Dentries
      /\ fault \in BOOLEAN
      /\ writer \in [Versions -> Tables \cup {NoDentry}] /\ NoDentry \notin Tables
  BY VersionsAssumption DEF Inner, TypeOK, Dentry
<1> HIDE DEF c, h
<1>5. /\ dentry' \in [Dentries -> Dentry]
      /\ dentry'[h] = c[h] /\ \A d \in Dentries \ {h} : dentry'[d] = dentry[d]
  BY <1>1, <1>2, <1>4
<1>14. /\ writer'[v] = k /\ \A u \in Versions \ {v} : writer'[u] = writer[u]
       /\ writer' \in [Versions -> Tables \cup {NoDentry}]
  BY <1>4
<1>6. torn' \in 0 .. MaxTorn /\ torn' # 0
  BY <1>1, <1>4
<1>7. TypeOK'
  <2>1. last' \in [key : Tables, version : Versions] \cup {NoSection}
    OBVIOUS
  <2>2. \A d \in Dentries : dentry'[d].state = "free" => dentry'[d] = Freed
    BY <1>2, <1>4, <1>5
  <2>3. visible' \in Dentries \cup {NoDentry}
    BY <1>1, <1>2
  <2>4. /\ table' \in [Tables -> [version : Versions, dir : Dentries] \cup {NoTable}]
        /\ parsed' \in [Tables -> SUBSET Versions]
        /\ fault' \in BOOLEAN
    BY <1>1 DEF Inner, TypeOK
  <2>5. kind' \in Kinds
    BY <1>4
  <2> QED BY <1>5, <1>6, <1>14, <2>1, <2>2, <2>3, <2>4, <2>5 DEF TypeOK, Dentry, Freed, Absent
<1>8. Owned'
  <2>1. \A l \in Tables : table'[l] # NoTable =>
          table'[l].dir # NoDentry /\ dentry'[table'[l].dir].state # "free"
    <3> SUFFICES ASSUME NEW l \in Tables, table[l] # NoTable
                 PROVE  table[l].dir # NoDentry /\ dentry'[table[l].dir].state # "free"
      BY <1>1
    <3>1. table[l].dir \in Dentries /\ dentry[table[l].dir].state # "free"
      BY <1>3
    <3>2. CASE table[l].dir = h
      BY <1>2, <1>4, <1>5, <3>1, <3>2
    <3>3. CASE table[l].dir # h
      BY <1>4, <1>5, <3>1, <3>3
    <3> QED BY <3>2, <3>3
  <2>2. \A l, m \in Tables : table'[l].dir = table'[m].dir => l = m \/ table'[l] = NoTable
    BY <1>1 DEF Inner, Owned
  <2>3. \A d \in Dentries : dentry'[d].state = "named" <=> d = visible'
    <3>1. \A d \in Dentries : dentry[d].state = "named" <=> d = visible
      BY DEF Inner, Owned
    <3> QED BY <1>1, <1>2, <1>4, <1>5, <3>1
  <2>4. \A d \in Dentries : d # NoDentry /\ dentry'[d].state # "free" =>
          d = visible' \/ \E l \in Tables : table'[l].dir = d
    <3> SUFFICES ASSUME NEW d \in Dentries, dentry'[d].state # "free", d # h
                 PROVE  \E l \in Tables : table'[l].dir = d
      BY <1>1
    <3>1. dentry[d].state # "free" /\ d # NoDentry /\ d # visible
      BY <1>2, <1>4, <1>5
    <3> QED BY <1>1, <3>1 DEF Inner, Owned, Alive
  <2> QED BY <2>1, <2>2, <2>3, <2>4 DEF Owned, Alive
<1>9. LinkedOne'
  BY <1>1 DEF LinkedOne, Unlinked
<1>10. Creators'
  <2>1. dentry'[visible'].inode \in Tables
    BY <1>1, <1>2, <1>5 DEF Inner, Creators
  <2> QED BY <1>6, <2>1 DEF Creators
<1>11. SoleHolds' /\ AllOrNothing'
  BY <1>6 DEF SoleHolds, AllOrNothing
<1>15. Writers'
  <2> SUFFICES ASSUME NEW l \in Tables, NEW u \in parsed[l] PROVE writer'[u] # NoDentry
    BY <1>1, <1>6 DEF Writers
  <2>1. u \in Versions /\ writer[u] # NoDentry
    BY DEF Inner, TypeOK, Writers
  <2> QED BY <1>4, <1>14, <2>1
<1>12. VersionsKept'
  <2> SUFFICES ASSUME NEW u \in Versions, writer'[u] # NoDentry
               PROVE  \E d \in Dentries : dentry'[d].files[u] = writer'[u]
                        /\ (d = visible' \/ \E m \in Tables : table'[m].dir = d)
    BY <1>1, <1>4 DEF VersionsKept, Held
  <2>5. CASE u = v
    BY <1>1, <1>2, <1>5, <1>14, <2>5
  <2> SUFFICES ASSUME u # v
               PROVE  \E d \in Dentries : dentry'[d].files[u] = writer'[u]
                        /\ (d = visible' \/ \E m \in Tables : table'[m].dir = d)
    BY <2>5
  <2>2. writer'[u] = writer[u]
    BY <1>14
  <2>1. PICK d \in Dentries : dentry[d].files[u] = writer[u] /\ Alive(d)
           /\ (d = visible \/ \E m \in Tables : table[m].dir = d)
    BY <2>2, Kept
  <2>3. CASE d = h
    <3>1. visible # NoDentry
      BY <1>2, <2>1, <2>3, CreatedKeeps DEF Inner
    <3> QED BY <1>1, <1>2, <1>5, <2>1, <2>2, <2>3, <3>1
  <2>4. CASE d # h
    BY <1>1, <1>2, <1>4, <1>5, <2>1, <2>2, <2>4
  <2> QED BY <2>3, <2>4
<1>13. CurrentIsLast'
  BY <1>1, <1>2, <1>5 DEF CurrentIsLast
<1> QED BY <1>7, <1>8, <1>9, <1>10, <1>11, <1>12, <1>13, <1>15 DEF Inner

(* A linked table's new version frees the directory it has just written,   *)
(* which its table still holds.                                            *)
LEMMA UpdateFaults ==
  ASSUME Inner, ~Unlinked, NEW k \in Tables, NEW v \in Versions, table[k] # NoTable
  PROVE  table[k].dir = Home /\ table[k].dir = NewDentry
<1>1. table[k].dir = visible
  BY DEF Inner, LinkedOne
<1>2. table[k].dir # NoDentry
  BY DEF Inner, Owned, Alive
<1>3. Home = visible /\ NewDentry = Home
  BY <1>1, <1>2, CreatedFacts DEF Inner
<1> QED BY <1>1, <1>3

-----------------------------------------------------------------------------
LEMMA NextIInv == IInv /\ [Next]_vars => IInv'
<1> SUFFICES ASSUME IInv, [Next]_vars PROVE IInv'
  OBVIOUS
<1>1. torn \in Nat /\ (Unlinked => ~fault) /\ (Sound => Inner) /\ AllOrNothing
  BY DEF IInv
<1>2. CASE UNCHANGED vars
  <2>1. /\ kind' = kind /\ dentry' = dentry /\ visible' = visible /\ table' = table
        /\ fault' = fault /\ parsed' = parsed /\ torn' = torn /\ last' = last
        /\ writer' = writer
    BY <1>2 DEF vars
  <2>2. /\ torn' = torn /\ Unlinked' = Unlinked /\ Sound' = Sound
        /\ AllOrNothing' = AllOrNothing
    BY <2>1 DEF Unlinked, Sound, AllOrNothing, Shown
  <2>3. Inner => Inner'
    <3>1. (TypeOK => TypeOK') /\ (Owned => Owned')
      BY <2>1 DEF TypeOK, Owned, Alive
    <3>4. Writers => Writers'
      BY <2>1 DEF Writers
    <3>2. (LinkedOne => LinkedOne') /\ (Creators => Creators') /\ (SoleHolds => SoleHolds')
      BY <2>1 DEF LinkedOne, Unlinked, Creators, SoleHolds, Sole
    <3>3. (VersionsKept => VersionsKept') /\ (CurrentIsLast => CurrentIsLast')
      BY <2>1 DEF VersionsKept, Sound, Held, CurrentIsLast
    <3> QED BY <3>1, <3>2, <3>3, <3>4 DEF Inner
  <2> QED BY <1>1, <2>1, <2>2, <2>3 DEF IInv
<1>3. ASSUME NEW k \in Tables, NEW v \in Versions, Section(k, v)
      PROVE  IInv'
  <2>1. /\ ~fault /\ kind' = kind /\ last' = [key |-> k, version |-> v]
        /\ Unlinked' = Unlinked /\ writer' = [writer EXCEPT ![v] = k]
    BY <1>3 DEF Section, Unlinked
  <2>2. \/ First(k, v)
        \/ Update(k, v)
        \/ kind = "PAT" /\ table[k] # NoTable /\ fault' = TRUE /\ torn' = torn
           /\ visible' = IF table[k].dir = Home THEN NoDentry ELSE Home
        \/ SdtTorn(k, v)
        \/ AitTorn(k, v)
    BY <1>3 DEF Section, PatParse, PmtParse, NitParse, SdtParse, SdttParse, EitParse, AitParse,
                Parsed, SdtTorn, AitTorn
  <2>3. torn' \in Nat /\ torn' >= torn
    BY <1>1, <2>2 DEF First, Update, SdtTorn, AitTorn
  <2>4. CASE ~Sound
    <3>1. kind = "SDT" /\ torn # 0 /\ ~Unlinked
      BY <2>1, <2>4 DEF Sound, Unlinked
    <3>2. torn' # 0
      BY <1>1, <2>3, <3>1
    <3> QED BY <2>1, <2>3, <3>1, <3>2 DEF IInv, Sound, AllOrNothing
  <2>5. CASE Sound
    <3>1. Inner
      BY <1>1, <2>5
    <3>2. CASE First(k, v)
      <4>1. Inner' /\ AllOrNothing'
        BY <2>1, <2>5, <3>1, <3>2, FirstKeeps
      <4>2. fault' = fault
        BY <3>2 DEF First
      <4> QED BY <2>1, <2>3, <4>1, <4>2 DEF IInv
    <3>3. CASE Update(k, v) /\ Unlinked
      <4>1. Inner' /\ AllOrNothing' /\ fault' = FALSE
        BY <2>1, <2>5, <3>1, <3>3, UpdateKeeps
      <4> QED BY <2>1, <2>3, <4>1 DEF IInv
    <3>4. CASE Update(k, v) /\ ~Unlinked
      <4>1. table[k] # NoTable /\ fault' = (~Alive(table[k].dir) \/ table[k].dir = NewDentry)
            /\ visible' = IF table[k].dir = Home THEN NoDentry ELSE Home
        BY <3>4 DEF Update
      <4>2. table[k].dir = Home /\ table[k].dir = NewDentry
        BY <3>1, <3>4, <4>1, UpdateFaults
      <4>3. fault' /\ visible' = NoDentry
        BY <4>1, <4>2
      <4> QED BY <2>1, <2>3, <3>4, <4>3 DEF IInv, Sound, AllOrNothing
    <3>5. CASE kind = "PAT" /\ table[k] # NoTable /\ fault' = TRUE /\ torn' = torn
               /\ visible' = IF table[k].dir = Home THEN NoDentry ELSE Home
      <4>1. ~Unlinked
        BY <3>5 DEF Unlinked
      <4>2. visible' = NoDentry
        BY <3>1, <3>5, <4>1, UpdateFaults
      <4> QED BY <2>1, <2>3, <3>5, <4>1, <4>2 DEF IInv, Sound, AllOrNothing
    <3>6. CASE SdtTorn(k, v)
      <4>1. kind = "SDT" /\ ~Unlinked /\ visible' = NoDentry
        BY <3>6 DEF SdtTorn, Unlinked
      <4>2. torn' # 0
        BY <1>1, <3>6 DEF SdtTorn
      <4> QED BY <2>1, <2>3, <4>1, <4>2 DEF IInv, Sound, AllOrNothing
    <3>7. CASE AitTorn(k, v)
      <4>1. Inner' /\ AllOrNothing'
        BY <2>1, <2>5, <3>1, <3>7, AitTornKeeps
      <4>2. fault' = fault
        BY <3>7 DEF AitTorn
      <4> QED BY <2>1, <2>3, <4>1, <4>2 DEF IInv
    <3> QED BY <2>2, <3>2, <3>3, <3>4, <3>5, <3>6, <3>7
  <2> QED BY <2>4, <2>5
<1> QED BY <1>2, <1>3 DEF Next

LEMMA AlwaysIInv == Spec => []IInv
<1> QED BY InitIInv, NextIInv, PTL DEF Spec

(* However many tables share the directory, and whatever the order of      *)
(* their sections: no table holds a freed dentry or another's, the one     *)
(* with the name is the one in the tree, and an EIT or AIT never has a     *)
(* freed dentry used (nit.c:86, eit.c:169, fsutils.c:223, hash.c:126).     *)
THEOREM OneOwner == Spec => []HeldOnce
<1>1. IInv => HeldOnce
  <2> SUFFICES ASSUME IInv PROVE HeldOnce
    OBVIOUS
  <2>1. CASE Sound
    <3>1. Owned
      BY <2>1 DEF IInv, Inner
    <3>2. \A d \in Held : Alive(d)
      <4> SUFFICES ASSUME NEW k \in Tables, table[k].dir # NoDentry PROVE Alive(table[k].dir)
        BY DEF Held
      <4> QED BY <3>1 DEF Owned, NoTable
    <3> QED BY <3>1, <3>2 DEF HeldOnce, IInv, Owned, Held, Alive
  <2>2. CASE ~Sound
    BY <2>2 DEF HeldOnce, IInv
  <2> QED BY <2>1, <2>2
<1> QED BY <1>1, AlwaysIInv, PTL

(* The files of the section that last announced a version number, of any   *)
(* of the tables that share the directory, are under a directory in the    *)
(* tree, or under one a table holds, whence they may migrate back: only    *)
(* another section of the same number takes a version away.                *)
THEOREM LatestVersionsKept == Spec => []VersionsKept
<1>1. IInv => VersionsKept
  BY DEF IInv, Inner, VersionsKept
<1> QED BY <1>1, AlwaysIInv, PTL

(* Current leads to the version last written, by any table that shares the *)
(* directory, as long as the directory is in the tree.                     *)
THEOREM CurrentRight == Spec => []CurrentIsLast
<1>1. IInv => CurrentIsLast
  BY DEF IInv, Inner, CurrentIsLast
<1> QED BY <1>1, AlwaysIInv, PTL

(* A directory only one table writes to is in the tree with every version  *)
(* of it, or it is not in the tree.                                        *)
THEOREM WholeOrGone == Spec => []AllOrNothing
<1>1. IInv => AllOrNothing
  BY DEF IInv
<1> QED BY <1>1, AlwaysIInv, PTL

-----------------------------------------------------------------------------
(* Loops of descriptors. First sequences that are put together of parts:   *)
(* FlattenSeq() of the community modules, by induction over the parts.     *)

(* Induction over the naturals, in a form without an operator parameter.   *)
LEMMA NatSetInduction ==
  ASSUME NEW S, 0 \in S, \A n \in Nat : n \in S => n + 1 \in S
  PROVE  Nat \subseteq S
<1> SUFFICES ASSUME Nat \ S # {} PROVE FALSE
  OBVIOUS
<1> DEFINE R == OpToRel(<, Nat)
<1>1. IsWellFoundedOn(R, Nat)
  BY NatLessThanWellFounded
<1>2. \A i, j \in Nat : j < i => <<j, i>> \in R
  BY DEF OpToRel
<1> HIDE DEF R
<1>3. PICK m \in Nat \ S : \A j \in Nat \ S : ~ (<<j, m>> \in R)
  BY <1>1, WFMin
<1>4. \A j \in Nat \ S : ~ (j < m)
  BY <1>2, <1>3
<1>5. m # 0
  BY <1>3
<1>6. m - 1 \in Nat /\ m - 1 \in S
  BY <1>4, <1>5
<1>7. m - 1 + 1 \in S
  BY <1>6
<1> QED BY <1>3, <1>7

-----------------------------------------------------------------------------
(* Pre[k] are the first k parts, one behind the other.                     *)
PrefixesOf(Pre, parts) ==
  /\ Pre[0] = <<>>
  /\ \A i \in 1 .. Len(parts) : Pre[i] = Pre[i - 1] \o parts[i]

(* There are such prefixes of any parts.                                   *)
LEMMA PrefixesExist ==
  ASSUME NEW D, NEW parts \in Seq(Seq(D))
  PROVE  \E Pre \in [0 .. Len(parts) -> Seq(D)] : PrefixesOf(Pre, parts)
<1> DEFINE N == Len(parts)
           Is(P, n) == P[0] = <<>> /\ \A i \in 1 .. n : P[i] = P[i - 1] \o parts[i]
           Has(n) == n <= N => \E P \in [0 .. n -> Seq(D)] : Is(P, n)
           S == {n \in Nat : Has(n)}
<1>0. N \in Nat /\ \A i \in 1 .. N : parts[i] \in Seq(D)
  OBVIOUS
<1> HIDE DEF N
<1>1. Has(0)
  <2> DEFINE P == [i \in 0 .. 0 |-> <<>>]
  <2>1. P \in [0 .. 0 -> Seq(D)] /\ P[0] = <<>> /\ 1 .. 0 = {}
    OBVIOUS
  <2> QED BY <2>1
<1>2. ASSUME NEW n \in Nat, Has(n) PROVE Has(n + 1)
  <2> SUFFICES ASSUME n + 1 <= N PROVE \E P \in [0 .. n + 1 -> Seq(D)] : Is(P, n + 1)
    OBVIOUS
  <2>0. n <= N
    BY <1>0
  <2>1. PICK P \in [0 .. n -> Seq(D)] : Is(P, n)
    BY <1>2, <2>0
  <2>2. parts[n + 1] \in Seq(D) /\ P[n] \in Seq(D)
    BY <1>0
  <2> DEFINE e == P[n] \o parts[n + 1]
             G == [i \in 0 .. n + 1 |-> IF i = n + 1 THEN e ELSE P[i]]
  <2>3. e \in Seq(D)
    BY <2>2
  <2> HIDE DEF e
  <2>4. G[n + 1] = e /\ \A i \in 0 .. n : G[i] = P[i]
    OBVIOUS
  <2>5. G \in [0 .. n + 1 -> Seq(D)]
    BY <2>3
  <2> HIDE DEF G
  <2>6. ASSUME NEW i \in 1 .. n + 1 PROVE G[i] = G[i - 1] \o parts[i]
    <3>1. CASE i = n + 1
      <4>1. i - 1 = n /\ i - 1 \in 0 .. n
        BY <3>1
      <4> QED BY <3>1, <4>1, <2>4 DEF e
    <3>2. CASE i # n + 1
      <4>1. i \in 1 .. n /\ i \in 0 .. n /\ i - 1 \in 0 .. n
        BY <3>2
      <4> QED BY <4>1, <2>4, <2>1
    <3> QED BY <3>1, <3>2
  <2>7. G[0] = <<>>
    BY <2>1, <2>4
  <2> QED BY <2>5, <2>6, <2>7
<1> HIDE DEF Has
<1>3. Nat \subseteq S
  <2>1. 0 \in S /\ \A n \in Nat : n \in S => n + 1 \in S
    BY <1>1, <1>2
  <2> HIDE DEF S
  <2> QED BY <2>1, NatSetInduction
<1>4. Has(N)
  BY <1>3, <1>0
<1>5. \E P \in [0 .. N -> Seq(D)] : Is(P, N)
  <2>1. N <= N
    BY <1>0
  <2> HIDE DEF Is
  <2> QED BY <1>4, <2>1 DEF Has
<1> QED BY <1>5 DEF N, PrefixesOf

(* What they are, part by part.                                            *)
LEMMA PrefixesAre ==
  ASSUME NEW D, NEW parts \in Seq(Seq(D)), NEW Pre \in [0 .. Len(parts) -> Seq(D)], PrefixesOf(Pre, parts)
  PROVE  /\ Len(parts) \in Nat
         /\ \A i \in 1 .. Len(parts) : parts[i] \in Seq(D)
         /\ \A i \in 0 .. Len(parts) : Pre[i] \in Seq(D)
         /\ Pre[0] = <<>>
         /\ \A i \in 1 .. Len(parts) : Pre[i] = Pre[i - 1] \o parts[i]
<1>1. Len(parts) \in Nat /\ \A i \in 1 .. Len(parts) : parts[i] \in Seq(D)
  OBVIOUS
<1>2. \A i \in 0 .. Len(parts) : Pre[i] \in Seq(D)
  OBVIOUS
<1>3. Pre[0] = <<>> /\ \A i \in 1 .. Len(parts) : Pre[i] = Pre[i - 1] \o parts[i]
  BY DEF PrefixesOf
<1> QED BY <1>1, <1>2, <1>3

(* The parts one behind the other are the last of the prefixes.            *)
LEMMA FlattenIs ==
  ASSUME NEW D, NEW parts \in Seq(Seq(D)), NEW Pre \in [0 .. Len(parts) -> Seq(D)], PrefixesOf(Pre, parts)
  PROVE  FlattenSeq(parts) = Pre[Len(parts)]
<1> DEFINE N == Len(parts)
           Eq(F) == F = [i \in 1 .. N |-> IF i = 1 THEN parts[i] ELSE F[i - 1] \o parts[i]]
           flatten == CHOOSE F : Eq(F)
<1>0. /\ N \in Nat /\ \A i \in 1 .. N : parts[i] \in Seq(D)
      /\ Pre[0] = <<>> /\ \A i \in 1 .. N : Pre[i] = Pre[i - 1] \o parts[i]
  BY PrefixesAre
<1>1. CASE N = 0
  <2>1. parts = <<>>
    BY <1>1, EmptySeq
  <2> QED BY <1>0, <1>1, <2>1 DEF FlattenSeq
<1>2. CASE N # 0
  <2>1. FlattenSeq(parts) = flatten[N]
    BY <1>2 DEF FlattenSeq
  <2>2. Eq(flatten)
    <3> DEFINE G == [i \in 1 .. N |-> Pre[i]]
    <3>1. ASSUME NEW i \in 1 .. N PROVE Pre[i] = IF i = 1 THEN parts[i] ELSE G[i - 1] \o parts[i]
      <4>1. CASE i = 1
        <5>1. Pre[1] = <<>> \o parts[1]
          <6>1. 1 \in 1 .. N /\ 1 - 1 = 0
            BY <4>1
          <6> QED BY <1>0, <6>1
        <5>2. parts[1] \in Seq(D)
          BY <1>0, <4>1
        <5> QED BY <4>1, <5>1, <5>2, ConcatEmptySeq
      <4>2. CASE i # 1
        <5>1. i - 1 \in 1 .. N
          BY <1>0, <4>2
        <5> QED BY <1>0, <4>2, <5>1
      <4> QED BY <4>1, <4>2
    <3>2. Eq(G)
      BY <3>1
    <3> HIDE DEF Eq
    <3> QED BY <3>2
  <2>q. N \in 1 .. N
    BY <1>0, <1>2
  <2> HIDE DEF flatten, N
  <2> DEFINE Has(n) == \A i \in 1 .. N : i <= n => flatten[i] = Pre[i]
             S == {n \in Nat : Has(n)}
  <2>3. Has(0)
    BY <1>0
  <2>4. ASSUME NEW n \in Nat, Has(n) PROVE Has(n + 1)
    <3> SUFFICES ASSUME NEW i \in 1 .. N, i = n + 1 PROVE flatten[i] = Pre[i]
      BY <1>0, <2>4
    <3>0. flatten[i] = IF i = 1 THEN parts[i] ELSE flatten[i - 1] \o parts[i]
      BY <2>2
    <3>1. CASE i = 1
      <4>1. Pre[1] = <<>> \o parts[1] /\ parts[1] \in Seq(D)
        <5>1. 1 \in 1 .. N /\ 1 - 1 = 0
          BY <3>1
        <5> QED BY <1>0, <5>1
      <4> QED BY <3>0, <3>1, <4>1, ConcatEmptySeq
    <3>2. CASE i # 1
      <4>1. i - 1 \in 1 .. N /\ i - 1 <= n
        BY <1>0, <3>2
      <4>2. flatten[i - 1] = Pre[i - 1]
        BY <2>4, <4>1
      <4> QED BY <1>0, <3>0, <3>2, <4>2
    <3> QED BY <3>1, <3>2
  <2> HIDE DEF Has
  <2>5. Nat \subseteq S
    <3>1. 0 \in S /\ \A n \in Nat : n \in S => n + 1 \in S
      BY <2>3, <2>4
    <3> HIDE DEF S
    <3> QED BY <3>1, NatSetInduction
  <2>6. Has(N)
    BY <2>5, <1>0
  <2>7. flatten[N] = Pre[N]
    BY <2>6, <2>q, <1>0 DEF Has
  <2> QED BY <2>1, <2>7 DEF N
<1> QED BY <1>1, <1>2

(* Every part stands at its place in what they make together.              *)
Starts(x, y) == Len(x) <= Len(y) /\ \A u \in 1 .. Len(x) : y[u] = x[u]

(* Every prefix begins the longer ones.                                    *)
LEMMA PrefixesHold ==
  ASSUME NEW D, NEW parts \in Seq(Seq(D)), NEW Pre \in [0 .. Len(parts) -> Seq(D)], PrefixesOf(Pre, parts)
  PROVE  \A j \in Nat : j <= Len(parts) =>
           \A i \in 0 .. j : Starts(Pre[i], Pre[j])
<1> DEFINE N == Len(parts)
           Extends(i, j) == /\ Len(Pre[i]) <= Len(Pre[j])
                          /\ \A u \in 1 .. Len(Pre[i]) : Pre[j][u] = Pre[i][u]
           Has(j) == j <= N => \A i \in 0 .. j : Extends(i, j)
           S == {j \in Nat : Has(j)}
<1>0. /\ N \in Nat /\ \A i \in 1 .. N : parts[i] \in Seq(D)
      /\ \A i \in 1 .. N : Pre[i] = Pre[i - 1] \o parts[i]
      /\ \A i \in 0 .. N : Pre[i] \in Seq(D)
  BY PrefixesAre
<1> HIDE DEF N
<1>1. ASSUME NEW i \in 0 .. N PROVE Extends(i, i)
  BY <1>0, <1>1
<1>2. Has(0)
  <2>1. \A i \in 0 .. 0 : i = 0
    OBVIOUS
  <2>2. 0 \in 0 .. N
    BY <1>0
  <2> HIDE DEF Extends
  <2> QED BY <1>1, <2>1, <2>2
<1>3. ASSUME NEW j \in Nat, Has(j) PROVE Has(j + 1)
  <2> SUFFICES ASSUME j + 1 <= N, NEW i \in 0 .. j + 1 PROVE Extends(i, j + 1)
    <3> HIDE DEF Extends
    <3> QED OBVIOUS
  <2>1. CASE i = j + 1
    <3>1. i \in 0 .. N
      BY <1>0
    <3> HIDE DEF Extends
    <3> QED BY <1>1, <2>1, <3>1
  <2>2. CASE i # j + 1
    <3>1. i \in 0 .. j /\ j <= N /\ j \in 0 .. N /\ i \in 0 .. N /\ j + 1 \in 1 .. N /\ j + 1 - 1 = j
      BY <1>0, <2>2
    <3>2. Extends(i, j)
      <4> HIDE DEF Extends
      <4> QED BY <1>3, <3>1
    <3> DEFINE x == Pre[i]
               y == Pre[j]
               z == parts[j + 1]
    <3>3. x \in Seq(D) /\ y \in Seq(D) /\ z \in Seq(D) /\ Pre[j + 1] = y \o z
      <4>1. PICK k \in 1 .. N : k = j + 1
        BY <3>1
      <4>2. Pre[k] = Pre[k - 1] \o parts[k]
        BY <1>0
      <4>3. k - 1 = j
        BY <4>1
      <4>4. Pre[k] = y \o parts[k] /\ parts[k] \in Seq(D)
        BY <4>2, <4>3, <1>0
      <4>5. x \in Seq(D) /\ y \in Seq(D)
        BY <1>0, <3>1
      <4> QED BY <4>1, <4>4, <4>5
    <3>4. Len(x) <= Len(y) /\ \A u \in 1 .. Len(x) : y[u] = x[u]
      BY <3>2
    <3> HIDE DEF x, y, z
    <3>5. Len(x) <= Len(y \o z) /\ \A u \in 1 .. Len(x) : (y \o z)[u] = x[u]
      BY <3>3, <3>4, ConcatProperties
    <3> QED BY <3>3, <3>5 DEF x
  <2> QED BY <2>1, <2>2
<1> HIDE DEF Has
<1>4. Nat \subseteq S
  <2>1. 0 \in S /\ \A n \in Nat : n \in S => n + 1 \in S
    BY <1>2, <1>3
  <2> HIDE DEF S
  <2> QED BY <2>1, NatSetInduction
<1> QED BY <1>4 DEF Has, N, Starts

(* A part stands in the whole behind the parts before it.                  *)
LEMMA PartStands ==
  ASSUME NEW D, NEW parts \in Seq(Seq(D)), NEW Pre \in [0 .. Len(parts) -> Seq(D)], PrefixesOf(Pre, parts),
         NEW k \in 1 .. Len(parts)
  PROVE  /\ Len(Pre[k]) = Len(Pre[k - 1]) + Len(parts[k])
         /\ Len(Pre[k]) <= Len(Pre[Len(parts)])
         /\ Stands(Len(Pre[k - 1]), parts[k], Pre[Len(parts)])
<1> DEFINE N == Len(parts)
           x == Pre[k - 1]
           y == parts[k]
           z == Pre[N]
<1>0. N \in Nat
  BY PrefixesAre
<1>k. k \in Nat /\ k - 1 \in 0 .. N /\ k \in 0 .. N /\ N \in 0 .. N /\ N <= N
  BY <1>0
<1>1. x \in Seq(D) /\ y \in Seq(D) /\ z \in Seq(D) /\ Pre[k] = x \o y
  BY <1>k, PrefixesAre
<1>2. Len(Pre[k]) <= Len(z) /\ \A u \in 1 .. Len(Pre[k]) : z[u] = Pre[k][u]
  <2>1. \A i \in 0 .. N : Len(Pre[i]) <= Len(z) /\ \A u \in 1 .. Len(Pre[i]) : z[u] = Pre[i][u]
    <3>1. \A j \in Nat : j <= N => \A i \in 0 .. j : Starts(Pre[i], Pre[j])
      BY PrefixesHold
    <3> HIDE DEF z
    <3> QED BY <3>1, <1>k, <1>0 DEF z, Starts
  <2> QED BY <2>1, <1>k
<1> HIDE DEF N, x, y, z
<1>3. /\ Len(x \o y) = Len(x) + Len(y) /\ Len(x \o y) <= Len(z)
      /\ \A u \in 1 .. Len(x \o y) : z[u] = (x \o y)[u]
  BY <1>1, <1>2, ConcatProperties
<1>4. \A u \in 1 .. Len(y) : z[Len(x) + u] = y[u]
  <2> TAKE u \in 1 .. Len(y)
  <2>1. Len(x) + u \in 1 .. Len(x \o y) /\ (x \o y)[Len(x) + u] = y[u]
    BY <1>1, <1>3, ConcatProperties
  <2> QED BY <1>3, <2>1
<1>5. Stands(Len(x), y, z)
  BY <1>4 DEF Stands
<1> QED BY <1>1, <1>3, <1>5 DEF x, y, z, N
LEMMA BytesCount == \A b \in Byte : b \in Nat /\ b < 256
BY DEF Byte

(* What stands between two of the prefixes.                                *)
LEMMA Between ==
  ASSUME NEW D, NEW T \in Seq(D), NEW i \in Nat, NEW j \in Nat, NEW k \in Nat,
         i <= j, j <= k, k <= Len(T)
  PROVE  SubSeq(T, i + 1, j) \o SubSeq(T, j + 1, k) = SubSeq(T, i + 1, k)
<1> DEFINE x == SubSeq(T, i + 1, j)
           y == SubSeq(T, j + 1, k)
           z == SubSeq(T, i + 1, k)
<1>1. x \in Seq(D) /\ Len(x) = j - i /\ \A u \in 1 .. j - i : x[u] = T[i + u]
  OBVIOUS
<1>2. y \in Seq(D) /\ Len(y) = k - j /\ \A u \in 1 .. k - j : y[u] = T[j + u]
  OBVIOUS
<1>3. z \in Seq(D) /\ Len(z) = k - i /\ \A u \in 1 .. k - i : z[u] = T[i + u]
  OBVIOUS
<1> HIDE DEF x, y, z
<1>c. /\ x \o y \in Seq(D) /\ Len(x \o y) = Len(x) + Len(y)
      /\ \A u \in 1 .. Len(x) + Len(y) : (x \o y)[u] = IF u <= Len(x) THEN x[u] ELSE y[u - Len(x)]
  BY <1>1, <1>2, ConcatProperties
<1>l. Len(x) + Len(y) = k - i
  BY <1>1, <1>2
<1>4. x \o y \in Seq(D) /\ Len(x \o y) = k - i
  BY <1>c, <1>l
<1> DEFINE xy == x \o y
<1>5. ASSUME NEW u \in 1 .. k - i PROVE xy[u] = z[u]
  <2>0. (x \o y)[u] = (IF u <= j - i THEN x[u] ELSE y[u - (j - i)]) /\ z[u] = T[i + u]
    BY <1>1, <1>3, <1>c, <1>l
  <2> HIDE DEF xy
  <2>q. xy[u] = (IF u <= j - i THEN x[u] ELSE y[u - (j - i)]) /\ z[u] = T[i + u]
    BY <2>0 DEF xy
  <2>1. CASE u <= j - i
    <3>1. u \in 1 .. j - i
      BY <2>1
    <3> QED BY <1>1, <2>q, <2>1, <3>1
  <2>2. CASE u > j - i
    <3>1. u - (j - i) \in 1 .. k - j
      BY <2>2
    <3>2. y[u - (j - i)] = T[i + u]
      <4>1. j + (u - (j - i)) = i + u
        OBVIOUS
      <4>2. y[u - (j - i)] = T[j + (u - (j - i))]
        BY <1>2, <3>1
      <4> QED BY <4>1, <4>2
    <3>3. ~ (u <= j - i)
      BY <2>2
    <3> QED BY <2>q, <3>2, <3>3
  <2> QED BY <2>1, <2>2
<1>6. x \o y = z
  <2>1. Len(x \o y) = Len(z) /\ \A u \in 1 .. Len(z) : (x \o y)[u] = z[u]
    BY <1>3, <1>4, <1>5
  <2>2. xy \in Seq(D) /\ z \in Seq(D)
    BY <1>3, <1>4
  <2> HIDE DEF xy
  <2>3. xy = [u \in 1 .. Len(xy) |-> xy[u]] /\ z = [u \in 1 .. Len(z) |-> z[u]]
    BY <2>2
  <2> QED BY <2>1, <2>3 DEF xy
<1> QED BY <1>6 DEF x, y, z

(* Concat() puts the parts one behind the other, by halves.                *)
LEMMA ConcatIs ==
  ASSUME NEW D, NEW parts \in Seq(Seq(D))
  PROVE  Concat(parts) = FlattenSeq(parts)
<1> DEFINE N == Len(parts)
           R == (DOMAIN parts) \X (DOMAIN parts)
           Middle(r) == (r[1] + r[2]) \div 2
           Eq(F) == F = [r \in R |-> LET m == (r[1] + r[2]) \div 2
                                     IN IF r[2] <= r[1] THEN parts[r[1]]
                                        ELSE F[<<r[1], m>>] \o F[<<m + 1, r[2]>>]]
           span == CHOOSE F : Eq(F)
<1>1. PICK Pre \in [0 .. N -> Seq(D)] : PrefixesOf(Pre, parts)
  BY PrefixesExist
<1>2. /\ N \in Nat /\ \A i \in 1 .. N : parts[i] \in Seq(D)
      /\ \A i \in 0 .. N : Pre[i] \in Seq(D)
      /\ Pre[0] = <<>> /\ \A i \in 1 .. N : Pre[i] = Pre[i - 1] \o parts[i]
  BY <1>1, PrefixesAre
<1>3. FlattenSeq(parts) = Pre[N]
  BY <1>1, FlattenIs
<1>4. CASE N = 0
  <2>1. parts = <<>>
    BY <1>4, EmptySeq
  <2> QED BY <1>2, <1>3, <1>4, <2>1 DEF Concat
<1>5. CASE N # 0
  <2> DEFINE T == Pre[N]
             L(i) == Len(Pre[i])
             Part1(a, b) == SubSeq(T, L(a - 1) + 1, L(b))
  <2>1. DOMAIN parts = 1 .. N /\ parts # <<>>
    BY <1>5, SMTT(30)
  <2>2. Concat(parts) = span[<<1, N>>]
    BY <2>1 DEF Concat
  <2>3. T \in Seq(D) /\ \A i \in 0 .. N : L(i) \in Nat
    BY <1>2
  <2>4. \A i \in 0 .. N : \A j \in i .. N : L(i) <= L(j)
    <3>1. \A j \in Nat : j <= N => \A i \in 0 .. j : Starts(Pre[i], Pre[j])
      BY <1>1, PrefixesHold
    <3> QED BY <3>1, <1>2 DEF Starts
  <2>5. \A i \in 0 .. N : L(i) <= Len(T) /\ \A u \in 1 .. L(i) : T[u] = Pre[i][u]
    <3>1. \A j \in Nat : j <= N => \A i \in 0 .. j : Starts(Pre[i], Pre[j])
      BY <1>1, PrefixesHold
    <3>2. \A i \in 0 .. N : Starts(Pre[i], Pre[N])
      <4>1. N \in Nat /\ N <= N
        BY <1>2
      <4> HIDE DEF N
      <4> QED BY <4>1, <3>1
    <3> QED BY <3>2 DEF Starts
  <2>6. ASSUME NEW a \in 1 .. N PROVE Part1(a, a) = parts[a]
    <3>1. a \in 0 .. N /\ a - 1 \in 0 .. N
      BY <1>2
    <3> DEFINE x == Pre[a - 1]
               y == parts[a]
               z == Pre[a]
    <3>2. x \in Seq(D) /\ y \in Seq(D) /\ z = x \o y /\ z \in Seq(D)
      BY <1>2, <3>1
    <3>3. Len(z) <= Len(T) /\ \A u \in 1 .. Len(z) : T[u] = z[u]
      BY <2>5, <3>1
    <3> HIDE DEF x, y, z, T
    <3>4. /\ Len(z) = Len(x) + Len(y) /\ Len(x) \in Nat /\ Len(y) \in Nat
          /\ \A u \in 1 .. Len(y) : z[Len(x) + u] = y[u]
      BY <3>2
    <3>5. ASSUME NEW u \in 1 .. Len(y) PROVE T[Len(x) + u] = y[u]
      <4>1. Len(x) + u \in 1 .. Len(z)
        BY <3>4
      <4>2. T[Len(x) + u] = z[Len(x) + u]
        BY <3>3, <4>1
      <4> QED BY <3>4, <4>2
    <3>6. SubSeq(T, Len(x) + 1, Len(z)) = y
      BY <2>3, <3>2, <3>3, <3>4, <3>5
    <3> QED BY <3>6 DEF x, y, z
  <2>7. ASSUME NEW a \in 1 .. N, NEW b \in 1 .. N, NEW m \in Nat, a <= m, m < b
        PROVE  Part1(a, m) \o Part1(m + 1, b) = Part1(a, b)
    <3>1. a - 1 \in 0 .. N /\ m \in 0 .. N /\ b \in 0 .. N /\ m \in (a - 1) .. N /\ b \in m .. N /\ (m + 1) - 1 = m
      BY <1>2, <2>7, SMTT(30)
    <3>2. L(a - 1) \in Nat /\ L(m) \in Nat /\ L(b) \in Nat /\ L(a - 1) <= L(m) /\ L(m) <= L(b) /\ L(b) <= Len(T)
      <4> HIDE DEF T, L
      <4> QED BY <2>3, <2>4, <2>5, <3>1
    <3> HIDE DEF T
    <3>3. SubSeq(T, L(a - 1) + 1, L(m)) \o SubSeq(T, L(m) + 1, L(b)) = SubSeq(T, L(a - 1) + 1, L(b))
      <4> HIDE DEF L
      <4> QED BY <2>3, <3>2, Between
    <3> HIDE DEF L
    <3> QED BY <3>1, <3>3
  <2>8. \A r \in R : r[1] \in 1 .. N /\ r[2] \in 1 .. N
    BY <2>1
  <2> DEFINE G == [r \in R |-> IF r[2] <= r[1] THEN parts[r[1]] ELSE Part1(r[1], r[2])]
  <2>9. ASSUME NEW a \in 1 .. N, NEW b \in 1 .. N, a <= b PROVE G[<<a, b>>] = Part1(a, b)
    <3>1. <<a, b>> \in R
      BY <2>1
    <3>2. G[<<a, b>>] = IF b <= a THEN parts[a] ELSE Part1(a, b)
      <4> HIDE DEF Part1
      <4> QED BY <3>1
    <3>3. b <= a => a = b
      BY <2>9
    <3> HIDE DEF Part1, G
    <3> QED BY <2>6, <3>2, <3>3
  <2>10. ASSUME NEW a \in 1 .. N, NEW b \in 1 .. N, a < b
         PROVE  /\ (a + b) \div 2 \in 1 .. N /\ (a + b) \div 2 + 1 \in 1 .. N
                /\ a <= (a + b) \div 2 /\ (a + b) \div 2 < b
    BY <1>2, <2>10, SMTT(30)
  <2>11. Eq(G)
    <3>1. ASSUME NEW r \in R
          PROVE  G[r] = LET m == (r[1] + r[2]) \div 2
                        IN IF r[2] <= r[1] THEN parts[r[1]] ELSE G[<<r[1], m>>] \o G[<<m + 1, r[2]>>]
      <4> DEFINE m == (r[1] + r[2]) \div 2
      <4>1. G[r] = IF r[2] <= r[1] THEN parts[r[1]] ELSE Part1(r[1], r[2])
        <5> HIDE DEF Part1
        <5> QED OBVIOUS
      <4>2. CASE r[2] <= r[1]
        <5> HIDE DEF G, Part1
        <5> QED BY <4>1, <4>2
      <4>3. CASE ~(r[2] <= r[1])
        <5>0. r[1] \in 1 .. N /\ r[2] \in 1 .. N
          BY <2>8
        <5>1. r[1] \in 1 .. N /\ r[2] \in 1 .. N /\ r[1] < r[2]
          <6> HIDE DEF N
          <6> QED BY <4>3, <1>2, <5>0
        <5>2. m \in 1 .. N /\ m + 1 \in 1 .. N /\ r[1] <= m /\ m < r[2] /\ m \in Nat
          <6> DEFINE a == r[1]
                     b == r[2]
          <6>1. a \in 1 .. N /\ b \in 1 .. N /\ a < b
            BY <5>1
          <6> HIDE DEF a, b, N
          <6>2. (a + b) \div 2 \in 1 .. N /\ (a + b) \div 2 + 1 \in 1 .. N /\ a <= (a + b) \div 2 /\ (a + b) \div 2 < b
            BY <2>10, <6>1
          <6>3. (a + b) \div 2 \in Nat
            BY <6>2
          <6> QED BY <6>2, <6>3 DEF a, b
        <5>3. m + 1 <= r[2]
          BY <5>1, <5>2
        <5> HIDE DEF G, Part1, m
        <5>4. G[<<r[1], m>>] = Part1(r[1], m) /\ G[<<m + 1, r[2]>>] = Part1(m + 1, r[2])
          BY <2>9, <5>1, <5>2, <5>3
        <5>5. Part1(r[1], m) \o Part1(m + 1, r[2]) = Part1(r[1], r[2])
          BY <2>7, <5>1, <5>2
        <5>6. G[r] = G[<<r[1], m>>] \o G[<<m + 1, r[2]>>]
          BY <4>1, <4>3, <5>4, <5>5
        <5> QED BY <5>6, <4>3 DEF m
      <4> QED BY <4>2, <4>3
    <3>2. DOMAIN G = R /\ G = [r \in R |-> G[r]]
      OBVIOUS
    <3> HIDE DEF G, R
    <3> QED BY <3>1, <3>2
  <2> HIDE DEF G
  <2>12. Eq(span)
    <3> HIDE DEF Eq
    <3> QED BY <2>11
  <2> HIDE DEF span
  <2> DEFINE Has(n) == \A a \in 1 .. N : \A b \in 1 .. N : a <= b /\ b - a <= n => span[<<a, b>>] = Part1(a, b)
             S == {n \in Nat : Has(n)}
  <2>13. ASSUME NEW a \in 1 .. N, NEW b \in 1 .. N
         PROVE  span[<<a, b>>] = IF b <= a THEN parts[a]
                                 ELSE span[<<a, (a + b) \div 2>>] \o span[<<(a + b) \div 2 + 1, b>>]
    <3>1. <<a, b>> \in R
      BY <2>1
    <3> QED BY <2>12, <3>1
  <2>14. Has(0)
    <3> SUFFICES ASSUME NEW a \in 1 .. N, NEW b \in 1 .. N, a <= b, b - a <= 0 PROVE span[<<a, b>>] = Part1(a, b)
      OBVIOUS
    <3>1. a = b
      OBVIOUS
    <3> HIDE DEF Part1
    <3> QED BY <2>6, <2>13, <3>1
  <2>15. ASSUME NEW n \in Nat, Has(n) PROVE Has(n + 1)
    <3> SUFFICES ASSUME NEW a \in 1 .. N, NEW b \in 1 .. N, a <= b, b - a <= n + 1 PROVE span[<<a, b>>] = Part1(a, b)
      <4> HIDE DEF Part1
      <4> QED OBVIOUS
    <3> HIDE DEF Part1
    <3>1. CASE a = b
      BY <2>6, <2>13, <3>1
    <3>2. CASE a # b
      <4> DEFINE m == (a + b) \div 2
      <4>1. a < b
        BY <3>2
      <4>2. m \in 1 .. N /\ m + 1 \in 1 .. N /\ a <= m /\ m < b /\ m \in Nat
        BY <2>10, <4>1
      <4>3. span[<<a, b>>] = span[<<a, m>>] \o span[<<m + 1, b>>]
        <5>1. ~ (b <= a)
          BY <4>1
        <5> QED BY <2>13, <5>1
      <4> HIDE DEF m
      <4>4. m - a <= n /\ b - (m + 1) <= n /\ m + 1 <= b
        BY <4>2
      <4>5. span[<<a, m>>] = Part1(a, m) /\ span[<<m + 1, b>>] = Part1(m + 1, b)
        BY <2>15, <4>2, <4>4
      <4> QED BY <2>7, <4>2, <4>3, <4>5
    <3> QED BY <3>1, <3>2
  <2> HIDE DEF Has
  <2>16. Nat \subseteq S
    <3>1. 0 \in S /\ \A n \in Nat : n \in S => n + 1 \in S
      BY <2>14, <2>15
    <3> HIDE DEF S
    <3> QED BY <3>1, NatSetInduction
  <2>17. Has(N - 1)
    BY <2>16, <1>2, <1>5
  <2>18. span[<<1, N>>] = Part1(1, N)
    <3>1. 1 \in 1 .. N /\ N \in 1 .. N /\ 1 <= N /\ N - 1 <= N - 1
      BY <1>2, <1>5
    <3> HIDE DEF Part1
    <3> QED BY <2>17, <3>1 DEF Has
  <2>19. Part1(1, N) = T
    <3>1. L(0) = 0
      BY <1>2
    <3>2. SubSeq(T, 0 + 1, Len(T)) = T
      BY <2>3
    <3> QED BY <3>1, <3>2
  <2> QED BY <1>3, <2>2, <2>18, <2>19
<1> QED BY <1>2, <1>4, <1>5

LEMMA FlattenType ==
  ASSUME NEW D, NEW parts \in Seq(Seq(D))
  PROVE  FlattenSeq(parts) \in Seq(D)
<1>1. PICK Pre \in [0 .. Len(parts) -> Seq(D)] : PrefixesOf(Pre, parts)
  BY PrefixesExist
<1>2. FlattenSeq(parts) = Pre[Len(parts)]
  BY <1>1, FlattenIs
<1>3. Len(parts) \in 0 .. Len(parts)
  BY <1>1, PrefixesAre
<1> QED BY <1>2, <1>3, <1>1, PrefixesAre

Bit == {0, 1}

-----------------------------------------------------------------------------
(* What Bytes() writes, most significant bit first, and the readers of     *)
(* byteops.h read.                                                         *)

(* Division and remainder.                                                *)
LEMMA TimesMore ==
  ASSUME NEW q \in Nat, NEW w \in Nat, NEW n \in Nat, q < w
  PROVE  q * n + n <= w * n
<1>1. PICK k \in Nat : w = q + 1 + k
  <2>1. w - q - 1 \in Nat /\ w = q + 1 + (w - q - 1)
    OBVIOUS
  <2> QED BY <2>1
<1>2. w * n = q * n + n + k * n
  BY <1>1
<1>3. k * n \in Nat
  OBVIOUS
<1>4. q * n \in Nat
  OBVIOUS
<1> QED BY <1>2, <1>3, <1>4

LEMMA DivMod ==
  ASSUME NEW v \in Nat, NEW n \in Nat, n > 0
  PROVE  v \div n \in Nat /\ v % n \in Nat /\ (v % n) < n /\ v = (v \div n) * n + (v % n)
OBVIOUS

LEMMA DivUnique ==
  ASSUME NEW q \in Nat, NEW r \in Nat, NEW n \in Nat, r < n
  PROVE  (q * n + r) \div n = q /\ (q * n + r) % n = r
<1> DEFINE v == q * n + r
           w == v \div n
           s == v % n
<1>0. v \in Nat /\ v = q * n + r /\ n > 0 /\ q * n \in Nat
  OBVIOUS
<1> HIDE DEF v
<1>1. w \in Nat /\ s \in Nat /\ s < n /\ v = w * n + s
  BY <1>0, DivMod
<1> HIDE DEF w, s
<1>2. w * n \in Nat
  BY <1>1
<1>3. ~ (q < w)
  <2> SUFFICES ASSUME q < w PROVE FALSE
    OBVIOUS
  <2>1. q * n + n <= w * n
    BY <1>1, TimesMore
  <2> DEFINE a == q * n
             b == w * n
  <2>2. a \in Nat /\ b \in Nat /\ v = a + r /\ v = b + s /\ a + n <= b
    BY <1>0, <1>1, <1>2, <2>1
  <2> HIDE DEF a, b
  <2> QED BY <1>1, <2>2
<1>4. ~ (w < q)
  <2> SUFFICES ASSUME w < q PROVE FALSE
    OBVIOUS
  <2>1. w * n + n <= q * n
    BY <1>1, TimesMore
  <2> DEFINE a == q * n
             b == w * n
  <2>2. a \in Nat /\ b \in Nat /\ v = a + r /\ v = b + s /\ b + n <= a
    BY <1>0, <1>1, <1>2, <2>1
  <2> HIDE DEF a, b
  <2> QED BY <1>1, <2>2
<1>5. w = q
  BY <1>1, <1>3, <1>4
<1>6. s = r
  <2> DEFINE a == q * n
  <2>1. a \in Nat /\ v = a + r /\ v = a + s
    BY <1>0, <1>1, <1>5
  <2> HIDE DEF a
  <2> QED BY <1>1, <2>1
<1> QED BY <1>5, <1>6 DEF w, s, v

(* Of powers of two.                                                       *)
LEMMA LimitDoubles == Limit(0) = 1 /\ \A k \in 0 .. 23 : Limit(k + 1) = 2 * Limit(k)
BY DEF Limit, Powers

LEMMA LimitNat == \A k \in 0 .. 24 : Limit(k) \in Nat /\ Limit(k) > 0
BY DEF Limit, Powers

LEMMA LimitOfSum ==
  ASSUME NEW i \in Nat
  PROVE  \A j \in Nat : i + j <= 24 => Limit(i + j) = Limit(i) * Limit(j)
<1> DEFINE Has(j) == i + j <= 24 => Limit(i + j) = Limit(i) * Limit(j)
           S == {j \in Nat : Has(j)}
<1>1. Has(0)
  <2> SUFFICES ASSUME i <= 24 PROVE Limit(i + 0) = Limit(i) * Limit(0)
    OBVIOUS
  <2>1. Limit(i) \in Nat /\ Limit(0) = 1 /\ i + 0 = i
    BY LimitNat, LimitDoubles
  <2> QED BY <2>1
<1>2. ASSUME NEW j \in Nat, Has(j) PROVE Has(j + 1)
  <2> SUFFICES ASSUME i + (j + 1) <= 24 PROVE Limit(i + (j + 1)) = Limit(i) * Limit(j + 1)
    OBVIOUS
  <2>1. i + j <= 24 /\ i + j \in 0 .. 23 /\ j \in 0 .. 23 /\ i \in 0 .. 24 /\ (i + j) + 1 = i + (j + 1)
    OBVIOUS
  <2>2. Limit(i + j) = Limit(i) * Limit(j)
    BY <1>2, <2>1
  <2>3. Limit((i + j) + 1) = 2 * Limit(i + j) /\ Limit(j + 1) = 2 * Limit(j)
    BY <2>1, LimitDoubles
  <2>4. Limit(i) \in Nat /\ Limit(j) \in Nat
    BY <2>1, LimitNat
  <2> DEFINE x == Limit(i)
             y == Limit(j)
  <2>5. x \in Nat /\ y \in Nat
    BY <2>4
  <2>6. Limit(i + (j + 1)) = 2 * (x * y) /\ Limit(i) * Limit(j + 1) = x * (2 * y)
    BY <2>1, <2>2, <2>3
  <2> HIDE DEF x, y
  <2>7. 2 * (x * y) = x * (2 * y)
    BY <2>5
  <2> QED BY <2>6, <2>7
<1> HIDE DEF Has
<1>3. Nat \subseteq S
  <2>1. 0 \in S /\ \A j \in Nat : j \in S => j + 1 \in S
    BY <1>1, <1>2
  <2> HIDE DEF S
  <2> QED BY <2>1, NatSetInduction
<1> QED BY <1>3 DEF Has

(* To divide by one number and then by another.                            *)
LEMMA DivTwice ==
  ASSUME NEW h \in Nat, NEW l \in Nat, NEW m \in Nat, NEW n \in Nat, l < m, n > 0
  PROVE  (h * m + l) \div (m * n) = h \div n
<1> DEFINE q == h \div n
           r == h % n
<1>1. q \in Nat /\ r \in Nat /\ r < n /\ h = q * n + r
  BY DivMod
<1> HIDE DEF q, r
<1>2. h * m + l = q * (m * n) + (r * m + l)
  <2>1. h * m = (q * n) * m + r * m
    BY <1>1
  <2>2. (q * n) * m = q * (m * n)
    BY <1>1
  <2>3. q * (m * n) \in Nat /\ r * m \in Nat /\ h * m \in Nat
    BY <1>1
  <2> QED BY <2>1, <2>2, <2>3
<1>3. r * m + l \in Nat /\ m * n \in Nat
  BY <1>1
<1>4. r * m + l < m * n
  <2>1. r * m + m <= n * m
    BY <1>1, TimesMore
  <2>2. n * m = m * n
    OBVIOUS
  <2> DEFINE x == r * m
             y == m * n
  <2>3. x \in Nat /\ y \in Nat /\ x + m <= y
    BY <1>1, <2>1, <2>2
  <2> HIDE DEF x, y
  <2>4. x + l < y
    BY <2>3
  <2> QED BY <2>4 DEF x, y
<1> DEFINE s == r * m + l
           t == m * n
<1>5. s \in Nat /\ t \in Nat /\ s < t /\ h * m + l = q * t + s
  BY <1>2, <1>3, <1>4
<1> HIDE DEF s, t
<1>6. (q * t + s) \div t = q
  BY <1>1, <1>5, DivUnique
<1>7. (h * m + l) \div t = q
  BY <1>5, <1>6
<1> QED BY <1>7 DEF t, q

(* What is a multiple of 2n above l does not change the bit of l at n.     *)
BelowKept(h, l, m, n) == ((h * (n * (2 * m)) + l) \div n) % 2 = (l \div n) % 2

LEMMA BitBelow ==
  ASSUME NEW h \in Nat, NEW l \in Nat, NEW m \in Nat, NEW n \in Nat, n > 0
  PROVE  BelowKept(h, l, m, n)
<1> DEFINE q == l \div n
           r == l % n
           k == h * m
<1>1. q \in Nat /\ r \in Nat /\ r < n /\ l = q * n + r
  BY DivMod
<1>k. k \in Nat
  OBVIOUS
<1>2. h * (n * (2 * m)) = (2 * k) * n
  OBVIOUS
<1> HIDE DEF q, r, k
<1>3. (2 * k) * n + l = (2 * k + q) * n + r
  <2>1. (2 * k + q) * n = (2 * k) * n + q * n
    BY <1>1, <1>k
  <2>2. (2 * k) * n \in Nat /\ q * n \in Nat
    BY <1>1, <1>k
  <2> QED BY <1>1, <2>1, <2>2
<1>4. 2 * k + q \in Nat
  BY <1>1, <1>k
<1>5. ((2 * k + q) * n + r) \div n = 2 * k + q
  <2> DEFINE t == 2 * k + q
  <2>1. t \in Nat
    BY <1>4
  <2> HIDE DEF t
  <2>2. (t * n + r) \div n = t
    BY <1>1, <2>1, DivUnique
  <2> QED BY <2>2 DEF t
<1>6. (2 * k + q) % 2 = q % 2
  BY <1>1, <1>k
<1> QED BY <1>2, <1>3, <1>5, <1>6 DEF q, BelowKept

(* Two numbers one behind the other are the bits of one.                   *)
LEMMA BitsJoin ==
  ASSUME NEW a \in 1 .. 24, NEW b \in 1 .. 24, a + b <= 24, NEW h \in Nat, NEW l \in Nat, l < Limit(b)
  PROVE  Bits(a + b, h * Limit(b) + l) = Bits(a, h) \o Bits(b, l)
<1> DEFINE x == Bits(a, h)
           y == Bits(b, l)
           v == h * Limit(b) + l
           z == Bits(a + b, v)
<1>p. Limit(b) \in Nat /\ Limit(b) > 0
  BY LimitNat
<1>v. v \in Nat
  BY <1>p
<1> HIDE DEF v
<1>1. /\ Len(x) = a /\ x \in Seq(Nat) /\ \A u \in 1 .. a : x[u] = (h \div Limit(a - u)) % 2
  <2>1. ASSUME NEW u \in 1 .. a PROVE (h \div Limit(a - u)) % 2 \in Nat
    <3>1. Limit(a - u) \in Nat /\ Limit(a - u) > 0
      <4>1. a - u \in 0 .. 24
        OBVIOUS
      <4> QED BY <4>1, LimitNat
    <3>2. h \div Limit(a - u) \in Nat
      BY <3>1, DivMod
    <3> QED BY <3>2
  <2>2. x = [u \in 1 .. a |-> (h \div Limit(a - u)) % 2]
    BY DEF Bits
  <2> HIDE DEF x
  <2>3. Len(x) = a /\ x \in Seq(Nat)
    BY <2>1, <2>2
  <2> QED BY <2>2, <2>3
<1>2. /\ Len(y) = b /\ y \in Seq(Nat) /\ \A u \in 1 .. b : y[u] = (l \div Limit(b - u)) % 2
  <2>1. ASSUME NEW u \in 1 .. b PROVE (l \div Limit(b - u)) % 2 \in Nat
    <3>1. Limit(b - u) \in Nat /\ Limit(b - u) > 0
      <4>1. b - u \in 0 .. 24
        OBVIOUS
      <4> QED BY <4>1, LimitNat
    <3>2. l \div Limit(b - u) \in Nat
      BY <3>1, DivMod
    <3> QED BY <3>2
  <2>2. y = [u \in 1 .. b |-> (l \div Limit(b - u)) % 2]
    BY DEF Bits
  <2> HIDE DEF y
  <2>3. Len(y) = b /\ y \in Seq(Nat)
    BY <2>1, <2>2
  <2> QED BY <2>2, <2>3
<1>3. z = [u \in 1 .. a + b |-> (v \div Limit(a + b - u)) % 2]
  BY DEF Bits
<1> HIDE DEF x, y, z
<1>4. /\ x \o y \in Seq(Nat) /\ Len(x \o y) = a + b
      /\ \A u \in 1 .. a + b : (x \o y)[u] = IF u <= a THEN x[u] ELSE y[u - a]
  <2>1. /\ x \o y \in Seq(Nat) /\ Len(x \o y) = Len(x) + Len(y)
        /\ \A u \in 1 .. Len(x) + Len(y) : (x \o y)[u] = IF u <= Len(x) THEN x[u] ELSE y[u - Len(x)]
    BY <1>1, <1>2, ConcatProperties
  <2>2. Len(x) = a /\ Len(x) + Len(y) = a + b
    BY <1>1, <1>2
  <2> QED BY <2>1, <2>2
<1>5. ASSUME NEW u \in 1 .. a + b PROVE (x \o y)[u] = (v \div Limit(a + b - u)) % 2
  <2>1. CASE u <= a
    <3> DEFINE k == a - u
    <3>1. k \in 0 .. 24 /\ a + b - u = b + k /\ b + k <= 24 /\ u \in 1 .. a /\ b \in Nat /\ k \in Nat
      BY <2>1
    <3>2. (x \o y)[u] = (h \div Limit(k)) % 2
      BY <1>1, <1>4, <2>1, <3>1
    <3> HIDE DEF k
    <3>3. Limit(b + k) = Limit(b) * Limit(k) /\ Limit(k) \in Nat /\ Limit(k) > 0
      BY <3>1, LimitOfSum, LimitNat
    <3>4. (h * Limit(b) + l) \div (Limit(b) * Limit(k)) = h \div Limit(k)
      BY <1>p, <3>3, DivTwice, ZenonT(60)
    <3>5. v \div Limit(a + b - u) = h \div Limit(k)
      BY <3>1, <3>3, <3>4 DEF v
    <3> QED BY <3>2, <3>5
  <2>2. CASE ~ (u <= a)
    <3> DEFINE k == a + b - u
               g == b - k - 1
    <3>1. k \in 0 .. 23 /\ g \in 0 .. 23 /\ k + (g + 1) = b /\ u - a \in 1 .. b /\ b - (u - a) = k
          /\ g + 1 \in Nat /\ k \in Nat /\ k + (g + 1) <= 24
      BY <2>2
    <3>2. (x \o y)[u] = (l \div Limit(k)) % 2
      <4>1. (x \o y)[u] = y[u - a]
        BY <1>4, <2>2
      <4>2. y[u - a] = (l \div Limit(b - (u - a))) % 2
        BY <1>2, <3>1
      <4> QED BY <3>1, <4>1, <4>2
    <3>3. Limit(b) = Limit(k) * (2 * Limit(g))
      <4> HIDE DEF k, g
      <4>1. Limit(k + (g + 1)) = Limit(k) * Limit(g + 1)
        BY <3>1, LimitOfSum
      <4>2. Limit(g + 1) = 2 * Limit(g)
        BY <3>1, LimitDoubles
      <4> QED BY <3>1, <4>1, <4>2
    <3>4. Limit(k) \in Nat /\ Limit(k) > 0 /\ Limit(g) \in Nat
      <4> HIDE DEF k, g
      <4> QED BY <3>1, LimitNat
    <3>5. BelowKept(h, l, Limit(g), Limit(k))
      <4> HIDE DEF k, g
      <4> QED BY <3>4, BitBelow
    <3>6. (v \div Limit(k)) % 2 = (l \div Limit(k)) % 2
      <4> HIDE DEF k, g
      <4> QED BY ONLY <3>3, <3>5 DEF v, BelowKept
    <3> QED BY <3>2, <3>6
  <2> QED BY <2>1, <2>2
<1>6. x \o y = z
  <2> DEFINE xy == x \o y
  <2>1. xy \in Seq(Nat) /\ Len(xy) = a + b /\ \A u \in 1 .. a + b : xy[u] = z[u]
    BY <1>3, <1>4, <1>5
  <2> HIDE DEF xy
  <2>2. xy = [u \in 1 .. a + b |-> xy[u]]
    BY <2>1
  <2>3. DOMAIN z = 1 .. a + b /\ z = [u \in 1 .. a + b |-> z[u]]
    BY <1>3
  <2> QED BY <2>1, <2>2, <2>3 DEF xy
<1> QED BY <1>6 DEF x, y, z, v

JoinBelow(a, b, h, l) == h * Limit(b) + l \in Nat /\ h * Limit(b) + l < Limit(a + b)

LEMMA JoinIsBelow ==
  ASSUME NEW a \in 1 .. 24, NEW b \in 1 .. 24, a + b <= 24,
         NEW h \in Nat, h < Limit(a), NEW l \in Nat, l < Limit(b)
  PROVE  JoinBelow(a, b, h, l)
<1> DEFINE m == Limit(a)
           n == Limit(b)
<1>1. m \in Nat /\ n \in Nat /\ n > 0
  BY LimitNat
<1>2. Limit(a + b) = m * n
  <2>1. a \in Nat /\ b \in Nat
    OBVIOUS
  <2> QED BY <2>1, LimitOfSum
<1>3. h < m /\ l < n
  OBVIOUS
<1> HIDE DEF m, n
<1>4. h * n + n <= m * n
  BY <1>1, <1>3, TimesMore
<1> DEFINE x == h * n
           y == m * n
<1>5. x \in Nat /\ y \in Nat /\ x + n <= y
  BY <1>1, <1>4
<1> HIDE DEF x, y
<1>6. x + l \in Nat /\ x + l < y
  BY <1>1, <1>3, <1>5
<1> QED BY <1>2, <1>6 DEF JoinBelow, x, y, m, n

LEMMA LimitsAre == Limit(8) = 256 /\ Limit(16) = 256 * 256 /\ Limit(24) = 256 * 256 * 256
BY DEF Limit, Powers

(* Bits and bytes.                                                         *)
LEMMA WidthsAre == Widths = 1 .. 24
<1>1. Len(Powers) = 25
  BY DEF Powers
<1> QED BY <1>1 DEF Widths

LEMMA Halves ==
  ASSUME NEW v \in Nat, NEW d \in Nat, d > 0
  PROVE  (v \div d) % 2 \in {0, 1}
<1>1. v \div d \in Nat
  OBVIOUS
<1> QED BY <1>1

(* The bits of a number are as many as the field is wide.                  *)
LEMMA BitsAre ==
  ASSUME NEW w \in Widths, NEW v \in Nat
  PROVE  Bits(w, v) \in Seq(Bit) /\ Len(Bits(w, v)) = w
<1>1. w \in 1 .. 24 /\ w \in Nat
  BY WidthsAre
<1>2. ASSUME NEW b \in 1 .. w PROVE (v \div Limit(w - b)) % 2 \in Bit
  <2>1. w - b \in 0 .. 24
    BY <1>1
  <2>2. Limit(w - b) \in Nat /\ Limit(w - b) > 0
    BY <2>1, LimitNat
  <2> QED BY <2>2, Halves DEF Bit
<1>3. Bits(w, v) = [b \in 1 .. w |-> (v \div Limit(w - b)) % 2]
  BY DEF Bits
<1> QED BY <1>1, <1>2, <1>3

Unit(width, value) == FlattenSeq([u \in DOMAIN value |-> Bits(width, value[u])])

LEMMA UnitType ==
  ASSUME NEW w \in Widths, NEW value \in Seq(Nat)
  PROVE  Unit(w, value) \in Seq(Bit)
<1> DEFINE W == [u \in DOMAIN value |-> Bits(w, value[u])]
<1>1. \A u \in DOMAIN value : Bits(w, value[u]) \in Seq(Bit)
  BY BitsAre
<1>2. DOMAIN value = 1 .. Len(value) /\ Len(value) \in Nat
  OBVIOUS
<1>3. W \in Seq(Seq(Bit))
  BY <1>1, <1>2
<1> HIDE DEF W
<1>4. FlattenSeq(W) \in Seq(Bit)
  BY <1>3, FlattenType
<1> QED BY <1>4 DEF W, Unit

(* A layout is written field by field, and each unit by unit.              *)
LEMMA BitsOfIs ==
  ASSUME NEW layout, IsLayout(layout)
  PROVE  BitsOf(layout) = FlattenSeq([k \in DOMAIN layout |-> Unit(layout[k].width, layout[k].value)])
<1> DEFINE U(k) == [u \in DOMAIN layout[k].value |-> Bits(layout[k].width, layout[k].value[u])]
           V == [k \in DOMAIN layout |-> Concat(U(k))]
           W == [k \in DOMAIN layout |-> Unit(layout[k].width, layout[k].value)]
<1>1. Len(layout) \in Nat /\ DOMAIN layout = 1 .. Len(layout)
  BY DEF IsLayout
<1>2. ASSUME NEW k \in DOMAIN layout PROVE Concat(U(k)) = Unit(layout[k].width, layout[k].value)
  <2>1. layout[k].width \in Widths /\ layout[k].value \in Seq(Nat)
    BY DEF IsLayout
  <2>2. U(k) \in Seq(Seq(Bit))
    <3> DEFINE w == layout[k].width
               v == layout[k].value
    <3>1. \A u \in DOMAIN v : Bits(w, v[u]) \in Seq(Bit)
      BY <2>1, BitsAre
    <3>2. DOMAIN v = 1 .. Len(v) /\ Len(v) \in Nat
      BY <2>1
    <3> HIDE DEF w, v
    <3>3. [u \in DOMAIN v |-> Bits(w, v[u])] \in Seq(Seq(Bit))
      BY <3>1, <3>2
    <3> QED BY <3>3 DEF w, v
  <2>3. FlattenSeq(U(k)) = Unit(layout[k].width, layout[k].value)
    BY DEF Unit
  <2> HIDE DEF U
  <2> QED BY <2>2, <2>3, ConcatIs
<1> HIDE DEF U
<1>3. V = W
  BY <1>2
<1>4. \A k \in DOMAIN layout : Unit(layout[k].width, layout[k].value) \in Seq(Bit)
  BY UnitType DEF IsLayout
<1>5. W \in Seq(Seq(Bit))
  BY <1>1, <1>4
<1>6. BitsOf(layout) = Concat(V)
  BY DEF BitsOf, U
<1> HIDE DEF V, W
<1>7. Concat(W) = FlattenSeq(W)
  BY <1>5, ConcatIs
<1> QED BY <1>3, <1>6, <1>7 DEF W

LEMMA BitsOfType ==
  ASSUME NEW layout, IsLayout(layout)
  PROVE  BitsOf(layout) \in Seq(Bit)
<1> DEFINE W == [k \in DOMAIN layout |-> Unit(layout[k].width, layout[k].value)]
<1>1. Len(layout) \in Nat /\ DOMAIN layout = 1 .. Len(layout)
  BY DEF IsLayout
<1>2. \A k \in DOMAIN layout : Unit(layout[k].width, layout[k].value) \in Seq(Bit)
  BY UnitType DEF IsLayout
<1>3. W \in Seq(Seq(Bit))
  BY <1>1, <1>2
<1>4. BitsOf(layout) = FlattenSeq(W)
  BY BitsOfIs
<1> HIDE DEF W
<1> QED BY <1>3, <1>4, FlattenType

Octet(bits, o) ==
  128 * bits[o + 1] + 64 * bits[o + 2] + 32 * bits[o + 3] + 16 * bits[o + 4]
  + 8 * bits[o + 5] + 4 * bits[o + 6] + 2 * bits[o + 7] + bits[o + 8]

LEMMA OctetBounds ==
  ASSUME NEW a \in 0 .. 1, NEW b \in 0 .. 1, NEW c \in 0 .. 1, NEW d \in 0 .. 1,
         NEW e \in 0 .. 1, NEW f \in 0 .. 1, NEW g \in 0 .. 1, NEW h \in 0 .. 1
  PROVE  128 * a + 64 * b + 32 * c + 16 * d + 8 * e + 4 * f + 2 * g + h \in 0 .. 255
OBVIOUS

LEMMA HalfAndBit ==
  ASSUME NEW v \in Nat
  PROVE  v = 2 * (v \div 2) + (v % 2)
<1>1. v % 2 = v - 2 * (v \div 2) /\ v \div 2 \in Nat
  OBVIOUS
<1> DEFINE q == v \div 2
           r == v % 2
<1>2. r = v - 2 * q /\ q \in Nat /\ r \in 0 .. 1
  BY <1>1
<1> HIDE DEF q, r
<1>3. v = 2 * q + r
  BY <1>2
<1> QED BY <1>3 DEF q, r

(* A byte is what its eight bits add up to.                                *)
LEMMA OctetSum ==
  ASSUME NEW v \in 0 .. 255
  PROVE  128 * ((v \div 128) % 2) + 64 * ((v \div 64) % 2) + 32 * ((v \div 32) % 2) + 16 * ((v \div 16) % 2)
         + 8 * ((v \div 8) % 2) + 4 * ((v \div 4) % 2) + 2 * ((v \div 2) % 2) + ((v \div 1) % 2) = v
<1> DEFINE q1 == v \div 2
           q2 == v \div 4
           q3 == v \div 8
           q4 == v \div 16
           q5 == v \div 32
           q6 == v \div 64
           q7 == v \div 128
<1>1. /\ v \in Nat /\ q1 \in Nat /\ q2 \in Nat /\ q3 \in Nat /\ q4 \in Nat /\ q5 \in Nat /\ q6 \in Nat
      /\ q7 \in 0 .. 1
  OBVIOUS
<1>a. v \div 1 = v
  OBVIOUS
<1>b. q2 = q1 \div 2 /\ q3 = q2 \div 2 /\ q4 = q3 \div 2 /\ q5 = q4 \div 2 /\ q6 = q5 \div 2 /\ q7 = q6 \div 2
  OBVIOUS
<1>c. q1 = v \div 2
  OBVIOUS
<1>f. q7 % 2 = q7
  BY <1>1
<1>q. /\ v \div 1 = v /\ v \div 2 = q1 /\ v \div 4 = q2 /\ v \div 8 = q3 /\ v \div 16 = q4
      /\ v \div 32 = q5 /\ v \div 64 = q6 /\ v \div 128 = q7
  BY <1>a
<1> HIDE DEF q1, q2, q3, q4, q5, q6, q7
<1>2. v = 2 * q1 + (v % 2)
  BY <1>1, <1>c, HalfAndBit
<1>3. q1 = 2 * q2 + (q1 % 2)
  BY <1>1, <1>b, HalfAndBit
<1>4. q2 = 2 * q3 + (q2 % 2)
  BY <1>1, <1>b, HalfAndBit
<1>5. q3 = 2 * q4 + (q3 % 2)
  BY <1>1, <1>b, HalfAndBit
<1>6. q4 = 2 * q5 + (q4 % 2)
  BY <1>1, <1>b, HalfAndBit
<1>7. q5 = 2 * q6 + (q5 % 2)
  BY <1>1, <1>b, HalfAndBit, SMTT(30)
<1>8. q6 = 2 * q7 + (q6 % 2)
  BY <1>1, <1>b, HalfAndBit
<1> DEFINE r0 == v % 2
           r1 == q1 % 2
           r2 == q2 % 2
           r3 == q3 % 2
           r4 == q4 % 2
           r5 == q5 % 2
           r6 == q6 % 2
<1>10. r0 \in Nat /\ r1 \in Nat /\ r2 \in Nat /\ r3 \in Nat /\ r4 \in Nat /\ r5 \in Nat /\ r6 \in Nat
  BY <1>1
<1> HIDE DEF r0, r1, r2, r3, r4, r5, r6
<1>e0. v = 2 * q1 + r0
  BY <1>2 DEF r0
<1>e1. q1 = 2 * q2 + r1
  BY <1>3 DEF r1
<1>e2. q2 = 2 * q3 + r2
  BY <1>4 DEF r2
<1>e3. q3 = 2 * q4 + r3
  BY <1>5 DEF r3
<1>e4. q4 = 2 * q5 + r4
  BY <1>6 DEF r4
<1>e5. q5 = 2 * q6 + r5
  BY <1>7 DEF r5
<1>e6. q6 = 2 * q7 + r6
  BY <1>8 DEF r6
<1>12. 128 * q7 + 64 * r6 + 32 * r5 + 16 * r4 + 8 * r3 + 4 * r2 + 2 * r1 + r0 = v
  BY <1>1, <1>10, <1>e0, <1>e1, <1>e2, <1>e3, <1>e4, <1>e5, <1>e6
<1> QED BY <1>q, <1>f, <1>12 DEF r0, r1, r2, r3, r4, r5, r6

(* Every eight bits make a byte.                                           *)
LEMMA OctetsAre ==
  ASSUME NEW bits \in Seq(Bit)
  PROVE  /\ Octets(bits) = [k \in 1 .. (Len(bits) \div 8) |-> Octet(bits, 8 * k - 8)]
         /\ Octets(bits) \in Seq(Byte) /\ Len(Octets(bits)) = Len(bits) \div 8
<1> DEFINE N == Len(bits) \div 8
<1>1. Octets(bits) = [k \in 1 .. N |-> Octet(bits, 8 * k - 8)]
  BY DEF Octets, Octet
<1>2. N \in Nat /\ 8 * N <= Len(bits) /\ Len(bits) \in Nat
  OBVIOUS
<1> HIDE DEF N
<1>3. ASSUME NEW k \in 1 .. N PROVE Octet(bits, 8 * k - 8) \in Byte
  <2>1. PICK o \in Nat : o = 8 * k - 8 /\ o + 8 <= Len(bits)
    <3>1. 8 * k - 8 \in Nat /\ 8 * k - 8 + 8 <= Len(bits)
      BY <1>2
    <3> QED BY <3>1
  <2>2. \A j \in 1 .. 8 : bits[o + j] \in Bit
    <3>1. \A j \in 1 .. 8 : o + j \in 1 .. Len(bits)
      BY <1>2, <2>1
    <3> QED BY <3>1
  <2>3. \A j \in 1 .. 8 : bits[o + j] \in 0 .. 1
    BY <2>2 DEF Bit
  <2>4. Octet(bits, o) \in 0 .. 255
    <3>1. /\ bits[o + 1] \in 0 .. 1 /\ bits[o + 2] \in 0 .. 1 /\ bits[o + 3] \in 0 .. 1 /\ bits[o + 4] \in 0 .. 1
          /\ bits[o + 5] \in 0 .. 1 /\ bits[o + 6] \in 0 .. 1 /\ bits[o + 7] \in 0 .. 1 /\ bits[o + 8] \in 0 .. 1
      BY <2>3
    <3> DEFINE a == bits[o + 1]
               b == bits[o + 2]
               c == bits[o + 3]
               d == bits[o + 4]
               e == bits[o + 5]
               f == bits[o + 6]
               g == bits[o + 7]
               h == bits[o + 8]
    <3>2. Octet(bits, o) = 128 * a + 64 * b + 32 * c + 16 * d + 8 * e + 4 * f + 2 * g + h
      BY DEF Octet
    <3> HIDE DEF a, b, c, d, e, f, g, h
    <3>3. 128 * a + 64 * b + 32 * c + 16 * d + 8 * e + 4 * f + 2 * g + h \in 0 .. 255
      <4>1. /\ a \in 0 .. 1 /\ b \in 0 .. 1 /\ c \in 0 .. 1 /\ d \in 0 .. 1
            /\ e \in 0 .. 1 /\ f \in 0 .. 1 /\ g \in 0 .. 1 /\ h \in 0 .. 1
        BY <3>1 DEF a, b, c, d, e, f, g, h
      <4> QED BY <4>1, OctetBounds
    <3> QED BY <3>2, <3>3
  <2> QED BY <2>1, <2>4 DEF Byte
<1> QED BY <1>1, <1>2, <1>3 DEF N

(* What Bytes() writes of a layout are bytes.                              *)
LEMMA BytesType ==
  ASSUME NEW layout, IsLayout(layout)
  PROVE  Bytes(layout) \in Seq(Byte)
BY BitsOfType, OctetsAre DEF Bytes

(* The octet made of a byte's bits is that byte.                           *)
LEMMA OctetsOfByte ==
  ASSUME NEW v \in Byte
  PROVE  Octets(Bits(8, v)) = <<v>>
<1> DEFINE x == Bits(8, v)
<1>1. x = [b \in 1 .. 8 |-> (v \div Limit(8 - b)) % 2]
  BY DEF Bits
<1>2. /\ Limit(0) = 1 /\ Limit(1) = 2 /\ Limit(2) = 4 /\ Limit(3) = 8
      /\ Limit(4) = 16 /\ Limit(5) = 32 /\ Limit(6) = 64 /\ Limit(7) = 128
  BY DEF Limit, Powers
<1>3. /\ x[1] = (v \div 128) % 2 /\ x[2] = (v \div 64) % 2 /\ x[3] = (v \div 32) % 2 /\ x[4] = (v \div 16) % 2
      /\ x[5] = (v \div 8) % 2 /\ x[6] = (v \div 4) % 2 /\ x[7] = (v \div 2) % 2 /\ x[8] = (v \div 1) % 2
  BY <1>1, <1>2
<1>4. x \in Seq(Bit) /\ Len(x) = 8
  <2>1. 8 \in Widths /\ v \in Nat
    BY WidthsAre DEF Byte
  <2> QED BY <2>1, BitsAre
<1> HIDE DEF x
<1>5. Octet(x, 0) = v
  <2>1. v \in 0 .. 255
    BY DEF Byte
  <2>2. /\ 0 + 1 = 1 /\ 0 + 2 = 2 /\ 0 + 3 = 3 /\ 0 + 4 = 4 /\ 0 + 5 = 5 /\ 0 + 6 = 6 /\ 0 + 7 = 7 /\ 0 + 8 = 8
    OBVIOUS
  <2>3. Octet(x, 0) = 128 * x[1] + 64 * x[2] + 32 * x[3] + 16 * x[4] + 8 * x[5] + 4 * x[6] + 2 * x[7] + x[8]
    BY <2>2 DEF Octet
  <2> QED BY <2>1, <2>3, <1>3, OctetSum
<1>6. Octets(x) = [k \in 1 .. (Len(x) \div 8) |-> Octet(x, 8 * k - 8)]
  BY <1>4, OctetsAre
<1>7. Len(x) \div 8 = 1 /\ 8 * 1 - 8 = 0 /\ 1 .. 1 = {1}
  BY <1>4
<1>8. Octets(x) = [k \in {1} |-> v]
  BY <1>5, <1>6, <1>7
<1> QED BY <1>8 DEF x

Whole(bits) == bits \in Seq(Bit) /\ Len(bits) % 8 = 0

LEMMA EightTimes ==
  ASSUME NEW a \in Nat, a % 8 = 0
  PROVE  a \div 8 \in Nat /\ 8 * (a \div 8) = a
OBVIOUS

LEMMA WholeConcat ==
  ASSUME NEW x, NEW y, Whole(x), Whole(y)
  PROVE  Whole(x \o y)
<1>1. x \in Seq(Bit) /\ y \in Seq(Bit) /\ Len(x) % 8 = 0 /\ Len(y) % 8 = 0
  BY DEF Whole
<1>2. Len(x) \in Nat /\ Len(y) \in Nat /\ x \o y \in Seq(Bit) /\ Len(x \o y) = Len(x) + Len(y)
  BY <1>1, ConcatProperties
<1> DEFINE a == Len(x)
           b == Len(y)
<1>3. a \in Nat /\ b \in Nat /\ a % 8 = 0 /\ b % 8 = 0
  BY <1>1, <1>2
<1> HIDE DEF a, b
<1>4. (a + b) % 8 = 0
  BY <1>3
<1> QED BY <1>2, <1>4 DEF Whole, a, b

(* The octets of whole bytes, one behind the other, are those of each.     *)
LEMMA OctetsConcat ==
  ASSUME NEW x, NEW y, Whole(x), Whole(y)
  PROVE  Octets(x \o y) = Octets(x) \o Octets(y)
<1>1. x \in Seq(Bit) /\ y \in Seq(Bit) /\ Len(x) % 8 = 0 /\ Len(y) % 8 = 0
  BY DEF Whole
<1> DEFINE z == x \o y
<1>2. /\ Len(x) \in Nat /\ Len(y) \in Nat /\ z \in Seq(Bit) /\ Len(z) = Len(x) + Len(y)
      /\ \A i \in 1 .. Len(x) + Len(y) : z[i] = IF i <= Len(x) THEN x[i] ELSE y[i - Len(x)]
  <2>1. /\ x \o y \in Seq(Bit) /\ Len(x \o y) = Len(x) + Len(y)
        /\ \A i \in 1 .. Len(x) + Len(y) : (x \o y)[i] = IF i <= Len(x) THEN x[i] ELSE y[i - Len(x)]
    BY <1>1, ConcatProperties
  <2>2. Len(x) \in Nat /\ Len(y) \in Nat
    BY <1>1
  <2> HIDE DEF z
  <2> QED BY <2>1, <2>2 DEF z
<1> DEFINE m == Len(x) \div 8
           n == Len(y) \div 8
<1>3. m \in Nat /\ n \in Nat /\ 8 * m = Len(x) /\ 8 * n = Len(y)
  BY <1>1, <1>2, EightTimes
<1>4. Len(z) \div 8 = m + n
  <2> HIDE DEF m, n, z
  <2>1. Len(z) = 8 * m + 8 * n
    BY <1>2, <1>3
  <2>2. m \in Nat /\ n \in Nat
    BY <1>3
  <2>3. (8 * m + 8 * n) \div 8 = m + n
    BY <2>2
  <2> QED BY <2>1, <2>3
<1> DEFINE p == Octets(x)
           q == Octets(y)
<1>5. /\ p \in Seq(Byte) /\ Len(p) = m /\ q \in Seq(Byte) /\ Len(q) = n
      /\ \A k \in 1 .. m : p[k] = Octet(x, 8 * k - 8)
      /\ \A k \in 1 .. n : q[k] = Octet(y, 8 * k - 8)
  <2>1. /\ p = [k \in 1 .. m |-> Octet(x, 8 * k - 8)]
        /\ p \in Seq(Byte) /\ Len(p) = m
    BY <1>1, OctetsAre
  <2>2. /\ q = [k \in 1 .. n |-> Octet(y, 8 * k - 8)]
        /\ q \in Seq(Byte) /\ Len(q) = n
    BY <1>1, OctetsAre
  <2> HIDE DEF p, q, m, n
  <2> QED BY <2>1, <2>2
<1>6. /\ Octets(z) = [k \in 1 .. m + n |-> Octet(z, 8 * k - 8)]
      /\ Octets(z) \in Seq(Byte) /\ Len(Octets(z)) = m + n
  <2> HIDE DEF m, n, z
  <2> QED BY <1>2, <1>4, OctetsAre
<1> HIDE DEF m, n, z, p, q
<1>7. /\ p \o q \in Seq(Byte) /\ Len(p \o q) = m + n
      /\ \A k \in 1 .. m + n : (p \o q)[k] = IF k <= m THEN p[k] ELSE q[k - m]
  BY <1>5, ConcatProperties
<1>8. ASSUME NEW k \in 1 .. m + n PROVE Octet(z, 8 * k - 8) = (p \o q)[k]
  <2>1. CASE k <= m
    <3>1. PICK o \in Nat : o = 8 * k - 8 /\ o + 8 <= Len(x)
      <4>1. 8 * k - 8 \in Nat /\ 8 * k - 8 + 8 <= Len(x)
        BY <1>3, <2>1
      <4> QED BY <4>1
    <3>2. \A j \in 1 .. 8 : z[o + j] = x[o + j]
      <4> TAKE j \in 1 .. 8
      <4>1. o + j \in 1 .. Len(x) + Len(y) /\ o + j <= Len(x)
        BY <1>2, <3>1
      <4> QED BY <4>1, <1>2
    <3>3. Octet(z, o) = Octet(x, o)
      BY <3>2 DEF Octet
    <3>4. k \in 1 .. m
      BY <2>1, <1>3
    <3> QED BY <1>5, <1>7, <2>1, <3>1, <3>3, <3>4
  <2>2. CASE ~(k <= m)
    <3>1. PICK i \in 1 .. n : i = k - m
      <4>1. k - m \in 1 .. n
        BY <1>3, <2>2
      <4> QED BY <4>1
    <3>2. PICK o \in Nat : o = 8 * i - 8 /\ o + 8 <= Len(y) /\ 8 * k - 8 = Len(x) + o
      <4>1. 8 * i - 8 \in Nat /\ 8 * i - 8 + 8 <= Len(y) /\ 8 * k - 8 = Len(x) + (8 * i - 8)
        BY <1>3, <3>1
      <4> QED BY <4>1
    <3>3. \A j \in 1 .. 8 : z[Len(x) + o + j] = y[o + j]
      <4> TAKE j \in 1 .. 8
      <4>1. /\ Len(x) + o + j \in 1 .. Len(x) + Len(y) /\ ~(Len(x) + o + j <= Len(x))
            /\ Len(x) + o + j - Len(x) = o + j
        BY <1>2, <3>2
      <4> QED BY <4>1, <1>2
    <3>4. Octet(z, Len(x) + o) = Octet(y, o)
      <4> DEFINE l == Len(x) + o
      <4>1. /\ z[l + 1] = y[o + 1] /\ z[l + 2] = y[o + 2] /\ z[l + 3] = y[o + 3] /\ z[l + 4] = y[o + 4]
            /\ z[l + 5] = y[o + 5] /\ z[l + 6] = y[o + 6] /\ z[l + 7] = y[o + 7] /\ z[l + 8] = y[o + 8]
        BY <3>3
      <4> HIDE DEF l
      <4>2. Octet(z, l) = Octet(y, o)
        BY <4>1 DEF Octet
      <4> QED BY <4>2 DEF l
    <3> QED BY <1>5, <1>7, <2>2, <3>1, <3>2, <3>4
  <2> QED BY <2>1, <2>2
<1>9. Octets(z) = p \o q
  <2> DEFINE s == p \o q
             t == Octets(z)
  <2>1. /\ s \in Seq(Byte) /\ t \in Seq(Byte) /\ Len(s) = m + n /\ Len(t) = m + n
        /\ \A k \in 1 .. m + n : t[k] = s[k]
    BY <1>6, <1>7, <1>8
  <2> HIDE DEF s, t
  <2>2. s = t
    BY <2>1, <1>3, SeqEqual
  <2> QED BY <2>2 DEF s, t
<1> QED BY <1>9 DEF z, p, q

(* n sequences of bits and the whole bytes of each of them.                *)
Written(n, parts, bytes) ==
  /\ n \in Nat
  /\ parts \in Seq(Seq(Bit)) /\ Len(parts) = n /\ bytes \in Seq(Seq(Byte)) /\ Len(bytes) = n
  /\ \A k \in 1 .. n : Whole(parts[k]) /\ bytes[k] = Octets(parts[k])

(* The bytes of whole parts are the bytes of each.                         *)
LEMMA OctetsFlatten ==
  ASSUME NEW N, NEW parts, NEW bytes, Written(N, parts, bytes)
  PROVE  Whole(FlattenSeq(parts)) /\ Octets(FlattenSeq(parts)) = FlattenSeq(bytes)
<1>0. /\ N \in Nat
      /\ parts \in Seq(Seq(Bit)) /\ Len(parts) = N /\ bytes \in Seq(Seq(Byte)) /\ Len(bytes) = N
      /\ \A k \in 1 .. N : Whole(parts[k]) /\ bytes[k] = Octets(parts[k])
  BY DEF Written
<1>1. PICK Pre \in [0 .. Len(parts) -> Seq(Bit)] : PrefixesOf(Pre, parts)
  BY <1>0, PrefixesExist
<1>2. /\ \A i \in 0 .. N : Pre[i] \in Seq(Bit)
      /\ Pre[0] = <<>>
      /\ \A i \in 1 .. N : Pre[i] = Pre[i - 1] \o parts[i]
  BY <1>0, <1>1, PrefixesAre
<1>3. FlattenSeq(parts) = Pre[N]
  BY <1>0, <1>1, FlattenIs
<1>4. Whole(<<>>) /\ Octets(<<>>) = <<>>
  <2>1. <<>> \in Seq(Bit) /\ Len(<<>>) = 0 /\ 0 % 8 = 0 /\ 0 \div 8 = 0 /\ 1 .. 0 = {}
    OBVIOUS
  <2>2. Octets(<<>>) \in Seq(Byte) /\ Len(Octets(<<>>)) = 0
    BY <2>1, OctetsAre
  <2> QED BY <2>1, <2>2, EmptySeq DEF Whole
<1> DEFINE Has(n) == n <= N => Whole(Pre[n])
           S == {n \in Nat : Has(n)}
<1>5. Has(0)
  BY <1>2, <1>4
<1>6. ASSUME NEW n \in Nat, Has(n) PROVE Has(n + 1)
  <2> SUFFICES ASSUME n + 1 <= N PROVE Whole(Pre[n + 1])
    OBVIOUS
  <2>0. N \in Nat
    BY <1>0
  <2>1. PICK k \in 1 .. N : k = n + 1
    <3>1. n + 1 \in 1 .. N
      BY <2>0
    <3> QED BY <3>1
  <2>2. n <= N /\ k - 1 = n
    BY <2>0, <2>1
  <2>3. Pre[k] = Pre[n] \o parts[k]
    BY <1>2, <2>2
  <2>4. Whole(Pre[k])
    BY <1>0, <1>6, <2>2, <2>3, WholeConcat
  <2> QED BY <2>1, <2>4
<1> HIDE DEF Has
<1>7. Nat \subseteq S
  <2>1. 0 \in S /\ \A n \in Nat : n \in S => n + 1 \in S
    BY <1>5, <1>6
  <2> HIDE DEF S
  <2> QED BY <2>1, NatSetInduction
<1>8. \A i \in 0 .. N : Whole(Pre[i])
  BY <1>0, <1>7 DEF Has
<1> DEFINE P == [i \in 0 .. N |-> Octets(Pre[i])]
<1>9. P \in [0 .. N -> Seq(Byte)] /\ \A i \in 0 .. N : P[i] = Octets(Pre[i])
  BY <1>2, OctetsAre
<1> HIDE DEF P
<1>10. ASSUME NEW k \in 1 .. N PROVE P[k] = P[k - 1] \o bytes[k]
  <2>1. k \in 0 .. N /\ k - 1 \in 0 .. N
    BY <1>0
  <2>2. Pre[k] = Pre[k - 1] \o parts[k]
    BY <1>2
  <2>3. Octets(Pre[k - 1] \o parts[k]) = Octets(Pre[k - 1]) \o Octets(parts[k])
    BY <1>0, <1>8, <2>1, OctetsConcat
  <2> QED BY <1>0, <1>9, <2>1, <2>2, <2>3
<1>11. P[0] = <<>>
  <2>1. 0 \in 0 .. N
    BY <1>0
  <2> QED BY <1>2, <1>4, <1>9, <2>1
<1>12. PrefixesOf(P, bytes)
  BY <1>0, <1>10, <1>11 DEF PrefixesOf
<1>13. FlattenSeq(bytes) = P[N]
  BY <1>0, <1>9, <1>12, FlattenIs
<1>14. N \in 0 .. N
  BY <1>0
<1> QED BY <1>3, <1>8, <1>9, <1>13, <1>14

(* Parts of one element each.                                              *)
LEMMA Singles ==
  ASSUME NEW D, NEW s \in Seq(D), NEW parts, parts \in Seq(Seq(D)), Len(parts) = Len(s),
         \A k \in 1 .. Len(s) : parts[k] = <<s[k]>>
  PROVE  FlattenSeq(parts) = s
<1> DEFINE N == Len(s)
           P == [i \in 0 .. N |-> SubSeq(s, 1, i)]
<1>0. N \in Nat
  OBVIOUS
<1>1. \A i \in 0 .. N : SubSeq(s, 1, i) \in Seq(D) /\ Len(SubSeq(s, 1, i)) = i
  BY SubSeqProperties
<1>2. P \in [0 .. N -> Seq(D)] /\ P[0] = <<>> /\ P[N] = s
  OBVIOUS
<1>3. ASSUME NEW k \in 1 .. N PROVE SubSeq(s, 1, k) = SubSeq(s, 1, k - 1) \o <<s[k]>>
  OBVIOUS
<1>4. ASSUME NEW k \in 1 .. N PROVE P[k] = P[k - 1] \o parts[k]
  <2>1. k \in 0 .. N /\ k - 1 \in 0 .. N
    BY <1>0
  <2> QED BY <1>3, <2>1
<1>5. PrefixesOf(P, parts)
  BY <1>2, <1>4 DEF PrefixesOf
<1>6. P \in [0 .. Len(parts) -> Seq(D)]
  BY <1>2
<1> HIDE DEF P
<1>7. FlattenSeq(parts) = P[Len(parts)]
  BY <1>5, <1>6, FlattenIs
<1> QED BY <1>2, <1>7

LEMMA WholeUnit ==
  ASSUME NEW w \in {8, 16, 24}, NEW v \in Nat
  PROVE  Whole(Bits(w, v))
<1>1. w \in Widths /\ w % 8 = 0
  BY WidthsAre
<1> QED BY <1>1, BitsAre DEF Whole

LEMMA SmallIsByte == \A b \in Nat : b < 256 => b \in Byte
BY DEF Byte

(* The bytes of each unit of a field of this width and value.              *)
UnitsWritten(w, value, bytes) ==
  /\ w \in {8, 16, 24}
  /\ bytes \in Seq(Seq(Byte)) /\ Len(bytes) = Len(value)
  /\ \A u \in 1 .. Len(value) : bytes[u] = Octets(Bits(w, value[u]))

(* The bytes of a field of whole bytes are those of its units.             *)
LEMMA OctetsOfUnits ==
  ASSUME NEW value \in Seq(Nat), NEW w, NEW bytes, UnitsWritten(w, value, bytes)
  PROVE  /\ Whole(Unit(w, value)) /\ Octets(Unit(w, value)) = FlattenSeq(bytes)
         /\ FlattenSeq(bytes) \in Seq(Byte)
<1> DEFINE N == Len(value)
           parts == [u \in DOMAIN value |-> Bits(w, value[u])]
<1>0. /\ w \in {8, 16, 24} /\ bytes \in Seq(Seq(Byte)) /\ Len(bytes) = N
      /\ \A u \in 1 .. N : bytes[u] = Octets(Bits(w, value[u]))
  BY DEF UnitsWritten
<1>1. N \in Nat /\ DOMAIN value = 1 .. N /\ \A u \in 1 .. N : value[u] \in Nat
  OBVIOUS
<1>2. \A u \in 1 .. N : Bits(w, value[u]) \in Seq(Bit) /\ Whole(Bits(w, value[u]))
  BY <1>0, <1>1, WholeUnit DEF Whole
<1>3. parts \in Seq(Seq(Bit)) /\ Len(parts) = N /\ \A u \in 1 .. N : parts[u] = Bits(w, value[u])
  <2>1. parts = [u \in 1 .. N |-> Bits(w, value[u])]
    BY <1>1
  <2> HIDE DEF N
  <2> QED BY <1>1, <1>2, <2>1
<1>4. Unit(w, value) = FlattenSeq(parts)
  BY DEF Unit
<1> HIDE DEF parts, N
<1>5. \A u \in 1 .. N : Whole(parts[u]) /\ bytes[u] = Octets(parts[u])
  BY <1>0, <1>2, <1>3
<1>6. Written(N, parts, bytes)
  BY <1>0, <1>1, <1>3, <1>5 DEF Written
<1>7. Whole(FlattenSeq(parts)) /\ Octets(FlattenSeq(parts)) = FlattenSeq(bytes)
  BY <1>6, OctetsFlatten
<1> QED BY <1>0, <1>4, <1>7, FlattenType

(* Fields of eight bits are written as they are.                           *)
LEMMA OctetsOf8 ==
  ASSUME NEW value \in Seq(Nat), \A u \in DOMAIN value : value[u] < 256
  PROVE  Whole(Unit(8, value)) /\ Octets(Unit(8, value)) = value /\ value \in Seq(Byte)
<1> DEFINE N == Len(value)
           bytes == [u \in DOMAIN value |-> <<value[u]>>]
<1>1. N \in Nat /\ DOMAIN value = 1 .. N
  OBVIOUS
<1>2. \A u \in 1 .. N : value[u] \in Byte /\ value[u] \in Nat
  <2> TAKE u \in 1 .. N
  <2>1. value[u] \in Nat /\ value[u] < 256
    BY <1>1
  <2> QED BY <2>1, SmallIsByte
<1>3. value \in Seq(Byte)
  BY <1>1, <1>2
<1>4. \A u \in 1 .. N : <<value[u]>> \in Seq(Byte) /\ <<value[u]>> = Octets(Bits(8, value[u]))
  BY <1>2, OctetsOfByte
<1>5. bytes \in Seq(Seq(Byte)) /\ Len(bytes) = N /\ \A u \in 1 .. N : bytes[u] = <<value[u]>>
  <2>1. bytes = [u \in 1 .. N |-> <<value[u]>>]
    BY <1>1
  <2> HIDE DEF N
  <2> QED BY <1>1, <1>4, <2>1
<1> HIDE DEF bytes
<1>6. FlattenSeq(bytes) = value
  BY <1>3, <1>5, Singles
<1>7. Whole(Unit(8, value)) /\ Octets(Unit(8, value)) = FlattenSeq(bytes)
  <2>1. UnitsWritten(8, value, bytes)
    BY <1>4, <1>5 DEF UnitsWritten
  <2> QED BY <2>1, OctetsOfUnits
<1> QED BY <1>3, <1>6, <1>7

(* A number of sixteen bits is two bytes, the high one first.              *)
SplitsIn(v, h, l) == h = v \div 256 /\ l = v % 256 /\ v = 256 * h + l

LEMMA BytesOfPair ==
  ASSUME NEW v \in Nat, v < 256 * 256
  PROVE  \E h, l \in 0 .. 255 : SplitsIn(v, h, l)
<1> DEFINE h == v \div 256
           l == v % 256
<1>1. h \in Nat /\ l \in 0 .. 255 /\ h < 256
  OBVIOUS
<1>2. l = v - 256 * h
  OBVIOUS
<1> HIDE DEF h, l
<1>3. v = 256 * h + l /\ h \in 0 .. 255
  BY <1>1, <1>2
<1>4. SplitsIn(v, h, l)
  BY <1>3 DEF SplitsIn, h, l
<1> QED BY <1>1, <1>3, <1>4

LEMMA Joins ==
  ASSUME NEW D, NEW a \in D, NEW b \in D
  PROVE  <<a>> \o <<b>> = <<a, b>>
<1> DEFINE x == <<a>>
           y == <<b>>
           z == <<a, b>>
<1>1. /\ x \in Seq(D) /\ Len(x) = 1 /\ x[1] = a /\ y \in Seq(D) /\ Len(y) = 1 /\ y[1] = b
      /\ z \in Seq(D) /\ Len(z) = 2 /\ z[1] = a /\ z[2] = b
  OBVIOUS
<1> HIDE DEF x, y, z
<1> DEFINE t == x \o y
<1>2. t \in Seq(D) /\ Len(t) = 2 /\ t[1] = a /\ t[2] = b
  BY <1>1, ConcatProperties
<1> HIDE DEF t
<1>3. t = z
  <2>1. \A i \in 1 .. 2 : t[i] = z[i]
    <3>1. \A i \in 1 .. 2 : i = 1 \/ i = 2
      OBVIOUS
    <3> QED BY <1>1, <1>2, <3>1
  <2> QED BY <1>1, <1>2, <2>1, SeqEqual
<1> QED BY <1>3 DEF t, x, y, z

LEMMA OctetsOfPair ==
  ASSUME NEW v \in Nat, v < 256 * 256
  PROVE  Octets(Bits(16, v)) = Pair(v) /\ Pair(v) \in Seq(Byte) /\ Len(Pair(v)) = 2
<1>p. PICK h \in 0 .. 255, l \in 0 .. 255 : SplitsIn(v, h, l)
  BY BytesOfPair
<1>1. h = v \div 256 /\ l = v % 256 /\ v = 256 * h + l
  BY <1>p DEF SplitsIn
<1>2. h \in Byte /\ l \in Byte /\ h \in Nat /\ l \in Nat
  BY DEF Byte
<1>3. Bits(16, v) = Bits(8, h) \o Bits(8, l)
  <2>1. 8 \in 1 .. 24 /\ 8 + 8 <= 24 /\ 8 + 8 = 16
    OBVIOUS
  <2>2. l < Limit(8) /\ v = h * Limit(8) + l
    BY <1>1, <1>2, LimitsAre, SMTT(30)
  <2>3. Bits(8 + 8, h * Limit(8) + l) = Bits(8, h) \o Bits(8, l)
    BY <1>2, <2>1, <2>2, BitsJoin
  <2> QED BY <2>1, <2>2, <2>3
<1>4. Octets(Bits(8, h)) = <<h>> /\ Octets(Bits(8, l)) = <<l>>
  BY <1>2, OctetsOfByte
<1>5. Whole(Bits(8, h)) /\ Whole(Bits(8, l))
  BY <1>2, WholeUnit
<1>6. Octets(Bits(16, v)) = <<h>> \o <<l>>
  <2> DEFINE x == Bits(8, h)
             y == Bits(8, l)
  <2>1. Bits(16, v) = x \o y /\ Octets(x) = <<h>> /\ Octets(y) = <<l>> /\ Whole(x) /\ Whole(y)
    BY <1>3, <1>4, <1>5
  <2> HIDE DEF x, y
  <2> QED BY <2>1, OctetsConcat
<1>7. <<h>> \o <<l>> = <<h, l>>
  BY <1>2, Joins
<1> QED BY <1>1, <1>2, <1>6, <1>7, SMTT(30) DEF Pair

(* A number of 24 bits is a byte, and two bytes for its lower sixteen.     *)
TripleIn(v, h, l) == h = v \div (256 * 256) /\ l = v % (256 * 256) /\ v = h * (256 * 256) + l

LEMMA BytesOfTriple ==
  ASSUME NEW v \in Nat, v < 256 * 256 * 256
  PROVE  \E h \in 0 .. 255, l \in Nat : l < 256 * 256 /\ TripleIn(v, h, l)
<1> DEFINE h == v \div (256 * 256)
           l == v % (256 * 256)
<1>1. h \in Nat /\ l \in Nat /\ l < 256 * 256 /\ h < 256
  OBVIOUS
<1>2. l = v - h * (256 * 256)
  OBVIOUS
<1> HIDE DEF h, l
<1>3. v = h * (256 * 256) + l /\ h \in 0 .. 255
  BY <1>1, <1>2
<1>4. TripleIn(v, h, l)
  BY <1>3 DEF TripleIn, h, l
<1> QED BY <1>1, <1>3, <1>4

LEMMA OctetsOfTriple ==
  ASSUME NEW v \in Nat, v < 256 * 256 * 256
  PROVE  Octets(Bits(24, v)) = Triple(v) /\ Triple(v) \in Seq(Byte) /\ Len(Triple(v)) = 3
<1>p. PICK h \in 0 .. 255, l \in Nat : l < 256 * 256 /\ TripleIn(v, h, l)
  BY BytesOfTriple
<1>1. h = v \div (256 * 256) /\ l = v % (256 * 256) /\ v = h * (256 * 256) + l
  BY <1>p DEF TripleIn
<1>2. h \in Byte /\ h \in Nat
  BY DEF Byte
<1>3. Bits(24, v) = Bits(8, h) \o Bits(16, l)
  <2>1. 8 \in 1 .. 24 /\ 16 \in 1 .. 24 /\ 8 + 16 <= 24 /\ 8 + 16 = 24
    OBVIOUS
  <2>2. l < Limit(16) /\ v = h * Limit(16) + l
    BY <1>p, <1>1, LimitsAre, SMTT(30)
  <2>3. Bits(8 + 16, h * Limit(16) + l) = Bits(8, h) \o Bits(16, l)
    BY <1>2, <2>1, <2>2, BitsJoin, ZenonT(30)
  <2> QED BY <2>1, <2>2, <2>3
<1>4. Octets(Bits(8, h)) = <<h>> /\ Octets(Bits(16, l)) = Pair(l) /\ Pair(l) \in Seq(Byte) /\ Len(Pair(l)) = 2
  BY <1>p, <1>2, OctetsOfByte, OctetsOfPair
<1>5. Whole(Bits(8, h)) /\ Whole(Bits(16, l))
  BY <1>2, WholeUnit
<1>6. Octets(Bits(24, v)) = <<h>> \o Pair(l)
  <2> DEFINE x == Bits(8, h)
             y == Bits(16, l)
  <2>1. Bits(24, v) = x \o y /\ Octets(x) = <<h>> /\ Octets(y) = Pair(l) /\ Whole(x) /\ Whole(y)
    BY <1>3, <1>4, <1>5
  <2> HIDE DEF x, y
  <2> QED BY <2>1, OctetsConcat
<1>7. <<h>> \o Pair(l) \in Seq(Byte) /\ Len(<<h>> \o Pair(l)) = 3
  <2> DEFINE x == <<h>>
             y == Pair(l)
  <2>1. x \in Seq(Byte) /\ Len(x) = 1 /\ y \in Seq(Byte) /\ Len(y) = 2
    BY <1>2, <1>4
  <2> HIDE DEF x, y
  <2>2. x \o y \in Seq(Byte) /\ Len(x \o y) = Len(x) + Len(y)
    BY <2>1, ConcatProperties
  <2>3. Len(x) + Len(y) = 3
    BY <2>1
  <2> QED BY <2>2, <2>3 DEF x, y
<1> QED BY <1>1, <1>6, <1>7 DEF Triple

(* Fields of sixteen bits are written as such pairs, and of 24 as triples. *)
LEMMA OctetsOf16 ==
  ASSUME NEW value \in Seq(Nat), \A u \in DOMAIN value : value[u] < 256 * 256
  PROVE  /\ Whole(Unit(16, value)) /\ Octets(Unit(16, value)) = FieldBytes(16, value)
         /\ FieldBytes(16, value) \in Seq(Byte)
<1> DEFINE N == Len(value)
           bytes == [u \in DOMAIN value |-> Pair(value[u])]
<1>1. N \in Nat /\ DOMAIN value = 1 .. N
  OBVIOUS
<1>2. \A u \in 1 .. N : Pair(value[u]) \in Seq(Byte) /\ Pair(value[u]) = Octets(Bits(16, value[u]))
  <2>1. \A u \in 1 .. N : value[u] \in Nat /\ value[u] < 256 * 256
    BY <1>1
  <2> QED BY <2>1, OctetsOfPair
<1>3. bytes \in Seq(Seq(Byte)) /\ Len(bytes) = N /\ \A u \in 1 .. N : bytes[u] = Pair(value[u])
  <2>1. bytes = [u \in 1 .. N |-> Pair(value[u])]
    BY <1>1
  <2> HIDE DEF N
  <2> QED BY <1>1, <1>2, <2>1
<1>4. FieldBytes(16, value) = FlattenSeq(bytes)
  BY DEF FieldBytes
<1> HIDE DEF bytes
<1>5. UnitsWritten(16, value, bytes)
  BY <1>2, <1>3 DEF UnitsWritten
<1> QED BY <1>4, <1>5, OctetsOfUnits

LEMMA OctetsOf24 ==
  ASSUME NEW value \in Seq(Nat), \A u \in DOMAIN value : value[u] < 256 * 256 * 256
  PROVE  /\ Whole(Unit(24, value)) /\ Octets(Unit(24, value)) = FieldBytes(24, value)
         /\ FieldBytes(24, value) \in Seq(Byte)
<1> DEFINE N == Len(value)
           bytes == [u \in DOMAIN value |-> Triple(value[u])]
<1>1. N \in Nat /\ DOMAIN value = 1 .. N
  OBVIOUS
<1>2. \A u \in 1 .. N : Triple(value[u]) \in Seq(Byte) /\ Triple(value[u]) = Octets(Bits(24, value[u]))
  <2>1. \A u \in 1 .. N : value[u] \in Nat /\ value[u] < 256 * 256 * 256
    BY <1>1
  <2> QED BY <2>1, OctetsOfTriple
<1>3. bytes \in Seq(Seq(Byte)) /\ Len(bytes) = N /\ \A u \in 1 .. N : bytes[u] = Triple(value[u])
  <2>1. bytes = [u \in 1 .. N |-> Triple(value[u])]
    BY <1>1
  <2> HIDE DEF N
  <2> QED BY <1>1, <1>2, <2>1
<1>4. FieldBytes(24, value) = FlattenSeq(bytes)
  BY DEF FieldBytes
<1> HIDE DEF bytes
<1>5. UnitsWritten(24, value, bytes)
  BY <1>2, <1>3 DEF UnitsWritten
<1> QED BY <1>4, <1>5, OctetsOfUnits

(* Where each part begins and ends.                                        *)
PlacedIn(off, parts) ==
  /\ off \in [0 .. Len(parts) -> Nat]
  /\ off[0] = 0 /\ off[Len(parts)] = Len(FlattenSeq(parts))
  /\ \A k \in 1 .. Len(parts) :
       /\ off[k] = off[k - 1] + Len(parts[k]) /\ off[k] <= off[Len(parts)]
       /\ Stands(off[k - 1], parts[k], FlattenSeq(parts))

(* Any parts are placed somewhere.                                         *)
LEMMA PlacedExists ==
  ASSUME NEW D, NEW parts \in Seq(Seq(D))
  PROVE  \E off : PlacedIn(off, parts)
<1> DEFINE N == Len(parts)
<1>0. N \in Nat
  OBVIOUS
<1>1. PICK Pre \in [0 .. Len(parts) -> Seq(D)] : PrefixesOf(Pre, parts)
  BY PrefixesExist
<1>2. FlattenSeq(parts) = Pre[N]
  BY <1>1, FlattenIs
<1>3. /\ \A i \in 0 .. N : Pre[i] \in Seq(D)
      /\ Pre[0] = <<>>
  BY <1>1, PrefixesAre
<1> DEFINE off == [i \in 0 .. N |-> Len(Pre[i])]
<1>4. off \in [0 .. N -> Nat] /\ off[0] = 0 /\ off[N] = Len(Pre[N]) /\ \A i \in 0 .. N : off[i] = Len(Pre[i])
  BY <1>0, <1>3
<1> HIDE DEF off
<1>5. ASSUME NEW k \in 1 .. N
      PROVE  /\ off[k] = off[k - 1] + Len(parts[k]) /\ off[k] <= off[N]
             /\ Stands(off[k - 1], parts[k], Pre[N])
  <2>1. /\ Len(Pre[k]) = Len(Pre[k - 1]) + Len(parts[k])
        /\ Len(Pre[k]) <= Len(Pre[N])
        /\ Stands(Len(Pre[k - 1]), parts[k], Pre[N])
    BY <1>1, PartStands
  <2>2. k \in 0 .. N /\ k - 1 \in 0 .. N /\ N \in 0 .. N
    BY <1>0
  <2>3. off[k] = Len(Pre[k]) /\ off[k - 1] = Len(Pre[k - 1]) /\ off[N] = Len(Pre[N])
    BY <1>4, <2>2
  <2> QED BY <2>1, <2>3
<1> QED BY <1>2, <1>4, <1>5 DEF PlacedIn

-----------------------------------------------------------------------------
LEMMA FieldIs ==
  ASSUME NEW w \in {8, 16, 24}, NEW value \in Seq(Nat), Small(value, Limit(w))
  PROVE  Whole(Unit(w, value)) /\ Octets(Unit(w, value)) = FieldBytes(w, value) /\ FieldBytes(w, value) \in Seq(Byte)
<1>1. CASE w = 8
  BY <1>1, OctetsOf8, LimitsAre DEF FieldBytes, Small
<1>2. CASE w = 16
  BY <1>2, OctetsOf16, LimitsAre DEF Small
<1>3. CASE w = 24
  BY <1>3, OctetsOf24, LimitsAre DEF Small
<1> QED BY <1>1, <1>2, <1>3

(* A layout of whole bytes is written field by field.                      *)
LEMMA BytesOfFields ==
  ASSUME NEW layout, WholeBytes(layout)
  PROVE  /\ Bytes(layout) = FlattenSeq(Fields(layout))
         /\ Fields(layout) \in Seq(Seq(Byte)) /\ Len(Fields(layout)) = Len(layout)
         /\ \A k \in 1 .. Len(layout) : Fields(layout)[k] = FieldOf(layout, k)
<1> DEFINE N == Len(layout)
           parts == [k \in DOMAIN layout |-> Unit(layout[k].width, layout[k].value)]
           bytes == [k \in DOMAIN layout |-> FieldOf(layout, k)]
<1>1. N \in Nat /\ DOMAIN layout = 1 .. N
  BY DEF WholeBytes, IsLayout
<1>2. ASSUME NEW k \in 1 .. N
      PROVE  /\ Whole(Unit(layout[k].width, layout[k].value))
             /\ Octets(Unit(layout[k].width, layout[k].value)) = FieldOf(layout, k)
             /\ FieldOf(layout, k) \in Seq(Byte)
  <2>1. /\ layout[k].width \in {8, 16, 24} /\ layout[k].value \in Seq(Nat)
        /\ Small(layout[k].value, Limit(layout[k].width))
    BY <1>1 DEF WholeBytes, IsLayout
  <2> QED BY <2>1, FieldIs DEF FieldOf
<1>3. \A k \in 1 .. N : Unit(layout[k].width, layout[k].value) \in Seq(Bit)
  BY <1>2 DEF Whole
<1> HIDE DEF N
<1>4. parts \in Seq(Seq(Bit)) /\ Len(parts) = N /\ \A k \in 1 .. N : parts[k] = Unit(layout[k].width, layout[k].value)
  <2>1. parts = [k \in 1 .. N |-> Unit(layout[k].width, layout[k].value)]
    BY <1>1
  <2> QED BY <1>1, <1>3, <2>1
<1>5. bytes \in Seq(Seq(Byte)) /\ Len(bytes) = N /\ \A k \in 1 .. N : bytes[k] = FieldOf(layout, k)
  <2>1. bytes = [k \in 1 .. N |-> FieldOf(layout, k)]
    BY <1>1
  <2> QED BY <1>1, <1>2, <2>1
<1>6. BitsOf(layout) = FlattenSeq(parts) /\ Fields(layout) = bytes
  <2>1. IsLayout(layout)
    BY DEF WholeBytes
  <2> QED BY <2>1, BitsOfIs DEF Fields
<1> HIDE DEF parts, bytes
<1>7. Octets(FlattenSeq(parts)) = FlattenSeq(bytes)
  <2>1. \A k \in 1 .. N : Whole(parts[k]) /\ bytes[k] = Octets(parts[k])
    BY <1>2, <1>4, <1>5
  <2>2. Written(N, parts, bytes)
    BY <1>1, <1>4, <1>5, <2>1 DEF Written
  <2> QED BY <2>2, OctetsFlatten
<1> QED BY <1>5, <1>6, <1>7 DEF Bytes, N

-----------------------------------------------------------------------------
(* What the readers read where a field stands.                             *)
LEMMA StandsIn ==
  ASSUME NEW D, NEW x \in Seq(D), NEW y \in Seq(D), NEW m \in Nat, NEW n \in Nat, NEW p,
         n + Len(x) <= Len(y), Stands(n, x, y), Stands(m, y, p)
  PROVE  Stands(m + n, x, p)
<1> SUFFICES ASSUME NEW u \in 1 .. Len(x) PROVE p[m + n + u] = x[u]
  BY DEF Stands
<1>1. Len(x) \in Nat /\ Len(y) \in Nat
  OBVIOUS
<1>2. y[n + u] = x[u]
  BY DEF Stands
<1>3. PICK v \in 1 .. Len(y) : v = n + u
  <2>1. n + u \in 1 .. Len(y)
    BY <1>1
  <2> QED BY <2>1
<1>4. p[m + v] = y[v]
  BY DEF Stands
<1>5. m + n + u = m + v
  BY <1>3
<1> QED BY <1>2, <1>3, <1>4, <1>5

(* Copying as many bytes as a text has, from where it stands, yields it.   *)
LEMMA ReadText ==
  ASSUME NEW D, NEW x \in Seq(D), NEW i \in Nat, NEW p, Stands(i, x, p)
  PROVE  Copy(p, i, Len(x)) = x
<1> DEFINE n == Len(x)
           s == SubSeq(p, i + 1, i + n)
<1>1. n \in Nat /\ i + 1 \in Int /\ i + n \in Int
  OBVIOUS
<1>n. Len(x) = n
  OBVIOUS
<1>2. \A u \in 1 .. n : p[i + u] = x[u] /\ x[u] \in D
  BY DEF Stands
<1> HIDE DEF n
<1>3. ASSUME NEW j \in i + 1 .. i + n PROVE p[j] \in D
  <2>1. j - i \in 1 .. n /\ i + (j - i) = j
    BY <1>1
  <2> DEFINE u == j - i
  <2> HIDE DEF u
  <2>2. p[i + u] \in D
    BY <1>2, <2>1 DEF u
  <2> QED BY <2>1, <2>2 DEF u
<1>4. /\ s \in Seq(D) /\ Len(s) = (IF i + 1 <= i + n THEN i + n - (i + 1) + 1 ELSE 0)
      /\ \A u \in 1 .. i + n - (i + 1) + 1 : s[u] = p[i + 1 + u - 1]
  BY <1>1, <1>3, SubSeqProperties
<1> HIDE DEF s
<1>5. Len(s) = n
  BY <1>1, <1>4
<1>6. ASSUME NEW u \in 1 .. n PROVE s[u] = x[u]
  <2>1. u \in 1 .. i + n - (i + 1) + 1 /\ i + 1 + u - 1 = i + u
    BY <1>1
  <2> QED BY <1>2, <1>4, <2>1
<1>7. s = x
  BY <1>4, <1>5, <1>6, <1>n, <1>1, SeqEqual
<1> QED BY <1>7 DEF s, Copy, n

LEMMA ReadByte ==
  ASSUME NEW D, NEW x \in Seq(D), Len(x) = 1, NEW i \in Nat, NEW p, Stands(i, x, p)
  PROVE  <<U8(p, i)>> = x
<1>1. p[i + 1] = x[1]
  BY DEF Stands
<1> QED BY <1>1 DEF U8

Pairs(value) == [u \in DOMAIN value |-> Pair(value[u])]

(* What U16() makes of the two bytes of a number is the number.            *)
LEMMA PairIs ==
  ASSUME NEW v \in Nat, v < 256 * 256
  PROVE  Pair(v) \in Seq(Byte) /\ Len(Pair(v)) = 2
         /\ \A p, i : Pair(v)[1] = U8(p, i) /\ Pair(v)[2] = U8(p, i + 1) => U16(p, i) = v
<1>p. PICK h \in 0 .. 255, l \in 0 .. 255 : SplitsIn(v, h, l)
  BY BytesOfPair
<1>1. h = v \div 256 /\ l = v % 256 /\ v = 256 * h + l
  BY <1>p DEF SplitsIn
<1>2. h \in Byte /\ l \in Byte /\ Pair(v) = <<h, l>>
  BY <1>1 DEF Byte, Pair
<1>3. v = h * 256 + l
  BY <1>1
<1>4. \A p, i : h = U8(p, i) /\ l = U8(p, i + 1) => U16(p, i) = v
  BY <1>3 DEF U16
<1> QED BY <1>2, <1>4

LEMMA PairsPlaced ==
  ASSUME NEW value \in Seq(Nat), Small(value, 256 * 256)
  PROVE  /\ FieldBytes(16, value) = FlattenSeq(Pairs(value))
         /\ FlattenSeq(Pairs(value)) \in Seq(Byte)
         /\ Len(Pairs(value)) = Len(value)
         /\ \A u \in 1 .. Len(value) : /\ Pairs(value)[u] = Pair(value[u])
                                       /\ Pairs(value)[u] \in Seq(Byte) /\ Len(Pairs(value)[u]) = 2
         /\ \E off : PlacedIn(off, Pairs(value))
<1> DEFINE N == Len(value)
<1>1. N \in Nat /\ DOMAIN value = 1 .. N
  OBVIOUS
<1>2. ASSUME NEW u \in 1 .. N PROVE Pair(value[u]) \in Seq(Byte) /\ Len(Pair(value[u])) = 2
  <2>1. value[u] \in Nat /\ value[u] < 256 * 256
    BY <1>1 DEF Small
  <2> QED BY <2>1, PairIs
<1>3. Pairs(value) = [u \in 1 .. N |-> Pair(value[u])]
  BY <1>1 DEF Pairs
<1> HIDE DEF N
<1>4. Pairs(value) \in Seq(Seq(Byte)) /\ Len(Pairs(value)) = N /\ \A u \in 1 .. N : Pairs(value)[u] = Pair(value[u])
  BY <1>1, <1>2, <1>3
<1>5. FlattenSeq(Pairs(value)) \in Seq(Byte) /\ \E off : PlacedIn(off, Pairs(value))
  BY <1>4, FlattenType, PlacedExists
<1>6. FieldBytes(16, value) = FlattenSeq(Pairs(value))
  BY DEF FieldBytes, Pairs
<1> QED BY <1>2, <1>4, <1>5, <1>6 DEF N

(* Where the bytes of a field of 16 bits stand, U16() reads its numbers.   *)
LEMMA ReadPair ==
  ASSUME NEW v \in Nat, v < 256 * 256, NEW i \in Nat, NEW p, Stands(i, Pair(v), p)
  PROVE  U16(p, i) = v
<1>1. Len(Pair(v)) = 2
  BY PairIs
<1>2. p[i + 1] = Pair(v)[1] /\ p[i + 2] = Pair(v)[2]
  BY <1>1 DEF Stands
<1>3. i + 1 + 1 = i + 2
  OBVIOUS
<1>4. Pair(v)[1] = U8(p, i) /\ Pair(v)[2] = U8(p, i + 1)
  BY <1>2, <1>3 DEF U8
<1> QED BY <1>4, PairIs

(* Two bytes are read as the number they were written of, four as its two  *)
(* halves.                                                                 *)
LEMMA ReadWord ==
  ASSUME NEW value \in Seq(Nat), Small(value, 256 * 256), Len(value) = 1,
         NEW i \in Nat, NEW p, Stands(i, FieldBytes(16, value), p)
  PROVE  <<U16(p, i)>> = value /\ Len(FieldBytes(16, value)) = 2
<1> DEFINE y == FlattenSeq(Pairs(value))
           x == Pair(value[1])
<1>1. PICK off : PlacedIn(off, Pairs(value))
  BY PairsPlaced
<1>2. /\ y \in Seq(Byte) /\ FieldBytes(16, value) = y /\ Len(Pairs(value)) = 1
      /\ Pairs(value)[1] = x /\ x \in Seq(Byte) /\ Len(x) = 2
      /\ value[1] \in Nat /\ value[1] < 256 * 256
  BY PairsPlaced DEF Small
<1>4. Stands(i, y, p) /\ y = FlattenSeq(Pairs(value))
  BY <1>2
<1> HIDE DEF x, y
<1>3. off[0] = 0 /\ off[1] = off[0] + Len(x) /\ off[1] = Len(y) /\ Stands(off[0], x, y)
  <2>1. /\ off[0] = 0 /\ off[1] = Len(y)
        /\ \A k \in 1 .. 1 : off[k] = off[k - 1] + Len(Pairs(value)[k]) /\ Stands(off[k - 1], Pairs(value)[k], y)
    BY <1>1, <1>2, <1>4 DEF PlacedIn
  <2>2. 1 \in 1 .. 1 /\ 1 - 1 = 0
    OBVIOUS
  <2> QED BY <1>2, <2>1, <2>2
<1>5. Len(y) = 2 /\ 0 + Len(x) <= Len(y) /\ 0 \in Nat /\ i + 0 = i /\ Stands(0, x, y)
  <2>1. Stands(0, x, y)
    BY <1>3
  <2>2. Len(y) = 2
    BY <1>2, <1>3
  <2>3. 0 + Len(x) <= Len(y) /\ 0 \in Nat
    BY <1>2, <2>2
  <2>4. i + 0 = i
    OBVIOUS
  <2> QED BY <2>1, <2>2, <2>3, <2>4
<1>6. Stands(i + 0, x, p)
  BY <1>2, <1>4, <1>5, StandsIn
<1>7. U16(p, i) = value[1]
  BY <1>2, <1>5, <1>6, ReadPair DEF x
<1> QED BY <1>2, <1>5, <1>7

LEMMA ReadHalves ==
  ASSUME NEW value \in Seq(Nat), Small(value, 256 * 256), Len(value) = 2,
         NEW i \in Nat, NEW p, Stands(i, FieldBytes(16, value), p)
  PROVE  U32(p, i) = value /\ Len(FieldBytes(16, value)) = 4
<1> DEFINE y == FlattenSeq(Pairs(value))
           x1 == Pair(value[1])
           x2 == Pair(value[2])
<1>1. PICK off : PlacedIn(off, Pairs(value))
  BY PairsPlaced
<1>2. /\ y \in Seq(Byte) /\ FieldBytes(16, value) = y /\ Len(Pairs(value)) = 2
      /\ Pairs(value)[1] = x1 /\ x1 \in Seq(Byte) /\ Len(x1) = 2
      /\ Pairs(value)[2] = x2 /\ x2 \in Seq(Byte) /\ Len(x2) = 2
      /\ value[1] \in Nat /\ value[1] < 256 * 256
      /\ value[2] \in Nat /\ value[2] < 256 * 256
  <2>1. 1 \in 1 .. Len(value) /\ 2 \in 1 .. Len(value) /\ DOMAIN value = 1 .. Len(value)
    OBVIOUS
  <2>2. y \in Seq(Byte) /\ FieldBytes(16, value) = y /\ Len(Pairs(value)) = 2
    BY PairsPlaced
  <2>3. /\ Pairs(value)[1] = x1 /\ x1 \in Seq(Byte) /\ Len(x1) = 2
        /\ Pairs(value)[2] = x2 /\ x2 \in Seq(Byte) /\ Len(x2) = 2
    BY <2>1, PairsPlaced
  <2>4. /\ value[1] \in Nat /\ value[1] < 256 * 256
        /\ value[2] \in Nat /\ value[2] < 256 * 256
    <3>1. \A u \in 1 .. Len(value) : value[u] \in Nat
      BY ElementOfSeq
    <3>2. \A u \in 1 .. Len(value) : value[u] < 256 * 256
      BY <2>1 DEF Small
    <3> QED BY <2>1, <3>1, <3>2
  <2> QED BY <2>2, <2>3, <2>4
<1>4. Stands(i, y, p) /\ y = FlattenSeq(Pairs(value))
  BY <1>2
<1> HIDE DEF x1, x2, y
<1>3. /\ off[0] = 0 /\ off[1] = off[0] + Len(x1) /\ off[2] = off[1] + Len(x2) /\ off[2] = Len(y)
      /\ Stands(off[0], x1, y) /\ Stands(off[1], x2, y)
  <2>1. /\ off[0] = 0 /\ off[2] = Len(y)
        /\ \A k \in 1 .. 2 : off[k] = off[k - 1] + Len(Pairs(value)[k]) /\ Stands(off[k - 1], Pairs(value)[k], y)
    BY <1>1, <1>2, <1>4 DEF PlacedIn
  <2>2. 1 \in 1 .. 2 /\ 2 \in 1 .. 2 /\ 1 - 1 = 0 /\ 2 - 1 = 1
    OBVIOUS
  <2> QED BY <1>2, <2>1, <2>2
<1>5. /\ Len(y) = 4 /\ 0 + Len(x1) <= Len(y) /\ 0 \in Nat /\ i + 0 = i /\ 2 + Len(x2) <= Len(y)
      /\ Stands(0, x1, y) /\ Stands(2, x2, y) /\ 2 \in Nat /\ i + 2 \in Nat
  <2>1. off[1] = 2 /\ off[2] = 4
    BY <1>2, <1>3
  <2> QED BY <1>2, <1>3, <2>1
<1>6. Stands(i + 0, x1, p) /\ Stands(i + 2, x2, p)
  BY <1>2, <1>4, <1>5, StandsIn
<1>7. U16(p, i) = value[1] /\ U16(p, i + 2) = value[2]
  BY <1>2, <1>5, <1>6, ReadPair DEF x1, x2
<1> QED BY <1>2, <1>5, <1>7 DEF U32

LEMMA BinIs ==
  ASSUME NEW name, NEW value
  PROVE  /\ DOMAIN Bin(name, value) = {<<name, <<>>>>} /\ Bin(name, value)[<<name, <<>>>>] = value
         /\ Bin(name, value) = [key \in {<<name, <<>>>>} |-> value]
BY DEF Bin

LEMMA NoFilesIs == DOMAIN NoFiles = {} /\ NoFiles = [key \in {} |-> <<>>]
BY DEF NoFiles

(* If each field has its file, the files show what the layout tells, and   *)
(* no more.                                                                *)
LEMMA FilesTell ==
  ASSUME NEW layout, Named(layout), NEW parts, Made(parts, layout)
  PROVE  Filled(Files(parts)) = Told(layout)
<1> DEFINE D == DOMAIN layout
           Key(k) == <<layout[k].name, <<>>>>
           Value(k) == layout[k].value
           told == {k \in D : Value(k) # <<>>}
           all == UNION {DOMAIN parts[k] : k \in DOMAIN parts}
           LastWith(key) == CHOOSE k \in DOMAIN parts :
                          key \in DOMAIN parts[k] /\ \A m \in DOMAIN parts : m > k => key \notin DOMAIN parts[m]
           made == Files(parts)
<1>1. \A j, k \in D : Key(j) = Key(k) => j = k
  BY DEF Named
<1>2. DOMAIN parts = D
  BY DEF Made
<1>3. ASSUME NEW k \in D
      PROVE  /\ DOMAIN parts[k] \subseteq {Key(k)}
             /\ Key(k) \in DOMAIN parts[k] => parts[k][Key(k)] = Value(k)
             /\ k \in told => Key(k) \in DOMAIN parts[k]
  <2>1. CASE parts[k] = Bin(layout[k].name, layout[k].value)
    <3> DEFINE b == Bin(layout[k].name, layout[k].value)
    <3>1. DOMAIN b = {Key(k)} /\ b[Key(k)] = Value(k)
      BY BinIs
    <3> HIDE DEF b, Key, Value
    <3> QED BY <2>1, <3>1 DEF b
  <2>2. CASE Value(k) = <<>> /\ parts[k] = NoFiles
    BY <2>2, NoFilesIs
  <2> QED BY <2>1, <2>2 DEF Made
<1>4. made = [key \in all |-> parts[LastWith(key)][key]]
  BY DEF Files
<1>n. D \subseteq Nat
  BY DEF Named
<1> HIDE DEF D, Key, Value, told
<1>5. ASSUME NEW k \in D, Key(k) \in DOMAIN parts[k]
      PROVE  Key(k) \in all /\ made[Key(k)] = Value(k)
  <2>1. Key(k) \in all
    BY <1>2, <1>5
  <2>2. \A m \in D : Key(k) \in DOMAIN parts[m] => m = k
    BY <1>1, <1>3
  <2>3. \A m \in DOMAIN parts : m > k => Key(k) \notin DOMAIN parts[m]
    <3>1. \A m \in D : m > k => m # k
      BY <1>n
    <3> QED BY <1>2, <2>2, <3>1
  <2>4. LastWith(Key(k)) = k
    BY <1>2, <1>5, <2>2, <2>3
  <2> HIDE DEF LastWith, all, made
  <2> QED BY <1>3, <1>4, <1>5, <2>1, <2>4
<1>6. \A key \in all : \E k \in D : key = Key(k) /\ Key(k) \in DOMAIN parts[k]
  BY <1>2, <1>3
<1>7. DOMAIN made = all
  BY <1>4
<1> HIDE DEF LastWith, all, made
<1>8. {key \in DOMAIN made : made[key] # <<>>} = {Key(k) : k \in told}
  <2>1. ASSUME NEW key \in DOMAIN made, made[key] # <<>> PROVE key \in {Key(k) : k \in told}
    <3>1. PICK k \in D : key = Key(k) /\ Key(k) \in DOMAIN parts[k]
      BY <1>6, <1>7
    <3>2. Value(k) # <<>>
      BY <1>5, <2>1, <3>1
    <3> QED BY <3>1, <3>2 DEF told
  <2>2. ASSUME NEW k \in told PROVE Key(k) \in DOMAIN made /\ made[Key(k)] # <<>>
    <3>1. k \in D /\ Value(k) # <<>>
      BY DEF told
    <3> QED BY <1>3, <1>5, <1>7, <3>1
  <2> QED BY <2>1, <2>2
<1>9. Filled(made) = [key \in {Key(k) : k \in told} |-> made[key]]
  BY <1>8 DEF Filled
<1>10. Told(layout) = [key \in {Key(k) : k \in told} |-> Value(CHOOSE k \in told : Key(k) = key)]
  <2>1. \A k \in D : layout[k].nrs = <<>> /\ layout[k].name # "reserved"
    BY DEF Named, D
  <2>2. told = {k \in DOMAIN layout : layout[k].name # "reserved" /\ layout[k].value # <<>>}
    BY <2>1 DEF told, D, Value
  <2>3. \A k \in told : <<layout[k].name, layout[k].nrs>> = Key(k)
    BY <2>1 DEF Key, told
  <2> DEFINE K(k) == <<layout[k].name, layout[k].nrs>>
  <2>4. Told(layout) = [key \in {K(k) : k \in told} |-> Value(CHOOSE k \in told : K(k) = key)]
    BY <2>2 DEF Told, Value
  <2> HIDE DEF K
  <2>5. \A k \in told : K(k) = Key(k)
    BY <2>3 DEF K
  <2>6. {K(k) : k \in told} = {Key(k) : k \in told}
    BY <2>5
  <2>7. \A key \in {Key(k) : k \in told} : (CHOOSE k \in told : K(k) = key) = (CHOOSE k \in told : Key(k) = key)
    BY <2>5
  <2> QED BY <2>4, <2>6, <2>7
<1>11. \A key \in {Key(k) : k \in told} : made[key] = Value(CHOOSE k \in told : Key(k) = key)
  <2> TAKE key \in {Key(k) : k \in told}
  <2>1. PICK k \in told : key = Key(k)
    OBVIOUS
  <2>2. (CHOOSE j \in told : Key(j) = key) = k
    BY <1>1, <2>1 DEF told
  <2>3. made[key] = Value(k)
    BY <1>3, <1>5, <2>1 DEF told
  <2> QED BY <2>2, <2>3
<1> QED BY <1>9, <1>10, <1>11 DEF made

(* A parser that makes one file makes what Files() makes of it.            *)
LEMMA FilesOfOne ==
  ASSUME NEW name, NEW value
  PROVE  Files(<<Bin(name, value)>>) = Bin(name, value)
<1> DEFINE b == Bin(name, value)
           parts == <<b>>
           key == <<name, <<>>>>
           LastWith(ky) == CHOOSE k \in DOMAIN parts :
                          ky \in DOMAIN parts[k] /\ \A m \in DOMAIN parts : m > k => ky \notin DOMAIN parts[m]
           all == UNION {DOMAIN parts[k] : k \in DOMAIN parts}
<1>1. DOMAIN parts = {1} /\ parts[1] = b
  OBVIOUS
<1>2. DOMAIN b = {key} /\ b = [ky \in {key} |-> value] /\ b[key] = value
  BY BinIs
<1>3. Files(parts) = [ky \in all |-> parts[LastWith(ky)][ky]]
  BY DEF Files
<1> HIDE DEF parts, b
<1>4. all = {key}
  BY <1>1, <1>2
<1>5. LastWith(key) = 1
  BY <1>1, <1>2
<1> HIDE DEF LastWith, all, key
<1>6. Files(parts) = [ky \in {key} |-> value]
  BY <1>1, <1>2, <1>3, <1>4, <1>5
<1> QED BY <1>2, <1>6 DEF b, parts

LEMMA OneFileTells ==
  ASSUME NEW layout, Named(layout), Len(layout) = 1
  PROVE  Filled(Bin(layout[1].name, layout[1].value)) = Told(layout)
<1> DEFINE b == Bin(layout[1].name, layout[1].value)
<1>1. DOMAIN layout = {1}
  BY DEF Named
<1>2. DOMAIN <<b>> = {1} /\ <<b>>[1] = b
  OBVIOUS
<1>3. Made(<<b>>, layout)
  BY <1>1, <1>2 DEF Made
<1> QED BY <1>3, FilesTell, FilesOfOne

LEMMA FileIs == \A name, v : File(name, v) = Bin(name, <<v>>)
BY DEF File

(* A text without NULs is all of it.                                       *)
LEMMA StrIs ==
  ASSUME NEW name, NEW bytes \in Seq(Nat), \A u \in DOMAIN bytes : bytes[u] > 0
  PROVE  Str(name, bytes) = Bin(name, bytes)
<1>1. {k \in DOMAIN bytes : bytes[k] = 0} = {}
  OBVIOUS
<1> QED BY <1>1 DEF Str

(* The fields of a layout stand one behind the other where its bytes do.   *)
LEMMA FieldsStand ==
  ASSUME NEW layout, WholeBytes(layout), NEW base \in Nat, NEW p, Stands(base, Bytes(layout), p)
  PROVE  \E off : FieldsAt(off, layout, base, p)
<1> DEFINE N == Len(layout)
           b == Bytes(layout)
           parts == Fields(layout)
<1>1. N \in Nat
  BY DEF WholeBytes, IsLayout
<1>2. /\ b = FlattenSeq(parts) /\ parts \in Seq(Seq(Byte)) /\ Len(parts) = N
      /\ \A k \in 1 .. N : parts[k] = FieldOf(layout, k)
  BY BytesOfFields
<1>3. b \in Seq(Byte)
  BY BytesType DEF WholeBytes
<1> HIDE DEF N, b, parts
<1>4. PICK rel : PlacedIn(rel, parts)
  BY <1>2, PlacedExists
<1>5. /\ rel \in [0 .. N -> Nat] /\ rel[0] = 0 /\ rel[N] = Len(b)
      /\ \A k \in 1 .. N : /\ rel[k] = rel[k - 1] + Len(parts[k]) /\ rel[k] <= rel[N]
                           /\ Stands(rel[k - 1], parts[k], b)
  BY <1>2, <1>4 DEF PlacedIn
<1> DEFINE off == [k \in 0 .. N |-> base + rel[k]]
<1>6. \A k \in 0 .. N : off[k] = base + rel[k] /\ rel[k] \in Nat /\ off[k] \in Nat
  BY <1>1, <1>5
<1> HIDE DEF off
<1>7. off[0] = base /\ off[N] = base + Len(b)
  BY <1>1, <1>5, <1>6
<1>8. ASSUME NEW k \in 1 .. N
      PROVE  /\ off[k - 1] \in Nat /\ off[k] = off[k - 1] + Len(FieldOf(layout, k))
             /\ Stands(off[k - 1], FieldOf(layout, k), p)
  <2>1. k \in 0 .. N /\ k - 1 \in 0 .. N /\ N \in 0 .. N
    BY <1>1
  <2> DEFINE x == parts[k]
             n == rel[k - 1]
  <2>2. x \in Seq(Byte) /\ x = FieldOf(layout, k)
    BY <1>2
  <2>3. /\ n \in Nat /\ rel[k] = n + Len(x) /\ rel[k] <= Len(b) /\ Stands(n, x, b)
        /\ off[k - 1] = base + n /\ off[k] = base + rel[k]
    BY <1>5, <1>6, <2>1
  <2>4. Stands(base, b, p)
    BY DEF b
  <2> HIDE DEF x, n
  <2>5. Len(x) \in Nat /\ n + Len(x) <= Len(b)
    BY <2>2, <2>3
  <2>6. Stands(base + n, x, p)
    BY <1>3, <2>2, <2>3, <2>4, <2>5, StandsIn
  <2>7. base + n \in Nat /\ base + rel[k] = base + n + Len(x)
    BY <2>3, <2>5
  <2> QED BY <2>2, <2>3, <2>6, <2>7
<1>9. FieldsAt(off, layout, base, p)
  BY <1>7, <1>8 DEF FieldsAt, N, b
<1> QED BY <1>9
-----------------------------------------------------------------------------
(* What the parsers read of a field.                                       *)
LEMMA ValueIs ==
  ASSUME NEW layout, WholeBytes(layout), NEW k \in 1 .. Len(layout), NEW w, NEW what, Holds(layout, k, w, what)
  PROVE  /\ layout[k].value \in Seq(Nat)
         /\ FieldOf(layout, k) = FieldBytes(w, layout[k].value)
         /\ w = 8 => Small(layout[k].value, 256)
         /\ w = 16 => Small(layout[k].value, 256 * 256)
         /\ w = 24 => Small(layout[k].value, 256 * 256 * 256)
<1>1. layout[k].value \in Seq(Nat) /\ layout[k].width = w
  BY DEF WholeBytes, IsLayout, Holds
<1>2. Small(layout[k].value, Limit(w))
  BY DEF Holds, Small
<1> QED BY <1>1, <1>2, LimitsAre DEF FieldOf

(* Of each kind of field: how long it is, and what is read of it.          *)
LEMMA NumberRead ==
  ASSUME NEW layout, WholeBytes(layout), NEW k \in 1 .. Len(layout), Holds(layout, k, 8, "number"),
         NEW i \in Nat, NEW p, Stands(i, FieldOf(layout, k), p)
  PROVE  /\ Len(FieldOf(layout, k)) = 1
         /\ ByteAt(p, i, layout[k].value)
<1> DEFINE x == layout[k].value
<1>1. x \in Seq(Nat) /\ FieldOf(layout, k) = x
  <2>1. x \in Seq(Nat) /\ FieldOf(layout, k) = FieldBytes(8, x)
    BY ValueIs
  <2> HIDE DEF x
  <2> QED BY <2>1 DEF FieldBytes
<1>2. Len(x) = 1
  BY DEF Holds
<1> HIDE DEF x
<1>3. <<U8(p, i)>> = x
  BY <1>1, <1>2, ReadByte
<1> QED BY <1>1, <1>2, <1>3, FileIs DEF ByteAt, x

LEMMA LengthRead ==
  ASSUME NEW layout, WholeBytes(layout), NEW k \in 1 .. Len(layout), Holds(layout, k, 8, "length"),
         NEW i \in Nat, NEW p, Stands(i, FieldOf(layout, k), p)
  PROVE  /\ Len(FieldOf(layout, k)) = 1
         /\ ByteAt(p, i, layout[k].value)
<1> DEFINE x == layout[k].value
           n == Len(layout[k + 1].value)
<1>1. x \in Seq(Nat) /\ FieldOf(layout, k) = x
  <2>1. x \in Seq(Nat) /\ FieldOf(layout, k) = FieldBytes(8, x)
    BY ValueIs
  <2> HIDE DEF x
  <2> QED BY <2>1 DEF FieldBytes
<1>2. x = <<n>>
  BY DEF Holds
<1> HIDE DEF x, n
<1>3. Len(x) = 1 /\ x[1] = n
  BY <1>2
<1>4. <<U8(p, i)>> = x
  BY <1>1, <1>3, ReadByte
<1> QED BY <1>1, <1>3, <1>4, FileIs DEF ByteAt, x, n

LEMMA WordRead ==
  ASSUME NEW layout, WholeBytes(layout), NEW k \in 1 .. Len(layout), Holds(layout, k, 16, "number"),
         NEW i \in Nat, NEW p, Stands(i, FieldOf(layout, k), p)
  PROVE  /\ Len(FieldOf(layout, k)) = 2
         /\ \A name : File(name, U16(p, i)) = Bin(name, layout[k].value)
<1> DEFINE x == layout[k].value
<1>1. x \in Seq(Nat) /\ FieldOf(layout, k) = FieldBytes(16, x) /\ Small(x, 256 * 256)
  BY ValueIs
<1>2. Len(x) = 1
  BY DEF Holds
<1> HIDE DEF x
<1>3. <<U16(p, i)>> = x /\ Len(FieldBytes(16, x)) = 2
  BY <1>1, <1>2, ReadWord
<1> QED BY <1>1, <1>3, FileIs DEF x

LEMMA HalvesRead ==
  ASSUME NEW layout, WholeBytes(layout), NEW k \in 1 .. Len(layout), Holds(layout, k, 16, "halves"),
         NEW i \in Nat, NEW p, Stands(i, FieldOf(layout, k), p)
  PROVE  Len(FieldOf(layout, k)) = 4 /\ U32(p, i) = layout[k].value
<1> DEFINE x == layout[k].value
<1>1. x \in Seq(Nat) /\ FieldOf(layout, k) = FieldBytes(16, x) /\ Small(x, 256 * 256)
  BY ValueIs
<1>2. Len(x) = 2
  BY DEF Holds
<1> HIDE DEF x
<1> QED BY <1>1, <1>2, ReadHalves DEF x

LEMMA TextRead ==
  ASSUME NEW layout, WholeBytes(layout), NEW k \in 1 .. Len(layout), Holds(layout, k, 8, "text"),
         NEW i \in Nat, NEW p, Stands(i, FieldOf(layout, k), p)
  PROVE  /\ Len(FieldOf(layout, k)) = Len(layout[k].value)
         /\ CopiedFrom(p, i, layout[k].value)
<1> DEFINE x == layout[k].value
<1>1. x \in Seq(Nat) /\ FieldOf(layout, k) = x
  <2>1. x \in Seq(Nat) /\ FieldOf(layout, k) = FieldBytes(8, x)
    BY ValueIs
  <2> HIDE DEF x
  <2> QED BY <2>1 DEF FieldBytes
<1>2. \A u \in DOMAIN x : x[u] > 0
  BY DEF Holds
<1> HIDE DEF x
<1>3. Len(x) \in Nat /\ (Len(x) = 0 => x = <<>>)
  BY <1>1
<1>4. Copy(p, i, Len(x)) = x
  BY <1>1, ReadText
<1>5. \A name : Str(name, x) = Bin(name, x)
  BY <1>1, <1>2, StrIs
<1> QED BY <1>1, <1>2, <1>3, <1>4, <1>5 DEF x, CopiedFrom

LEMMA CodeRead ==
  ASSUME NEW layout, WholeBytes(layout), NEW k \in 1 .. Len(layout), Holds(layout, k, 8, "code"),
         NEW i \in Nat, NEW p, Stands(i, FieldOf(layout, k), p)
  PROVE  /\ Len(FieldOf(layout, k)) = Len(layout[k].value)
         /\ CopiedFrom(p, i, layout[k].value)
         /\ Len(layout[k].value) = 3
<1> DEFINE x == layout[k].value
<1>1. x \in Seq(Nat) /\ FieldOf(layout, k) = x
  <2>1. x \in Seq(Nat) /\ FieldOf(layout, k) = FieldBytes(8, x)
    BY ValueIs
  <2> HIDE DEF x
  <2> QED BY <2>1 DEF FieldBytes
<1>2. (\A u \in DOMAIN x : x[u] > 0) /\ Len(x) = 3
  BY DEF Holds
<1> HIDE DEF x
<1>3. Len(x) \in Nat /\ (Len(x) = 0 => x = <<>>)
  BY <1>1
<1>4. Copy(p, i, Len(x)) = x
  BY <1>1, ReadText
<1>5. \A name : Str(name, x) = Bin(name, x)
  BY <1>1, <1>2, StrIs
<1> QED BY <1>1, <1>2, <1>3, <1>4, <1>5 DEF x, CopiedFrom
-----------------------------------------------------------------------------
(* A descriptor of a shape has its names, and whole bytes.                 *)
LEMMA ShapedIs ==
  ASSUME NEW d, IsLayout(d.layout), NEW tag, NEW shape, IsShape(shape), Shaped(d, tag, shape)
  PROVE  /\ WholeBytes(d.layout) /\ Named(d.layout) /\ Len(d.layout) = Len(shape)
         /\ \A k \in 1 .. Len(shape) :
              d.layout[k].name = shape[k][1] /\ Holds(d.layout, k, shape[k][2], shape[k][3])
<1> DEFINE layout == d.layout
           N == Len(shape)
<1>1. /\ Len(layout) = N /\ N \in Nat /\ DOMAIN layout = 1 .. N /\ DOMAIN shape = 1 .. N
      /\ \A k \in 1 .. N : layout[k].name = shape[k][1] /\ layout[k].nrs = <<>>
      /\ \A k \in 1 .. N : Holds(layout, k, shape[k][2], shape[k][3])
  BY DEF Shaped, IsLayout, IsShape
<1> HIDE DEF N
<1>2. Named(layout)
  BY <1>1 DEF Named, IsShape
<1>3. ASSUME NEW k \in 1 .. N
      PROVE  layout[k].width \in {8, 16, 24} /\ Small(layout[k].value, Limit(layout[k].width))
  <2>1. shape[k][2] \in {8, 16, 24} /\ Holds(layout, k, shape[k][2], shape[k][3])
    BY <1>1 DEF IsShape
  <2> QED BY <2>1 DEF Holds, Small
<1>4. WholeBytes(layout)
  BY <1>1, <1>3 DEF WholeBytes
<1> QED BY <1>1, <1>2, <1>4 DEF N

(* Descriptors of one field.                                               *)
LEMMA OneField ==
  ASSUME NEW d, IsLayout(d.layout), NEW tag, NEW name, name # "reserved", NEW w \in {8, 16, 24}, NEW what,
         Shaped(d, tag, <<<<name, w, what>>>>), NEW base \in Nat, NEW p, Stands(base, Bytes(d.layout), p)
  PROVE  /\ WholeBytes(d.layout) /\ Named(d.layout) /\ Len(d.layout) = 1 /\ 1 \in 1 .. Len(d.layout)
         /\ d.layout[1].name = name /\ Holds(d.layout, 1, w, what)
         /\ Stands(base, FieldOf(d.layout, 1), p)
         /\ base + BodyLength(d) = base + Len(FieldOf(d.layout, 1))
         /\ Filled(Bin(name, d.layout[1].value)) = Told(d.layout)
<1> DEFINE shape == <<<<name, w, what>>>>
           layout == d.layout
<1>1. Len(shape) = 1 /\ DOMAIN shape = 1 .. 1 /\ shape[1] = <<name, w, what>>
  OBVIOUS
<1>2. shape[1][1] = name /\ shape[1][2] = w /\ shape[1][3] = what
  BY <1>1
<1>3. \A k \in 1 .. 1 : k = 1
  OBVIOUS
<1>s. Shaped(d, tag, shape)
  OBVIOUS
<1> HIDE DEF shape
<1>4. IsShape(shape)
  BY <1>1, <1>2, <1>3 DEF IsShape
<1>5. /\ WholeBytes(layout) /\ Named(layout) /\ Len(layout) = 1
      /\ layout[1].name = name /\ Holds(layout, 1, w, what)
  BY <1>1, <1>2, <1>4, <1>s, ShapedIs
<1>6. PICK off : FieldsAt(off, layout, base, p)
  BY <1>5, FieldsStand
<1>7. /\ off[0] = base /\ off[1] = base + Len(Bytes(layout))
      /\ \A k \in 1 .. 1 : off[k] = off[k - 1] + Len(FieldOf(layout, k)) /\ Stands(off[k - 1], FieldOf(layout, k), p)
  BY <1>5, <1>6 DEF FieldsAt
<1>8. 1 \in 1 .. 1 /\ 1 - 1 = 0
  OBVIOUS
<1>9. base + Len(Bytes(layout)) = base + Len(FieldOf(layout, 1)) /\ Stands(base, FieldOf(layout, 1), p)
  BY <1>7, <1>8
<1>10. Filled(Bin(name, layout[1].value)) = Told(layout)
  BY <1>5, OneFileTells
<1> QED BY <1>5, <1>8, <1>9, <1>10 DEF BodyLength

LEMMA BodyIs ==
  ASSUME NEW d, IsLayout(d.layout)
  PROVE  BodyLength(d) \in Nat
BY BytesType DEF BodyLength

LEMMA OneLength ==
  ASSUME NEW d, NEW n \in Nat, BodyLength(d) \in Nat, NEW base \in Nat, NEW m, m = n, base + BodyLength(d) = base + m
  PROVE  BodyLength(d) = n
OBVIOUS

(* What a parser of one field makes of it shows it: a byte, a number of    *)
(* sixteen bits, the two halves of one of 32, a text.                      *)
LEMMA NumberShown ==
  ASSUME NEW d, IsLayout(d.layout), NEW tag, NEW name, name # "reserved",
         Shaped(d, tag, <<<<name, 8, "number">>>>), NEW base \in Nat, NEW p, Stands(base, Bytes(d.layout), p)
  PROVE  BodyLength(d) = 1 /\ Filled(File(name, U8(p, base))) = Told(d.layout)
<1>1. /\ WholeBytes(d.layout) /\ 1 \in 1 .. Len(d.layout) /\ Holds(d.layout, 1, 8, "number")
      /\ Stands(base, FieldOf(d.layout, 1), p)
      /\ base + BodyLength(d) = base + Len(FieldOf(d.layout, 1))
      /\ Filled(Bin(name, d.layout[1].value)) = Told(d.layout)
  BY OneField
<1>2. Len(FieldOf(d.layout, 1)) = 1 /\ File(name, U8(p, base)) = Bin(name, d.layout[1].value)
  BY <1>1, NumberRead DEF ByteAt
<1>3. BodyLength(d) = 1
  BY <1>1, <1>2, BodyIs, OneLength
<1> QED BY <1>1, <1>2, <1>3

LEMMA WordShown ==
  ASSUME NEW d, IsLayout(d.layout), NEW tag, NEW name, name # "reserved",
         Shaped(d, tag, <<<<name, 16, "number">>>>), NEW base \in Nat, NEW p, Stands(base, Bytes(d.layout), p)
  PROVE  BodyLength(d) = 2 /\ Filled(File(name, U16(p, base))) = Told(d.layout)
         /\ File(name, U16(p, base)) = Bin(name, d.layout[1].value)
<1>1. /\ WholeBytes(d.layout) /\ 1 \in 1 .. Len(d.layout) /\ Holds(d.layout, 1, 16, "number")
      /\ Stands(base, FieldOf(d.layout, 1), p)
      /\ base + BodyLength(d) = base + Len(FieldOf(d.layout, 1))
      /\ Filled(Bin(name, d.layout[1].value)) = Told(d.layout)
  BY OneField
<1>2. Len(FieldOf(d.layout, 1)) = 2 /\ File(name, U16(p, base)) = Bin(name, d.layout[1].value)
  BY <1>1, WordRead
<1>3. BodyLength(d) = 2
  BY <1>1, <1>2, BodyIs, OneLength
<1> QED BY <1>1, <1>2, <1>3

LEMMA HalvesShown ==
  ASSUME NEW d, IsLayout(d.layout), NEW tag, NEW name, name # "reserved",
         Shaped(d, tag, <<<<name, 16, "halves">>>>), NEW base \in Nat, NEW p, Stands(base, Bytes(d.layout), p)
  PROVE  BodyLength(d) = 4 /\ Filled(Bin(name, U32(p, base))) = Told(d.layout)
<1>1. /\ WholeBytes(d.layout) /\ 1 \in 1 .. Len(d.layout) /\ Holds(d.layout, 1, 16, "halves")
      /\ Stands(base, FieldOf(d.layout, 1), p)
      /\ base + BodyLength(d) = base + Len(FieldOf(d.layout, 1))
      /\ Filled(Bin(name, d.layout[1].value)) = Told(d.layout)
  BY OneField
<1>2. Len(FieldOf(d.layout, 1)) = 4 /\ U32(p, base) = d.layout[1].value
  BY <1>1, HalvesRead
<1>3. BodyLength(d) = 4
  BY <1>1, <1>2, BodyIs, OneLength
<1> QED BY <1>1, <1>2, <1>3

LEMMA TextShown ==
  ASSUME NEW d, IsLayout(d.layout), NEW tag, NEW name, name # "reserved",
         Shaped(d, tag, <<<<name, 8, "text">>>>), NEW base \in Nat, NEW p, Stands(base, Bytes(d.layout), p)
  PROVE  Filled(Str(name, Copy(p, base, BodyLength(d)))) = Told(d.layout)
<1>1. /\ WholeBytes(d.layout) /\ 1 \in 1 .. Len(d.layout) /\ Holds(d.layout, 1, 8, "text")
      /\ Stands(base, FieldOf(d.layout, 1), p)
      /\ base + BodyLength(d) = base + Len(FieldOf(d.layout, 1))
      /\ Filled(Bin(name, d.layout[1].value)) = Told(d.layout)
  BY OneField
<1> DEFINE x == d.layout[1].value
<1>2. Len(FieldOf(d.layout, 1)) = Len(x) /\ CopiedFrom(p, base, x)
  BY <1>1, TextRead
<1>i. BodyLength(d) \in Nat
  BY BodyIs
<1> HIDE DEF x
<1>3. Len(x) \in Nat /\ Str(name, Copy(p, base, Len(x))) = Bin(name, x)
  BY <1>2 DEF CopiedFrom
<1>4. BodyLength(d) = Len(x)
  BY <1>1, <1>2, <1>3, <1>i, OneLength
<1> QED BY <1>1, <1>3, <1>4 DEF x

(* A descriptor of several fields has them one behind the other.           *)
LEMMA SomeFields ==
  ASSUME NEW d, IsLayout(d.layout), NEW tag, NEW shape, NEW n, n = Len(shape), IsShape(shape), Shaped(d, tag, shape),
         NEW base \in Nat, NEW p, Stands(base, Bytes(d.layout), p)
  PROVE  /\ WholeBytes(d.layout) /\ Named(d.layout) /\ Len(d.layout) = n /\ DOMAIN d.layout = 1 .. n
         /\ \A k \in 1 .. n : d.layout[k].name = shape[k][1] /\ Holds(d.layout, k, shape[k][2], shape[k][3])
         /\ \E off : FieldStarts(off, d, n, base, p)
<1>1. /\ WholeBytes(d.layout) /\ Named(d.layout) /\ Len(d.layout) = n
      /\ \A k \in 1 .. n : d.layout[k].name = shape[k][1] /\ Holds(d.layout, k, shape[k][2], shape[k][3])
  BY ShapedIs
<1>2. PICK off : FieldsAt(off, d.layout, base, p)
  BY <1>1, FieldsStand
<1>3. BodyLength(d) = Len(Bytes(d.layout)) /\ BodyLength(d) \in Nat
  BY BodyIs DEF BodyLength
<1>4. FieldStarts(off, d, n, base, p)
  BY <1>1, <1>2, <1>3 DEF FieldsAt, FieldStarts
<1>5. DOMAIN d.layout = 1 .. n
  BY <1>1 DEF Named
<1> QED BY <1>1, <1>4, <1>5

(* The parser of the descriptor 0xa0 leaves out an empty text, which tells *)
(* nothing.                                                                *)
LEMMA Shown_0xa0 ==
  ASSUME NEW d, IsLayout(d.layout), NEW p, Stands(2, Bytes(d.layout), p),
         Shaped(d, 160, <<<<"reference_level", 8, "number">>, <<"free_text", 8, "text">>>>)
  PROVE  Filled(descriptor_0xa0_parser(p, BodyLength(d))) = Told(d.layout)
<1> DEFINE shape == <<<<"reference_level", 8, "number">>, <<"free_text", 8, "text">>>>
           layout == d.layout
           len == BodyLength(d)
           Value(k) == layout[k].value
<1>1. Len(shape) = 2 /\ DOMAIN shape = 1 .. 2 /\ 2 \in Nat
  OBVIOUS
<1>2. /\ shape[1][1] = "reference_level" /\ shape[1][2] = 8 /\ shape[1][3] = "number"
      /\ shape[2][1] = "free_text" /\ shape[2][2] = 8 /\ shape[2][3] = "text"
  OBVIOUS
<1>3. IsShape(shape)
  BY <1>1, <1>2 DEF IsShape
<1>4. Shaped(d, 160, shape)
  OBVIOUS
<1> HIDE DEF shape
<1>5. /\ WholeBytes(layout) /\ Named(layout) /\ Len(layout) = 2 /\ DOMAIN layout = 1 .. 2
      /\ \A k \in 1 .. 2 : layout[k].name = shape[k][1] /\ Holds(layout, k, shape[k][2], shape[k][3])
      /\ \E off : FieldStarts(off, d, 2, 2, p)
  BY <1>1, <1>3, <1>4, SomeFields
<1>6. PICK off : FieldStarts(off, d, 2, 2, p)
  BY <1>5
<1>7. /\ off[0] = 2 /\ off[2] = 2 + len /\ len \in Nat
      /\ 1 \in 1 .. Len(layout) /\ off[0] \in Nat /\ off[1] = off[0] + Len(FieldOf(layout, 1))
      /\ Stands(off[0], FieldOf(layout, 1), p)
      /\ 2 \in 1 .. Len(layout) /\ off[1] \in Nat /\ off[2] = off[1] + Len(FieldOf(layout, 2))
      /\ Stands(off[1], FieldOf(layout, 2), p)
  <2>1. 1 \in 1 .. 2 /\ 2 \in 1 .. 2 /\ 1 - 1 = 0 /\ 2 - 1 = 1
    OBVIOUS
  <2> QED BY <1>6, <2>1 DEF FieldStarts
<1>8. /\ layout[1].name = "reference_level" /\ Holds(layout, 1, 8, "number")
      /\ layout[2].name = "free_text" /\ Holds(layout, 2, 8, "text")
  <2>1. 1 \in 1 .. 2 /\ 2 \in 1 .. 2
    OBVIOUS
  <2> QED BY <1>2, <1>5, <2>1
<1>9. /\ Len(FieldOf(layout, 1)) = 1
      /\ ByteAt(p, off[0], Value(1))
  BY <1>5, <1>7, <1>8, NumberRead
<1>10. Len(FieldOf(layout, 2)) = Len(Value(2)) /\ CopiedFrom(p, off[1], Value(2))
  BY <1>5, <1>7, <1>8, TextRead
<1> HIDE DEF Value, len
<1>11. Len(Value(2)) \in Nat /\ (Len(Value(2)) = 0 => Value(2) = <<>>)
  BY <1>10 DEF CopiedFrom
<1> DEFINE m == Len(Value(2))
<1>12. off[1] = 3 /\ m \in Nat /\ len = 1 + m
  <2>1. off[0] = 2 /\ off[1] = off[0] + 1 /\ off[2] = 2 + len /\ off[2] = off[1] + m /\ m \in Nat /\ len \in Nat
    BY <1>7, <1>9, <1>10, <1>11
  <2> HIDE DEF m
  <2> QED BY <2>1
<1> HIDE DEF m
<1>13. len >= 3 - 2 /\ len - 1 = m /\ (len > 1 <=> m # 0)
  BY <1>12
<1> DEFINE first == File("reference_level", U8(p, 2))
           second == IF len > 1 THEN Str("free_text", Copy(p, 3, len - 1)) ELSE NoFiles
           parts == <<first, second>>
<1>14. first = Bin("reference_level", Value(1))
  BY <1>7, <1>9 DEF ByteAt
<1>15. second = Bin("free_text", Value(2)) \/ (Value(2) = <<>> /\ second = NoFiles)
  <2>1. Str("free_text", Copy(p, 3, len - 1)) = Bin("free_text", Value(2))
    <3>1. \A name : Str(name, Copy(p, 3, m)) = Bin(name, Value(2))
      BY <1>10, <1>12 DEF CopiedFrom, m
    <3> QED BY <3>1, <1>13
  <2>2. CASE m = 0
    BY <1>11, <1>13, <2>2 DEF m
  <2>3. CASE m # 0
    <3>1. len > 1
      BY <1>13, <2>3
    <3>2. second = Str("free_text", Copy(p, 3, len - 1))
      BY <3>1
    <3> QED BY <2>1, <3>2
  <2> QED BY <2>2, <2>3
<1>16. descriptor_0xa0_parser(p, len) = Files(parts)
  BY <1>13 DEF descriptor_0xa0_parser, Checked, descriptor_is_parseable
<1> HIDE DEF first, second
<1>17. DOMAIN parts = 1 .. 2 /\ parts[1] = first /\ parts[2] = second /\ \A k \in 1 .. 2 : k = 1 \/ k = 2
  OBVIOUS
<1> HIDE DEF parts
<1>18. Made(parts, layout)
  BY <1>5, <1>8, <1>14, <1>15, <1>17 DEF Made, Value
<1> QED BY <1>5, <1>16, <1>18, FilesTell DEF len

LEMMA FiveFields ==
  ASSUME NEW d, IsLayout(d.layout), NEW tag, NEW shape, Fives(shape), Shaped(d, tag, shape),
         NEW base \in Nat, NEW p, Stands(base, Bytes(d.layout), p)
  PROVE  /\ WholeBytes(d.layout) /\ Named(d.layout) /\ Len(d.layout) = 5 /\ DOMAIN d.layout = 1 .. 5
         /\ \A k \in 1 .. 5 : d.layout[k].name = shape[k][1]
         /\ Holds(d.layout, 1, 8, shape[1][3])
         /\ Stands(base, FieldOf(d.layout, 1), p)
         /\ \A i \in Nat :
              i = base + Len(FieldOf(d.layout, 1)) => TwoTextsAt(p, i, d.layout, base + BodyLength(d))
<1> DEFINE layout == d.layout
<1>1. Len(shape) = 5 /\ 5 \in Nat
  BY DEF Fives
<1>2. /\ shape[1][2] = 8
      /\ shape[2][2] = 8 /\ shape[2][3] = "length"
      /\ shape[3][2] = 8 /\ shape[3][3] = "text"
      /\ shape[4][2] = 8 /\ shape[4][3] = "length"
      /\ shape[5][2] = 8 /\ shape[5][3] = "text"
  BY DEF Fives
<1>3. IsShape(shape) /\ Shaped(d, tag, shape)
  BY DEF Fives
<1>5. /\ WholeBytes(layout) /\ Named(layout) /\ Len(layout) = 5 /\ DOMAIN layout = 1 .. 5
      /\ \A k \in 1 .. 5 : layout[k].name = shape[k][1] /\ Holds(layout, k, shape[k][2], shape[k][3])
      /\ \E off : FieldStarts(off, d, 5, base, p)
  BY <1>1, <1>3, SomeFields
<1>6. PICK off : FieldStarts(off, d, 5, base, p)
  BY <1>5
<1>a. /\ 1 \in 1 .. 5 /\ 2 \in 1 .. 5 /\ 3 \in 1 .. 5 /\ 4 \in 1 .. 5 /\ 5 \in 1 .. 5
      /\ 1 - 1 = 0 /\ 2 - 1 = 1 /\ 3 - 1 = 2 /\ 4 - 1 = 3 /\ 5 - 1 = 4
      /\ 3 = 2 + 1 /\ 5 = 4 + 1
  OBVIOUS
<1>7. /\ off[0] = base /\ off[5] = base + BodyLength(d) /\ BodyLength(d) \in Nat
      /\ 1 \in 1 .. Len(layout) /\ off[0] \in Nat /\ off[1] = off[0] + Len(FieldOf(layout, 1))
      /\ Stands(off[0], FieldOf(layout, 1), p)
      /\ 2 \in 1 .. Len(layout) /\ off[1] \in Nat /\ off[2] = off[1] + Len(FieldOf(layout, 2))
      /\ Stands(off[1], FieldOf(layout, 2), p)
      /\ 3 \in 1 .. Len(layout) /\ off[2] \in Nat /\ off[3] = off[2] + Len(FieldOf(layout, 3))
      /\ Stands(off[2], FieldOf(layout, 3), p)
      /\ 4 \in 1 .. Len(layout) /\ off[3] \in Nat /\ off[4] = off[3] + Len(FieldOf(layout, 4))
      /\ Stands(off[3], FieldOf(layout, 4), p)
      /\ 5 \in 1 .. Len(layout) /\ off[4] \in Nat /\ off[5] = off[4] + Len(FieldOf(layout, 5))
      /\ Stands(off[4], FieldOf(layout, 5), p)
  BY <1>6, <1>a DEF FieldStarts
<1>8. /\ Holds(layout, 1, 8, shape[1][3])
      /\ Holds(layout, 2, 8, "length") /\ Holds(layout, 3, 8, "text")
      /\ Holds(layout, 4, 8, "length") /\ Holds(layout, 5, 8, "text")
  BY <1>2, <1>5, <1>a
<1> DEFINE v2 == layout[2].value
           v3 == layout[3].value
           v4 == layout[4].value
           v5 == layout[5].value
<1>9. /\ Len(FieldOf(layout, 2)) = 1 /\ U8(p, off[1]) = Len(v3)
      /\ \A name : File(name, U8(p, off[1])) = Bin(name, v2)
  <2>1. /\ Len(FieldOf(layout, 2)) = 1 /\ ByteAt(p, off[1], layout[2].value)
    BY <1>5, <1>7, <1>8, LengthRead
  <2>2. layout[2].value = <<Len(v3)>>
    BY <1>8 DEF Holds
  <2> QED BY <2>1, <2>2 DEF ByteAt
<1>10. Len(FieldOf(layout, 3)) = Len(v3) /\ CopiedFrom(p, off[2], v3)
  BY <1>5, <1>7, <1>8, TextRead
<1>11. /\ Len(FieldOf(layout, 4)) = 1 /\ U8(p, off[3]) = Len(v5)
       /\ \A name : File(name, U8(p, off[3])) = Bin(name, v4)
  <2>1. /\ Len(FieldOf(layout, 4)) = 1 /\ ByteAt(p, off[3], layout[4].value)
    BY <1>5, <1>7, <1>8, LengthRead
  <2>2. layout[4].value = <<Len(v5)>>
    BY <1>8 DEF Holds
  <2> QED BY <2>1, <2>2 DEF ByteAt
<1>12. Len(FieldOf(layout, 5)) = Len(v5) /\ CopiedFrom(p, off[4], v5)
  BY <1>5, <1>7, <1>8, TextRead
<1> DEFINE a == Len(v3)
           b == Len(v5)
<1>13. a \in Nat /\ b \in Nat
  BY <1>10, <1>12 DEF CopiedFrom
<1>14. ASSUME NEW i \in Nat, i = base + Len(FieldOf(layout, 1))
       PROVE  /\ off[1] = i /\ off[2] = i + 1 /\ off[3] = i + 1 + a /\ off[4] = i + 1 + a + 1
              /\ base + BodyLength(d) = i + 1 + a + 1 + b
  <2>1. /\ off[0] = base /\ off[1] = off[0] + Len(FieldOf(layout, 1)) /\ off[2] = off[1] + 1
        /\ off[3] = off[2] + a /\ off[4] = off[3] + 1 /\ off[5] = off[4] + b /\ off[5] = base + BodyLength(d)
    BY <1>7, <1>9, <1>10, <1>11, <1>12
  <2> HIDE DEF a, b
  <2>2. off[1] = i
    BY <2>1, <1>14
  <2> QED BY <1>13, <2>1, <2>2
<1>15. ASSUME NEW i \in Nat, i = base + Len(FieldOf(layout, 1))
       PROVE  TwoTextsAt(p, i, layout, base + BodyLength(d))
  BY <1>9, <1>10, <1>11, <1>12, <1>13, <1>14, <1>15 DEF TwoTextsAt
<1> QED BY <1>5, <1>7, <1>8, <1>15

(* The parser of the service descriptor (0x48) finds the second name       *)
(* behind the first, whatever length that has.                             *)
LEMMA Shown_0x48 ==
  ASSUME NEW d, IsLayout(d.layout), NEW p, Stands(2, Bytes(d.layout), p),
         Shaped(d, 72, <<<<"service_type", 8, "number">>,
                         <<"service_provider_name_length", 8, "length">>, <<"service_provider_name", 8, "text">>,
                         <<"service_name_length", 8, "length">>, <<"service_name", 8, "text">>>>)
  PROVE  Filled(descriptor_0x48_parser(p, BodyLength(d))) = Told(d.layout)
<1> DEFINE shape == <<<<"service_type", 8, "number">>,
                      <<"service_provider_name_length", 8, "length">>, <<"service_provider_name", 8, "text">>,
                      <<"service_name_length", 8, "length">>, <<"service_name", 8, "text">>>>
           layout == d.layout
           len == BodyLength(d)
           Value(k) == layout[k].value
           a == Len(Value(3))
           b == Len(Value(5))
<1>1. /\ Len(shape) = 5 /\ DOMAIN shape = 1 .. 5
      /\ shape[1][1] = "service_type" /\ shape[1][2] = 8
      /\ shape[2][1] = "service_provider_name_length" /\ shape[2][2] = 8
      /\ shape[3][1] = "service_provider_name" /\ shape[3][2] = 8
      /\ shape[4][1] = "service_name_length" /\ shape[4][2] = 8
      /\ shape[5][1] = "service_name" /\ shape[5][2] = 8
      /\ shape[1][3] = "number" /\ shape[2][3] = "length" /\ shape[3][3] = "text"
      /\ shape[4][3] = "length" /\ shape[5][3] = "text"
  OBVIOUS
<1>s. Shaped(d, 72, shape) /\ 2 \in Nat
  OBVIOUS
<1> HIDE DEF shape
<1>2. Fives(shape)
  BY <1>1 DEF IsShape, Fives
<1>f. /\ WholeBytes(layout) /\ Named(layout) /\ Len(layout) = 5 /\ DOMAIN layout = 1 .. 5
      /\ \A k \in 1 .. 5 : layout[k].name = shape[k][1]
      /\ Holds(layout, 1, 8, shape[1][3])
      /\ Stands(2, FieldOf(layout, 1), p)
      /\ \A i \in Nat : i = 2 + Len(FieldOf(layout, 1)) => TwoTextsAt(p, i, layout, 2 + len)
  BY <1>2, <1>s, FiveFields
<1>3. /\ layout[1].name = "service_type" /\ Holds(layout, 1, 8, "number")
      /\ layout[2].name = "service_provider_name_length" /\ layout[3].name = "service_provider_name"
      /\ layout[4].name = "service_name_length" /\ layout[5].name = "service_name"
  BY <1>1, <1>f
<1>4. Len(FieldOf(layout, 1)) = 1 /\ ByteAt(p, 2, Value(1))
  <2>1. 1 \in 1 .. Len(layout) /\ 2 \in Nat
    BY <1>f
  <2> QED BY <1>f, <1>3, <2>1, NumberRead
<1> HIDE DEF Value, len
<1>5. 3 \in Nat /\ 3 = 2 + Len(FieldOf(layout, 1))
  <2> DEFINE f == Len(FieldOf(layout, 1))
  <2>1. f = 1
    BY <1>4
  <2> HIDE DEF f
  <2>2. 3 = 2 + f
    BY <2>1
  <2> QED BY <2>2 DEF f
<1>6. /\ a \in Nat /\ b \in Nat /\ 2 + len = 3 + 1 + a + 1 + b
      /\ U8(p, 3) = a /\ (\A name : File(name, U8(p, 3)) = Bin(name, Value(2)))
      /\ CopiedFrom(p, 3 + 1, Value(3))
      /\ U8(p, 3 + 1 + a) = b
      /\ (\A name : File(name, U8(p, 3 + 1 + a)) = Bin(name, Value(4)))
      /\ CopiedFrom(p, 3 + 1 + a + 1, Value(5))
  BY <1>f, <1>5 DEF TwoTextsAt, Value
<1>7. /\ \A name : Str(name, Copy(p, 3 + 1, a)) = Bin(name, Value(3))
      /\ \A name : Str(name, Copy(p, 3 + 1 + a + 1, b)) = Bin(name, Value(5))
      /\ \A name : File(name, U8(p, 2)) = Bin(name, Value(1))
  BY <1>4, <1>6 DEF CopiedFrom, ByteAt
<1> HIDE DEF a, b
<1>8. 3 + 1 = 4 /\ 3 + 1 + a = 4 + a /\ 3 + 1 + a + 1 = 5 + a /\ len >= 4 - 2 /\ 4 + a + 1 = 5 + a
  <2>1. BodyLength(d) \in Nat
    BY BodyIs
  <2> QED BY <1>6, <2>1 DEF len
<1> DEFINE first == File("service_type", U8(p, 2))
           second == File("service_provider_name_length", a)
           third == Str("service_provider_name", Copy(p, 4, a))
           fourth == File("service_name_length", b)
           fifth == Str("service_name", Copy(p, 5 + a, b))
           parts == <<first, second, third, fourth, fifth>>
<1>9. /\ first = Bin("service_type", Value(1))
      /\ second = Bin("service_provider_name_length", Value(2))
      /\ third = Bin("service_provider_name", Value(3))
      /\ fourth = Bin("service_name_length", Value(4))
      /\ fifth = Bin("service_name", Value(5))
  BY <1>6, <1>7, <1>8
<1>10. U8(p, 3) = a /\ U8(p, 4 + a) = b
  BY <1>6, <1>8
<1>11. descriptor_0x48_parser(p, len) = Files(parts)
  BY <1>8, <1>10 DEF descriptor_0x48_parser, Checked, descriptor_is_parseable
<1> HIDE DEF first, second, third, fourth, fifth
<1>12. /\ DOMAIN parts = 1 .. 5 /\ parts[1] = first /\ parts[2] = second /\ parts[3] = third
       /\ parts[4] = fourth /\ parts[5] = fifth
       /\ \A k \in 1 .. 5 : k = 1 \/ k = 2 \/ k = 3 \/ k = 4 \/ k = 5
  OBVIOUS
<1> HIDE DEF parts
<1>13. Made(parts, layout)
  BY <1>f, <1>3, <1>9, <1>12 DEF Made, Value
<1> QED BY <1>f, <1>11, <1>13, FilesTell DEF len

(* So does that of the short event descriptor (0x4d), which asks before    *)
(* every text whether something is left.                                   *)
LEMMA Shown_0x4d ==
  ASSUME NEW d, IsLayout(d.layout), NEW p, Stands(2, Bytes(d.layout), p),
         Shaped(d, 77, <<<<"language_code", 8, "code">>,
                         <<"event_name_length", 8, "length">>, <<"event_name", 8, "text">>,
                         <<"text_length", 8, "length">>, <<"text", 8, "text">>>>)
  PROVE  Filled(descriptor_0x4d_parser(p, BodyLength(d))) = Told(d.layout)
<1> DEFINE shape == <<<<"language_code", 8, "code">>,
                      <<"event_name_length", 8, "length">>, <<"event_name", 8, "text">>,
                      <<"text_length", 8, "length">>, <<"text", 8, "text">>>>
           layout == d.layout
           len == BodyLength(d)
           Value(k) == layout[k].value
           a == Len(Value(3))
           b == Len(Value(5))
<1>1. /\ Len(shape) = 5 /\ DOMAIN shape = 1 .. 5
      /\ shape[1][1] = "language_code" /\ shape[1][2] = 8
      /\ shape[2][1] = "event_name_length" /\ shape[2][2] = 8
      /\ shape[3][1] = "event_name" /\ shape[3][2] = 8
      /\ shape[4][1] = "text_length" /\ shape[4][2] = 8
      /\ shape[5][1] = "text" /\ shape[5][2] = 8
      /\ shape[1][3] = "code" /\ shape[2][3] = "length" /\ shape[3][3] = "text"
      /\ shape[4][3] = "length" /\ shape[5][3] = "text"
  OBVIOUS
<1>s. Shaped(d, 77, shape) /\ 2 \in Nat
  OBVIOUS
<1> HIDE DEF shape
<1>2. Fives(shape)
  BY <1>1 DEF IsShape, Fives
<1>f. /\ WholeBytes(layout) /\ Named(layout) /\ Len(layout) = 5 /\ DOMAIN layout = 1 .. 5
      /\ \A k \in 1 .. 5 : layout[k].name = shape[k][1]
      /\ Holds(layout, 1, 8, shape[1][3])
      /\ Stands(2, FieldOf(layout, 1), p)
      /\ \A i \in Nat : i = 2 + Len(FieldOf(layout, 1)) => TwoTextsAt(p, i, layout, 2 + len)
  BY <1>2, <1>s, FiveFields
<1>3. /\ layout[1].name = "language_code" /\ Holds(layout, 1, 8, "code")
      /\ layout[2].name = "event_name_length" /\ layout[3].name = "event_name"
      /\ layout[4].name = "text_length" /\ layout[5].name = "text"
  BY <1>1, <1>f
<1>4. Len(FieldOf(layout, 1)) = 3 /\ CopiedFrom(p, 2, Value(1)) /\ Len(Value(1)) = 3
  <2>1. 1 \in 1 .. Len(layout) /\ 2 \in Nat
    BY <1>f
  <2> DEFINE x == layout[1].value
  <2>2. Len(FieldOf(layout, 1)) = Len(x) /\ CopiedFrom(p, 2, x) /\ Len(x) = 3
    BY <1>f, <1>3, <2>1, CodeRead
  <2> QED BY <2>2
<1> HIDE DEF Value, len
<1>5. 5 \in Nat /\ 5 = 2 + Len(FieldOf(layout, 1))
  <2> DEFINE f == Len(FieldOf(layout, 1))
  <2>1. f = 3
    BY <1>4
  <2> HIDE DEF f
  <2>2. 5 = 2 + f
    BY <2>1
  <2> QED BY <2>2 DEF f
<1>6. /\ a \in Nat /\ b \in Nat /\ 2 + len = 5 + 1 + a + 1 + b
      /\ U8(p, 5) = a /\ (\A name : File(name, U8(p, 5)) = Bin(name, Value(2)))
      /\ CopiedFrom(p, 5 + 1, Value(3))
      /\ U8(p, 5 + 1 + a) = b
      /\ (\A name : File(name, U8(p, 5 + 1 + a)) = Bin(name, Value(4)))
      /\ CopiedFrom(p, 5 + 1 + a + 1, Value(5))
  BY <1>f, <1>5 DEF TwoTextsAt, Value
<1>7. /\ \A name : Str(name, Copy(p, 5 + 1, a)) = Bin(name, Value(3))
      /\ \A name : Str(name, Copy(p, 5 + 1 + a + 1, b)) = Bin(name, Value(5))
      /\ \A name : Str(name, Copy(p, 2, 3)) = Bin(name, Value(1))
      /\ b = 0 => Value(5) = <<>>
  BY <1>4, <1>6 DEF CopiedFrom
<1> HIDE DEF a, b
<1>8. /\ 5 + 1 = 6 /\ 5 + 1 + a = 6 + a /\ 5 + 1 + a + 1 = 6 + a + 1
      /\ len >= 4 - 2 /\ len > 4 /\ len - 4 > 0 /\ len + 1 - (6 + a) = b
  <2>1. BodyLength(d) \in Nat
    BY BodyIs
  <2> QED BY <1>6, <2>1 DEF len
<1> DEFINE first == Str("language_code", Copy(p, 2, 3))
           second == File("event_name_length", a)
           third == Str("event_name", Copy(p, 6, a))
           fourth == File("text_length", b)
           fifth == Given("text", p, 6 + a + 1, b, b)
           parts == <<first, second, third, fourth, fifth>>
<1>9. /\ first = Bin("language_code", Value(1))
      /\ second = Bin("event_name_length", Value(2))
      /\ third = Bin("event_name", Value(3))
      /\ fourth = Bin("text_length", Value(4))
  BY <1>6, <1>7, <1>8
<1>e. fifth = Bin("text", Value(5)) \/ (Value(5) = <<>> /\ fifth = NoFiles)
  <2>1. CASE b = 0
    BY <1>7, <2>1 DEF Given
  <2>2. CASE b # 0
    <3>1. b > 0
      BY <1>6, <2>2
    <3>2. fifth = Str("text", Copy(p, 6 + a + 1, b))
      BY <3>1 DEF Given
    <3>3. Str("text", Copy(p, 6 + a + 1, b)) = Bin("text", Value(5))
      BY <1>7, <1>8
    <3> QED BY <3>2, <3>3
  <2> QED BY <2>1, <2>2
<1>10. U8(p, 5) = a /\ U8(p, 6 + a) = b
  BY <1>6, <1>8
<1>11. descriptor_0x4d_parser(p, len) = Files(parts)
  <2>1. Given("event_name", p, 6, a, len - 4) = third
    BY <1>8 DEF Given
  <2>2. 6 + (IF len > 4 THEN a ELSE 0) = 6 + a
    BY <1>8
  <2> HIDE DEF third
  <2> QED BY <1>8, <1>10, <2>1, <2>2 DEF descriptor_0x4d_parser, Checked, descriptor_is_parseable
<1> HIDE DEF first, second, third, fourth, fifth
<1>12. /\ DOMAIN parts = 1 .. 5 /\ parts[1] = first /\ parts[2] = second /\ parts[3] = third
       /\ parts[4] = fourth /\ parts[5] = fifth
       /\ \A k \in 1 .. 5 : k = 1 \/ k = 2 \/ k = 3 \/ k = 4 \/ k = 5
  OBVIOUS
<1> HIDE DEF parts
<1>13. Made(parts, layout)
  BY <1>f, <1>3, <1>9, <1>e, <1>12 DEF Made, Value
<1> QED BY <1>f, <1>11, <1>13, FilesTell DEF len

(* Two fields of fixed length.                                             *)
LEMMA Shown_dsmcc_0x04 ==
  ASSUME NEW d, IsLayout(d.layout), NEW p, Stands(0, Bytes(d.layout), p),
         Shaped(d, 4, <<<<"position", 8, "number">>, <<"module_id", 16, "number">>>>)
  PROVE  Filled(dsmcc_descriptor_0x04_parser(p, BodyLength(d))) = Told(d.layout)
<1> DEFINE shape == <<<<"position", 8, "number">>, <<"module_id", 16, "number">>>>
           layout == d.layout
           len == BodyLength(d)
           Value(k) == layout[k].value
<1>1. Len(shape) = 2 /\ DOMAIN shape = 1 .. 2 /\ 0 \in Nat
  OBVIOUS
<1>2. /\ shape[1][1] = "position" /\ shape[1][2] = 8 /\ shape[1][3] = "number"
      /\ shape[2][1] = "module_id" /\ shape[2][2] = 16 /\ shape[2][3] = "number"
  OBVIOUS
<1>3. IsShape(shape)
  BY <1>1, <1>2 DEF IsShape
<1>4. Shaped(d, 4, shape)
  OBVIOUS
<1> HIDE DEF shape
<1>5. /\ WholeBytes(layout) /\ Named(layout) /\ Len(layout) = 2 /\ DOMAIN layout = 1 .. 2
      /\ \A k \in 1 .. 2 : layout[k].name = shape[k][1] /\ Holds(layout, k, shape[k][2], shape[k][3])
      /\ \E off : FieldStarts(off, d, 2, 0, p)
  BY <1>1, <1>3, <1>4, SomeFields
<1>6. PICK off : FieldStarts(off, d, 2, 0, p)
  BY <1>5
<1>7. /\ off[0] = 0 /\ off[2] = 0 + len /\ len \in Nat
      /\ 1 \in 1 .. Len(layout) /\ off[0] \in Nat /\ off[1] = off[0] + Len(FieldOf(layout, 1))
      /\ Stands(off[0], FieldOf(layout, 1), p)
      /\ 2 \in 1 .. Len(layout) /\ off[1] \in Nat /\ off[2] = off[1] + Len(FieldOf(layout, 2))
      /\ Stands(off[1], FieldOf(layout, 2), p)
  <2>1. 1 \in 1 .. 2 /\ 2 \in 1 .. 2 /\ 1 - 1 = 0 /\ 2 - 1 = 1
    OBVIOUS
  <2> QED BY <1>6, <2>1 DEF FieldStarts
<1>8. /\ layout[1].name = "position" /\ Holds(layout, 1, 8, "number")
      /\ layout[2].name = "module_id" /\ Holds(layout, 2, 16, "number")
  <2>1. 1 \in 1 .. 2 /\ 2 \in 1 .. 2
    OBVIOUS
  <2> QED BY <1>2, <1>5, <2>1
<1>9. /\ Len(FieldOf(layout, 1)) = 1
      /\ ByteAt(p, off[0], Value(1))
  BY <1>5, <1>7, <1>8, NumberRead
<1>10. \A name : File(name, U16(p, off[1])) = Bin(name, Value(2))
  <2>1. /\ WholeBytes(layout) /\ 2 \in 1 .. Len(layout) /\ Holds(layout, 2, 16, "number")
        /\ off[1] \in Nat /\ Stands(off[1], FieldOf(layout, 2), p)
    BY <1>5, <1>7, <1>8
  <2> HIDE DEF layout
  <2> QED BY <2>1, WordRead
<1> HIDE DEF Value, len
<1>12. off[0] = 0 /\ off[1] = 1
  BY <1>7, <1>9
<1> DEFINE first == File("position", U8(p, 0))
           second == File("module_id", U16(p, 1))
           parts == <<first, second>>
<1>14. first = Bin("position", Value(1))
  BY <1>9, <1>12 DEF ByteAt
<1>15. second = Bin("module_id", Value(2))
  BY <1>10, <1>12
<1>16. dsmcc_descriptor_0x04_parser(p, len) = Files(parts)
  BY DEF dsmcc_descriptor_0x04_parser
<1> HIDE DEF first, second
<1>17. DOMAIN parts = 1 .. 2 /\ parts[1] = first /\ parts[2] = second /\ \A k \in 1 .. 2 : k = 1 \/ k = 2
  OBVIOUS
<1> HIDE DEF parts
<1>18. Made(parts, layout)
  BY <1>5, <1>8, <1>14, <1>15, <1>17 DEF Made, Value
<1> QED BY <1>5, <1>16, <1>18, FilesTell DEF len

(* A part that makes no files adds none.                                   *)
LEMMA FilesOfOneMore ==
  ASSUME NEW name, NEW value
  PROVE  Files(<<Bin(name, value), NoFiles>>) = Bin(name, value)
<1> DEFINE b == Bin(name, value)
           parts == <<b, NoFiles>>
           key == <<name, <<>>>>
           LastWith(ky) == CHOOSE k \in DOMAIN parts :
                          ky \in DOMAIN parts[k] /\ \A m \in DOMAIN parts : m > k => ky \notin DOMAIN parts[m]
           all == UNION {DOMAIN parts[k] : k \in DOMAIN parts}
<1>1. DOMAIN parts = {1, 2} /\ parts[1] = b /\ parts[2] = NoFiles
  OBVIOUS
<1>2. DOMAIN b = {key} /\ b = [ky \in {key} |-> value] /\ b[key] = value /\ DOMAIN NoFiles = {}
  BY BinIs, NoFilesIs
<1>3. Files(parts) = [ky \in all |-> parts[LastWith(ky)][ky]]
  BY DEF Files
<1> HIDE DEF parts, b
<1>4. all = {key}
  BY <1>1, <1>2
<1>5. LastWith(key) = 1
  <2> HIDE DEF key
  <2>1. key \in DOMAIN parts[1] /\ key \notin DOMAIN parts[2]
    BY <1>1, <1>2
  <2>2. \A m \in DOMAIN parts : m > 1 => key \notin DOMAIN parts[m]
    BY <1>1, <2>1
  <2>3. \A k \in DOMAIN parts : key \in DOMAIN parts[k] => k = 1
    BY <1>1, <2>1
  <2>4. 1 \in DOMAIN parts
    BY <1>1
  <2> QED BY <2>1, <2>2, <2>3, <2>4
<1> HIDE DEF LastWith, all, key
<1>6. Files(parts) = [ky \in {key} |-> value]
  BY <1>1, <1>2, <1>3, <1>4, <1>5
<1> QED BY <1>2, <1>6 DEF b, parts

(* Which parser a tag has.                                                 *)
LEMMA ParserIs ==
  /\ \A p, len, standard : Parser(Ts, 6, p, len, standard) = descriptor_0x06_parser(p, len)
  /\ \A p, len, standard : Parser(Ts, 11, p, len, standard) = descriptor_0x0b_parser(p, len)
  /\ \A p, len, standard : Parser(Ts, 14, p, len, standard) = descriptor_0x0e_parser(p, len)
  /\ \A p, len, standard : Parser(Ts, 19, p, len, standard) = descriptor_0x13_parser(p, len)
  /\ \A p, len, standard : Parser(Ts, 20, p, len, standard) = descriptor_0x14_parser(p, len)
  /\ \A p, len, standard : Parser(Ts, 64, p, len, standard) = descriptor_0x40_parser(p, len)
  /\ \A p, len, standard : Parser(Ts, 72, p, len, standard) = descriptor_0x48_parser(p, len)
  /\ \A p, len, standard : Parser(Ts, 77, p, len, standard) = descriptor_0x4d_parser(p, len)
  /\ \A p, len, standard : Parser(Ts, 80, p, len, standard) = descriptor_0x50_parser(p, len)
  /\ \A p, len, standard : Parser(Ts, 82, p, len, standard) = descriptor_0x52_parser(p, len)
  /\ \A p, len, standard : Parser(Ts, 124, p, len, standard) = descriptor_0x7c_parser(p, len)
  /\ \A p, len, standard : Parser(Ts, 160, p, len, standard) = descriptor_0xa0_parser(p, len)
  /\ \A p, len, standard : Parser(Ts, 193, p, len, standard) = descriptor_0xc1_parser(p, len)
  /\ \A p, len, standard : Parser(Ts, 200, p, len, standard) = descriptor_0xc8_parser(p, len)
  /\ \A p, len, standard : Parser(Ts, 207, p, len, standard) = descriptor_0xcf_parser(p, len)
  /\ \A p, len, standard : Parser(Ts, 208, p, len, standard) = descriptor_0xd0_parser(p, len)
  /\ \A p, len, standard : Parser(Ts, 253, p, len, standard) = descriptor_0xfd_parser(p, len)
  /\ \A p, len, standard : Parser(Ts, 254, p, len, standard) = descriptor_0xfe_parser(p, len, standard)
BY DEF Parser

LEMMA DsmccParserIs ==
  ASSUME NEW family, family # Ts
  PROVE  /\ \A p, len, standard : Parser(family, 1, p, len, standard) = dsmcc_descriptor_0x01_parser(p, len)
         /\ \A p, len, standard : Parser(family, 2, p, len, standard) = dsmcc_descriptor_0x02_parser(p, len)
         /\ \A p, len, standard : Parser(family, 3, p, len, standard) = dsmcc_descriptor_0x03_parser(p, len)
         /\ \A p, len, standard : Parser(family, 4, p, len, standard) = dsmcc_descriptor_0x04_parser(p, len)
         /\ \A p, len, standard : Parser(family, 5, p, len, standard) = dsmcc_descriptor_0x05_parser(p, len)
         /\ \A p, len, standard : Parser(family, 6, p, len, standard) = dsmcc_descriptor_0x06_parser(p, len)
         /\ \A p, len, standard : Parser(family, 7, p, len, standard) = dsmcc_descriptor_0x07_parser(p, len)
BY DEF Parser

LEMMA CheckedIs ==
  ASSUME NEW e \in Int, NEW len \in Int, len >= e - 2, NEW made
  PROVE  Checked(e, len, made) = made
BY DEF Checked, descriptor_is_parseable

(* Parsers of one field that ask for their length.                         *)
LEMMA Shown_0x06 ==
  ASSUME NEW d, IsLayout(d.layout), NEW p, Stands(2, Bytes(d.layout), p), NEW tag,
         Shaped(d, tag, <<<<"alignment_type", 8, "number">>>>)
  PROVE  Filled(descriptor_0x06_parser(p, BodyLength(d))) = Told(d.layout)
<1> DEFINE len == BodyLength(d)
<1>1. "alignment_type" # "reserved" /\ 2 \in Nat
  OBVIOUS
<1>2. len = 1 /\ Filled(File("alignment_type", U8(p, 2))) = Told(d.layout)
  BY <1>1, NumberShown
<1> HIDE DEF len
<1>3. 3 \in Int /\ len \in Int /\ len >= 3 - 2
  BY <1>2
<1>4. descriptor_0x06_parser(p, len) = File("alignment_type", U8(p, 2))
  BY <1>2, <1>3, CheckedIs DEF descriptor_0x06_parser
<1> QED BY <1>2, <1>4 DEF len

(* Parsers of one text.                                                    *)
LEMMA Shown_0x40 ==
  ASSUME NEW d, IsLayout(d.layout), NEW p, Stands(2, Bytes(d.layout), p), NEW tag,
         Shaped(d, tag, <<<<"network_name", 8, "text">>>>)
  PROVE  Filled(descriptor_0x40_parser(p, BodyLength(d))) = Told(d.layout)
<1> DEFINE len == BodyLength(d)
<1>1. "network_name" # "reserved" /\ 2 \in Nat
  OBVIOUS
<1>2. Filled(Str("network_name", Copy(p, 2, len))) = Told(d.layout)
  BY <1>1, TextShown
<1> QED BY <1>2 DEF descriptor_0x40_parser

LEMMA Shown_0x52 ==
  ASSUME NEW d, IsLayout(d.layout), NEW p, Stands(2, Bytes(d.layout), p), NEW tag,
         Shaped(d, tag, <<<<"component_tag", 8, "number">>>>)
  PROVE  Filled(descriptor_0x52_parser(p, BodyLength(d))) = Told(d.layout)
<1> DEFINE len == BodyLength(d)
<1>1. "component_tag" # "reserved" /\ 2 \in Nat
  OBVIOUS
<1>2. len = 1 /\ Filled(File("component_tag", U8(p, 2))) = Told(d.layout)
  BY <1>1, NumberShown
<1> HIDE DEF len
<1>3. 3 \in Int /\ len \in Int /\ len >= 3 - 2
  BY <1>2
<1>4. descriptor_0x52_parser(p, len) = File("component_tag", U8(p, 2))
  BY <1>2, <1>3, CheckedIs DEF descriptor_0x52_parser
<1> QED BY <1>2, <1>4 DEF len

LEMMA Shown_dsmcc_0x01 ==
  ASSUME NEW d, IsLayout(d.layout), NEW p, Stands(0, Bytes(d.layout), p), NEW tag,
         Shaped(d, tag, <<<<"text_char", 8, "text">>>>)
  PROVE  Filled(dsmcc_descriptor_0x01_parser(p, BodyLength(d))) = Told(d.layout)
<1> DEFINE len == BodyLength(d)
<1>1. "text_char" # "reserved" /\ 0 \in Nat
  OBVIOUS
<1>2. Filled(Str("text_char", Copy(p, 0, len))) = Told(d.layout)
  BY <1>1, TextShown
<1> QED BY <1>2 DEF dsmcc_descriptor_0x01_parser

LEMMA Shown_dsmcc_0x02 ==
  ASSUME NEW d, IsLayout(d.layout), NEW p, Stands(0, Bytes(d.layout), p), NEW tag,
         Shaped(d, tag, <<<<"text_char", 8, "text">>>>)
  PROVE  Filled(dsmcc_descriptor_0x02_parser(p, BodyLength(d))) = Told(d.layout)
<1> DEFINE len == BodyLength(d)
<1>1. "text_char" # "reserved" /\ 0 \in Nat
  OBVIOUS
<1>2. Filled(Str("text_char", Copy(p, 0, len))) = Told(d.layout)
  BY <1>1, TextShown
<1> QED BY <1>2 DEF dsmcc_descriptor_0x02_parser

LEMMA Shown_dsmcc_0x03 ==
  ASSUME NEW d, IsLayout(d.layout), NEW p, Stands(0, Bytes(d.layout), p), NEW tag,
         Shaped(d, tag, <<<<"text_char", 8, "text">>>>)
  PROVE  Filled(dsmcc_descriptor_0x03_parser(p, BodyLength(d))) = Told(d.layout)
<1> DEFINE len == BodyLength(d)
<1>1. "text_char" # "reserved" /\ 0 \in Nat
  OBVIOUS
<1>2. Filled(Str("text_char", Copy(p, 0, len))) = Told(d.layout)
  BY <1>1, TextShown
<1> QED BY <1>2 DEF dsmcc_descriptor_0x03_parser

LEMMA Shown_dsmcc_0x05 ==
  ASSUME NEW d, IsLayout(d.layout), NEW p, Stands(0, Bytes(d.layout), p), NEW tag,
         Shaped(d, tag, <<<<"crc_32", 16, "halves">>>>)
  PROVE  Filled(dsmcc_descriptor_0x05_parser(p, BodyLength(d))) = Told(d.layout)
<1> DEFINE len == BodyLength(d)
<1>1. "crc_32" # "reserved" /\ 0 \in Nat
  OBVIOUS
<1>2. Filled(Bin("crc_32", U32(p, 0))) = Told(d.layout)
  BY <1>1, HalvesShown
<1> QED BY <1>2 DEF dsmcc_descriptor_0x05_parser

LEMMA Shown_dsmcc_0x06 ==
  ASSUME NEW d, IsLayout(d.layout), NEW p, Stands(0, Bytes(d.layout), p), NEW tag,
         Shaped(d, tag, <<<<"location_tag", 8, "number">>>>)
  PROVE  Filled(dsmcc_descriptor_0x06_parser(p, BodyLength(d))) = Told(d.layout)
<1> DEFINE len == BodyLength(d)
<1>1. "location_tag" # "reserved" /\ 0 \in Nat
  OBVIOUS
<1>2. Filled(File("location_tag", U8(p, 0))) = Told(d.layout)
  BY <1>1, NumberShown
<1> QED BY <1>2 DEF dsmcc_descriptor_0x06_parser

LEMMA Shown_dsmcc_0x07 ==
  ASSUME NEW d, IsLayout(d.layout), NEW p, Stands(0, Bytes(d.layout), p), NEW tag,
         Shaped(d, tag, <<<<"est_download_time", 16, "halves">>>>)
  PROVE  Filled(dsmcc_descriptor_0x07_parser(p, BodyLength(d))) = Told(d.layout)
<1> DEFINE len == BodyLength(d)
<1>1. "est_download_time" # "reserved" /\ 0 \in Nat
  OBVIOUS
<1>2. Filled(Bin("est_download_time", U32(p, 0))) = Told(d.layout)
  BY <1>1, HalvesShown
<1> QED BY <1>2 DEF dsmcc_descriptor_0x07_parser

LEMMA Shown_0x13 ==
  ASSUME NEW d, IsLayout(d.layout), NEW p, Stands(2, Bytes(d.layout), p), NEW tag,
         Shaped(d, tag, <<<<"carousel_id", 16, "halves">>>>)
  PROVE  Filled(descriptor_0x13_parser(p, BodyLength(d))) = Told(d.layout)
<1> DEFINE len == BodyLength(d)
           first == Bin("carousel_id", U32(p, 2))
<1>1. "carousel_id" # "reserved" /\ 2 \in Nat
  OBVIOUS
<1>2. len = 4 /\ Filled(first) = Told(d.layout)
  BY <1>1, HalvesShown
<1>3. Files(<<first, NoFiles>>) = first
  BY FilesOfOneMore, FileIs
<1> HIDE DEF len
<1>4. 6 \in Int /\ len \in Int /\ len >= 6 - 2 /\ ~(len > 6)
  BY <1>2
<1>5. descriptor_0x13_parser(p, len) = Files(<<first, NoFiles>>)
  BY <1>4, CheckedIs DEF descriptor_0x13_parser
<1> QED BY <1>2, <1>3, <1>5 DEF len

LEMMA Shown_0xfd ==
  ASSUME NEW d, IsLayout(d.layout), NEW p, Stands(2, Bytes(d.layout), p), NEW tag,
         Shaped(d, tag, <<<<"data_component_id", 16, "number">>>>)
  PROVE  Filled(descriptor_0xfd_parser(p, BodyLength(d))) = Told(d.layout)
<1> DEFINE len == BodyLength(d)
           first == File("data_component_id", U16(p, 2))
<1>1. "data_component_id" # "reserved" /\ 2 \in Nat
  OBVIOUS
<1>2. len = 2 /\ Filled(first) = Told(d.layout)
  BY <1>1, WordShown
<1>3. Files(<<first, NoFiles>>) = first
  BY FilesOfOneMore, FileIs
<1> HIDE DEF len
<1>4. 4 \in Int /\ len \in Int /\ len >= 4 - 2 /\ len <= 4
  BY <1>2
<1>5. descriptor_0xfd_parser(p, len) = Files(<<first, NoFiles>>)
  BY <1>4, CheckedIs DEF descriptor_0xfd_parser
<1> QED BY <1>2, <1>3, <1>5 DEF len

Regroups(x, y, z) == (x \o y) \o z = x \o (y \o z)

LEMMA ThreeInTwo ==
  ASSUME NEW D, NEW x \in Seq(D), NEW y \in Seq(D), NEW z \in Seq(D)
  PROVE  Regroups(x, y, z)
BY ConcatAssociative DEF Regroups

(* Two parts in one.                                                       *)
LEMMA FlattenMerge ==
  ASSUME NEW D, NEW parts \in Seq(Seq(D)), NEW merged \in Seq(Seq(D)), Len(merged) + 1 = Len(parts),
         NEW k \in 1 .. Len(merged),
         \A i \in 1 .. Len(merged) : i < k => merged[i] = parts[i],
         merged[k] = parts[k] \o parts[k + 1],
         \A i \in 1 .. Len(merged) : i > k => merged[i] = parts[i + 1]
  PROVE  FlattenSeq(merged) = FlattenSeq(parts)
<1> DEFINE N == Len(merged)
<1>1. N \in Nat /\ Len(parts) = N + 1 /\ k \in 1 .. N
  OBVIOUS
<1>2. PICK Pre \in [0 .. Len(parts) -> Seq(D)] : PrefixesOf(Pre, parts)
  BY PrefixesExist
<1>3. /\ \A i \in 1 .. N + 1 : parts[i] \in Seq(D) /\ Pre[i] = Pre[i - 1] \o parts[i]
      /\ \A i \in 0 .. N + 1 : Pre[i] \in Seq(D)
      /\ Pre[0] = <<>>
  <2>1. /\ \A i \in 1 .. Len(parts) : parts[i] \in Seq(D)
        /\ \A i \in 0 .. Len(parts) : Pre[i] \in Seq(D)
        /\ Pre[0] = <<>>
        /\ \A i \in 1 .. Len(parts) : Pre[i] = Pre[i - 1] \o parts[i]
    BY <1>2, PrefixesAre
  <2> QED BY <1>1, <2>1
<1>4. FlattenSeq(parts) = Pre[N + 1]
  BY <1>1, <1>2, FlattenIs
<1>5. /\ \A i \in 1 .. N : i < k => merged[i] = parts[i]
      /\ merged[k] = parts[k] \o parts[k + 1]
      /\ \A i \in 1 .. N : i > k => merged[i] = parts[i + 1]
  OBVIOUS
<1> HIDE DEF N
<1> DEFINE P == [i \in 0 .. N |-> IF i < k THEN Pre[i] ELSE Pre[i + 1]]
<1>6. P \in [0 .. N -> Seq(D)] /\ \A i \in 0 .. N : P[i] = IF i < k THEN Pre[i] ELSE Pre[i + 1]
  <2>1. ASSUME NEW i \in 0 .. N PROVE (IF i < k THEN Pre[i] ELSE Pre[i + 1]) \in Seq(D)
    <3>1. i \in 0 .. N + 1 /\ i + 1 \in 0 .. N + 1
      BY <1>1
    <3> QED BY <1>3, <3>1
  <2> QED BY <2>1
<1>7. P[0] = <<>> /\ P[N] = Pre[N + 1]
  BY <1>1, <1>3
<1> HIDE DEF P
<1>8. ASSUME NEW i \in 1 .. N PROVE P[i] = P[i - 1] \o merged[i]
  <2>1. i \in 0 .. N /\ i - 1 \in 0 .. N /\ i \in 1 .. N + 1 /\ i + 1 \in 1 .. N + 1 /\ (i + 1) - 1 = i /\ (i - 1) + 1 = i
        /\ i - 1 \in 0 .. N + 1
    BY <1>1
  <2>2. CASE i < k
    <3>1. i - 1 < k
      BY <2>2
    <3>2. P[i] = Pre[i] /\ P[i - 1] = Pre[i - 1] /\ merged[i] = parts[i]
      BY <1>5, <1>6, <2>1, <2>2, <3>1
    <3> QED BY <1>3, <2>1, <3>2
  <2>3. CASE i = k
    <3>1. i - 1 < k /\ ~(i < k)
      BY <2>3
    <3>2. P[i] = Pre[i + 1] /\ P[i - 1] = Pre[i - 1] /\ merged[i] = parts[i] \o parts[i + 1]
      BY <1>5, <1>6, <2>1, <2>3, <3>1
    <3>3. Pre[i + 1] = Pre[i] \o parts[i + 1] /\ Pre[i] = Pre[i - 1] \o parts[i]
      BY <1>3, <2>1
    <3>4. Pre[i - 1] \in Seq(D) /\ parts[i] \in Seq(D) /\ parts[i + 1] \in Seq(D)
      BY <1>3, <2>1
    <3>x. PICK x \in Seq(D) : x = Pre[i - 1]
      BY <3>4
    <3>y. PICK y \in Seq(D) : y = parts[i]
      BY <3>4
    <3>z. PICK z \in Seq(D) : z = parts[i + 1]
      BY <3>4
    <3>5. Regroups(x, y, z)
      BY ThreeInTwo
    <3>6. Pre[i + 1] = Pre[i - 1] \o merged[i]
      BY <3>2, <3>3, <3>5, <3>x, <3>y, <3>z DEF Regroups
    <3> QED BY <3>2, <3>6
  <2>4. CASE i > k
    <3>1. ~(i - 1 < k) /\ ~(i < k)
      BY <1>1, <2>4
    <3>2. P[i] = Pre[i + 1] /\ P[i - 1] = Pre[i] /\ merged[i] = parts[i + 1]
      BY <1>5, <1>6, <2>1, <2>4, <3>1
    <3>3. Pre[i + 1] = Pre[(i + 1) - 1] \o parts[i + 1]
      BY <1>3, <2>1
    <3> QED BY <2>1, <3>2, <3>3
  <2>5. i < k \/ i = k \/ i > k
    BY <1>1
  <2> QED BY <2>2, <2>3, <2>4, <2>5
<1>9. PrefixesOf(P, merged)
  BY <1>7, <1>8 DEF PrefixesOf, N
<1>10. FlattenSeq(merged) = P[N]
  BY <1>6, <1>9, FlattenIs DEF N
<1> QED BY <1>4, <1>7, <1>10

LEMMA FlattenOne ==
  ASSUME NEW D, NEW x \in Seq(D)
  PROVE  FlattenSeq(<<x>>) = x
<1> DEFINE parts == <<x>>
           P == [i \in 0 .. 1 |-> IF i = 0 THEN <<>> ELSE x]
<1>1. parts \in Seq(Seq(D)) /\ Len(parts) = 1 /\ parts[1] = x
  OBVIOUS
<1>2. P \in [0 .. 1 -> Seq(D)] /\ P[0] = <<>> /\ P[1] = x /\ 1 - 1 = 0
  OBVIOUS
<1> HIDE DEF parts, P
<1>3. P[1] = P[0] \o parts[1]
  BY <1>1, <1>2
<1>4. PrefixesOf(P, parts)
  <2>1. \A i \in 1 .. 1 : i = 1
    OBVIOUS
  <2> QED BY <1>1, <1>2, <1>3, <2>1 DEF PrefixesOf
<1>5. FlattenSeq(parts) = P[1]
  BY <1>1, <1>2, <1>4, FlattenIs
<1> QED BY <1>2, <1>5 DEF parts

LEMMA UnitOfOne ==
  ASSUME NEW w \in Widths, NEW v \in Nat
  PROVE  Unit(w, <<v>>) = Bits(w, v)
<1>1. [u \in DOMAIN <<v>> |-> Bits(w, <<v>>[u])] = <<Bits(w, v)>>
  OBVIOUS
<1>2. Bits(w, v) \in Seq(Bit)
  BY BitsAre
<1> QED BY <1>1, <1>2, FlattenOne DEF Unit

LEMMA NumberAtIs ==
  ASSUME NEW layout, NEW k \in 1 .. Len(layout), NEW w, NEW v \in Nat, v < Limit(w),
         layout[k].width = w, layout[k].value = <<v>>
  PROVE  NumberAt(layout, k, w, v)
<1>1. <<v>> \in Seq(Nat) /\ \A u \in DOMAIN <<v>> : <<v>>[u] = v
  OBVIOUS
<1> QED BY <1>1 DEF NumberAt, FieldAt, Small

LEMMA JoinKeeps ==
  ASSUME NEW layout, IsLayout(layout), NEW k, NEW a \in 1 .. 24, NEW b \in 1 .. 24, a + b <= 24,
         NEW h, NEW l, NumberAt(layout, k, a, h), NumberAt(layout, k + 1, b, l)
  PROVE  \E M : Joined(M, layout, k, a + b, h * Limit(b) + l)
<1> DEFINE N == Len(layout) - 1
           w == a + b
           v == h * Limit(b) + l
           one == [width |-> w, value |-> <<v>>]
           M == [i \in 1 .. N |-> IF i < k THEN layout[i] ELSE IF i = k THEN one ELSE layout[i + 1]]
<1>1. /\ Len(layout) \in Nat /\ DOMAIN layout = 1 .. Len(layout)
      /\ \A i \in 1 .. Len(layout) : layout[i].width \in Widths /\ layout[i].value \in Seq(Nat)
  BY DEF IsLayout
<1>2. /\ k \in 1 .. Len(layout) /\ k + 1 \in 1 .. Len(layout)
      /\ h \in Nat /\ h < Limit(a) /\ l \in Nat /\ l < Limit(b)
      /\ layout[k].width = a /\ layout[k].value = <<h>>
      /\ layout[k + 1].width = b /\ layout[k + 1].value = <<l>>
  BY DEF NumberAt, FieldAt
<1>3. N \in Nat /\ Len(layout) = N + 1 /\ k \in 1 .. N
  BY <1>1, <1>2
<1>4. v \in Nat /\ v < Limit(w) /\ w \in Widths
  <2>1. JoinBelow(a, b, h, l)
    BY <1>2, JoinIsBelow
  <2>2. w \in 1 .. 24
    OBVIOUS
  <2> QED BY <2>1, <2>2, WidthsAre DEF JoinBelow
<1>5. one.width = w /\ one.value = <<v>>
  OBVIOUS
<1>6. Bits(w, v) = Bits(a, h) \o Bits(b, l)
  BY <1>2, BitsJoin, ZenonT(30)
<1> HIDE DEF N, one, w, v
<1>7. Len(M) = N /\ DOMAIN M = 1 .. N /\ M[k] = one
      /\ \A i \in 1 .. N : /\ i < k => M[i] = layout[i]
                           /\ i > k => M[i] = layout[i + 1]
  BY <1>3
<1> HIDE DEF M
<1>8. NumberAt(M, k, w, v)
  BY <1>3, <1>4, <1>5, <1>7, NumberAtIs
<1>9. ASSUME NEW i \in 1 .. N PROVE M[i].width \in Widths /\ M[i].value \in Seq(Nat)
  <2>1. i \in 1 .. Len(layout) /\ i + 1 \in 1 .. Len(layout)
    BY <1>3
  <2>2. CASE i < k
    BY <1>1, <1>7, <2>1, <2>2
  <2>3. CASE i = k
    <3>1. M[i] = one /\ <<v>> \in Seq(Nat)
      BY <1>4, <1>7, <2>3
    <3> QED BY <1>4, <1>5, <3>1
  <2>4. CASE i > k
    BY <1>1, <1>7, <2>1, <2>4
  <2> QED BY <1>3, <2>2, <2>3, <2>4
<1>10. IsLayout(M)
  BY <1>3, <1>7, <1>9 DEF IsLayout
<1> DEFINE parts == [i \in DOMAIN layout |-> Unit(layout[i].width, layout[i].value)]
           merged == [i \in DOMAIN M |-> Unit(M[i].width, M[i].value)]
<1>11. BitsOf(layout) = FlattenSeq(parts) /\ BitsOf(M) = FlattenSeq(merged)
  BY <1>10, BitsOfIs
<1>12. parts \in Seq(Seq(Bit)) /\ Len(parts) = N + 1 /\ \A i \in 1 .. N + 1 : parts[i] = Unit(layout[i].width, layout[i].value)
  <2>1. \A i \in 1 .. N + 1 : Unit(layout[i].width, layout[i].value) \in Seq(Bit)
    BY <1>1, <1>3, UnitType
  <2>2. parts = [i \in 1 .. N + 1 |-> Unit(layout[i].width, layout[i].value)]
    BY <1>1, <1>3
  <2> QED BY <1>3, <2>1, <2>2
<1>13. merged \in Seq(Seq(Bit)) /\ Len(merged) = N /\ \A i \in 1 .. N : merged[i] = Unit(M[i].width, M[i].value)
  <2>1. \A i \in 1 .. N : Unit(M[i].width, M[i].value) \in Seq(Bit)
    BY <1>9, UnitType
  <2>2. merged = [i \in 1 .. N |-> Unit(M[i].width, M[i].value)]
    BY <1>7
  <2> QED BY <1>3, <2>1, <2>2
<1> HIDE DEF parts, merged
<1>14. merged[k] = parts[k] \o parts[k + 1]
  <2>1. k \in 1 .. N + 1 /\ k + 1 \in 1 .. N + 1 /\ a \in Widths /\ b \in Widths
    BY <1>3, WidthsAre
  <2>2. merged[k] = Unit(w, <<v>>) /\ parts[k] = Unit(a, <<h>>) /\ parts[k + 1] = Unit(b, <<l>>)
    BY <1>2, <1>3, <1>5, <1>7, <1>12, <1>13, <2>1
  <2>3. Unit(w, <<v>>) = Bits(w, v) /\ Unit(a, <<h>>) = Bits(a, h) /\ Unit(b, <<l>>) = Bits(b, l)
    BY <1>2, <1>4, <2>1, UnitOfOne
  <2> QED BY <1>6, <2>2, <2>3
<1>15. \A i \in 1 .. Len(merged) : i < k => merged[i] = parts[i]
  <2> TAKE i \in 1 .. Len(merged)
  <2>1. i \in 1 .. N /\ i \in 1 .. N + 1 /\ i + 1 \in 1 .. N + 1
    BY <1>3, <1>13
  <2> QED BY <1>7, <1>12, <1>13, <2>1
<1>16. \A i \in 1 .. Len(merged) : i > k => merged[i] = parts[i + 1]
  <2> TAKE i \in 1 .. Len(merged)
  <2>1. i \in 1 .. N /\ i \in 1 .. N + 1 /\ i + 1 \in 1 .. N + 1
    BY <1>3, <1>13
  <2> QED BY <1>7, <1>12, <1>13, <2>1
<1>17. Len(merged) + 1 = Len(parts) /\ k \in 1 .. Len(merged)
  BY <1>3, <1>12, <1>13
<1>18. FlattenSeq(merged) = FlattenSeq(parts)
  BY <1>12, <1>13, <1>14, <1>15, <1>16, <1>17, FlattenMerge
<1>19. Bytes(M) = Bytes(layout)
  BY <1>11, <1>18 DEF Bytes
<1>20. Len(M) + 1 = Len(layout)
  BY <1>3, <1>7
<1>21. Joined(M, layout, k, w, v)
  BY <1>7, <1>8, <1>10, <1>19, <1>20 DEF Joined
<1> QED BY <1>21 DEF w, v

LEMMA FieldsWhole ==
  ASSUME NEW layout, IsLayout(layout), NEW n, AllWhole(layout, n)
  PROVE  WholeBytes(layout)
<1>1. DOMAIN layout = 1 .. Len(layout)
  BY DEF IsLayout
<1>2. ASSUME NEW k \in 1 .. Len(layout)
      PROVE  layout[k].width \in {8, 16, 24} /\ Small(layout[k].value, Limit(layout[k].width))
  <2>1. PICK w \in {8, 16, 24} : \E x : FieldAt(layout, k, w, x)
    BY DEF AllWhole
  <2>2. PICK x : FieldAt(layout, k, w, x)
    BY <2>1
  <2> QED BY <2>2 DEF FieldAt
<1> QED BY <1>1, <1>2 DEF WholeBytes

(* What is read where such a field stands.                                 *)
LEMMA FieldOfAt ==
  ASSUME NEW layout, NEW k, NEW w, NEW x, FieldAt(layout, k, w, x)
  PROVE  FieldOf(layout, k) = FieldBytes(w, x) /\ x \in Seq(Nat) /\ Small(x, Limit(w))
BY DEF FieldAt, FieldOf

LEMMA ByteReads ==
  ASSUME NEW layout, NEW k, NEW v, NumberAt(layout, k, 8, v), NEW i \in Nat, NEW p, Stands(i, FieldOf(layout, k), p)
  PROVE  ReadsByte(layout, k, p, i, v)
<1>1. FieldOf(layout, k) = <<v>> /\ v \in Nat
  BY FieldOfAt DEF FieldBytes, NumberAt
<1>2. Len(<<v>>) = 1 /\ <<v>>[1] = v /\ 1 \in 1 .. 1
  OBVIOUS
<1>3. p[i + 1] = v
  BY <1>1, <1>2 DEF Stands
<1> QED BY <1>1, <1>2, <1>3 DEF ReadsByte, U8

LEMMA WordReads ==
  ASSUME NEW layout, NEW k, NEW v, NumberAt(layout, k, 16, v), NEW i \in Nat, NEW p, Stands(i, FieldOf(layout, k), p)
  PROVE  ReadsWord(layout, k, p, i, v)
<1>1. FieldOf(layout, k) = FieldBytes(16, <<v>>) /\ v \in Nat /\ v < 256 * 256
  BY FieldOfAt, LimitsAre DEF NumberAt
<1>2. Pair(v) \in Seq(Byte) /\ Len(Pair(v)) = 2
  BY <1>1, PairIs
<1>3. [u \in DOMAIN <<v>> |-> Pair(<<v>>[u])] = <<Pair(v)>>
  OBVIOUS
<1>4. FieldBytes(16, <<v>>) = Pair(v)
  BY <1>2, <1>3, FlattenOne DEF FieldBytes
<1>5. U16(p, i) = v
  BY <1>1, <1>4, ReadPair
<1> QED BY <1>1, <1>2, <1>4, <1>5 DEF ReadsWord

LEMMA TripleReads ==
  ASSUME NEW layout, NEW k, NEW v, NumberAt(layout, k, 24, v), NEW i \in Nat, NEW p, Stands(i, FieldOf(layout, k), p)
  PROVE  ReadsTriple(layout, k, p, i, v)
<1>1. FieldOf(layout, k) = FieldBytes(24, <<v>>) /\ v \in Nat /\ v < 256 * 256 * 256
  BY FieldOfAt, LimitsAre DEF NumberAt
<1>2. Triple(v) \in Seq(Byte) /\ Len(Triple(v)) = 3
  BY <1>1, OctetsOfTriple
<1>3. [u \in DOMAIN <<v>> |-> Triple(<<v>>[u])] = <<Triple(v)>>
  OBVIOUS
<1>4. FieldOf(layout, k) = Triple(v)
  BY <1>1, <1>2, <1>3, FlattenOne DEF FieldBytes
<1>p. PICK h \in 0 .. 255, l \in Nat : l < 256 * 256 /\ TripleIn(v, h, l)
  BY <1>1, BytesOfTriple
<1>5. h = v \div (256 * 256) /\ l = v % (256 * 256) /\ v = h * (256 * 256) + l
  BY <1>p DEF TripleIn
<1>6. Triple(v) = <<h>> \o Pair(l) /\ Pair(l) \in Seq(Byte) /\ Len(Pair(l)) = 2 /\ h \in Byte
  BY <1>p, <1>5, PairIs DEF Triple, Byte
<1>7. Triple(v)[1] = h /\ Triple(v)[2] = Pair(l)[1] /\ Triple(v)[3] = Pair(l)[2]
  <2> DEFINE x == <<h>>
             y == Pair(l)
  <2>1. x \in Seq(Byte) /\ Len(x) = 1 /\ x[1] = h /\ y \in Seq(Byte) /\ Len(y) = 2
    BY <1>6
  <2> HIDE DEF x, y
  <2>2. \A u \in 1 .. Len(x) + Len(y) : (x \o y)[u] = IF u <= Len(x) THEN x[u] ELSE y[u - Len(x)]
    BY <2>1, ConcatProperties
  <2>3. (x \o y)[1] = h /\ (x \o y)[2] = y[1] /\ (x \o y)[3] = y[2]
    <3>1. /\ 1 \in 1 .. Len(x) + Len(y) /\ 1 <= Len(x)
          /\ 2 \in 1 .. Len(x) + Len(y) /\ ~(2 <= Len(x)) /\ 2 - Len(x) = 1
          /\ 3 \in 1 .. Len(x) + Len(y) /\ ~(3 <= Len(x)) /\ 3 - Len(x) = 2
      BY <2>1
    <3> QED BY <2>1, <2>2, <3>1
  <2> QED BY <1>6, <2>3 DEF x, y
<1>8. p[i + 1] = h /\ p[i + 2] = Pair(l)[1] /\ p[i + 3] = Pair(l)[2]
  <2>1. \A u \in 1 .. 3 : p[i + u] = Triple(v)[u]
    BY <1>2, <1>4 DEF Stands
  <2>2. 1 \in 1 .. 3 /\ 2 \in 1 .. 3 /\ 3 \in 1 .. 3
    OBVIOUS
  <2> QED BY <1>7, <2>1, <2>2
<1>9. Stands(i + 1, Pair(l), p)
  <2>1. i + 1 + 1 = i + 2 /\ i + 1 + 2 = i + 3 /\ \A u \in 1 .. 2 : u = 1 \/ u = 2
    OBVIOUS
  <2> QED BY <1>6, <1>8, <2>1 DEF Stands
<1>10. U16(p, i + 1) = l
  BY <1>p, <1>9, ReadPair
<1>11. U8(p, i) = h
  BY <1>8 DEF U8
<1>12. U24(p, i) = h * 256 * 256 + l
  BY <1>10, <1>11 DEF U24
<1>13. h * 256 * 256 + l = v
  BY <1>5
<1> QED BY <1>2, <1>4, <1>12, <1>13 DEF ReadsTriple

LEMMA HalvesReads ==
  ASSUME NEW layout, NEW k, NEW x, FieldAt(layout, k, 16, x), Len(x) = 2,
         NEW i \in Nat, NEW p, Stands(i, FieldOf(layout, k), p)
  PROVE  ReadsHalves(layout, k, p, i, x)
<1>1. FieldOf(layout, k) = FieldBytes(16, x) /\ x \in Seq(Nat) /\ Small(x, 256 * 256)
  BY FieldOfAt, LimitsAre
<1> QED BY <1>1, ReadHalves DEF ReadsHalves

LEMMA BytesReads ==
  ASSUME NEW layout, NEW k, NEW x, FieldAt(layout, k, 8, x), NEW i \in Nat, NEW p, Stands(i, FieldOf(layout, k), p)
  PROVE  ReadsBytes(layout, k, p, i, x)
<1>1. FieldOf(layout, k) = x /\ x \in Seq(Nat)
  BY FieldOfAt DEF FieldBytes
<1>2. Len(x) \in Nat /\ (Len(x) = 0 => x = <<>>)
  BY <1>1
<1>3. Copy(p, i, Len(x)) = x
  BY <1>1, ReadText
<1> QED BY <1>1, <1>2, <1>3 DEF ReadsBytes

LEMMA ToldIs ==
  ASSUME NEW layout, Flat(layout)
  PROVE  /\ Told(layout) = [key \in DOMAIN Told(layout) |-> Told(layout)[key]]
         /\ \A key \in DOMAIN Told(layout) :
              /\ Told(layout)[key] # <<>>
              /\ \E k \in DOMAIN layout :
                   layout[k].name # "reserved" /\ layout[k].value # <<>> /\ key = KeyOf(layout[k].name)
         /\ \A k \in DOMAIN layout :
              layout[k].name # "reserved" => Tells(Told(layout), KeyOf(layout[k].name)) = layout[k].value
<1> DEFINE D == DOMAIN layout
           K(k) == KeyOf(layout[k].name)
           Value(k) == layout[k].value
           told == {k \in D : layout[k].name # "reserved" /\ Value(k) # <<>>}
           Mine(k) == <<layout[k].name, layout[k].nrs>>
           TT == Told(layout)
<1>1. \A k \in D : Mine(k) = K(k)
  BY DEF Flat, KeyOf
<1>2. \A j, k \in told : K(j) = K(k) => j = k
  BY DEF Flat, KeyOf
<1>3. TT = [key \in {Mine(k) : k \in told} |-> Value(CHOOSE k \in told : Mine(k) = key)]
  BY DEF Told
<1>t. /\ told \subseteq D /\ \A k \in told : Value(k) # <<>> /\ layout[k].name # "reserved"
      /\ \A k \in D : layout[k].name # "reserved" /\ Value(k) # <<>> => k \in told
  OBVIOUS
<1> HIDE DEF TT, Mine, told
<1>4. DOMAIN TT = {Mine(k) : k \in told} /\ TT = [key \in DOMAIN TT |-> TT[key]]
  BY <1>3
<1>5. ASSUME NEW k \in told PROVE K(k) \in DOMAIN TT /\ TT[K(k)] = Value(k)
  <2>1. Mine(k) = K(k) /\ Mine(k) \in DOMAIN TT
    BY <1>1, <1>4, <1>t
  <2>2. \A j \in told : Mine(j) = Mine(k) => j = k
    <3>1. \A j \in told : Mine(j) = K(j)
      BY <1>1, <1>t
    <3> HIDE DEF K
    <3> QED BY <1>2, <2>1, <3>1
  <2>3. (CHOOSE j \in told : Mine(j) = Mine(k)) = k
    BY <2>2
  <2>4. TT[Mine(k)] = Value(k)
    BY <1>3, <2>1, <2>3
  <2> QED BY <2>1, <2>4
<1>6. ASSUME NEW key \in DOMAIN TT
      PROVE  TT[key] # <<>> /\ \E k \in D : layout[k].name # "reserved" /\ Value(k) # <<>> /\ key = K(k)
  <2>1. PICK k \in told : key = Mine(k)
    BY <1>4
  <2>2. key = K(k)
    BY <1>1, <1>t, <2>1
  <2> QED BY <1>5, <1>t, <2>2
<1>7. ASSUME NEW k \in D, layout[k].name # "reserved" PROVE Tells(TT, K(k)) = Value(k)
  <2>1. CASE Value(k) # <<>>
    BY <1>5, <1>7, <1>t, <2>1 DEF Tells
  <2>2. CASE Value(k) = <<>>
    <3>1. K(k) \notin DOMAIN TT
      <4> SUFFICES ASSUME K(k) \in DOMAIN TT PROVE FALSE
        OBVIOUS
      <4>1. PICK j \in D : layout[j].name # "reserved" /\ Value(j) # <<>> /\ K(k) = K(j)
        BY <1>6
      <4>2. layout[j].name = layout[k].name
        BY <4>1 DEF KeyOf
      <4>3. j = k
        BY <1>7, <4>2 DEF Flat
      <4> QED BY <2>2, <4>1, <4>3
    <3> QED BY <2>2, <3>1 DEF Tells
  <2> QED BY <2>1, <2>2
<1> QED BY <1>4, <1>6, <1>7 DEF TT

(* The file of a field agrees with what the layout tells, and so does an   *)
(* empty one of a name that it does not have.                              *)
LEMMA FieldAgrees ==
  ASSUME NEW layout, Flat(layout), NEW k \in DOMAIN layout, layout[k].name # "reserved"
  PROVE  Agrees(Bin(layout[k].name, layout[k].value), Told(layout))
<1>1. Tells(Told(layout), KeyOf(layout[k].name)) = layout[k].value
  BY ToldIs
<1> DEFINE b == Bin(layout[k].name, layout[k].value)
<1>2. DOMAIN b = {KeyOf(layout[k].name)} /\ b[KeyOf(layout[k].name)] = layout[k].value
  BY BinIs DEF KeyOf
<1> HIDE DEF b
<1>3. Agrees(b, Told(layout))
  BY <1>1, <1>2 DEF Agrees
<1> QED BY <1>3 DEF b

LEMMA EmptyAgrees ==
  ASSUME NEW layout, Flat(layout), NEW name, \A k \in DOMAIN layout : layout[k].name # name
  PROVE  Agrees(Bin(name, <<>>), Told(layout))
<1>1. KeyOf(name) \notin DOMAIN Told(layout)
  <2> SUFFICES ASSUME KeyOf(name) \in DOMAIN Told(layout) PROVE FALSE
    OBVIOUS
  <2>1. PICK k \in DOMAIN layout : KeyOf(name) = KeyOf(layout[k].name)
    BY ToldIs
  <2>2. name = layout[k].name
    BY <2>1 DEF KeyOf
  <2> QED BY <2>2
<1> DEFINE b == Bin(name, <<>>)
<1>2. DOMAIN b = {KeyOf(name)} /\ b[KeyOf(name)] = <<>>
  BY BinIs DEF KeyOf
<1> HIDE DEF b
<1>3. Agrees(b, Told(layout))
  BY <1>1, <1>2 DEF Agrees, Tells
<1> QED BY <1>3 DEF b

LEMMA NoneAgree == \A told : Agrees(NoFiles, told)
BY NoFilesIs DEF Agrees

(* Some natural numbers up to n have a last one.                           *)
LEMMA LastOne ==
  ASSUME NEW n \in Nat, NEW S, S \subseteq 1 .. n, S # {}
  PROVE  \E k \in S : \A m \in S : m <= k
<1> DEFINE Has(i) == \A R \in SUBSET (1 .. i) : R # {} => \E k \in R : \A m \in R : m <= k
           Good == {i \in Nat : Has(i)}
<1>1. Has(0)
  <2>1. 1 .. 0 = {}
    OBVIOUS
  <2>2. \A R \in SUBSET (1 .. 0) : R = {}
    BY <2>1
  <2> QED BY <2>2
<1>2. ASSUME NEW i \in Nat, Has(i) PROVE Has(i + 1)
  <2> SUFFICES ASSUME NEW R \in SUBSET (1 .. i + 1), R # {} PROVE \E k \in R : \A m \in R : m <= k
    OBVIOUS
  <2>1. CASE i + 1 \in R
    BY <2>1
  <2>2. CASE i + 1 \notin R
    <3>1. R \in SUBSET (1 .. i)
      BY <2>2
    <3> QED BY <1>2, <3>1
  <2> QED BY <2>1, <2>2
<1> HIDE DEF Has
<1>3. Nat \subseteq Good
  <2>1. 0 \in Good /\ \A i \in Nat : i \in Good => i + 1 \in Good
    BY <1>1, <1>2
  <2> HIDE DEF Good
  <2> QED BY <2>1, NatSetInduction
<1>4. Has(n)
  BY <1>3
<1> QED BY <1>4 DEF Has

(* Files that agree do so together, and each of them is there.             *)
LEMMA FilesAgree ==
  ASSUME NEW told, NEW n \in Nat, NEW parts, DOMAIN parts = 1 .. n, \A k \in 1 .. n : Agrees(parts[k], told)
  PROVE  /\ Agrees(Files(parts), told)
         /\ \A k \in 1 .. n : DOMAIN parts[k] \subseteq DOMAIN Files(parts)
<1> DEFINE all == UNION {DOMAIN parts[k] : k \in DOMAIN parts}
           IsLast(key, k) == key \in DOMAIN parts[k] /\ \A m \in DOMAIN parts : m > k => key \notin DOMAIN parts[m]
           LastWith(key) == CHOOSE k \in DOMAIN parts : IsLast(key, k)
<1>1. Files(parts) = [key \in all |-> parts[LastWith(key)][key]]
  BY DEF Files
<1>2. ASSUME NEW key \in all PROVE LastWith(key) \in 1 .. n /\ key \in DOMAIN parts[LastWith(key)]
  <2> DEFINE S == {k \in 1 .. n : key \in DOMAIN parts[k]}
  <2>1. S \subseteq 1 .. n /\ S # {}
    OBVIOUS
  <2> HIDE DEF S
  <2>2. PICK k \in S : \A m \in S : m <= k
    BY <2>1, LastOne
  <2>3. k \in DOMAIN parts /\ IsLast(key, k)
    <3>1. \A m \in 1 .. n : m > k => ~(m <= k)
      BY <2>1
    <3> QED BY <2>2, <3>1 DEF S
  <2> HIDE DEF IsLast
  <2>4. LastWith(key) \in DOMAIN parts /\ IsLast(key, LastWith(key))
    BY <2>3
  <2> HIDE DEF LastWith
  <2> QED BY <2>4 DEF IsLast
<1>3. DOMAIN Files(parts) = all
  BY <1>1
<1> HIDE DEF LastWith
<1>4. ASSUME NEW key \in all PROVE Files(parts)[key] = Tells(told, key)
  <2>1. Files(parts)[key] = parts[LastWith(key)][key]
    BY <1>1
  <2> QED BY <1>2, <2>1 DEF Agrees
<1> HIDE DEF all
<1>5. Agrees(Files(parts), told)
  BY <1>3, <1>4 DEF Agrees
<1>6. \A k \in 1 .. n : DOMAIN parts[k] \subseteq all
  BY DEF all
<1> QED BY <1>3, <1>5, <1>6

(* If nothing is missing, they show what the layout tells.                 *)
LEMMA AllTold ==
  ASSUME NEW layout, Flat(layout), NEW made, Agrees(made, Told(layout)),
         \A k \in DOMAIN layout :
           layout[k].name = "reserved" \/ layout[k].value = <<>> \/ KeyOf(layout[k].name) \in DOMAIN made
  PROVE  Filled(made) = Told(layout)
<1> DEFINE TT == Told(layout)
           S == {key \in DOMAIN made : made[key] # <<>>}
<1>1. Filled(made) = [key \in S |-> made[key]]
  BY DEF Filled
<1>2. /\ TT = [key \in DOMAIN TT |-> TT[key]]
      /\ \A key \in DOMAIN TT : TT[key] # <<>> /\ key \in DOMAIN made
  BY ToldIs
<1>3. \A key \in DOMAIN made : made[key] = Tells(TT, key)
  BY DEF Agrees
<1> HIDE DEF TT
<1>4. S = DOMAIN TT /\ \A key \in S : made[key] = TT[key]
  <2>1. \A key \in DOMAIN TT : key \in S /\ made[key] = TT[key]
    BY <1>2, <1>3 DEF Tells
  <2>2. \A key \in S : key \in DOMAIN TT
    BY <1>3 DEF Tells
  <2> QED BY <2>1, <2>2
<1> HIDE DEF S
<1>5. [key \in S |-> made[key]] = [key \in DOMAIN TT |-> TT[key]]
  BY <1>4
<1> QED BY <1>1, <1>2, <1>5 DEF TT

LEMMA Merge ==
  ASSUME NEW layout, NEW size, NEW bytes, LaidOut(layout, size, bytes), NEW k, NEW a, NEW h, NumberAt(layout, k, a, h),
         NEW i, NEW b, NEW l, NumberAt(layout, i, b, l), NEW w, NEW m, Fits(a, b, w, k, i, m),
         NEW v, Puts(v, h, m, l)
  PROVE  \E M : Merged(M, layout, k, w, v)
<1>0. /\ IsLayout(layout) /\ a \in 1 .. 24 /\ b \in 1 .. 24 /\ a + b <= 24 /\ w = a + b
      /\ NumberAt(layout, k + 1, b, l) /\ v = h * Limit(b) + l
  BY DEF Fits, Puts, LaidOut
<1>1. PICK M : Joined(M, layout, k, w, v)
  BY <1>0, JoinKeeps
<1>2. /\ IsLayout(M) /\ Bytes(M) = Bytes(layout) /\ Len(M) + 1 = Len(layout) /\ NumberAt(M, k, w, v)
      /\ \A j \in 1 .. Len(M) : j < k => M[j] = layout[j]
      /\ \A j \in 1 .. Len(M) : j > k => M[j] = layout[j + 1]
  BY <1>1 DEF Joined
<1>3. Len(M) \in Nat /\ Len(layout) = Len(M) + 1 /\ k \in 1 .. Len(M)
  BY <1>2 DEF IsLayout, NumberAt, FieldAt
<1>4. ASSUME NEW j, NEW u, NEW x, FieldAt(layout, j, u, x), j < k
      PROVE  FieldAt(M, j, u, x)
  <2>1. j \in 1 .. Len(layout) /\ layout[j].width = u /\ layout[j].value = x /\ x \in Seq(Nat) /\ Small(x, Limit(u))
    BY <1>4 DEF FieldAt
  <2>2. j \in 1 .. Len(M)
    BY <1>3, <1>4, <2>1
  <2>3. M[j] = layout[j]
    BY <1>2, <1>4, <2>2
  <2> QED BY <2>1, <2>2, <2>3 DEF FieldAt
<1>5. ASSUME NEW j \in Nat, NEW u, NEW x, FieldAt(layout, j + 1, u, x), j > k
      PROVE  FieldAt(M, j, u, x)
  <2>1. /\ j + 1 \in 1 .. Len(layout) /\ layout[j + 1].width = u /\ layout[j + 1].value = x
        /\ x \in Seq(Nat) /\ Small(x, Limit(u))
    BY <1>5 DEF FieldAt
  <2>2. j \in 1 .. Len(M)
    BY <1>3, <1>5, <2>1
  <2>3. M[j] = layout[j + 1]
    BY <1>2, <1>5, <2>2
  <2> QED BY <2>1, <2>2, <2>3 DEF FieldAt
<1>6. ASSUME NEW j, NEW u, NEW n, NumberAt(layout, j, u, n), j < k
      PROVE  NumberAt(M, j, u, n)
  BY <1>4, <1>6 DEF NumberAt
<1>7. ASSUME NEW j \in Nat, NEW u, NEW n, NumberAt(layout, j + 1, u, n), j > k
      PROVE  NumberAt(M, j, u, n)
  BY <1>5, <1>7 DEF NumberAt
<1>8. Merged(M, layout, k, w, v)
  BY <1>2, <1>4, <1>5, <1>6, <1>7 DEF Merged
<1> QED BY <1>8

LEMMA MergedIs ==
  ASSUME NEW layout, NEW m, NEW bytes, LaidOut(layout, m, bytes),
         NEW M, NEW k, NEW w, NEW v, Merged(M, layout, k, w, v), NEW n, Follows(m, n)
  PROVE  LaidOut(M, n, bytes)
<1>1. Len(M) \in Nat /\ n \in Nat /\ Len(M) + 1 = n + 1
  BY DEF Merged, IsLayout, Follows, LaidOut
<1>2. Len(M) = n
  BY <1>1
<1> QED BY <1>2 DEF Merged, LaidOut

LEMMA MergedNumber ==
  ASSUME NEW M, NEW layout, NEW k, NEW w, NEW v, Merged(M, layout, k, w, v)
  PROVE  NumberAt(M, k, w, v)
BY DEF Merged

LEMMA NumberMoves ==
  ASSUME NEW M, NEW layout, NEW k, NEW w, NEW v, Merged(M, layout, k, w, v), NEW i, NEW j, Moves(i, j, k),
         NEW u, NEW n, NumberAt(layout, i, u, n)
  PROVE  NumberAt(M, j, u, n)
BY DEF Moves, Merged

LEMMA FieldMoves ==
  ASSUME NEW M, NEW layout, NEW k, NEW w, NEW v, Merged(M, layout, k, w, v), NEW i, NEW j, Moves(i, j, k),
         NEW u, NEW x, FieldAt(layout, i, u, x)
  PROVE  FieldAt(M, j, u, x)
BY DEF Moves, Merged

LEMMA SmallLimits ==
  /\ Limit(1) = 2 /\ Limit(2) = 4 /\ Limit(3) = 8 /\ Limit(4) = 16 /\ Limit(5) = 32 /\ Limit(6) = 64
  /\ Limit(7) = 128 /\ Limit(8) = 256 /\ Limit(9) = 512 /\ Limit(12) = 4096
BY DEF Limit, Powers

LEMMA StandFirst ==
  ASSUME NEW layout, WholeBytes(layout), NEW base \in Nat, NEW p, Stands(base, Bytes(layout), p)
  PROVE  StandFrom(layout, 1, base, p, base + Len(Bytes(layout)))
<1>1. PICK off : FieldsAt(off, layout, base, p)
  BY FieldsStand
<1>2. 1 - 1 = 0
  OBVIOUS
<1> QED BY <1>1, <1>2 DEF FieldsAt, StandFrom

LEMMA StandLast ==
  ASSUME NEW layout, NEW k, k = Len(layout) + 1, Len(layout) \in Nat, NEW i, NEW p, NEW end, StandFrom(layout, k, i, p, end)
  PROVE  i = end
<1>1. k - 1 = Len(layout)
  OBVIOUS
<1> QED BY <1>1 DEF StandFrom

LEMMA StandNext ==
  ASSUME NEW layout, NEW k \in 1 .. Len(layout), NEW i, NEW p, NEW end, StandFrom(layout, k, i, p, end)
  PROVE  /\ i \in Nat /\ Stands(i, FieldOf(layout, k), p)
         /\ StandFrom(layout, k + 1, i + Len(FieldOf(layout, k)), p, end)
<1>1. PICK off : /\ off[k - 1] = i /\ off[Len(layout)] = end
                 /\ \A j \in 1 .. Len(layout) :
                      /\ off[j - 1] \in Nat /\ off[j] = off[j - 1] + Len(FieldOf(layout, j))
                      /\ Stands(off[j - 1], FieldOf(layout, j), p)
  BY DEF StandFrom
<1>2. (k + 1) - 1 = k
  OBVIOUS
<1>3. off[(k + 1) - 1] = i + Len(FieldOf(layout, k))
  BY <1>1, <1>2
<1>4. StandFrom(layout, k + 1, i + Len(FieldOf(layout, k)), p, end)
  BY <1>1, <1>3 DEF StandFrom
<1> QED BY <1>1, <1>4

LEMMA TakeByte ==
  ASSUME NEW layout, NEW k, NEW v, NumberAt(layout, k, 8, v), NEW i, NEW p, NEW end, StandFrom(layout, k, i, p, end),
         NEW m, NEW j, Onward(m, k, j, i, 1)
  PROVE  U8(p, i) = v /\ StandFrom(layout, m, j, p, end)
<1>1. k \in 1 .. Len(layout)
  BY DEF NumberAt, FieldAt
<1>2. i \in Nat /\ Stands(i, FieldOf(layout, k), p) /\ StandFrom(layout, k + 1, i + Len(FieldOf(layout, k)), p, end)
  BY <1>1, StandNext
<1>3. Len(FieldOf(layout, k)) = 1 /\ U8(p, i) = v
  BY <1>2, ByteReads DEF ReadsByte
<1> QED BY <1>2, <1>3 DEF Onward

LEMMA TakeWord ==
  ASSUME NEW layout, NEW k, NEW v, NumberAt(layout, k, 16, v), NEW i, NEW p, NEW end, StandFrom(layout, k, i, p, end),
         NEW m, NEW j, Onward(m, k, j, i, 2)
  PROVE  U16(p, i) = v /\ StandFrom(layout, m, j, p, end)
<1>1. k \in 1 .. Len(layout)
  BY DEF NumberAt, FieldAt
<1>2. i \in Nat /\ Stands(i, FieldOf(layout, k), p) /\ StandFrom(layout, k + 1, i + Len(FieldOf(layout, k)), p, end)
  BY <1>1, StandNext
<1>3. Len(FieldOf(layout, k)) = 2 /\ U16(p, i) = v
  BY <1>2, WordReads DEF ReadsWord
<1> QED BY <1>2, <1>3 DEF Onward

LEMMA TakeTriple ==
  ASSUME NEW layout, NEW k, NEW v, NumberAt(layout, k, 24, v), NEW i, NEW p, NEW end, StandFrom(layout, k, i, p, end),
         NEW m, NEW j, Onward(m, k, j, i, 3)
  PROVE  U24(p, i) = v /\ StandFrom(layout, m, j, p, end)
<1>1. k \in 1 .. Len(layout)
  BY DEF NumberAt, FieldAt
<1>2. i \in Nat /\ Stands(i, FieldOf(layout, k), p) /\ StandFrom(layout, k + 1, i + Len(FieldOf(layout, k)), p, end)
  BY <1>1, StandNext
<1>3. Len(FieldOf(layout, k)) = 3 /\ U24(p, i) = v
  BY <1>2, TripleReads DEF ReadsTriple
<1> QED BY <1>2, <1>3 DEF Onward

LEMMA TakeHalves ==
  ASSUME NEW layout, NEW k, NEW x, FieldAt(layout, k, 16, x), Len(x) = 2, NEW i, NEW p, NEW end, StandFrom(layout, k, i, p, end),
         NEW m, NEW j, Onward(m, k, j, i, 4)
  PROVE  U32(p, i) = x /\ StandFrom(layout, m, j, p, end)
<1>1. k \in 1 .. Len(layout)
  BY DEF FieldAt
<1>2. i \in Nat /\ Stands(i, FieldOf(layout, k), p) /\ StandFrom(layout, k + 1, i + Len(FieldOf(layout, k)), p, end)
  BY <1>1, StandNext
<1>3. Len(FieldOf(layout, k)) = 4 /\ U32(p, i) = x
  BY <1>2, HalvesReads DEF ReadsHalves
<1> QED BY <1>2, <1>3 DEF Onward

LEMMA TakeBytes ==
  ASSUME NEW layout, NEW k, NEW x, FieldAt(layout, k, 8, x), NEW i, NEW p, NEW end, StandFrom(layout, k, i, p, end),
         NEW m, NEW j, Onward(m, k, j, i, Len(x))
  PROVE  Copy(p, i, Len(x)) = x /\ StandFrom(layout, m, j, p, end)
<1>1. k \in 1 .. Len(layout)
  BY DEF FieldAt
<1>2. i \in Nat /\ Stands(i, FieldOf(layout, k), p) /\ StandFrom(layout, k + 1, i + Len(FieldOf(layout, k)), p, end)
  BY <1>1, StandNext
<1>3. Len(FieldOf(layout, k)) = Len(x) /\ Copy(p, i, Len(x)) = x
  BY <1>2, BytesReads DEF ReadsBytes
<1> QED BY <1>2, <1>3 DEF Onward

LEMMA ShapeHolds ==
  ASSUME NEW d, IsLayout(d.layout), NEW tag, NEW shape, NEW n, Shapely(shape, n), Shaped(d, tag, shape)
  PROVE  /\ Flat(d.layout) /\ Len(d.layout) = n /\ DOMAIN d.layout = 1 .. n
         /\ \A k \in 1 .. n : d.layout[k].name = shape[k][1] /\ HeldAt(d.layout, k, shape[k][2], shape[k][3])
<1> DEFINE layout == d.layout
<1>1. /\ Len(layout) = n /\ n \in Nat /\ DOMAIN layout = 1 .. n /\ DOMAIN shape = 1 .. n
      /\ \A k \in 1 .. n : layout[k].name = shape[k][1] /\ layout[k].nrs = <<>>
      /\ \A k \in 1 .. n : Holds(layout, k, shape[k][2], shape[k][3])
      /\ \A k \in 1 .. n : layout[k].value \in Seq(Nat)
  BY DEF Shaped, IsLayout, Shapely
<1>2. Flat(layout)
  BY <1>1, SMTT(30) DEF Flat, Shapely
<1>3. ASSUME NEW k \in 1 .. n PROVE HeldAt(layout, k, shape[k][2], shape[k][3])
  <2> DEFINE w == shape[k][2]
             what == shape[k][3]
             x == layout[k].value
             next == Len(layout[k + 1].value)
  <2>1. /\ layout[k].width = w /\ x \in Seq(Nat) /\ (\A u \in DOMAIN x : x[u] < Limit(w))
        /\ (what = "number" => Len(x) = 1) /\ (what = "halves" => Len(x) = 2) /\ (what = "code" => Len(x) = 3)
        /\ (what \in {"text", "code"} => \A u \in DOMAIN x : x[u] > 0) /\ (what = "length" => x = <<next>>)
    BY <1>1 DEF Holds
  <2> HIDE DEF next
  <2>2. FieldAt(layout, k, w, x)
    BY <1>1, <2>1 DEF FieldAt, Small
  <2> HIDE DEF w, what, x
  <2>3. ASSUME what \in {"number", "length"} PROVE NumberAt(layout, k, w, x[1]) /\ x = <<x[1]>>
    <3>1. Len(x) = 1
      BY <2>1, <2>3
    <3>2. x = <<x[1]>> /\ x[1] \in Nat /\ x[1] < Limit(w)
      <4>1. x \in Seq(Nat)
        BY <2>1
      <4>2. 1 \in DOMAIN x /\ x[1] \in Nat
        BY <3>1, <4>1, SMTT(30)
      <4>3. x = <<x[1]>>
        BY <3>1, <4>1
      <4> QED BY <2>1, <4>2, <4>3
    <3> QED BY <2>2, <3>2 DEF NumberAt
  <2>4. what = "length" => x[1] = next
    BY <2>1
  <2> QED BY <2>1, <2>2, <2>3, <2>4 DEF HeldAt, w, what, x, next
<1> QED BY <1>1, <1>2, <1>3

LEMMA CoversField ==
  ASSUME NEW layout, Flat(layout), NEW k \in DOMAIN layout, NEW name, name = layout[k].name, name # "reserved",
         NEW x, x = layout[k].value
  PROVE  Covers(Bin(name, x), layout, {name})
<1>1. Agrees(Bin(name, x), Told(layout))
  BY FieldAgrees
<1>2. DOMAIN Bin(name, x) = {KeyOf(name)}
  BY BinIs DEF KeyOf
<1> QED BY <1>1, <1>2 DEF Covers

LEMMA CoversNone ==
  ASSUME NEW layout
  PROVE  Covers(NoFiles, layout, {})
BY NoneAgree DEF Covers

LEMMA CoversEmpty ==
  ASSUME NEW layout, Flat(layout), NEW name, \A k \in DOMAIN layout : layout[k].name # name
  PROVE  Covers(Bin(name, <<>>), layout, {})
BY EmptyAgrees DEF Covers

LEMMA CoversAll ==
  ASSUME NEW layout, NEW n, NEW parts, NEW named, NEW all, Together(parts, layout, named, n, all)
  PROVE  Covers(Files(parts), layout, all)
<1> DEFINE told == Told(layout)
<1>1. /\ n \in Nat /\ DOMAIN parts = 1 .. n
      /\ \A k \in 1 .. n : Agrees(parts[k], told) /\ \A name \in named[k] : KeyOf(name) \in DOMAIN parts[k]
      /\ \A name \in all : \E k \in 1 .. n : name \in named[k]
  BY DEF Covers, Together
<1> HIDE DEF told
<1>2. Agrees(Files(parts), told) /\ \A k \in 1 .. n : DOMAIN parts[k] \subseteq DOMAIN Files(parts)
  BY <1>1, FilesAgree
<1>3. ASSUME NEW name \in all PROVE KeyOf(name) \in DOMAIN Files(parts)
  <2>1. PICK k \in 1 .. n : name \in named[k]
    BY <1>1
  <2> QED BY <1>1, <1>2, <2>1
<1> QED BY <1>2, <1>3 DEF Covers, told

LEMMA CoversTwo ==
  ASSUME NEW layout, NEW a, NEW A, Covers(a, layout, A), NEW b, NEW B, Covers(b, layout, B)
  PROVE  Covers(Files(<<a, b>>), layout, A \cup B)
<1> DEFINE parts == <<a, b>>
           named == <<A, B>>
<1>1. DOMAIN parts = 1 .. 2 /\ 2 \in Nat /\ \A k \in 1 .. 2 : k = 1 \/ k = 2
  OBVIOUS
<1>2. /\ parts[1] = a /\ parts[2] = b
      /\ named[1] = A /\ named[2] = B
  OBVIOUS
<1> HIDE DEF parts, named
<1>3. \A k \in 1 .. 2 : Covers(parts[k], layout, named[k])
  BY <1>1, <1>2
<1>4. \A name \in A \cup B : \E k \in 1 .. 2 : name \in named[k]
  BY <1>1, <1>2
<1>5. Together(parts, layout, named, 2, A \cup B)
  BY <1>1, <1>3, <1>4 DEF Together
<1> QED BY <1>5, CoversAll DEF parts

LEMMA CoversThree ==
  ASSUME NEW layout, NEW a, NEW A, Covers(a, layout, A), NEW b, NEW B, Covers(b, layout, B),
         NEW c, NEW C, Covers(c, layout, C)
  PROVE  Covers(Files(<<a, b, c>>), layout, A \cup B \cup C)
<1> DEFINE parts == <<a, b, c>>
           named == <<A, B, C>>
<1>1. DOMAIN parts = 1 .. 3 /\ 3 \in Nat /\ \A k \in 1 .. 3 : k = 1 \/ k = 2 \/ k = 3
  OBVIOUS
<1>2. /\ parts[1] = a /\ parts[2] = b /\ parts[3] = c
      /\ named[1] = A /\ named[2] = B /\ named[3] = C
  OBVIOUS
<1> HIDE DEF parts, named
<1>3. \A k \in 1 .. 3 : Covers(parts[k], layout, named[k])
  BY <1>1, <1>2
<1>4. \A name \in A \cup B \cup C : \E k \in 1 .. 3 : name \in named[k]
  BY <1>1, <1>2
<1>5. Together(parts, layout, named, 3, A \cup B \cup C)
  BY <1>1, <1>3, <1>4 DEF Together
<1> QED BY <1>5, CoversAll DEF parts

LEMMA CoversFour ==
  ASSUME NEW layout, NEW a, NEW A, Covers(a, layout, A), NEW b, NEW B, Covers(b, layout, B),
         NEW c, NEW C, Covers(c, layout, C), NEW e, NEW E, Covers(e, layout, E)
  PROVE  Covers(Files(<<a, b, c, e>>), layout, A \cup B \cup C \cup E)
<1> DEFINE parts == <<a, b, c, e>>
           named == <<A, B, C, E>>
<1>1. DOMAIN parts = 1 .. 4 /\ 4 \in Nat /\ \A k \in 1 .. 4 : k = 1 \/ k = 2 \/ k = 3 \/ k = 4
  OBVIOUS
<1>2. /\ parts[1] = a /\ parts[2] = b /\ parts[3] = c /\ parts[4] = e
      /\ named[1] = A /\ named[2] = B /\ named[3] = C /\ named[4] = E
  OBVIOUS
<1> HIDE DEF parts, named
<1>3. \A k \in 1 .. 4 : Covers(parts[k], layout, named[k])
  BY <1>1, <1>2
<1>4. \A name \in A \cup B \cup C \cup E : \E k \in 1 .. 4 : name \in named[k]
  BY <1>1, <1>2
<1>5. Together(parts, layout, named, 4, A \cup B \cup C \cup E)
  BY <1>1, <1>3, <1>4 DEF Together
<1> QED BY <1>5, CoversAll DEF parts

LEMMA CoversFive ==
  ASSUME NEW layout, NEW a, NEW A, Covers(a, layout, A), NEW b, NEW B, Covers(b, layout, B),
         NEW c, NEW C, Covers(c, layout, C), NEW e, NEW E, Covers(e, layout, E),
         NEW f, NEW F, Covers(f, layout, F)
  PROVE  Covers(Files(<<a, b, c, e, f>>), layout, A \cup B \cup C \cup E \cup F)
<1> DEFINE parts == <<a, b, c, e, f>>
           named == <<A, B, C, E, F>>
<1>1. DOMAIN parts = 1 .. 5 /\ 5 \in Nat /\ \A k \in 1 .. 5 : k = 1 \/ k = 2 \/ k = 3 \/ k = 4 \/ k = 5
  OBVIOUS
<1>2. /\ parts[1] = a /\ parts[2] = b /\ parts[3] = c /\ parts[4] = e /\ parts[5] = f
      /\ named[1] = A /\ named[2] = B /\ named[3] = C /\ named[4] = E /\ named[5] = F
  OBVIOUS
<1> HIDE DEF parts, named
<1>3. \A k \in 1 .. 5 : Covers(parts[k], layout, named[k])
  BY <1>1, <1>2
<1>4. \A name \in A \cup B \cup C \cup E \cup F : \E k \in 1 .. 5 : name \in named[k]
  BY <1>1, <1>2
<1>5. Together(parts, layout, named, 5, A \cup B \cup C \cup E \cup F)
  BY <1>1, <1>3, <1>4 DEF Together
<1> QED BY <1>5, CoversAll DEF parts

LEMMA CoversSix ==
  ASSUME NEW layout, NEW a, NEW A, Covers(a, layout, A), NEW b, NEW B, Covers(b, layout, B),
         NEW c, NEW C, Covers(c, layout, C), NEW e, NEW E, Covers(e, layout, E),
         NEW f, NEW F, Covers(f, layout, F), NEW g, NEW G, Covers(g, layout, G)
  PROVE  Covers(Files(<<a, b, c, e, f, g>>), layout, A \cup B \cup C \cup E \cup F \cup G)
<1> DEFINE parts == <<a, b, c, e, f, g>>
           named == <<A, B, C, E, F, G>>
<1>1. DOMAIN parts = 1 .. 6 /\ 6 \in Nat /\ \A k \in 1 .. 6 : k = 1 \/ k = 2 \/ k = 3 \/ k = 4 \/ k = 5 \/ k = 6
  OBVIOUS
<1>2. /\ parts[1] = a /\ parts[2] = b /\ parts[3] = c /\ parts[4] = e /\ parts[5] = f /\ parts[6] = g
      /\ named[1] = A /\ named[2] = B /\ named[3] = C /\ named[4] = E /\ named[5] = F /\ named[6] = G
  OBVIOUS
<1> HIDE DEF parts, named
<1>3. \A k \in 1 .. 6 : Covers(parts[k], layout, named[k])
  BY <1>1, <1>2
<1>4. \A name \in A \cup B \cup C \cup E \cup F \cup G : \E k \in 1 .. 6 : name \in named[k]
  BY <1>1, <1>2
<1>5. Together(parts, layout, named, 6, A \cup B \cup C \cup E \cup F \cup G)
  BY <1>1, <1>3, <1>4 DEF Together
<1> QED BY <1>5, CoversAll DEF parts

(* With every name of the layout among them it shows all.                  *)
LEMMA CoversShown ==
  ASSUME NEW layout, Flat(layout), NEW made, NEW names, Covers(made, layout, names),
         \A k \in DOMAIN layout : layout[k].name = "reserved" \/ layout[k].value = <<>> \/ layout[k].name \in names
  PROVE  Filled(made) = Told(layout)
<1>1. Agrees(made, Told(layout)) /\ \A name \in names : KeyOf(name) \in DOMAIN made
  BY DEF Covers
<1> QED BY <1>1, AllTold

(* Copying no bytes, or fewer, yields none.                                *)
LEMMA CopyNothing ==
  ASSUME NEW p, NEW i \in Int, NEW n \in Int, n <= 0
  PROVE  Copy(p, i, n) = <<>>
<1> DEFINE s == SubSeq(p, i + 1, i + n)
<1>1. i + 1 \in Int /\ i + n \in Int /\ ~(i + 1 <= i + n) /\ \A j \in i + 1 .. i + n : p[j] \in {}
  OBVIOUS
<1>2. s \in Seq({}) /\ Len(s) = 0
  BY <1>1, SubSeqProperties
<1> HIDE DEF s
<1>3. s = <<>>
  BY <1>2
<1> QED BY <1>3 DEF s, Copy

LEMMA StandEnd ==
  ASSUME NEW layout, NEW n, NEW bytes, LaidOut(layout, n, bytes), NEW k, NEW i, NEW p, NEW base, NEW l,
         Ends(k, n, i, base, l), NEW end, EndsAt(end, base, bytes), StandFrom(layout, k, i, p, end)
  PROVE  OfLength(bytes, l)
<1> DEFINE b == Len(bytes)
<1>1. b \in Nat
  BY BytesType DEF LaidOut
<1> HIDE DEF b
<1>2. n \in Nat /\ k = n + 1 /\ base \in Nat /\ l \in Int /\ i = base + l
  BY DEF Ends
<1>3. i = end
  BY <1>2, StandLast DEF LaidOut
<1>4. end = base + b
  BY DEF b, EndsAt
<1>5. b = l
  BY <1>1, <1>2, <1>3, <1>4
<1> QED BY <1>5 DEF b, OfLength

(* The file of a number.                                                   *)
LEMMA CoversNumber ==
  ASSUME NEW layout, Flat(layout), NEW k \in DOMAIN layout, NEW name, name = layout[k].name, name # "reserved",
         NEW v, <<v>> = layout[k].value
  PROVE  Covers(File(name, v), layout, {name})
<1>1. File(name, v) = Bin(name, <<v>>)
  BY FileIs
<1> QED BY <1>1, CoversField

(* The file of a text.                                                     *)
LEMMA CoversText ==
  ASSUME NEW layout, Flat(layout), NEW k \in DOMAIN layout, NEW name, name = layout[k].name, name # "reserved",
         NEW x \in Seq(Nat), x = layout[k].value, \A u \in DOMAIN x : x[u] > 0
  PROVE  Covers(Str(name, x), layout, {name})
<1>1. Str(name, x) = Bin(name, x)
  BY StrIs
<1> QED BY <1>1, CoversField

LEMMA CoversNoText ==
  ASSUME NEW layout, Flat(layout), NEW name, \A k \in DOMAIN layout : layout[k].name # name
  PROVE  Covers(Str(name, <<>>), layout, {})
<1>1. <<>> \in Seq(Nat) /\ \A u \in DOMAIN <<>> : <<>>[u] > 0
  OBVIOUS
<1>2. Str(name, <<>>) = Bin(name, <<>>)
  BY <1>1, StrIs
<1> QED BY <1>2, CoversEmpty

LEMMA WholeStands ==
  ASSUME NEW layout, NEW n, NEW bytes, LaidOut(layout, n, bytes), AllWhole(layout, n),
         NEW base \in Nat, NEW p, Stands(base, bytes, p), NEW end, EndsAt(end, base, bytes)
  PROVE  StandFrom(layout, 1, base, p, end)
<1>1. WholeBytes(layout)
  BY FieldsWhole DEF LaidOut
<1> QED BY <1>1, StandFirst DEF LaidOut, EndsAt

LEMMA AllShown ==
  ASSUME NEW layout, Flat(layout), NEW made, NEW names, Covers(made, layout, names), AllNamed(layout, names)
  PROVE  Filled(made) = Told(layout)
BY CoversShown DEF AllNamed

LEMMA ShowsNumber ==
  ASSUME NEW layout, Flat(layout), NEW k, NEW name, NEW v, HasNumber(layout, k, name, v)
  PROVE  Covers(File(name, v), layout, {name})
BY CoversNumber DEF HasNumber

LEMMA ShowsBytes ==
  ASSUME NEW layout, Flat(layout), NEW k, NEW name, NEW x, HasBytes(layout, k, name, x)
  PROVE  Covers(Bin(name, x), layout, {name})
BY CoversField DEF HasBytes

LEMMA ShowsText ==
  ASSUME NEW layout, Flat(layout), NEW k, NEW name, NEW x, HasText(layout, k, name, x)
  PROVE  Covers(Str(name, x), layout, {name})
BY CoversText DEF HasText, HasBytes

LEMMA ShowsNoText ==
  ASSUME NEW layout, Flat(layout), NEW name, HasNone(layout, name), NEW p, NEW i \in Int, NEW n \in Int, n <= 0
  PROVE  Covers(Str(name, Copy(p, i, n)), layout, {})
<1>1. Copy(p, i, n) = <<>>
  BY CopyNothing
<1>2. Covers(Str(name, <<>>), layout, {})
  BY CoversNoText DEF HasNone
<1> QED BY <1>1, <1>2

LEMMA ShowsNoBytes ==
  ASSUME NEW layout, Flat(layout), NEW name, HasNone(layout, name), NEW p, NEW i \in Int, NEW n \in Int, n <= 0
  PROVE  Covers(Bin(name, Copy(p, i, n)), layout, {})
<1>1. Copy(p, i, n) = <<>>
  BY CopyNothing
<1>2. Covers(Bin(name, <<>>), layout, {})
  BY CoversEmpty DEF HasNone
<1> QED BY <1>1, <1>2

LEMMA HeldNumber ==
  ASSUME NEW layout, NEW k, NEW w, HeldAt(layout, k, w, "number")
  PROVE  NumberIs(layout, k, w, layout[k].value[1])
<1>1. "number" \in {"number", "length"}
  OBVIOUS
<1> QED BY <1>1 DEF HeldAt, NumberIs, NumberAt

LEMMA HeldLength ==
  ASSUME NEW layout, NEW k, NEW w, HeldAt(layout, k, w, "length"), NEW i, i = k + 1
  PROVE  NumberIs(layout, k, w, layout[k].value[1]) /\ layout[k].value[1] = Len(layout[i].value)
<1>1. "length" \in {"number", "length"}
  OBVIOUS
<1> QED BY <1>1 DEF HeldAt, NumberIs, NumberAt

LEMMA HeldBytes ==
  ASSUME NEW layout, NEW k, NEW w, NEW what, HeldAt(layout, k, w, what)
  PROVE  BytesIs(layout, k, w, layout[k].value)
BY DEF HeldAt, BytesIs, FieldAt

LEMMA HeldHalves ==
  ASSUME NEW layout, NEW k, NEW w, HeldAt(layout, k, w, "halves")
  PROVE  Len(layout[k].value) = 2
BY DEF HeldAt

LEMMA HeldText ==
  ASSUME NEW layout, NEW k, NEW w, NEW what, what \in {"text", "code"}, HeldAt(layout, k, w, what)
  PROVE  /\ \A u \in DOMAIN layout[k].value : layout[k].value[u] > 0
         /\ what = "code" => Len(layout[k].value) = 3
BY DEF HeldAt

(* Tuples behind each other.                                               *)
LEMMA JoinTwoNone ==
  ASSUME NEW a, NEW b
  PROVE  <<a, b>> \o <<>> = <<a, b>>
<1> DEFINE D == {a, b}
           x == <<a, b>>
           y == <<>>
           z == <<a, b>>
<1>1. /\ x \in Seq(D) /\ Len(x) = 2 /\ x[1] = a /\ x[2] = b
      /\ y \in Seq(D) /\ Len(y) = 0
      /\ z \in Seq(D) /\ Len(z) = 2
      /\ z[1] = a /\ z[2] = b
  OBVIOUS
<1> HIDE DEF D, x, y, z
<1> DEFINE t == x \o y
<1>2. /\ t \in Seq(D) /\ Len(t) = 2
      /\ t[1] = a /\ t[2] = b
  <2>1. /\ t \in Seq(D) /\ Len(t) = Len(x) + Len(y)
        /\ \A i \in 1 .. Len(x) + Len(y) : t[i] = IF i <= Len(x) THEN x[i] ELSE y[i - Len(x)]
    BY <1>1, ConcatProperties
  <2> HIDE DEF t
  <2>2. \A i \in 1 .. 2 : t[i] = IF i <= 2 THEN x[i] ELSE y[i - 2]
    BY <1>1, <2>1
  <2>3. t[1] = x[1] /\ t[2] = x[2]
    BY <2>2
  <2> QED BY <1>1, <2>1, <2>3
<1> HIDE DEF t
<1>3. t = z
  <2>1. \A i \in 1 .. 2 : t[i] = z[i]
    <3>1. \A i \in 1 .. 2 : i = 1 \/ i = 2
      OBVIOUS
    <3> QED BY <1>1, <1>2, <3>1
  <2> QED BY <1>1, <1>2, <2>1, SeqEqual
<1> QED BY <1>3 DEF t, x, y, z

LEMMA JoinTwoOne ==
  ASSUME NEW a, NEW b, NEW c
  PROVE  <<a, b>> \o <<c>> = <<a, b, c>>
<1> DEFINE D == {a, b, c}
           x == <<a, b>>
           y == <<c>>
           z == <<a, b, c>>
<1>1. /\ x \in Seq(D) /\ Len(x) = 2 /\ x[1] = a /\ x[2] = b
      /\ y \in Seq(D) /\ Len(y) = 1 /\ y[1] = c
      /\ z \in Seq(D) /\ Len(z) = 3
      /\ z[1] = a /\ z[2] = b /\ z[3] = c
  OBVIOUS
<1> HIDE DEF D, x, y, z
<1> DEFINE t == x \o y
<1>2. /\ t \in Seq(D) /\ Len(t) = 3
      /\ t[1] = a /\ t[2] = b /\ t[3] = c
  <2>1. /\ t \in Seq(D) /\ Len(t) = Len(x) + Len(y)
        /\ \A i \in 1 .. Len(x) + Len(y) : t[i] = IF i <= Len(x) THEN x[i] ELSE y[i - Len(x)]
    BY <1>1, ConcatProperties
  <2> HIDE DEF t
  <2>2. \A i \in 1 .. 3 : t[i] = IF i <= 2 THEN x[i] ELSE y[i - 2]
    BY <1>1, <2>1
  <2>3. t[1] = x[1] /\ t[2] = x[2] /\ t[3] = y[1]
    BY <2>2
  <2> QED BY <1>1, <2>1, <2>3
<1> HIDE DEF t
<1>3. t = z
  <2>1. \A i \in 1 .. 3 : t[i] = z[i]
    <3>1. \A i \in 1 .. 3 : i = 1 \/ i = 2 \/ i = 3
      OBVIOUS
    <3> QED BY <1>1, <1>2, <3>1
  <2> QED BY <1>1, <1>2, <2>1, SeqEqual
<1> QED BY <1>3 DEF t, x, y, z

LEMMA JoinTwoTwo ==
  ASSUME NEW a, NEW b, NEW c, NEW e
  PROVE  <<a, b>> \o <<c, e>> = <<a, b, c, e>>
<1> DEFINE D == {a, b, c, e}
           x == <<a, b>>
           y == <<c, e>>
           z == <<a, b, c, e>>
<1>1. /\ x \in Seq(D) /\ Len(x) = 2 /\ x[1] = a /\ x[2] = b
      /\ y \in Seq(D) /\ Len(y) = 2 /\ y[1] = c /\ y[2] = e
      /\ z \in Seq(D) /\ Len(z) = 4
      /\ z[1] = a /\ z[2] = b /\ z[3] = c /\ z[4] = e
  OBVIOUS
<1> HIDE DEF D, x, y, z
<1> DEFINE t == x \o y
<1>2. /\ t \in Seq(D) /\ Len(t) = 4
      /\ t[1] = a /\ t[2] = b /\ t[3] = c /\ t[4] = e
  <2>1. /\ t \in Seq(D) /\ Len(t) = Len(x) + Len(y)
        /\ \A i \in 1 .. Len(x) + Len(y) : t[i] = IF i <= Len(x) THEN x[i] ELSE y[i - Len(x)]
    BY <1>1, ConcatProperties
  <2> HIDE DEF t
  <2>2. \A i \in 1 .. 4 : t[i] = IF i <= 2 THEN x[i] ELSE y[i - 2]
    BY <1>1, <2>1
  <2>3. t[1] = x[1] /\ t[2] = x[2] /\ t[3] = y[1] /\ t[4] = y[2]
    BY <2>2
  <2> QED BY <1>1, <2>1, <2>3
<1> HIDE DEF t
<1>3. t = z
  <2>1. \A i \in 1 .. 4 : t[i] = z[i]
    <3>1. \A i \in 1 .. 4 : i = 1 \/ i = 2 \/ i = 3 \/ i = 4
      OBVIOUS
    <3> QED BY <1>1, <1>2, <3>1
  <2> QED BY <1>1, <1>2, <2>1, SeqEqual
<1> QED BY <1>3 DEF t, x, y, z

LEMMA JoinThreeTwo ==
  ASSUME NEW a, NEW b, NEW c, NEW e, NEW f
  PROVE  <<a, b, c>> \o <<e, f>> = <<a, b, c, e, f>>
<1> DEFINE D == {a, b, c, e, f}
           x == <<a, b, c>>
           y == <<e, f>>
           z == <<a, b, c, e, f>>
<1>1. /\ x \in Seq(D) /\ Len(x) = 3 /\ x[1] = a /\ x[2] = b /\ x[3] = c
      /\ y \in Seq(D) /\ Len(y) = 2 /\ y[1] = e /\ y[2] = f
      /\ z \in Seq(D) /\ Len(z) = 5
      /\ z[1] = a /\ z[2] = b /\ z[3] = c /\ z[4] = e /\ z[5] = f
  OBVIOUS
<1> HIDE DEF D, x, y, z
<1> DEFINE t == x \o y
<1>2. /\ t \in Seq(D) /\ Len(t) = 5
      /\ t[1] = a /\ t[2] = b /\ t[3] = c /\ t[4] = e /\ t[5] = f
  <2>1. /\ t \in Seq(D) /\ Len(t) = Len(x) + Len(y)
        /\ \A i \in 1 .. Len(x) + Len(y) : t[i] = IF i <= Len(x) THEN x[i] ELSE y[i - Len(x)]
    BY <1>1, ConcatProperties
  <2> HIDE DEF t
  <2>2. \A i \in 1 .. 5 : t[i] = IF i <= 3 THEN x[i] ELSE y[i - 3]
    BY <1>1, <2>1
  <2>3. t[1] = x[1] /\ t[2] = x[2] /\ t[3] = x[3] /\ t[4] = y[1] /\ t[5] = y[2]
    BY <2>2
  <2> QED BY <1>1, <2>1, <2>3
<1> HIDE DEF t
<1>3. t = z
  <2>1. \A i \in 1 .. 5 : t[i] = z[i]
    <3>1. \A i \in 1 .. 5 : i = 1 \/ i = 2 \/ i = 3 \/ i = 4 \/ i = 5
      OBVIOUS
    <3> QED BY <1>1, <1>2, <3>1
  <2> QED BY <1>1, <1>2, <2>1, SeqEqual
<1> QED BY <1>3 DEF t, x, y, z

LEMMA JoinFourTwo ==
  ASSUME NEW a, NEW b, NEW c, NEW e, NEW f, NEW g
  PROVE  <<a, b, c, e>> \o <<f, g>> = <<a, b, c, e, f, g>>
<1> DEFINE D == {a, b, c, e, f, g}
           x == <<a, b, c, e>>
           y == <<f, g>>
           z == <<a, b, c, e, f, g>>
<1>1. /\ x \in Seq(D) /\ Len(x) = 4 /\ x[1] = a /\ x[2] = b /\ x[3] = c /\ x[4] = e
      /\ y \in Seq(D) /\ Len(y) = 2 /\ y[1] = f /\ y[2] = g
      /\ z \in Seq(D) /\ Len(z) = 6
      /\ z[1] = a /\ z[2] = b /\ z[3] = c /\ z[4] = e /\ z[5] = f /\ z[6] = g
  OBVIOUS
<1> HIDE DEF D, x, y, z
<1> DEFINE t == x \o y
<1>2. /\ t \in Seq(D) /\ Len(t) = 6
      /\ t[1] = a /\ t[2] = b /\ t[3] = c /\ t[4] = e /\ t[5] = f /\ t[6] = g
  <2>1. /\ t \in Seq(D) /\ Len(t) = Len(x) + Len(y)
        /\ \A i \in 1 .. Len(x) + Len(y) : t[i] = IF i <= Len(x) THEN x[i] ELSE y[i - Len(x)]
    BY <1>1, ConcatProperties
  <2> HIDE DEF t
  <2>2. \A i \in 1 .. 6 : t[i] = IF i <= 4 THEN x[i] ELSE y[i - 4]
    BY <1>1, <2>1
  <2>3. t[1] = x[1] /\ t[2] = x[2] /\ t[3] = x[3] /\ t[4] = x[4] /\ t[5] = y[1] /\ t[6] = y[2]
    BY <2>2
  <2> QED BY <1>1, <2>1, <2>3
<1> HIDE DEF t
<1>3. t = z
  <2>1. \A i \in 1 .. 6 : t[i] = z[i]
    <3>1. \A i \in 1 .. 6 : i = 1 \/ i = 2 \/ i = 3 \/ i = 4 \/ i = 5 \/ i = 6
      OBVIOUS
    <3> QED BY <1>1, <1>2, <3>1
  <2> QED BY <1>1, <1>2, <2>1, SeqEqual
<1> QED BY <1>3 DEF t, x, y, z

(* Of each shape of more than one field, with its bit fields taken         *)
(* together to whole bytes, what is read where they stand.                 *)
LEMMA Read_0x0b ==
  ASSUME NEW layout, NEW bytes, LaidOut(layout, 5, bytes), NEW v1, NumberAt(layout, 1, 1, v1),
         NEW v2, NumberAt(layout, 2, 1, v2), NEW v3, NumberAt(layout, 3, 6, v3),
         NEW v4, NumberAt(layout, 4, 3, v4), NEW v5, NumberAt(layout, 5, 5, v5),
         NEW p, Stands(2, bytes, p), NEW b1, b1 = v1 * 2 + v2, NEW b2, b2 = b1 * 64 + v3,
         NEW b3, b3 = v4 * 32 + v5
  PROVE  /\ U8(p, 2) = b2 /\ U8(p, 3) = b3 /\ Len(bytes) = 2
<1>1. PICK M1 : Merged(M1, layout, 1, 2, b1)
  <2>1. Fits(1, 1, 2, 1, 2, 2) /\ Puts(b1, v1, 2, v2)
    BY SmallLimits DEF Fits, Puts
  <2> QED BY <2>1, Merge
<1>2. LaidOut(M1, 4, bytes) /\ NumberAt(M1, 1, 2, b1)
  <2>1. Follows(5, 4)
    BY DEF Follows
  <2> QED BY <1>1, <2>1, MergedIs, MergedNumber
<1>3. /\ NumberAt(M1, 2, 6, v3) /\ NumberAt(M1, 3, 3, v4) /\ NumberAt(M1, 4, 5, v5)
  <2>1. /\ Moves(3, 2, 1) /\ Moves(4, 3, 1) /\ Moves(5, 4, 1)
    BY DEF Moves
  <2> QED BY <1>1, <2>1, NumberMoves
<1>4. PICK M2 : Merged(M2, M1, 1, 8, b2)
  <2>1. Fits(2, 6, 8, 1, 2, 64) /\ Puts(b2, b1, 64, v3)
    BY SmallLimits DEF Fits, Puts
  <2> QED BY <1>2, <1>3, <2>1, Merge
<1>5. LaidOut(M2, 3, bytes) /\ NumberAt(M2, 1, 8, b2)
  <2>1. Follows(4, 3)
    BY DEF Follows
  <2> QED BY <1>2, <1>3, <1>4, <2>1, MergedIs, MergedNumber
<1>6. /\ NumberAt(M2, 2, 3, v4) /\ NumberAt(M2, 3, 5, v5)
  <2>1. /\ Moves(3, 2, 1) /\ Moves(4, 3, 1)
    BY DEF Moves
  <2> QED BY <1>2, <1>3, <1>4, <2>1, NumberMoves
<1>7. PICK M3 : Merged(M3, M2, 2, 8, b3)
  <2>1. Fits(3, 5, 8, 2, 3, 32) /\ Puts(b3, v4, 32, v5)
    BY SmallLimits DEF Fits, Puts
  <2> QED BY <1>5, <1>6, <2>1, Merge
<1>8. LaidOut(M3, 2, bytes) /\ NumberAt(M3, 2, 8, b3)
  <2>1. Follows(3, 2)
    BY DEF Follows
  <2> QED BY <1>5, <1>6, <1>7, <2>1, MergedIs, MergedNumber
<1>9. NumberAt(M3, 1, 8, b2)
  <2>1. Moves(1, 1, 2)
    BY DEF Moves
  <2> QED BY <1>5, <1>6, <1>7, <2>1, NumberMoves
<1>10. AllWhole(M3, 2)
  <2>1. \A k \in 1 .. 2 : k = 1 \/ k = 2
    OBVIOUS
  <2>2. /\ FieldAt(M3, 1, 8, <<b2>>) /\ FieldAt(M3, 2, 8, <<b3>>)
    BY <1>8, <1>9 DEF NumberAt
  <2>3. 8 \in {8, 16, 24} /\ 16 \in {8, 16, 24} /\ 24 \in {8, 16, 24}
    OBVIOUS
  <2>4. Len(M3) = 2
    BY <1>8, <1>9 DEF LaidOut
  <2> QED BY <2>1, <2>2, <2>3, <2>4 DEF AllWhole
<1> DEFINE end == 2 + Len(bytes)
<1>11. EndsAt(end, 2, bytes)
  BY DEF EndsAt
<1> HIDE DEF end
<1>12. StandFrom(M3, 1, 2, p, end)
  BY <1>8, <1>10, <1>11, WholeStands
<1>13. U8(p, 2) = b2 /\ StandFrom(M3, 2, 3, p, end)
  <2>1. Onward(2, 1, 3, 2, 1)
    BY DEF Onward
  <2> QED BY <1>8, <1>9, <1>12, <2>1, TakeByte
<1>14. U8(p, 3) = b3 /\ StandFrom(M3, 3, 4, p, end)
  <2>1. Onward(3, 2, 4, 3, 1)
    BY DEF Onward
  <2> QED BY <1>8, <1>9, <1>13, <2>1, TakeByte
<1>15. OfLength(bytes, 2)
  <2>1. Ends(3, 2, 4, 2, 2)
    BY DEF Ends
  <2> QED BY <1>8, <1>11, <1>14, <2>1, StandEnd
<1> QED BY <1>13, <1>14, <1>15 DEF OfLength

LEMMA Read_0x0e ==
  ASSUME NEW layout, NEW bytes, LaidOut(layout, 1, bytes), NEW v1, NumberAt(layout, 1, 24, v1),
         NEW p, Stands(2, bytes, p)
  PROVE  /\ U24(p, 2) = v1 /\ Len(bytes) = 3
<1>1. AllWhole(layout, 1)
  <2>1. \A k \in 1 .. 1 : k = 1
    OBVIOUS
  <2>2. FieldAt(layout, 1, 24, <<v1>>)
    BY DEF NumberAt
  <2>3. 8 \in {8, 16, 24} /\ 16 \in {8, 16, 24} /\ 24 \in {8, 16, 24}
    OBVIOUS
  <2>4. Len(layout) = 1
    BY DEF LaidOut
  <2> QED BY <2>1, <2>2, <2>3, <2>4 DEF AllWhole
<1> DEFINE end == 2 + Len(bytes)
<1>2. EndsAt(end, 2, bytes)
  BY DEF EndsAt
<1> HIDE DEF end
<1>3. StandFrom(layout, 1, 2, p, end)
  BY <1>1, <1>2, WholeStands
<1>4. U24(p, 2) = v1 /\ StandFrom(layout, 2, 5, p, end)
  <2>1. Onward(2, 1, 5, 2, 3)
    BY DEF Onward
  <2> QED BY <1>3, <2>1, TakeTriple
<1>5. OfLength(bytes, 3)
  <2>1. Ends(2, 1, 5, 2, 3)
    BY DEF Ends
  <2> QED BY <1>2, <1>4, <2>1, StandEnd
<1> QED BY <1>4, <1>5 DEF OfLength

LEMMA Read_0x14_0 ==
  ASSUME NEW layout, NEW bytes, LaidOut(layout, 5, bytes), NEW v1, NumberAt(layout, 1, 16, v1),
         NEW v2, NumberAt(layout, 2, 16, v2), NEW v3, NumberAt(layout, 3, 8, v3),
         NEW x4, FieldAt(layout, 4, 16, x4), Len(x4) = 2, NEW x5, FieldAt(layout, 5, 16, x5),
         Len(x5) = 2, NEW p, Stands(2, bytes, p)
  PROVE  /\ U16(p, 2) = v1 /\ U16(p, 4) = v2 /\ U8(p, 6) = v3 /\ U32(p, 7) = x4 /\ U32(p, 11) = x5
         /\ Len(bytes) = 13
<1>1. AllWhole(layout, 5)
  <2>1. \A k \in 1 .. 5 : k = 1 \/ k = 2 \/ k = 3 \/ k = 4 \/ k = 5
    OBVIOUS
  <2>2. /\ FieldAt(layout, 1, 16, <<v1>>) /\ FieldAt(layout, 2, 16, <<v2>>)
        /\ FieldAt(layout, 3, 8, <<v3>>) /\ FieldAt(layout, 4, 16, x4) /\ FieldAt(layout, 5, 16, x5)
    BY DEF NumberAt
  <2>3. 8 \in {8, 16, 24} /\ 16 \in {8, 16, 24} /\ 24 \in {8, 16, 24}
    OBVIOUS
  <2>4. Len(layout) = 5
    BY DEF LaidOut
  <2> QED BY <2>1, <2>2, <2>3, <2>4 DEF AllWhole
<1> DEFINE end == 2 + Len(bytes)
<1>2. EndsAt(end, 2, bytes)
  BY DEF EndsAt
<1> HIDE DEF end
<1>3. StandFrom(layout, 1, 2, p, end)
  BY <1>1, <1>2, WholeStands
<1>4. U16(p, 2) = v1 /\ StandFrom(layout, 2, 4, p, end)
  <2>1. Onward(2, 1, 4, 2, 2)
    BY DEF Onward
  <2> QED BY <1>3, <2>1, TakeWord
<1>5. U16(p, 4) = v2 /\ StandFrom(layout, 3, 6, p, end)
  <2>1. Onward(3, 2, 6, 4, 2)
    BY DEF Onward
  <2> QED BY <1>4, <2>1, TakeWord
<1>6. U8(p, 6) = v3 /\ StandFrom(layout, 4, 7, p, end)
  <2>1. Onward(4, 3, 7, 6, 1)
    BY DEF Onward
  <2> QED BY <1>5, <2>1, TakeByte
<1>7. U32(p, 7) = x4 /\ StandFrom(layout, 5, 11, p, end)
  <2>1. Onward(5, 4, 11, 7, 4)
    BY DEF Onward
  <2> QED BY <1>6, <2>1, TakeHalves
<1>8. U32(p, 11) = x5 /\ StandFrom(layout, 6, 15, p, end)
  <2>1. Onward(6, 5, 15, 11, 4)
    BY DEF Onward
  <2> QED BY <1>7, <2>1, TakeHalves
<1>9. OfLength(bytes, 13)
  <2>1. Ends(6, 5, 15, 2, 13)
    BY DEF Ends
  <2> QED BY <1>2, <1>8, <2>1, StandEnd
<1> QED BY <1>4, <1>5, <1>6, <1>7, <1>8, <1>9 DEF OfLength

LEMMA Read_0x14_1 ==
  ASSUME NEW layout, NEW bytes, LaidOut(layout, 3, bytes), NEW v1, NumberAt(layout, 1, 16, v1),
         NEW v2, NumberAt(layout, 2, 16, v2), NEW v3, NumberAt(layout, 3, 8, v3),
         NEW p, Stands(2, bytes, p)
  PROVE  /\ U16(p, 2) = v1 /\ U16(p, 4) = v2 /\ U8(p, 6) = v3 /\ Len(bytes) = 5
<1>1. AllWhole(layout, 3)
  <2>1. \A k \in 1 .. 3 : k = 1 \/ k = 2 \/ k = 3
    OBVIOUS
  <2>2. /\ FieldAt(layout, 1, 16, <<v1>>) /\ FieldAt(layout, 2, 16, <<v2>>)
        /\ FieldAt(layout, 3, 8, <<v3>>)
    BY DEF NumberAt
  <2>3. 8 \in {8, 16, 24} /\ 16 \in {8, 16, 24} /\ 24 \in {8, 16, 24}
    OBVIOUS
  <2>4. Len(layout) = 3
    BY DEF LaidOut
  <2> QED BY <2>1, <2>2, <2>3, <2>4 DEF AllWhole
<1> DEFINE end == 2 + Len(bytes)
<1>2. EndsAt(end, 2, bytes)
  BY DEF EndsAt
<1> HIDE DEF end
<1>3. StandFrom(layout, 1, 2, p, end)
  BY <1>1, <1>2, WholeStands
<1>4. U16(p, 2) = v1 /\ StandFrom(layout, 2, 4, p, end)
  <2>1. Onward(2, 1, 4, 2, 2)
    BY DEF Onward
  <2> QED BY <1>3, <2>1, TakeWord
<1>5. U16(p, 4) = v2 /\ StandFrom(layout, 3, 6, p, end)
  <2>1. Onward(3, 2, 6, 4, 2)
    BY DEF Onward
  <2> QED BY <1>4, <2>1, TakeWord
<1>6. U8(p, 6) = v3 /\ StandFrom(layout, 4, 7, p, end)
  <2>1. Onward(4, 3, 7, 6, 1)
    BY DEF Onward
  <2> QED BY <1>5, <2>1, TakeByte
<1>7. OfLength(bytes, 5)
  <2>1. Ends(4, 3, 7, 2, 5)
    BY DEF Ends
  <2> QED BY <1>2, <1>6, <2>1, StandEnd
<1> QED BY <1>4, <1>5, <1>6, <1>7 DEF OfLength

LEMMA Read_0x14_2 ==
  ASSUME NEW layout, NEW bytes, LaidOut(layout, 4, bytes), NEW v1, NumberAt(layout, 1, 16, v1),
         NEW v2, NumberAt(layout, 2, 16, v2), NEW v3, NumberAt(layout, 3, 8, v3),
         NEW x4, FieldAt(layout, 4, 8, x4), NEW p, Stands(2, bytes, p)
  PROVE  /\ U16(p, 2) = v1 /\ U16(p, 4) = v2 /\ U8(p, 6) = v3 /\ Copy(p, 7, Len(x4)) = x4
         /\ Len(bytes) = 5 + Len(x4)
<1>1. AllWhole(layout, 4)
  <2>1. \A k \in 1 .. 4 : k = 1 \/ k = 2 \/ k = 3 \/ k = 4
    OBVIOUS
  <2>2. /\ FieldAt(layout, 1, 16, <<v1>>) /\ FieldAt(layout, 2, 16, <<v2>>)
        /\ FieldAt(layout, 3, 8, <<v3>>) /\ FieldAt(layout, 4, 8, x4)
    BY DEF NumberAt
  <2>3. 8 \in {8, 16, 24} /\ 16 \in {8, 16, 24} /\ 24 \in {8, 16, 24}
    OBVIOUS
  <2>4. Len(layout) = 4
    BY DEF LaidOut
  <2> QED BY <2>1, <2>2, <2>3, <2>4 DEF AllWhole
<1> DEFINE end == 2 + Len(bytes)
<1>2. EndsAt(end, 2, bytes)
  BY DEF EndsAt
<1> HIDE DEF end
<1>3. StandFrom(layout, 1, 2, p, end)
  BY <1>1, <1>2, WholeStands
<1>4. Len(x4) \in Nat
  BY DEF FieldAt
<1>5. U16(p, 2) = v1 /\ StandFrom(layout, 2, 4, p, end)
  <2>1. Onward(2, 1, 4, 2, 2)
    BY <1>4 DEF Onward
  <2> QED BY <1>3, <2>1, TakeWord
<1>6. U16(p, 4) = v2 /\ StandFrom(layout, 3, 6, p, end)
  <2>1. Onward(3, 2, 6, 4, 2)
    BY <1>4 DEF Onward
  <2> QED BY <1>5, <2>1, TakeWord
<1>7. U8(p, 6) = v3 /\ StandFrom(layout, 4, 7, p, end)
  <2>1. Onward(4, 3, 7, 6, 1)
    BY <1>4 DEF Onward
  <2> QED BY <1>6, <2>1, TakeByte
<1>8. Copy(p, 7, Len(x4)) = x4 /\ StandFrom(layout, 5, 7 + Len(x4), p, end)
  <2>1. Onward(5, 4, 7 + Len(x4), 7, Len(x4))
    BY <1>4 DEF Onward
  <2> QED BY <1>7, <2>1, TakeBytes
<1>9. OfLength(bytes, 5 + Len(x4))
  <2>1. Ends(5, 4, 7 + Len(x4), 2, 5 + Len(x4))
    BY <1>4 DEF Ends
  <2> QED BY <1>2, <1>8, <2>1, StandEnd
<1> QED BY <1>5, <1>6, <1>7, <1>8, <1>9 DEF OfLength

LEMMA Read_0x50 ==
  ASSUME NEW layout, NEW bytes, LaidOut(layout, 5, bytes), NEW v1, NumberAt(layout, 1, 4, v1),
         NEW v2, NumberAt(layout, 2, 4, v2), NEW v3, NumberAt(layout, 3, 8, v3),
         NEW v4, NumberAt(layout, 4, 8, v4), NEW x5, FieldAt(layout, 5, 8, x5),
         NEW p, Stands(2, bytes, p), NEW b1, b1 = v1 * 16 + v2
  PROVE  /\ U8(p, 2) = b1 /\ U8(p, 3) = v3 /\ U8(p, 4) = v4 /\ Copy(p, 5, Len(x5)) = x5
         /\ Len(bytes) = 3 + Len(x5)
<1>1. PICK M1 : Merged(M1, layout, 1, 8, b1)
  <2>1. Fits(4, 4, 8, 1, 2, 16) /\ Puts(b1, v1, 16, v2)
    BY SmallLimits DEF Fits, Puts
  <2> QED BY <2>1, Merge
<1>2. LaidOut(M1, 4, bytes) /\ NumberAt(M1, 1, 8, b1)
  <2>1. Follows(5, 4)
    BY DEF Follows
  <2> QED BY <1>1, <2>1, MergedIs, MergedNumber
<1>3. /\ NumberAt(M1, 2, 8, v3) /\ NumberAt(M1, 3, 8, v4) /\ FieldAt(M1, 4, 8, x5)
  <2>1. /\ Moves(3, 2, 1) /\ Moves(4, 3, 1) /\ Moves(5, 4, 1)
    BY DEF Moves
  <2> QED BY <1>1, <2>1, FieldMoves, NumberMoves
<1>4. AllWhole(M1, 4)
  <2>1. \A k \in 1 .. 4 : k = 1 \/ k = 2 \/ k = 3 \/ k = 4
    OBVIOUS
  <2>2. /\ FieldAt(M1, 1, 8, <<b1>>) /\ FieldAt(M1, 2, 8, <<v3>>) /\ FieldAt(M1, 3, 8, <<v4>>)
        /\ FieldAt(M1, 4, 8, x5)
    BY <1>2, <1>3 DEF NumberAt
  <2>3. 8 \in {8, 16, 24} /\ 16 \in {8, 16, 24} /\ 24 \in {8, 16, 24}
    OBVIOUS
  <2>4. Len(M1) = 4
    BY <1>2, <1>3 DEF LaidOut
  <2> QED BY <2>1, <2>2, <2>3, <2>4 DEF AllWhole
<1> DEFINE end == 2 + Len(bytes)
<1>5. EndsAt(end, 2, bytes)
  BY DEF EndsAt
<1> HIDE DEF end
<1>6. StandFrom(M1, 1, 2, p, end)
  BY <1>2, <1>4, <1>5, WholeStands
<1>7. Len(x5) \in Nat
  BY <1>2, <1>3 DEF FieldAt
<1>8. U8(p, 2) = b1 /\ StandFrom(M1, 2, 3, p, end)
  <2>1. Onward(2, 1, 3, 2, 1)
    BY <1>7 DEF Onward
  <2> QED BY <1>2, <1>3, <1>6, <2>1, TakeByte
<1>9. U8(p, 3) = v3 /\ StandFrom(M1, 3, 4, p, end)
  <2>1. Onward(3, 2, 4, 3, 1)
    BY <1>7 DEF Onward
  <2> QED BY <1>2, <1>3, <1>8, <2>1, TakeByte
<1>10. U8(p, 4) = v4 /\ StandFrom(M1, 4, 5, p, end)
  <2>1. Onward(4, 3, 5, 4, 1)
    BY <1>7 DEF Onward
  <2> QED BY <1>2, <1>3, <1>9, <2>1, TakeByte
<1>11. Copy(p, 5, Len(x5)) = x5 /\ StandFrom(M1, 5, 5 + Len(x5), p, end)
  <2>1. Onward(5, 4, 5 + Len(x5), 5, Len(x5))
    BY <1>7 DEF Onward
  <2> QED BY <1>2, <1>3, <1>10, <2>1, TakeBytes
<1>12. OfLength(bytes, 3 + Len(x5))
  <2>1. Ends(5, 4, 5 + Len(x5), 2, 3 + Len(x5))
    BY <1>7 DEF Ends
  <2> QED BY <1>2, <1>5, <1>11, <2>1, StandEnd
<1> QED BY <1>8, <1>9, <1>10, <1>11, <1>12 DEF OfLength

LEMMA Read_0x7c ==
  ASSUME NEW layout, NEW bytes, LaidOut(layout, 3, bytes), NEW v1, NumberAt(layout, 1, 8, v1),
         NEW v2, NumberAt(layout, 2, 1, v2), NEW v3, NumberAt(layout, 3, 7, v3),
         NEW p, Stands(2, bytes, p), NEW b1, b1 = v2 * 128 + v3
  PROVE  /\ U8(p, 2) = v1 /\ U8(p, 3) = b1 /\ Len(bytes) = 2
<1>1. PICK M1 : Merged(M1, layout, 2, 8, b1)
  <2>1. Fits(1, 7, 8, 2, 3, 128) /\ Puts(b1, v2, 128, v3)
    BY SmallLimits DEF Fits, Puts
  <2> QED BY <2>1, Merge
<1>2. LaidOut(M1, 2, bytes) /\ NumberAt(M1, 2, 8, b1)
  <2>1. Follows(3, 2)
    BY DEF Follows
  <2> QED BY <1>1, <2>1, MergedIs, MergedNumber
<1>3. NumberAt(M1, 1, 8, v1)
  <2>1. Moves(1, 1, 2)
    BY DEF Moves
  <2> QED BY <1>1, <2>1, NumberMoves
<1>4. AllWhole(M1, 2)
  <2>1. \A k \in 1 .. 2 : k = 1 \/ k = 2
    OBVIOUS
  <2>2. /\ FieldAt(M1, 1, 8, <<v1>>) /\ FieldAt(M1, 2, 8, <<b1>>)
    BY <1>2, <1>3 DEF NumberAt
  <2>3. 8 \in {8, 16, 24} /\ 16 \in {8, 16, 24} /\ 24 \in {8, 16, 24}
    OBVIOUS
  <2>4. Len(M1) = 2
    BY <1>2, <1>3 DEF LaidOut
  <2> QED BY <2>1, <2>2, <2>3, <2>4 DEF AllWhole
<1> DEFINE end == 2 + Len(bytes)
<1>5. EndsAt(end, 2, bytes)
  BY DEF EndsAt
<1> HIDE DEF end
<1>6. StandFrom(M1, 1, 2, p, end)
  BY <1>2, <1>4, <1>5, WholeStands
<1>7. U8(p, 2) = v1 /\ StandFrom(M1, 2, 3, p, end)
  <2>1. Onward(2, 1, 3, 2, 1)
    BY DEF Onward
  <2> QED BY <1>2, <1>3, <1>6, <2>1, TakeByte
<1>8. U8(p, 3) = b1 /\ StandFrom(M1, 3, 4, p, end)
  <2>1. Onward(3, 2, 4, 3, 1)
    BY DEF Onward
  <2> QED BY <1>2, <1>3, <1>7, <2>1, TakeByte
<1>9. OfLength(bytes, 2)
  <2>1. Ends(3, 2, 4, 2, 2)
    BY DEF Ends
  <2> QED BY <1>2, <1>5, <1>8, <2>1, StandEnd
<1> QED BY <1>7, <1>8, <1>9 DEF OfLength

LEMMA Read_0xc1 ==
  ASSUME NEW layout, NEW bytes, LaidOut(layout, 5, bytes), NEW v1, NumberAt(layout, 1, 2, v1),
         NEW v2, NumberAt(layout, 2, 1, v2), NEW v3, NumberAt(layout, 3, 1, v3),
         NEW v4, NumberAt(layout, 4, 2, v4), NEW v5, NumberAt(layout, 5, 2, v5),
         NEW p, Stands(2, bytes, p), NEW b1, b1 = v1 * 2 + v2, NEW b2, b2 = b1 * 2 + v3,
         NEW b3, b3 = b2 * 4 + v4, NEW b4, b4 = b3 * 4 + v5
  PROVE  /\ U8(p, 2) = b4 /\ Len(bytes) = 1
<1>1. PICK M1 : Merged(M1, layout, 1, 3, b1)
  <2>1. Fits(2, 1, 3, 1, 2, 2) /\ Puts(b1, v1, 2, v2)
    BY SmallLimits DEF Fits, Puts
  <2> QED BY <2>1, Merge
<1>2. LaidOut(M1, 4, bytes) /\ NumberAt(M1, 1, 3, b1)
  <2>1. Follows(5, 4)
    BY DEF Follows
  <2> QED BY <1>1, <2>1, MergedIs, MergedNumber
<1>3. /\ NumberAt(M1, 2, 1, v3) /\ NumberAt(M1, 3, 2, v4) /\ NumberAt(M1, 4, 2, v5)
  <2>1. /\ Moves(3, 2, 1) /\ Moves(4, 3, 1) /\ Moves(5, 4, 1)
    BY DEF Moves
  <2> QED BY <1>1, <2>1, NumberMoves
<1>4. PICK M2 : Merged(M2, M1, 1, 4, b2)
  <2>1. Fits(3, 1, 4, 1, 2, 2) /\ Puts(b2, b1, 2, v3)
    BY SmallLimits DEF Fits, Puts
  <2> QED BY <1>2, <1>3, <2>1, Merge
<1>5. LaidOut(M2, 3, bytes) /\ NumberAt(M2, 1, 4, b2)
  <2>1. Follows(4, 3)
    BY DEF Follows
  <2> QED BY <1>2, <1>3, <1>4, <2>1, MergedIs, MergedNumber
<1>6. /\ NumberAt(M2, 2, 2, v4) /\ NumberAt(M2, 3, 2, v5)
  <2>1. /\ Moves(3, 2, 1) /\ Moves(4, 3, 1)
    BY DEF Moves
  <2> QED BY <1>2, <1>3, <1>4, <2>1, NumberMoves
<1>7. PICK M3 : Merged(M3, M2, 1, 6, b3)
  <2>1. Fits(4, 2, 6, 1, 2, 4) /\ Puts(b3, b2, 4, v4)
    BY SmallLimits DEF Fits, Puts
  <2> QED BY <1>5, <1>6, <2>1, Merge
<1>8. LaidOut(M3, 2, bytes) /\ NumberAt(M3, 1, 6, b3)
  <2>1. Follows(3, 2)
    BY DEF Follows
  <2> QED BY <1>5, <1>6, <1>7, <2>1, MergedIs, MergedNumber
<1>9. NumberAt(M3, 2, 2, v5)
  <2>1. Moves(3, 2, 1)
    BY DEF Moves
  <2> QED BY <1>5, <1>6, <1>7, <2>1, NumberMoves
<1>10. PICK M4 : Merged(M4, M3, 1, 8, b4)
  <2>1. Fits(6, 2, 8, 1, 2, 4) /\ Puts(b4, b3, 4, v5)
    BY SmallLimits DEF Fits, Puts
  <2> QED BY <1>8, <1>9, <2>1, Merge
<1>11. LaidOut(M4, 1, bytes) /\ NumberAt(M4, 1, 8, b4)
  <2>1. Follows(2, 1)
    BY DEF Follows
  <2> QED BY <1>8, <1>9, <1>10, <2>1, MergedIs, MergedNumber
<1>12. AllWhole(M4, 1)
  <2>1. \A k \in 1 .. 1 : k = 1
    OBVIOUS
  <2>2. FieldAt(M4, 1, 8, <<b4>>)
    BY <1>11 DEF NumberAt
  <2>3. 8 \in {8, 16, 24} /\ 16 \in {8, 16, 24} /\ 24 \in {8, 16, 24}
    OBVIOUS
  <2>4. Len(M4) = 1
    BY <1>11 DEF LaidOut
  <2> QED BY <2>1, <2>2, <2>3, <2>4 DEF AllWhole
<1> DEFINE end == 2 + Len(bytes)
<1>13. EndsAt(end, 2, bytes)
  BY DEF EndsAt
<1> HIDE DEF end
<1>14. StandFrom(M4, 1, 2, p, end)
  BY <1>11, <1>12, <1>13, WholeStands
<1>15. U8(p, 2) = b4 /\ StandFrom(M4, 2, 3, p, end)
  <2>1. Onward(2, 1, 3, 2, 1)
    BY DEF Onward
  <2> QED BY <1>11, <1>14, <2>1, TakeByte
<1>16. OfLength(bytes, 1)
  <2>1. Ends(2, 1, 3, 2, 1)
    BY DEF Ends
  <2> QED BY <1>11, <1>13, <1>15, <2>1, StandEnd
<1> QED BY <1>15, <1>16 DEF OfLength

LEMMA Read_0xc8 ==
  ASSUME NEW layout, NEW bytes, LaidOut(layout, 4, bytes), NEW v1, NumberAt(layout, 1, 1, v1),
         NEW v2, NumberAt(layout, 2, 1, v2), NEW v3, NumberAt(layout, 3, 4, v3),
         NEW v4, NumberAt(layout, 4, 2, v4), NEW p, Stands(2, bytes, p), NEW b1, b1 = v1 * 2 + v2,
         NEW b2, b2 = b1 * 16 + v3, NEW b3, b3 = b2 * 4 + v4
  PROVE  /\ U8(p, 2) = b3 /\ Len(bytes) = 1
<1>1. PICK M1 : Merged(M1, layout, 1, 2, b1)
  <2>1. Fits(1, 1, 2, 1, 2, 2) /\ Puts(b1, v1, 2, v2)
    BY SmallLimits DEF Fits, Puts
  <2> QED BY <2>1, Merge
<1>2. LaidOut(M1, 3, bytes) /\ NumberAt(M1, 1, 2, b1)
  <2>1. Follows(4, 3)
    BY DEF Follows
  <2> QED BY <1>1, <2>1, MergedIs, MergedNumber
<1>3. /\ NumberAt(M1, 2, 4, v3) /\ NumberAt(M1, 3, 2, v4)
  <2>1. /\ Moves(3, 2, 1) /\ Moves(4, 3, 1)
    BY DEF Moves
  <2> QED BY <1>1, <2>1, NumberMoves
<1>4. PICK M2 : Merged(M2, M1, 1, 6, b2)
  <2>1. Fits(2, 4, 6, 1, 2, 16) /\ Puts(b2, b1, 16, v3)
    BY SmallLimits DEF Fits, Puts
  <2> QED BY <1>2, <1>3, <2>1, Merge
<1>5. LaidOut(M2, 2, bytes) /\ NumberAt(M2, 1, 6, b2)
  <2>1. Follows(3, 2)
    BY DEF Follows
  <2> QED BY <1>2, <1>3, <1>4, <2>1, MergedIs, MergedNumber
<1>6. NumberAt(M2, 2, 2, v4)
  <2>1. Moves(3, 2, 1)
    BY DEF Moves
  <2> QED BY <1>2, <1>3, <1>4, <2>1, NumberMoves
<1>7. PICK M3 : Merged(M3, M2, 1, 8, b3)
  <2>1. Fits(6, 2, 8, 1, 2, 4) /\ Puts(b3, b2, 4, v4)
    BY SmallLimits DEF Fits, Puts
  <2> QED BY <1>5, <1>6, <2>1, Merge
<1>8. LaidOut(M3, 1, bytes) /\ NumberAt(M3, 1, 8, b3)
  <2>1. Follows(2, 1)
    BY DEF Follows
  <2> QED BY <1>5, <1>6, <1>7, <2>1, MergedIs, MergedNumber
<1>9. AllWhole(M3, 1)
  <2>1. \A k \in 1 .. 1 : k = 1
    OBVIOUS
  <2>2. FieldAt(M3, 1, 8, <<b3>>)
    BY <1>8 DEF NumberAt
  <2>3. 8 \in {8, 16, 24} /\ 16 \in {8, 16, 24} /\ 24 \in {8, 16, 24}
    OBVIOUS
  <2>4. Len(M3) = 1
    BY <1>8 DEF LaidOut
  <2> QED BY <2>1, <2>2, <2>3, <2>4 DEF AllWhole
<1> DEFINE end == 2 + Len(bytes)
<1>10. EndsAt(end, 2, bytes)
  BY DEF EndsAt
<1> HIDE DEF end
<1>11. StandFrom(M3, 1, 2, p, end)
  BY <1>8, <1>9, <1>10, WholeStands
<1>12. U8(p, 2) = b3 /\ StandFrom(M3, 2, 3, p, end)
  <2>1. Onward(2, 1, 3, 2, 1)
    BY DEF Onward
  <2> QED BY <1>8, <1>11, <2>1, TakeByte
<1>13. OfLength(bytes, 1)
  <2>1. Ends(2, 1, 3, 2, 1)
    BY DEF Ends
  <2> QED BY <1>8, <1>10, <1>12, <2>1, StandEnd
<1> QED BY <1>12, <1>13 DEF OfLength

LEMMA Read_0xcf_1 ==
  ASSUME NEW layout, NEW bytes, LaidOut(layout, 6, bytes), NEW v1, NumberAt(layout, 1, 8, v1),
         NEW v2, NumberAt(layout, 2, 7, v2), NEW v3, NumberAt(layout, 3, 9, v3),
         NEW v4, NumberAt(layout, 4, 4, v4), NEW v5, NumberAt(layout, 5, 12, v5),
         NEW v6, NumberAt(layout, 6, 16, v6), NEW p, Stands(2, bytes, p),
         NEW b1, b1 = v2 * 512 + v3, NEW b2, b2 = v4 * 4096 + v5
  PROVE  /\ U8(p, 2) = v1 /\ U16(p, 3) = b1 /\ U16(p, 5) = b2 /\ U16(p, 7) = v6 /\ Len(bytes) = 7
<1>1. PICK M1 : Merged(M1, layout, 2, 16, b1)
  <2>1. Fits(7, 9, 16, 2, 3, 512) /\ Puts(b1, v2, 512, v3)
    BY SmallLimits DEF Fits, Puts
  <2> QED BY <2>1, Merge
<1>2. LaidOut(M1, 5, bytes) /\ NumberAt(M1, 2, 16, b1)
  <2>1. Follows(6, 5)
    BY DEF Follows
  <2> QED BY <1>1, <2>1, MergedIs, MergedNumber
<1>3. /\ NumberAt(M1, 1, 8, v1) /\ NumberAt(M1, 3, 4, v4) /\ NumberAt(M1, 4, 12, v5)
      /\ NumberAt(M1, 5, 16, v6)
  <2>1. /\ Moves(1, 1, 2) /\ Moves(4, 3, 2) /\ Moves(5, 4, 2) /\ Moves(6, 5, 2)
    BY DEF Moves
  <2> QED BY <1>1, <2>1, NumberMoves
<1>4. PICK M2 : Merged(M2, M1, 3, 16, b2)
  <2>1. Fits(4, 12, 16, 3, 4, 4096) /\ Puts(b2, v4, 4096, v5)
    BY SmallLimits DEF Fits, Puts
  <2> QED BY <1>2, <1>3, <2>1, Merge
<1>5. LaidOut(M2, 4, bytes) /\ NumberAt(M2, 3, 16, b2)
  <2>1. Follows(5, 4)
    BY DEF Follows
  <2> QED BY <1>2, <1>3, <1>4, <2>1, MergedIs, MergedNumber
<1>6. /\ NumberAt(M2, 1, 8, v1) /\ NumberAt(M2, 2, 16, b1) /\ NumberAt(M2, 4, 16, v6)
  <2>1. /\ Moves(1, 1, 3) /\ Moves(2, 2, 3) /\ Moves(5, 4, 3)
    BY DEF Moves
  <2> QED BY <1>2, <1>3, <1>4, <2>1, NumberMoves
<1>7. AllWhole(M2, 4)
  <2>1. \A k \in 1 .. 4 : k = 1 \/ k = 2 \/ k = 3 \/ k = 4
    OBVIOUS
  <2>2. /\ FieldAt(M2, 1, 8, <<v1>>) /\ FieldAt(M2, 2, 16, <<b1>>) /\ FieldAt(M2, 3, 16, <<b2>>)
        /\ FieldAt(M2, 4, 16, <<v6>>)
    BY <1>5, <1>6 DEF NumberAt
  <2>3. 8 \in {8, 16, 24} /\ 16 \in {8, 16, 24} /\ 24 \in {8, 16, 24}
    OBVIOUS
  <2>4. Len(M2) = 4
    BY <1>5, <1>6 DEF LaidOut
  <2> QED BY <2>1, <2>2, <2>3, <2>4 DEF AllWhole
<1> DEFINE end == 2 + Len(bytes)
<1>8. EndsAt(end, 2, bytes)
  BY DEF EndsAt
<1> HIDE DEF end
<1>9. StandFrom(M2, 1, 2, p, end)
  BY <1>5, <1>7, <1>8, WholeStands
<1>10. U8(p, 2) = v1 /\ StandFrom(M2, 2, 3, p, end)
  <2>1. Onward(2, 1, 3, 2, 1)
    BY DEF Onward
  <2> QED BY <1>5, <1>6, <1>9, <2>1, TakeByte
<1>11. U16(p, 3) = b1 /\ StandFrom(M2, 3, 5, p, end)
  <2>1. Onward(3, 2, 5, 3, 2)
    BY DEF Onward
  <2> QED BY <1>5, <1>6, <1>10, <2>1, TakeWord
<1>12. U16(p, 5) = b2 /\ StandFrom(M2, 4, 7, p, end)
  <2>1. Onward(4, 3, 7, 5, 2)
    BY DEF Onward
  <2> QED BY <1>5, <1>6, <1>11, <2>1, TakeWord
<1>13. U16(p, 7) = v6 /\ StandFrom(M2, 5, 9, p, end)
  <2>1. Onward(5, 4, 9, 7, 2)
    BY DEF Onward
  <2> QED BY <1>5, <1>6, <1>12, <2>1, TakeWord
<1>14. OfLength(bytes, 7)
  <2>1. Ends(5, 4, 9, 2, 7)
    BY DEF Ends
  <2> QED BY <1>5, <1>8, <1>13, <2>1, StandEnd
<1> QED BY <1>10, <1>11, <1>12, <1>13, <1>14 DEF OfLength

LEMMA Read_0xcf_2 ==
  ASSUME NEW layout, NEW bytes, LaidOut(layout, 3, bytes), NEW v1, NumberAt(layout, 1, 8, v1),
         NEW v2, NumberAt(layout, 2, 7, v2), NEW v3, NumberAt(layout, 3, 9, v3),
         NEW p, Stands(2, bytes, p), NEW b1, b1 = v2 * 512 + v3
  PROVE  /\ U8(p, 2) = v1 /\ U16(p, 3) = b1 /\ Len(bytes) = 3
<1>1. PICK M1 : Merged(M1, layout, 2, 16, b1)
  <2>1. Fits(7, 9, 16, 2, 3, 512) /\ Puts(b1, v2, 512, v3)
    BY SmallLimits DEF Fits, Puts
  <2> QED BY <2>1, Merge
<1>2. LaidOut(M1, 2, bytes) /\ NumberAt(M1, 2, 16, b1)
  <2>1. Follows(3, 2)
    BY DEF Follows
  <2> QED BY <1>1, <2>1, MergedIs, MergedNumber
<1>3. NumberAt(M1, 1, 8, v1)
  <2>1. Moves(1, 1, 2)
    BY DEF Moves
  <2> QED BY <1>1, <2>1, NumberMoves
<1>4. AllWhole(M1, 2)
  <2>1. \A k \in 1 .. 2 : k = 1 \/ k = 2
    OBVIOUS
  <2>2. /\ FieldAt(M1, 1, 8, <<v1>>) /\ FieldAt(M1, 2, 16, <<b1>>)
    BY <1>2, <1>3 DEF NumberAt
  <2>3. 8 \in {8, 16, 24} /\ 16 \in {8, 16, 24} /\ 24 \in {8, 16, 24}
    OBVIOUS
  <2>4. Len(M1) = 2
    BY <1>2, <1>3 DEF LaidOut
  <2> QED BY <2>1, <2>2, <2>3, <2>4 DEF AllWhole
<1> DEFINE end == 2 + Len(bytes)
<1>5. EndsAt(end, 2, bytes)
  BY DEF EndsAt
<1> HIDE DEF end
<1>6. StandFrom(M1, 1, 2, p, end)
  BY <1>2, <1>4, <1>5, WholeStands
<1>7. U8(p, 2) = v1 /\ StandFrom(M1, 2, 3, p, end)
  <2>1. Onward(2, 1, 3, 2, 1)
    BY DEF Onward
  <2> QED BY <1>2, <1>3, <1>6, <2>1, TakeByte
<1>8. U16(p, 3) = b1 /\ StandFrom(M1, 3, 5, p, end)
  <2>1. Onward(3, 2, 5, 3, 2)
    BY DEF Onward
  <2> QED BY <1>2, <1>3, <1>7, <2>1, TakeWord
<1>9. OfLength(bytes, 3)
  <2>1. Ends(3, 2, 5, 2, 3)
    BY DEF Ends
  <2> QED BY <1>2, <1>5, <1>8, <2>1, StandEnd
<1> QED BY <1>7, <1>8, <1>9 DEF OfLength

LEMMA Read_0xcf_3 ==
  ASSUME NEW layout, NEW bytes, LaidOut(layout, 2, bytes), NEW v1, NumberAt(layout, 1, 8, v1),
         NEW x2, FieldAt(layout, 2, 8, x2), NEW p, Stands(2, bytes, p)
  PROVE  /\ U8(p, 2) = v1 /\ Copy(p, 3, Len(x2)) = x2 /\ Len(bytes) = 1 + Len(x2)
<1>1. AllWhole(layout, 2)
  <2>1. \A k \in 1 .. 2 : k = 1 \/ k = 2
    OBVIOUS
  <2>2. /\ FieldAt(layout, 1, 8, <<v1>>) /\ FieldAt(layout, 2, 8, x2)
    BY DEF NumberAt
  <2>3. 8 \in {8, 16, 24} /\ 16 \in {8, 16, 24} /\ 24 \in {8, 16, 24}
    OBVIOUS
  <2>4. Len(layout) = 2
    BY DEF LaidOut
  <2> QED BY <2>1, <2>2, <2>3, <2>4 DEF AllWhole
<1> DEFINE end == 2 + Len(bytes)
<1>2. EndsAt(end, 2, bytes)
  BY DEF EndsAt
<1> HIDE DEF end
<1>3. StandFrom(layout, 1, 2, p, end)
  BY <1>1, <1>2, WholeStands
<1>4. Len(x2) \in Nat
  BY DEF FieldAt
<1>5. U8(p, 2) = v1 /\ StandFrom(layout, 2, 3, p, end)
  <2>1. Onward(2, 1, 3, 2, 1)
    BY <1>4 DEF Onward
  <2> QED BY <1>3, <2>1, TakeByte
<1>6. Copy(p, 3, Len(x2)) = x2 /\ StandFrom(layout, 3, 3 + Len(x2), p, end)
  <2>1. Onward(3, 2, 3 + Len(x2), 3, Len(x2))
    BY <1>4 DEF Onward
  <2> QED BY <1>5, <2>1, TakeBytes
<1>7. OfLength(bytes, 1 + Len(x2))
  <2>1. Ends(3, 2, 3 + Len(x2), 2, 1 + Len(x2))
    BY <1>4 DEF Ends
  <2> QED BY <1>2, <1>6, <2>1, StandEnd
<1> QED BY <1>5, <1>6, <1>7 DEF OfLength

LEMMA Read_0xd0_0 ==
  ASSUME NEW layout, NEW bytes, LaidOut(layout, 3, bytes), NEW v1, NumberAt(layout, 1, 4, v1),
         NEW v2, NumberAt(layout, 2, 4, v2), NEW v3, NumberAt(layout, 3, 8, v3),
         NEW p, Stands(2, bytes, p), NEW b1, b1 = v1 * 16 + v2
  PROVE  /\ U8(p, 2) = b1 /\ U8(p, 3) = v3 /\ Len(bytes) = 2
<1>1. PICK M1 : Merged(M1, layout, 1, 8, b1)
  <2>1. Fits(4, 4, 8, 1, 2, 16) /\ Puts(b1, v1, 16, v2)
    BY SmallLimits DEF Fits, Puts
  <2> QED BY <2>1, Merge
<1>2. LaidOut(M1, 2, bytes) /\ NumberAt(M1, 1, 8, b1)
  <2>1. Follows(3, 2)
    BY DEF Follows
  <2> QED BY <1>1, <2>1, MergedIs, MergedNumber
<1>3. NumberAt(M1, 2, 8, v3)
  <2>1. Moves(3, 2, 1)
    BY DEF Moves
  <2> QED BY <1>1, <2>1, NumberMoves
<1>4. AllWhole(M1, 2)
  <2>1. \A k \in 1 .. 2 : k = 1 \/ k = 2
    OBVIOUS
  <2>2. /\ FieldAt(M1, 1, 8, <<b1>>) /\ FieldAt(M1, 2, 8, <<v3>>)
    BY <1>2, <1>3 DEF NumberAt
  <2>3. 8 \in {8, 16, 24} /\ 16 \in {8, 16, 24} /\ 24 \in {8, 16, 24}
    OBVIOUS
  <2>4. Len(M1) = 2
    BY <1>2, <1>3 DEF LaidOut
  <2> QED BY <2>1, <2>2, <2>3, <2>4 DEF AllWhole
<1> DEFINE end == 2 + Len(bytes)
<1>5. EndsAt(end, 2, bytes)
  BY DEF EndsAt
<1> HIDE DEF end
<1>6. StandFrom(M1, 1, 2, p, end)
  BY <1>2, <1>4, <1>5, WholeStands
<1>7. U8(p, 2) = b1 /\ StandFrom(M1, 2, 3, p, end)
  <2>1. Onward(2, 1, 3, 2, 1)
    BY DEF Onward
  <2> QED BY <1>2, <1>3, <1>6, <2>1, TakeByte
<1>8. U8(p, 3) = v3 /\ StandFrom(M1, 3, 4, p, end)
  <2>1. Onward(3, 2, 4, 3, 1)
    BY DEF Onward
  <2> QED BY <1>2, <1>3, <1>7, <2>1, TakeByte
<1>9. OfLength(bytes, 2)
  <2>1. Ends(3, 2, 4, 2, 2)
    BY DEF Ends
  <2> QED BY <1>2, <1>5, <1>8, <2>1, StandEnd
<1> QED BY <1>7, <1>8, <1>9 DEF OfLength

LEMMA Read_0xd0_2 ==
  ASSUME NEW layout, NEW bytes, LaidOut(layout, 5, bytes), NEW v1, NumberAt(layout, 1, 4, v1),
         NEW v2, NumberAt(layout, 2, 4, v2), NEW v3, NumberAt(layout, 3, 8, v3),
         NEW v4, NumberAt(layout, 4, 24, v4), NEW v5, NumberAt(layout, 5, 24, v5),
         NEW p, Stands(2, bytes, p), NEW b1, b1 = v1 * 16 + v2
  PROVE  /\ U8(p, 2) = b1 /\ U8(p, 3) = v3 /\ U24(p, 4) = v4 /\ U24(p, 7) = v5 /\ Len(bytes) = 8
<1>1. PICK M1 : Merged(M1, layout, 1, 8, b1)
  <2>1. Fits(4, 4, 8, 1, 2, 16) /\ Puts(b1, v1, 16, v2)
    BY SmallLimits DEF Fits, Puts
  <2> QED BY <2>1, Merge
<1>2. LaidOut(M1, 4, bytes) /\ NumberAt(M1, 1, 8, b1)
  <2>1. Follows(5, 4)
    BY DEF Follows
  <2> QED BY <1>1, <2>1, MergedIs, MergedNumber
<1>3. /\ NumberAt(M1, 2, 8, v3) /\ NumberAt(M1, 3, 24, v4) /\ NumberAt(M1, 4, 24, v5)
  <2>1. /\ Moves(3, 2, 1) /\ Moves(4, 3, 1) /\ Moves(5, 4, 1)
    BY DEF Moves
  <2> QED BY <1>1, <2>1, NumberMoves
<1>4. AllWhole(M1, 4)
  <2>1. \A k \in 1 .. 4 : k = 1 \/ k = 2 \/ k = 3 \/ k = 4
    OBVIOUS
  <2>2. /\ FieldAt(M1, 1, 8, <<b1>>) /\ FieldAt(M1, 2, 8, <<v3>>) /\ FieldAt(M1, 3, 24, <<v4>>)
        /\ FieldAt(M1, 4, 24, <<v5>>)
    BY <1>2, <1>3 DEF NumberAt
  <2>3. 8 \in {8, 16, 24} /\ 16 \in {8, 16, 24} /\ 24 \in {8, 16, 24}
    OBVIOUS
  <2>4. Len(M1) = 4
    BY <1>2, <1>3 DEF LaidOut
  <2> QED BY <2>1, <2>2, <2>3, <2>4 DEF AllWhole
<1> DEFINE end == 2 + Len(bytes)
<1>5. EndsAt(end, 2, bytes)
  BY DEF EndsAt
<1> HIDE DEF end
<1>6. StandFrom(M1, 1, 2, p, end)
  BY <1>2, <1>4, <1>5, WholeStands
<1>7. U8(p, 2) = b1 /\ StandFrom(M1, 2, 3, p, end)
  <2>1. Onward(2, 1, 3, 2, 1)
    BY DEF Onward
  <2> QED BY <1>2, <1>3, <1>6, <2>1, TakeByte
<1>8. U8(p, 3) = v3 /\ StandFrom(M1, 3, 4, p, end)
  <2>1. Onward(3, 2, 4, 3, 1)
    BY DEF Onward
  <2> QED BY <1>2, <1>3, <1>7, <2>1, TakeByte
<1>9. U24(p, 4) = v4 /\ StandFrom(M1, 4, 7, p, end)
  <2>1. Onward(4, 3, 7, 4, 3)
    BY DEF Onward
  <2> QED BY <1>2, <1>3, <1>8, <2>1, TakeTriple
<1>10. U24(p, 7) = v5 /\ StandFrom(M1, 5, 10, p, end)
  <2>1. Onward(5, 4, 10, 7, 3)
    BY DEF Onward
  <2> QED BY <1>2, <1>3, <1>9, <2>1, TakeTriple
<1>11. OfLength(bytes, 8)
  <2>1. Ends(5, 4, 10, 2, 8)
    BY DEF Ends
  <2> QED BY <1>2, <1>5, <1>10, <2>1, StandEnd
<1> QED BY <1>7, <1>8, <1>9, <1>10, <1>11 DEF OfLength

LEMMA Read_0xfd_dmf ==
  ASSUME NEW layout, NEW bytes, LaidOut(layout, 5, bytes), NEW v1, NumberAt(layout, 1, 16, v1),
         NEW v2, NumberAt(layout, 2, 4, v2), NEW v3, NumberAt(layout, 3, 2, v3),
         NEW v4, NumberAt(layout, 4, 2, v4), NEW x5, FieldAt(layout, 5, 8, x5),
         NEW p, Stands(2, bytes, p), NEW b1, b1 = v2 * 4 + v3, NEW b2, b2 = b1 * 4 + v4
  PROVE  /\ U16(p, 2) = v1 /\ U8(p, 4) = b2 /\ Copy(p, 5, Len(x5)) = x5 /\ Len(bytes) = 3 + Len(x5)
<1>1. PICK M1 : Merged(M1, layout, 2, 6, b1)
  <2>1. Fits(4, 2, 6, 2, 3, 4) /\ Puts(b1, v2, 4, v3)
    BY SmallLimits DEF Fits, Puts
  <2> QED BY <2>1, Merge
<1>2. LaidOut(M1, 4, bytes) /\ NumberAt(M1, 2, 6, b1)
  <2>1. Follows(5, 4)
    BY DEF Follows
  <2> QED BY <1>1, <2>1, MergedIs, MergedNumber
<1>3. /\ NumberAt(M1, 1, 16, v1) /\ NumberAt(M1, 3, 2, v4) /\ FieldAt(M1, 4, 8, x5)
  <2>1. /\ Moves(1, 1, 2) /\ Moves(4, 3, 2) /\ Moves(5, 4, 2)
    BY DEF Moves
  <2> QED BY <1>1, <2>1, FieldMoves, NumberMoves
<1>4. PICK M2 : Merged(M2, M1, 2, 8, b2)
  <2>1. Fits(6, 2, 8, 2, 3, 4) /\ Puts(b2, b1, 4, v4)
    BY SmallLimits DEF Fits, Puts
  <2> QED BY <1>2, <1>3, <2>1, Merge
<1>5. LaidOut(M2, 3, bytes) /\ NumberAt(M2, 2, 8, b2)
  <2>1. Follows(4, 3)
    BY DEF Follows
  <2> QED BY <1>2, <1>3, <1>4, <2>1, MergedIs, MergedNumber
<1>6. /\ NumberAt(M2, 1, 16, v1) /\ FieldAt(M2, 3, 8, x5)
  <2>1. /\ Moves(1, 1, 2) /\ Moves(4, 3, 2)
    BY DEF Moves
  <2> QED BY <1>2, <1>3, <1>4, <2>1, FieldMoves, NumberMoves
<1>7. AllWhole(M2, 3)
  <2>1. \A k \in 1 .. 3 : k = 1 \/ k = 2 \/ k = 3
    OBVIOUS
  <2>2. /\ FieldAt(M2, 1, 16, <<v1>>) /\ FieldAt(M2, 2, 8, <<b2>>) /\ FieldAt(M2, 3, 8, x5)
    BY <1>5, <1>6 DEF NumberAt
  <2>3. 8 \in {8, 16, 24} /\ 16 \in {8, 16, 24} /\ 24 \in {8, 16, 24}
    OBVIOUS
  <2>4. Len(M2) = 3
    BY <1>5, <1>6 DEF LaidOut
  <2> QED BY <2>1, <2>2, <2>3, <2>4 DEF AllWhole
<1> DEFINE end == 2 + Len(bytes)
<1>8. EndsAt(end, 2, bytes)
  BY DEF EndsAt
<1> HIDE DEF end
<1>9. StandFrom(M2, 1, 2, p, end)
  BY <1>5, <1>7, <1>8, WholeStands
<1>10. Len(x5) \in Nat
  BY <1>5, <1>6 DEF FieldAt
<1>11. U16(p, 2) = v1 /\ StandFrom(M2, 2, 4, p, end)
  <2>1. Onward(2, 1, 4, 2, 2)
    BY <1>10 DEF Onward
  <2> QED BY <1>5, <1>6, <1>9, <2>1, TakeWord
<1>12. U8(p, 4) = b2 /\ StandFrom(M2, 3, 5, p, end)
  <2>1. Onward(3, 2, 5, 4, 1)
    BY <1>10 DEF Onward
  <2> QED BY <1>5, <1>6, <1>11, <2>1, TakeByte
<1>13. Copy(p, 5, Len(x5)) = x5 /\ StandFrom(M2, 4, 5 + Len(x5), p, end)
  <2>1. Onward(4, 3, 5 + Len(x5), 5, Len(x5))
    BY <1>10 DEF Onward
  <2> QED BY <1>5, <1>6, <1>12, <2>1, TakeBytes
<1>14. OfLength(bytes, 3 + Len(x5))
  <2>1. Ends(4, 3, 5 + Len(x5), 2, 3 + Len(x5))
    BY <1>10 DEF Ends
  <2> QED BY <1>5, <1>8, <1>13, <2>1, StandEnd
<1> QED BY <1>11, <1>12, <1>13, <1>14 DEF OfLength

LEMMA Read_0xfe ==
  ASSUME NEW layout, NEW bytes, LaidOut(layout, 4, bytes), NEW v1, NumberAt(layout, 1, 2, v1),
         NEW v2, NumberAt(layout, 2, 6, v2), NEW v3, NumberAt(layout, 3, 8, v3),
         NEW x4, FieldAt(layout, 4, 8, x4), NEW p, Stands(2, bytes, p), NEW b1, b1 = v1 * 64 + v2
  PROVE  /\ U8(p, 2) = b1 /\ U8(p, 3) = v3 /\ Copy(p, 4, Len(x4)) = x4 /\ Len(bytes) = 2 + Len(x4)
<1>1. PICK M1 : Merged(M1, layout, 1, 8, b1)
  <2>1. Fits(2, 6, 8, 1, 2, 64) /\ Puts(b1, v1, 64, v2)
    BY SmallLimits DEF Fits, Puts
  <2> QED BY <2>1, Merge
<1>2. LaidOut(M1, 3, bytes) /\ NumberAt(M1, 1, 8, b1)
  <2>1. Follows(4, 3)
    BY DEF Follows
  <2> QED BY <1>1, <2>1, MergedIs, MergedNumber
<1>3. /\ NumberAt(M1, 2, 8, v3) /\ FieldAt(M1, 3, 8, x4)
  <2>1. /\ Moves(3, 2, 1) /\ Moves(4, 3, 1)
    BY DEF Moves
  <2> QED BY <1>1, <2>1, FieldMoves, NumberMoves
<1>4. AllWhole(M1, 3)
  <2>1. \A k \in 1 .. 3 : k = 1 \/ k = 2 \/ k = 3
    OBVIOUS
  <2>2. /\ FieldAt(M1, 1, 8, <<b1>>) /\ FieldAt(M1, 2, 8, <<v3>>) /\ FieldAt(M1, 3, 8, x4)
    BY <1>2, <1>3 DEF NumberAt
  <2>3. 8 \in {8, 16, 24} /\ 16 \in {8, 16, 24} /\ 24 \in {8, 16, 24}
    OBVIOUS
  <2>4. Len(M1) = 3
    BY <1>2, <1>3 DEF LaidOut
  <2> QED BY <2>1, <2>2, <2>3, <2>4 DEF AllWhole
<1> DEFINE end == 2 + Len(bytes)
<1>5. EndsAt(end, 2, bytes)
  BY DEF EndsAt
<1> HIDE DEF end
<1>6. StandFrom(M1, 1, 2, p, end)
  BY <1>2, <1>4, <1>5, WholeStands
<1>7. Len(x4) \in Nat
  BY <1>2, <1>3 DEF FieldAt
<1>8. U8(p, 2) = b1 /\ StandFrom(M1, 2, 3, p, end)
  <2>1. Onward(2, 1, 3, 2, 1)
    BY <1>7 DEF Onward
  <2> QED BY <1>2, <1>3, <1>6, <2>1, TakeByte
<1>9. U8(p, 3) = v3 /\ StandFrom(M1, 3, 4, p, end)
  <2>1. Onward(3, 2, 4, 3, 1)
    BY <1>7 DEF Onward
  <2> QED BY <1>2, <1>3, <1>8, <2>1, TakeByte
<1>10. Copy(p, 4, Len(x4)) = x4 /\ StandFrom(M1, 4, 4 + Len(x4), p, end)
  <2>1. Onward(4, 3, 4 + Len(x4), 4, Len(x4))
    BY <1>7 DEF Onward
  <2> QED BY <1>2, <1>3, <1>9, <2>1, TakeBytes
<1>11. OfLength(bytes, 2 + Len(x4))
  <2>1. Ends(4, 3, 4 + Len(x4), 2, 2 + Len(x4))
    BY <1>7 DEF Ends
  <2> QED BY <1>2, <1>5, <1>10, <2>1, StandEnd
<1> QED BY <1>8, <1>9, <1>10, <1>11 DEF OfLength

(* The parsers of these shapes: what each test of them finds, the files    *)
(* that they make, and that these are what the descriptor tells.           *)
LEMMA Shown_0x0b ==
  ASSUME NEW d, IsLayout(d.layout), NEW p, Stands(2, Bytes(d.layout), p),
         Shaped(d, 11, <<Nr("external_clock_reference_indicator", 1), Spare(1), Nr("clock_accuracy_integer", 6),
                         Nr("clock_accuracy_exponent", 3), Spare(5)>>)
  PROVE  Filled(descriptor_0x0b_parser(p, BodyLength(d))) = Told(d.layout)
<1> DEFINE shape == <<Nr("external_clock_reference_indicator", 1), Spare(1), Nr("clock_accuracy_integer", 6),
                      Nr("clock_accuracy_exponent", 3), Spare(5)>>
           layout == d.layout
           bytes == Bytes(layout)
           len == BodyLength(d)
           v1 == layout[1].value[1]
           v2 == layout[2].value[1]
           v3 == layout[3].value[1]
           v4 == layout[4].value[1]
           v5 == layout[5].value[1]
<1>1. /\ Len(shape) = 5 /\ DOMAIN shape = 1 .. 5
      /\ shape[1][1] = "external_clock_reference_indicator" /\ shape[1][2] = 1 /\ shape[1][3] = "number"
      /\ shape[2][1] = "reserved" /\ shape[2][2] = 1 /\ shape[2][3] = "number"
      /\ shape[3][1] = "clock_accuracy_integer" /\ shape[3][2] = 6 /\ shape[3][3] = "number"
      /\ shape[4][1] = "clock_accuracy_exponent" /\ shape[4][2] = 3 /\ shape[4][3] = "number"
      /\ shape[5][1] = "reserved" /\ shape[5][2] = 5 /\ shape[5][3] = "number"
  BY DEF Nr, Spare
<1>2. Shaped(d, 11, shape)
  OBVIOUS
<1> HIDE DEF shape
<1>3. /\ Flat(layout) /\ Len(layout) = 5 /\ DOMAIN layout = 1 .. 5
      /\ \A k \in 1 .. 5 : layout[k].name = shape[k][1] /\ HeldAt(layout, k, shape[k][2], shape[k][3])
  <2>1. Shapely(shape, 5)
    BY <1>1 DEF Shapely
  <2> QED BY <1>2, <2>1, ShapeHolds
<1>4. /\ layout[1].name = "external_clock_reference_indicator" /\ HeldAt(layout, 1, 1, "number")
      /\ layout[2].name = "reserved" /\ HeldAt(layout, 2, 1, "number")
      /\ layout[3].name = "clock_accuracy_integer" /\ HeldAt(layout, 3, 6, "number")
      /\ layout[4].name = "clock_accuracy_exponent" /\ HeldAt(layout, 4, 3, "number")
      /\ layout[5].name = "reserved" /\ HeldAt(layout, 5, 5, "number")
  BY <1>1, <1>3
<1>5. /\ NumberIs(layout, 1, 1, v1) /\ NumberIs(layout, 2, 1, v2) /\ NumberIs(layout, 3, 6, v3)
      /\ NumberIs(layout, 4, 3, v4) /\ NumberIs(layout, 5, 5, v5)
  BY <1>4, HeldNumber
<1> HIDE DEF v1, v2, v3, v4, v5
<1>6. /\ NumberAt(layout, 1, 1, v1) /\ layout[1].value = <<v1>> /\ v1 \in Nat /\ v1 < 2
      /\ NumberAt(layout, 2, 1, v2) /\ layout[2].value = <<v2>> /\ v2 \in Nat /\ v2 < 2
      /\ NumberAt(layout, 3, 6, v3) /\ layout[3].value = <<v3>> /\ v3 \in Nat /\ v3 < 64
      /\ NumberAt(layout, 4, 3, v4) /\ layout[4].value = <<v4>> /\ v4 \in Nat /\ v4 < 8
      /\ NumberAt(layout, 5, 5, v5) /\ layout[5].value = <<v5>> /\ v5 \in Nat /\ v5 < 32
  BY <1>5, SmallLimits DEF NumberIs
<1> DEFINE b1 == v1 * 2 + v2
           b2 == b1 * 64 + v3
           b3 == v4 * 32 + v5
<1>7. /\ b1 = v1 * 2 + v2 /\ b2 = b1 * 64 + v3 /\ b3 = v4 * 32 + v5
  OBVIOUS
<1> HIDE DEF b1, b2, b3
<1>8. /\ U8(p, 2) = b2 /\ U8(p, 3) = b3 /\ Len(bytes) = 2
  <2>1. LaidOut(layout, 5, bytes) /\ Stands(2, bytes, p)
    BY <1>3 DEF LaidOut
  <2> HIDE DEF bytes
  <2> QED BY <1>6, <1>7, <2>1, Read_0x0b
<1>9. len = 2
  BY <1>6, <1>8 DEF BodyLength
<1> HIDE DEF len, bytes
<1>10. /\ Flag(p, 2, 7) = v1 /\ Part(p, 2, 0, 6) = v3 /\ Part(p, 3, 5, 3) = v4
  <2>1. /\ v1 \in Nat /\ v1 < 2 /\ v2 \in Nat /\ v2 < 2 /\ v3 \in Nat /\ v3 < 64 /\ v4 \in Nat /\ v4 < 8
        /\ v5 \in Nat /\ v5 < 32
    BY <1>6
  <2>2. /\ (b2 \div 2^7) % 2^1 = v1 /\ (b2 \div 2^0) % 2^6 = v3 /\ (b3 \div 2^5) % 2^3 = v4
    BY <2>1, <1>7
  <2> QED BY <2>2, <1>8 DEF Flag, Part, S8
<1> DEFINE f1 == File("external_clock_reference_indicator", Flag(p, 2, 7))
           f2 == File("clock_accuracy_integer", Part(p, 2, 0, 6))
           f3 == File("clock_accuracy_exponent", Part(p, 3, 5, 3))
<1>11. descriptor_0x0b_parser(p, len) = Files(<<f1, f2, f3>>)
  <2>1. 4 \in Int /\ len \in Int /\ len >= 4 - 2
    BY <1>9
  <2>3. descriptor_0x0b_parser(p, len) = Checked(4, len, Files(<<f1, f2, f3>>))
    BY <1>9, <1>10 DEF descriptor_0x0b_parser
  <2> QED BY <2>1, <2>3, CheckedIs
<1>12. /\ HasNumber(layout, 1, "external_clock_reference_indicator", v1)
       /\ HasNumber(layout, 3, "clock_accuracy_integer", v3)
       /\ HasNumber(layout, 4, "clock_accuracy_exponent", v4)
  BY <1>3, <1>4, <1>6 DEF HasNumber
<1>13. Covers(f1, layout, {"external_clock_reference_indicator"})
  <2>1. HasNumber(layout, 1, "external_clock_reference_indicator", Flag(p, 2, 7))
    BY <1>8, <1>10, <1>12
  <2> QED BY <1>3, <2>1, ShowsNumber
<1>14. Covers(f2, layout, {"clock_accuracy_integer"})
  <2>1. HasNumber(layout, 3, "clock_accuracy_integer", Part(p, 2, 0, 6))
    BY <1>8, <1>10, <1>12
  <2> QED BY <1>3, <2>1, ShowsNumber
<1>15. Covers(f3, layout, {"clock_accuracy_exponent"})
  <2>1. HasNumber(layout, 4, "clock_accuracy_exponent", Part(p, 3, 5, 3))
    BY <1>8, <1>10, <1>12
  <2> QED BY <1>3, <2>1, ShowsNumber
<1> HIDE DEF f1, f2, f3
<1>16. Covers(Files(<<f1, f2, f3>>), layout,
             {"external_clock_reference_indicator"} \cup {"clock_accuracy_integer"} \cup {"clock_accuracy_exponent"})
  BY <1>13, <1>14, <1>15, CoversThree
<1>17. AllNamed(layout, {"external_clock_reference_indicator"} \cup {"clock_accuracy_integer"} \cup {"clock_accuracy_exponent"})
  <2>1. \A k \in 1 .. 5 : k = 1 \/ k = 2 \/ k = 3 \/ k = 4 \/ k = 5
    OBVIOUS
  <2> QED BY <1>3, <1>4, <2>1 DEF AllNamed
<1>18. Filled(Files(<<f1, f2, f3>>)) = Told(layout)
  BY <1>3, <1>16, <1>17, AllShown
<1> QED BY <1>11, <1>18 DEF len

LEMMA Shown_0x0e ==
  ASSUME NEW d, IsLayout(d.layout), NEW p, Stands(2, Bytes(d.layout), p),
         Shaped(d, 14, <<Nr("max_bitrate", 24)>>)
  PROVE  Filled(descriptor_0x0e_parser(p, BodyLength(d))) = Told(d.layout)
<1> DEFINE shape == <<Nr("max_bitrate", 24)>>
           layout == d.layout
           bytes == Bytes(layout)
           len == BodyLength(d)
           v1 == layout[1].value[1]
<1>1. /\ Len(shape) = 1 /\ DOMAIN shape = 1 .. 1
      /\ shape[1][1] = "max_bitrate" /\ shape[1][2] = 24 /\ shape[1][3] = "number"
  BY DEF Nr, Spare
<1>2. Shaped(d, 14, shape)
  OBVIOUS
<1> HIDE DEF shape
<1>3. /\ Flat(layout) /\ Len(layout) = 1 /\ DOMAIN layout = 1 .. 1
      /\ \A k \in 1 .. 1 : layout[k].name = shape[k][1] /\ HeldAt(layout, k, shape[k][2], shape[k][3])
  <2>1. Shapely(shape, 1)
    BY <1>1 DEF Shapely
  <2> QED BY <1>2, <2>1, ShapeHolds
<1>4. /\ layout[1].name = "max_bitrate" /\ HeldAt(layout, 1, 24, "number")
  BY <1>1, <1>3
<1>5. NumberIs(layout, 1, 24, v1)
  BY <1>4, HeldNumber
<1> HIDE DEF v1
<1>6. /\ NumberAt(layout, 1, 24, v1) /\ layout[1].value = <<v1>> /\ v1 \in Nat
  BY <1>5, SmallLimits DEF NumberIs
<1>7. /\ U24(p, 2) = v1 /\ Len(bytes) = 3
  <2>1. LaidOut(layout, 1, bytes) /\ Stands(2, bytes, p)
    BY <1>3 DEF LaidOut
  <2> HIDE DEF bytes
  <2> QED BY <1>6, <2>1, Read_0x0e
<1>8. len = 3
  BY <1>6, <1>7 DEF BodyLength
<1> HIDE DEF len, bytes
<1>9. U24(p, 2) = v1
  BY <1>6, <1>7, <1>8
<1> DEFINE f1 == File("max_bitrate", U24(p, 2))
<1>10. descriptor_0x0e_parser(p, len) = f1
  <2>1. 5 \in Int /\ len \in Int /\ len >= 5 - 2
    BY <1>8
  <2>3. descriptor_0x0e_parser(p, len) = Checked(5, len, f1)
    BY <1>8, <1>9 DEF descriptor_0x0e_parser
  <2> QED BY <2>1, <2>3, CheckedIs
<1>11. /\ HasNumber(layout, 1, "max_bitrate", v1)
  BY <1>3, <1>4, <1>6 DEF HasNumber
<1>12. Covers(f1, layout, {"max_bitrate"})
  <2>1. HasNumber(layout, 1, "max_bitrate", U24(p, 2))
    BY <1>7, <1>9, <1>11
  <2> QED BY <1>3, <2>1, ShowsNumber
<1> HIDE DEF f1
<1>13. AllNamed(layout, {"max_bitrate"})
  <2>1. \A k \in 1 .. 1 : k = 1
    OBVIOUS
  <2> QED BY <1>3, <1>4, <2>1 DEF AllNamed
<1>14. Filled(f1) = Told(layout)
  BY <1>3, <1>12, <1>13, AllShown
<1> QED BY <1>10, <1>14 DEF len

LEMMA Shown_0x14_0 ==
  ASSUME NEW d, IsLayout(d.layout), NEW p, Stands(2, Bytes(d.layout), p),
         Shaped(d, 20, <<Nr("association_tag", 16), Nr("use", 16), Nr("selector_length", 8),
                         <<"transaction_id", 16, "halves">>, <<"timeout", 16, "halves">>>>), d.layout[2].value[1] = 0
  PROVE  Filled(descriptor_0x14_parser(p, BodyLength(d))) = Told(d.layout)
<1> DEFINE shape == <<Nr("association_tag", 16), Nr("use", 16), Nr("selector_length", 8),
                      <<"transaction_id", 16, "halves">>, <<"timeout", 16, "halves">>>>
           layout == d.layout
           bytes == Bytes(layout)
           len == BodyLength(d)
           v1 == layout[1].value[1]
           v2 == layout[2].value[1]
           v3 == layout[3].value[1]
           x4 == layout[4].value
           x5 == layout[5].value
<1>1. /\ Len(shape) = 5 /\ DOMAIN shape = 1 .. 5
      /\ shape[1][1] = "association_tag" /\ shape[1][2] = 16 /\ shape[1][3] = "number"
      /\ shape[2][1] = "use" /\ shape[2][2] = 16 /\ shape[2][3] = "number"
      /\ shape[3][1] = "selector_length" /\ shape[3][2] = 8 /\ shape[3][3] = "number"
      /\ shape[4][1] = "transaction_id" /\ shape[4][2] = 16 /\ shape[4][3] = "halves"
      /\ shape[5][1] = "timeout" /\ shape[5][2] = 16 /\ shape[5][3] = "halves"
  BY DEF Nr, Spare
<1>2. Shaped(d, 20, shape)
  OBVIOUS
<1> HIDE DEF shape
<1>3. /\ Flat(layout) /\ Len(layout) = 5 /\ DOMAIN layout = 1 .. 5
      /\ \A k \in 1 .. 5 : layout[k].name = shape[k][1] /\ HeldAt(layout, k, shape[k][2], shape[k][3])
  <2>1. Shapely(shape, 5)
    BY <1>1 DEF Shapely
  <2> QED BY <1>2, <2>1, ShapeHolds
<1>4. /\ layout[1].name = "association_tag" /\ HeldAt(layout, 1, 16, "number")
      /\ layout[2].name = "use" /\ HeldAt(layout, 2, 16, "number")
      /\ layout[3].name = "selector_length" /\ HeldAt(layout, 3, 8, "number")
      /\ layout[4].name = "transaction_id" /\ HeldAt(layout, 4, 16, "halves")
      /\ layout[5].name = "timeout" /\ HeldAt(layout, 5, 16, "halves")
  BY <1>1, <1>3
<1>5. /\ NumberIs(layout, 1, 16, v1) /\ NumberIs(layout, 2, 16, v2) /\ NumberIs(layout, 3, 8, v3)
      /\ BytesIs(layout, 4, 16, x4) /\ Len(x4) = 2 /\ BytesIs(layout, 5, 16, x5) /\ Len(x5) = 2
  BY <1>4, HeldBytes, HeldHalves, HeldNumber
<1>c. v2 = 0
  BY <1>5 DEF NumberIs
<1> HIDE DEF v1, v2, v3, x4, x5
<1>6. /\ NumberAt(layout, 1, 16, v1) /\ layout[1].value = <<v1>> /\ v1 \in Nat
      /\ NumberAt(layout, 2, 16, v2) /\ layout[2].value = <<v2>> /\ v2 \in Nat
      /\ NumberAt(layout, 3, 8, v3) /\ layout[3].value = <<v3>> /\ v3 \in Nat /\ v3 < 256
      /\ FieldAt(layout, 4, 16, x4) /\ layout[4].value = x4 /\ x4 \in Seq(Nat)
      /\ FieldAt(layout, 5, 16, x5) /\ layout[5].value = x5 /\ x5 \in Seq(Nat)
  BY <1>5, SmallLimits DEF NumberIs, BytesIs
<1>7. /\ U16(p, 2) = v1 /\ U16(p, 4) = v2 /\ U8(p, 6) = v3 /\ U32(p, 7) = x4 /\ U32(p, 11) = x5
      /\ Len(bytes) = 13
  <2>1. LaidOut(layout, 5, bytes) /\ Stands(2, bytes, p)
    BY <1>3 DEF LaidOut
  <2> HIDE DEF bytes
  <2> QED BY <1>5, <1>6, <2>1, Read_0x14_0
<1>8. len = 13
  BY <1>6, <1>7 DEF BodyLength
<1> HIDE DEF len, bytes
<1>9. U16(p, 4) = 0
  BY <1>c, <1>6, <1>7, <1>8
<1> DEFINE f1 == File("association_tag", U16(p, 2))
           f2 == File("use", U16(p, 4))
           f3 == Bin("transaction_id", U32(p, 7))
           f4 == Bin("timeout", U32(p, 11))
           f5 == File("selector_length", U8(p, 6))
           f6 == Str("private_data_byte", Copy(p, 15, len - 15))
<1>10. descriptor_0x14_parser(p, len) = Files(<<f1, f2, f3, f4, f5, f6>>)
  <2>1. 5 \in Int /\ len \in Int /\ len >= 5 - 2
    BY <1>8
  <2>2. <<f1, f2>> \o <<f3, f4>> \o <<f5, f6>> = <<f1, f2, f3, f4, f5, f6>>
    <3> HIDE DEF f1, f2, f3, f4, f5, f6
    <3>1. <<f1, f2>> \o <<f3, f4>> = <<f1, f2, f3, f4>>
      BY JoinTwoTwo
    <3>2. <<f1, f2, f3, f4>> \o <<f5, f6>> = <<f1, f2, f3, f4, f5, f6>>
      BY JoinFourTwo
    <3> QED BY <3>1, <3>2
  <2>3. descriptor_0x14_parser(p, len) = Checked(5, len, Files(<<f1, f2>> \o <<f3, f4>> \o <<f5, f6>>))
    BY <1>c, <1>8, <1>9 DEF descriptor_0x14_parser
  <2>4. descriptor_0x14_parser(p, len) = Checked(5, len, Files(<<f1, f2, f3, f4, f5, f6>>))
    BY <2>2, <2>3
  <2> QED BY <2>1, <2>4, CheckedIs
<1>11. /\ HasNumber(layout, 1, "association_tag", v1)
       /\ HasNumber(layout, 2, "use", v2)
       /\ HasBytes(layout, 4, "transaction_id", x4)
       /\ HasBytes(layout, 5, "timeout", x5)
       /\ HasNumber(layout, 3, "selector_length", v3)
       /\ HasNone(layout, "private_data_byte")
  BY <1>3, <1>4, <1>6, SMTT(30) DEF HasBytes, HasNone, HasNumber
<1>12. Covers(f1, layout, {"association_tag"})
  <2>1. HasNumber(layout, 1, "association_tag", U16(p, 2))
    BY <1>c, <1>7, <1>9, <1>11
  <2> QED BY <1>3, <2>1, ShowsNumber
<1>13. Covers(f2, layout, {"use"})
  <2>1. HasNumber(layout, 2, "use", U16(p, 4))
    BY <1>c, <1>7, <1>9, <1>11
  <2> QED BY <1>3, <2>1, ShowsNumber
<1>14. Covers(f3, layout, {"transaction_id"})
  <2>1. HasBytes(layout, 4, "transaction_id", U32(p, 7))
    BY <1>c, <1>7, <1>9, <1>11
  <2> QED BY <1>3, <2>1, ShowsBytes
<1>15. Covers(f4, layout, {"timeout"})
  <2>1. HasBytes(layout, 5, "timeout", U32(p, 11))
    BY <1>c, <1>7, <1>9, <1>11
  <2> QED BY <1>3, <2>1, ShowsBytes
<1>16. Covers(f5, layout, {"selector_length"})
  <2>1. HasNumber(layout, 3, "selector_length", U8(p, 6))
    BY <1>c, <1>7, <1>9, <1>11
  <2> QED BY <1>3, <2>1, ShowsNumber
<1>17. Covers(f6, layout, {})
  <2>1. 15 \in Int /\ len - 15 \in Int /\ len - 15 <= 0
    BY <1>6, <1>8, <1>9
  <2> QED BY <1>3, <1>11, <2>1, ShowsNoText
<1> HIDE DEF f1, f2, f3, f4, f5, f6
<1>18. Covers(Files(<<f1, f2, f3, f4, f5, f6>>), layout,
             {"association_tag"} \cup {"use"} \cup {"transaction_id"} \cup {"timeout"} \cup {"selector_length"} \cup {})
  BY <1>12, <1>13, <1>14, <1>15, <1>16, <1>17, CoversSix
<1>19. AllNamed(layout, {"association_tag"} \cup {"use"} \cup {"transaction_id"} \cup {"timeout"} \cup {"selector_length"} \cup {})
  <2>1. \A k \in 1 .. 5 : k = 1 \/ k = 2 \/ k = 3 \/ k = 4 \/ k = 5
    OBVIOUS
  <2> QED BY <1>3, <1>4, <2>1 DEF AllNamed
<1>20. Filled(Files(<<f1, f2, f3, f4, f5, f6>>)) = Told(layout)
  BY <1>3, <1>18, <1>19, AllShown
<1> QED BY <1>10, <1>20 DEF len

LEMMA Shown_0x14_1 ==
  ASSUME NEW d, IsLayout(d.layout), NEW p, Stands(2, Bytes(d.layout), p),
         Shaped(d, 20, <<Nr("association_tag", 16), Nr("use", 16), Nr("selector_length", 8)>>), d.layout[2].value[1] = 1
  PROVE  Filled(descriptor_0x14_parser(p, BodyLength(d))) = Told(d.layout)
<1> DEFINE shape == <<Nr("association_tag", 16), Nr("use", 16), Nr("selector_length", 8)>>
           layout == d.layout
           bytes == Bytes(layout)
           len == BodyLength(d)
           v1 == layout[1].value[1]
           v2 == layout[2].value[1]
           v3 == layout[3].value[1]
<1>1. /\ Len(shape) = 3 /\ DOMAIN shape = 1 .. 3
      /\ shape[1][1] = "association_tag" /\ shape[1][2] = 16 /\ shape[1][3] = "number"
      /\ shape[2][1] = "use" /\ shape[2][2] = 16 /\ shape[2][3] = "number"
      /\ shape[3][1] = "selector_length" /\ shape[3][2] = 8 /\ shape[3][3] = "number"
  BY DEF Nr, Spare
<1>2. Shaped(d, 20, shape)
  OBVIOUS
<1> HIDE DEF shape
<1>3. /\ Flat(layout) /\ Len(layout) = 3 /\ DOMAIN layout = 1 .. 3
      /\ \A k \in 1 .. 3 : layout[k].name = shape[k][1] /\ HeldAt(layout, k, shape[k][2], shape[k][3])
  <2>1. Shapely(shape, 3)
    BY <1>1 DEF Shapely
  <2> QED BY <1>2, <2>1, ShapeHolds
<1>4. /\ layout[1].name = "association_tag" /\ HeldAt(layout, 1, 16, "number")
      /\ layout[2].name = "use" /\ HeldAt(layout, 2, 16, "number")
      /\ layout[3].name = "selector_length" /\ HeldAt(layout, 3, 8, "number")
  BY <1>1, <1>3
<1>5. /\ NumberIs(layout, 1, 16, v1) /\ NumberIs(layout, 2, 16, v2) /\ NumberIs(layout, 3, 8, v3)
  BY <1>4, HeldNumber
<1>c. v2 = 1
  BY <1>5 DEF NumberIs
<1> HIDE DEF v1, v2, v3
<1>6. /\ NumberAt(layout, 1, 16, v1) /\ layout[1].value = <<v1>> /\ v1 \in Nat
      /\ NumberAt(layout, 2, 16, v2) /\ layout[2].value = <<v2>> /\ v2 \in Nat
      /\ NumberAt(layout, 3, 8, v3) /\ layout[3].value = <<v3>> /\ v3 \in Nat /\ v3 < 256
  BY <1>5, SmallLimits DEF NumberIs
<1>7. /\ U16(p, 2) = v1 /\ U16(p, 4) = v2 /\ U8(p, 6) = v3 /\ Len(bytes) = 5
  <2>1. LaidOut(layout, 3, bytes) /\ Stands(2, bytes, p)
    BY <1>3 DEF LaidOut
  <2> HIDE DEF bytes
  <2> QED BY <1>6, <2>1, Read_0x14_1
<1>8. len = 5
  BY <1>6, <1>7 DEF BodyLength
<1> HIDE DEF len, bytes
<1>9. U16(p, 4) = 1
  BY <1>c, <1>6, <1>7, <1>8
<1> DEFINE f1 == File("association_tag", U16(p, 2))
           f2 == File("use", U16(p, 4))
           f3 == File("selector_length", U8(p, 6))
           f4 == Str("private_data_byte", Copy(p, 7, len - 7))
<1>10. descriptor_0x14_parser(p, len) = Files(<<f1, f2, f3, f4>>)
  <2>1. 5 \in Int /\ len \in Int /\ len >= 5 - 2
    BY <1>8
  <2>2. <<f1, f2>> \o <<>> \o <<f3, f4>> = <<f1, f2, f3, f4>>
    <3> HIDE DEF f1, f2, f3, f4
    <3>1. <<f1, f2>> \o <<>> = <<f1, f2>>
      BY JoinTwoNone
    <3>2. <<f1, f2>> \o <<f3, f4>> = <<f1, f2, f3, f4>>
      BY JoinTwoTwo
    <3> QED BY <3>1, <3>2
  <2>3. descriptor_0x14_parser(p, len) = Checked(5, len, Files(<<f1, f2>> \o <<>> \o <<f3, f4>>))
    BY <1>c, <1>8, <1>9 DEF descriptor_0x14_parser
  <2>4. descriptor_0x14_parser(p, len) = Checked(5, len, Files(<<f1, f2, f3, f4>>))
    BY <2>2, <2>3
  <2> QED BY <2>1, <2>4, CheckedIs
<1>11. /\ HasNumber(layout, 1, "association_tag", v1)
       /\ HasNumber(layout, 2, "use", v2)
       /\ HasNumber(layout, 3, "selector_length", v3)
       /\ HasNone(layout, "private_data_byte")
  BY <1>3, <1>4, <1>6 DEF HasNone, HasNumber
<1>12. Covers(f1, layout, {"association_tag"})
  <2>1. HasNumber(layout, 1, "association_tag", U16(p, 2))
    BY <1>c, <1>7, <1>9, <1>11
  <2> QED BY <1>3, <2>1, ShowsNumber
<1>13. Covers(f2, layout, {"use"})
  <2>1. HasNumber(layout, 2, "use", U16(p, 4))
    BY <1>c, <1>7, <1>9, <1>11
  <2> QED BY <1>3, <2>1, ShowsNumber
<1>14. Covers(f3, layout, {"selector_length"})
  <2>1. HasNumber(layout, 3, "selector_length", U8(p, 6))
    BY <1>c, <1>7, <1>9, <1>11
  <2> QED BY <1>3, <2>1, ShowsNumber
<1>15. Covers(f4, layout, {})
  <2>1. 7 \in Int /\ len - 7 \in Int /\ len - 7 <= 0
    BY <1>6, <1>8, <1>9
  <2> QED BY <1>3, <1>11, <2>1, ShowsNoText
<1> HIDE DEF f1, f2, f3, f4
<1>16. Covers(Files(<<f1, f2, f3, f4>>), layout,
             {"association_tag"} \cup {"use"} \cup {"selector_length"} \cup {})
  BY <1>12, <1>13, <1>14, <1>15, CoversFour
<1>17. AllNamed(layout, {"association_tag"} \cup {"use"} \cup {"selector_length"} \cup {})
  <2>1. \A k \in 1 .. 3 : k = 1 \/ k = 2 \/ k = 3
    OBVIOUS
  <2> QED BY <1>3, <1>4, <2>1 DEF AllNamed
<1>18. Filled(Files(<<f1, f2, f3, f4>>)) = Told(layout)
  BY <1>3, <1>16, <1>17, AllShown
<1> QED BY <1>10, <1>18 DEF len

LEMMA Shown_0x14_2 ==
  ASSUME NEW d, IsLayout(d.layout), NEW p, Stands(2, Bytes(d.layout), p),
         Shaped(d, 20, <<Nr("association_tag", 16), Nr("use", 16), <<"selector_length", 8, "length">>,
                         <<"selector_byte", 8, "text">>>>), d.layout[2].value[1] > 1
  PROVE  Filled(descriptor_0x14_parser(p, BodyLength(d))) = Told(d.layout)
<1> DEFINE shape == <<Nr("association_tag", 16), Nr("use", 16), <<"selector_length", 8, "length">>,
                      <<"selector_byte", 8, "text">>>>
           layout == d.layout
           bytes == Bytes(layout)
           len == BodyLength(d)
           v1 == layout[1].value[1]
           v2 == layout[2].value[1]
           v3 == layout[3].value[1]
           x4 == layout[4].value
<1>1. /\ Len(shape) = 4 /\ DOMAIN shape = 1 .. 4
      /\ shape[1][1] = "association_tag" /\ shape[1][2] = 16 /\ shape[1][3] = "number"
      /\ shape[2][1] = "use" /\ shape[2][2] = 16 /\ shape[2][3] = "number"
      /\ shape[3][1] = "selector_length" /\ shape[3][2] = 8 /\ shape[3][3] = "length"
      /\ shape[4][1] = "selector_byte" /\ shape[4][2] = 8 /\ shape[4][3] = "text"
  BY DEF Nr, Spare
<1>2. Shaped(d, 20, shape)
  OBVIOUS
<1> HIDE DEF shape
<1>3. /\ Flat(layout) /\ Len(layout) = 4 /\ DOMAIN layout = 1 .. 4
      /\ \A k \in 1 .. 4 : layout[k].name = shape[k][1] /\ HeldAt(layout, k, shape[k][2], shape[k][3])
  <2>1. Shapely(shape, 4)
    BY <1>1 DEF Shapely
  <2> QED BY <1>2, <2>1, ShapeHolds
<1>4. /\ layout[1].name = "association_tag" /\ HeldAt(layout, 1, 16, "number")
      /\ layout[2].name = "use" /\ HeldAt(layout, 2, 16, "number")
      /\ layout[3].name = "selector_length" /\ HeldAt(layout, 3, 8, "length")
      /\ layout[4].name = "selector_byte" /\ HeldAt(layout, 4, 8, "text")
  BY <1>1, <1>3
<1>5. /\ NumberIs(layout, 1, 16, v1) /\ NumberIs(layout, 2, 16, v2) /\ NumberIs(layout, 3, 8, v3)
      /\ v3 = Len(x4) /\ BytesIs(layout, 4, 8, x4) /\ (\A u \in DOMAIN x4 : x4[u] > 0)
  <2>1. /\ 4 = 3 + 1 /\ "text" \in {"text", "code"} /\ "code" \in {"text", "code"} /\ "code" = "code"
    OBVIOUS
  <2> QED BY <1>4, <2>1, HeldBytes, HeldLength, HeldNumber, HeldText
<1>c. v2 > 1
  BY <1>5 DEF NumberIs
<1> HIDE DEF v1, v2, v3, x4
<1>6. /\ NumberAt(layout, 1, 16, v1) /\ layout[1].value = <<v1>> /\ v1 \in Nat
      /\ NumberAt(layout, 2, 16, v2) /\ layout[2].value = <<v2>> /\ v2 \in Nat
      /\ NumberAt(layout, 3, 8, v3) /\ layout[3].value = <<v3>> /\ v3 \in Nat /\ v3 < 256
      /\ FieldAt(layout, 4, 8, x4) /\ layout[4].value = x4 /\ x4 \in Seq(Nat)
  BY <1>5, SmallLimits DEF NumberIs, BytesIs
<1>7. /\ U16(p, 2) = v1 /\ U16(p, 4) = v2 /\ U8(p, 6) = v3 /\ Copy(p, 7, Len(x4)) = x4
      /\ Len(bytes) = 5 + Len(x4)
  <2>1. LaidOut(layout, 4, bytes) /\ Stands(2, bytes, p)
    BY <1>3 DEF LaidOut
  <2> HIDE DEF bytes
  <2> QED BY <1>6, <2>1, Read_0x14_2
<1>8. /\ len = 5 + Len(x4) /\ Len(x4) \in Nat
  BY <1>6, <1>7 DEF BodyLength
<1> HIDE DEF len, bytes
<1>9. /\ U16(p, 4) > 1 /\ U8(p, 6) = v3 /\ Copy(p, 7, U8(p, 6)) = x4
  BY <1>5, <1>c, <1>6, <1>7, <1>8
<1> DEFINE f1 == File("association_tag", U16(p, 2))
           f2 == File("use", U16(p, 4))
           f3 == Str("selector_byte", Copy(p, 7, U8(p, 6)))
           f4 == File("selector_length", U8(p, 6))
           f5 == Str("private_data_byte", Copy(p, 6 + U8(p, 6), len - (6 + U8(p, 6))))
<1>10. descriptor_0x14_parser(p, len) = Files(<<f1, f2, f3, f4, f5>>)
  <2>1. 5 \in Int /\ len \in Int /\ len >= 5 - 2
    BY <1>5, <1>8
  <2>2. <<f1, f2>> \o <<f3>> \o <<f4, f5>> = <<f1, f2, f3, f4, f5>>
    <3> HIDE DEF f1, f2, f3, f4, f5
    <3>1. <<f1, f2>> \o <<f3>> = <<f1, f2, f3>>
      BY JoinTwoOne
    <3>2. <<f1, f2, f3>> \o <<f4, f5>> = <<f1, f2, f3, f4, f5>>
      BY JoinThreeTwo
    <3> QED BY <3>1, <3>2
  <2>i. ~ (U16(p, 4) = 0) /\ ~ (U16(p, 4) = 1) /\ U16(p, 4) > 1 /\ len >= 5 + U8(p, 6)
    BY <1>5, <1>c, <1>6, <1>7, <1>8, <1>9
  <2>3. descriptor_0x14_parser(p, len) = Checked(5, len, Files(<<f1, f2>> \o <<f3>> \o <<f4, f5>>))
    BY <2>i, SMTT(30) DEF descriptor_0x14_parser
  <2>4. descriptor_0x14_parser(p, len) = Checked(5, len, Files(<<f1, f2, f3, f4, f5>>))
    BY <2>2, <2>3
  <2> QED BY <2>1, <2>4, CheckedIs
<1>11. /\ HasNumber(layout, 1, "association_tag", v1)
       /\ HasNumber(layout, 2, "use", v2)
       /\ HasText(layout, 4, "selector_byte", x4)
       /\ HasNumber(layout, 3, "selector_length", v3)
       /\ HasNone(layout, "private_data_byte")
  BY <1>3, <1>4, <1>5, <1>6 DEF HasBytes, HasNone, HasNumber, HasText
<1>12. Covers(f1, layout, {"association_tag"})
  <2>1. HasNumber(layout, 1, "association_tag", U16(p, 2))
    BY <1>c, <1>7, <1>9, <1>11
  <2> QED BY <1>3, <2>1, ShowsNumber
<1>13. Covers(f2, layout, {"use"})
  <2>1. HasNumber(layout, 2, "use", U16(p, 4))
    BY <1>c, <1>7, <1>9, <1>11
  <2> QED BY <1>3, <2>1, ShowsNumber
<1>14. Covers(f3, layout, {"selector_byte"})
  <2>1. HasText(layout, 4, "selector_byte", Copy(p, 7, U8(p, 6)))
    BY <1>c, <1>7, <1>9, <1>11
  <2> QED BY <1>3, <2>1, ShowsText
<1>15. Covers(f4, layout, {"selector_length"})
  <2>1. HasNumber(layout, 3, "selector_length", U8(p, 6))
    BY <1>c, <1>7, <1>9, <1>11
  <2> QED BY <1>3, <2>1, ShowsNumber
<1>16. Covers(f5, layout, {})
  <2>1. 6 + U8(p, 6) \in Int /\ len - (6 + U8(p, 6)) \in Int /\ len - (6 + U8(p, 6)) <= 0
    BY <1>5, <1>6, <1>8, <1>9, SMTT(30)
  <2> QED BY <1>3, <1>11, <2>1, ShowsNoText
<1> HIDE DEF f1, f2, f3, f4, f5
<1>17. Covers(Files(<<f1, f2, f3, f4, f5>>), layout,
             {"association_tag"} \cup {"use"} \cup {"selector_byte"} \cup {"selector_length"} \cup {})
  BY <1>12, <1>13, <1>14, <1>15, <1>16, CoversFive
<1>18. AllNamed(layout, {"association_tag"} \cup {"use"} \cup {"selector_byte"} \cup {"selector_length"} \cup {})
  <2>1. \A k \in 1 .. 4 : k = 1 \/ k = 2 \/ k = 3 \/ k = 4
    OBVIOUS
  <2> QED BY <1>3, <1>4, <2>1 DEF AllNamed
<1>19. Filled(Files(<<f1, f2, f3, f4, f5>>)) = Told(layout)
  BY <1>3, <1>17, <1>18, AllShown
<1> QED BY <1>10, <1>19 DEF len

LEMMA Shown_0x50 ==
  ASSUME NEW d, IsLayout(d.layout), NEW p, Stands(2, Bytes(d.layout), p),
         Shaped(d, 80, <<Spare(4), Nr("stream_content", 4), Nr("component_type", 8), Nr("component_tag", 8),
                         <<"ISO_639_language_code", 8, "code">>>>),
         ~NoResolution(d.layout[2].value[1], d.layout[3].value[1])
  PROVE  Filled(descriptor_0x50_parser(p, BodyLength(d))) = Told(d.layout)
<1> DEFINE shape == <<Spare(4), Nr("stream_content", 4), Nr("component_type", 8), Nr("component_tag", 8),
                      <<"ISO_639_language_code", 8, "code">>>>
           layout == d.layout
           bytes == Bytes(layout)
           len == BodyLength(d)
           v1 == layout[1].value[1]
           v2 == layout[2].value[1]
           v3 == layout[3].value[1]
           v4 == layout[4].value[1]
           x5 == layout[5].value
<1>1. /\ Len(shape) = 5 /\ DOMAIN shape = 1 .. 5
      /\ shape[1][1] = "reserved" /\ shape[1][2] = 4 /\ shape[1][3] = "number"
      /\ shape[2][1] = "stream_content" /\ shape[2][2] = 4 /\ shape[2][3] = "number"
      /\ shape[3][1] = "component_type" /\ shape[3][2] = 8 /\ shape[3][3] = "number"
      /\ shape[4][1] = "component_tag" /\ shape[4][2] = 8 /\ shape[4][3] = "number"
      /\ shape[5][1] = "ISO_639_language_code" /\ shape[5][2] = 8 /\ shape[5][3] = "code"
  BY DEF Nr, Spare
<1>2. Shaped(d, 80, shape)
  OBVIOUS
<1> HIDE DEF shape
<1>3. /\ Flat(layout) /\ Len(layout) = 5 /\ DOMAIN layout = 1 .. 5
      /\ \A k \in 1 .. 5 : layout[k].name = shape[k][1] /\ HeldAt(layout, k, shape[k][2], shape[k][3])
  <2>1. Shapely(shape, 5)
    BY <1>1 DEF Shapely
  <2> QED BY <1>2, <2>1, ShapeHolds
<1>4. /\ layout[1].name = "reserved" /\ HeldAt(layout, 1, 4, "number")
      /\ layout[2].name = "stream_content" /\ HeldAt(layout, 2, 4, "number")
      /\ layout[3].name = "component_type" /\ HeldAt(layout, 3, 8, "number")
      /\ layout[4].name = "component_tag" /\ HeldAt(layout, 4, 8, "number")
      /\ layout[5].name = "ISO_639_language_code" /\ HeldAt(layout, 5, 8, "code")
  BY <1>1, <1>3
<1>5. /\ NumberIs(layout, 1, 4, v1) /\ NumberIs(layout, 2, 4, v2) /\ NumberIs(layout, 3, 8, v3)
      /\ NumberIs(layout, 4, 8, v4) /\ BytesIs(layout, 5, 8, x5) /\ (\A u \in DOMAIN x5 : x5[u] > 0)
      /\ Len(x5) = 3
  <2>1. /\ "text" \in {"text", "code"} /\ "code" \in {"text", "code"} /\ "code" = "code"
    OBVIOUS
  <2> QED BY <1>4, <2>1, HeldBytes, HeldNumber, HeldText
<1>r. ~NoResolution(v2, v3)
  OBVIOUS
<1> HIDE DEF v1, v2, v3, v4, x5
<1>6. /\ NumberAt(layout, 1, 4, v1) /\ layout[1].value = <<v1>> /\ v1 \in Nat /\ v1 < 16
      /\ NumberAt(layout, 2, 4, v2) /\ layout[2].value = <<v2>> /\ v2 \in Nat /\ v2 < 16
      /\ NumberAt(layout, 3, 8, v3) /\ layout[3].value = <<v3>> /\ v3 \in Nat /\ v3 < 256
      /\ NumberAt(layout, 4, 8, v4) /\ layout[4].value = <<v4>> /\ v4 \in Nat /\ v4 < 256
      /\ FieldAt(layout, 5, 8, x5) /\ layout[5].value = x5 /\ x5 \in Seq(Nat)
  BY <1>5, SmallLimits DEF NumberIs, BytesIs
<1> DEFINE b1 == v1 * 16 + v2
<1>7. b1 = v1 * 16 + v2
  OBVIOUS
<1> HIDE DEF b1
<1>8. /\ U8(p, 2) = b1 /\ U8(p, 3) = v3 /\ U8(p, 4) = v4 /\ Copy(p, 5, Len(x5)) = x5
      /\ Len(bytes) = 3 + Len(x5)
  <2>1. LaidOut(layout, 5, bytes) /\ Stands(2, bytes, p)
    BY <1>3 DEF LaidOut
  <2> HIDE DEF bytes
  <2> QED BY <1>6, <1>7, <2>1, Read_0x50
<1>9. /\ len = 3 + Len(x5) /\ Len(x5) \in Nat
  BY <1>6, <1>8 DEF BodyLength
<1> HIDE DEF len, bytes
<1>10. /\ Part(p, 2, 0, 4) = v2 /\ Copy(p, 5, 3) = x5
  <2>1. /\ v1 \in Nat /\ v1 < 16 /\ v2 \in Nat /\ v2 < 16 /\ v3 \in Nat /\ v3 < 256
        /\ v4 \in Nat /\ v4 < 256
    BY <1>6
  <2>2. (b1 \div 2^0) % 2^4 = v2
    BY <2>1, <1>7
  <2>3. Copy(p, 5, 3) = x5
    BY <1>5, <1>6, <1>8, <1>9
  <2> QED BY <2>2, <2>3, <1>8 DEF Flag, Part, S8
<1> DEFINE f1 == File("stream_content", Part(p, 2, 0, 4))
           f2 == File("component_type", U8(p, 3))
           f3 == File("component_tag", U8(p, 4))
           f4 == Str("ISO_639_language_code", Copy(p, 5, 3))
<1>11. descriptor_0x50_parser(p, len) = Files(<<f1, f2, f3, f4, NoFiles, NoFiles>>)
  <2>1. 6 \in Int /\ len \in Int /\ len >= 6 - 2
    BY <1>5, <1>9
  <2>3. descriptor_0x50_parser(p, len) = Checked(6, len, Files(<<f1, f2, f3, f4, NoFiles, NoFiles>>))
    <3>1. ~NoResolution(Part(p, 2, 0, 4), U8(p, 3)) /\ ~(len > 8)
      BY <1>r, <1>5, <1>8, <1>9, <1>10
    <3> QED BY <3>1 DEF descriptor_0x50_parser
  <2> QED BY <2>1, <2>3, CheckedIs
<1>12. /\ HasNumber(layout, 2, "stream_content", v2)
       /\ HasNumber(layout, 3, "component_type", v3)
       /\ HasNumber(layout, 4, "component_tag", v4)
       /\ HasText(layout, 5, "ISO_639_language_code", x5)
  BY <1>3, <1>4, <1>5, <1>6 DEF HasBytes, HasNumber, HasText
<1>13. Covers(f1, layout, {"stream_content"})
  <2>1. HasNumber(layout, 2, "stream_content", Part(p, 2, 0, 4))
    BY <1>8, <1>10, <1>12
  <2> QED BY <1>3, <2>1, ShowsNumber
<1>14. Covers(f2, layout, {"component_type"})
  <2>1. HasNumber(layout, 3, "component_type", U8(p, 3))
    BY <1>8, <1>10, <1>12
  <2> QED BY <1>3, <2>1, ShowsNumber
<1>15. Covers(f3, layout, {"component_tag"})
  <2>1. HasNumber(layout, 4, "component_tag", U8(p, 4))
    BY <1>8, <1>10, <1>12
  <2> QED BY <1>3, <2>1, ShowsNumber
<1>16. Covers(f4, layout, {"ISO_639_language_code"})
  <2>1. HasText(layout, 5, "ISO_639_language_code", Copy(p, 5, 3))
    BY <1>8, <1>10, <1>12
  <2> QED BY <1>3, <2>1, ShowsText
<1> HIDE DEF f1, f2, f3, f4
<1>17. Covers(Files(<<f1, f2, f3, f4, NoFiles, NoFiles>>), layout,
             {"stream_content"} \cup {"component_type"} \cup {"component_tag"} \cup {"ISO_639_language_code"} \cup {} \cup {})
  BY <1>13, <1>14, <1>15, <1>16, CoversNone, CoversSix
<1>18. AllNamed(layout, {"stream_content"} \cup {"component_type"} \cup {"component_tag"} \cup {"ISO_639_language_code"} \cup {} \cup {})
  <2>1. \A k \in 1 .. 5 : k = 1 \/ k = 2 \/ k = 3 \/ k = 4 \/ k = 5
    OBVIOUS
  <2> QED BY <1>3, <1>4, <2>1 DEF AllNamed
<1>19. Filled(Files(<<f1, f2, f3, f4, NoFiles, NoFiles>>)) = Told(layout)
  BY <1>3, <1>17, <1>18, AllShown
<1> QED BY <1>11, <1>19 DEF len

LEMMA Shown_0x7c ==
  ASSUME NEW d, IsLayout(d.layout), NEW p, Stands(2, Bytes(d.layout), p),
         Shaped(d, 124, <<Nr("profile_and_level", 8), Nr("aac_type_flag", 1), Spare(7)>>), d.layout[2].value[1] = 0
  PROVE  Filled(descriptor_0x7c_parser(p, BodyLength(d))) = Told(d.layout)
<1> DEFINE shape == <<Nr("profile_and_level", 8), Nr("aac_type_flag", 1), Spare(7)>>
           layout == d.layout
           bytes == Bytes(layout)
           len == BodyLength(d)
           v1 == layout[1].value[1]
           v2 == layout[2].value[1]
           v3 == layout[3].value[1]
<1>1. /\ Len(shape) = 3 /\ DOMAIN shape = 1 .. 3
      /\ shape[1][1] = "profile_and_level" /\ shape[1][2] = 8 /\ shape[1][3] = "number"
      /\ shape[2][1] = "aac_type_flag" /\ shape[2][2] = 1 /\ shape[2][3] = "number"
      /\ shape[3][1] = "reserved" /\ shape[3][2] = 7 /\ shape[3][3] = "number"
  BY DEF Nr, Spare
<1>2. Shaped(d, 124, shape)
  OBVIOUS
<1> HIDE DEF shape
<1>3. /\ Flat(layout) /\ Len(layout) = 3 /\ DOMAIN layout = 1 .. 3
      /\ \A k \in 1 .. 3 : layout[k].name = shape[k][1] /\ HeldAt(layout, k, shape[k][2], shape[k][3])
  <2>1. Shapely(shape, 3)
    BY <1>1 DEF Shapely
  <2> QED BY <1>2, <2>1, ShapeHolds
<1>4. /\ layout[1].name = "profile_and_level" /\ HeldAt(layout, 1, 8, "number")
      /\ layout[2].name = "aac_type_flag" /\ HeldAt(layout, 2, 1, "number")
      /\ layout[3].name = "reserved" /\ HeldAt(layout, 3, 7, "number")
  BY <1>1, <1>3
<1>5. /\ NumberIs(layout, 1, 8, v1) /\ NumberIs(layout, 2, 1, v2) /\ NumberIs(layout, 3, 7, v3)
  BY <1>4, HeldNumber
<1>c. v2 = 0
  BY <1>5 DEF NumberIs
<1> HIDE DEF v1, v2, v3
<1>6. /\ NumberAt(layout, 1, 8, v1) /\ layout[1].value = <<v1>> /\ v1 \in Nat /\ v1 < 256
      /\ NumberAt(layout, 2, 1, v2) /\ layout[2].value = <<v2>> /\ v2 \in Nat /\ v2 < 2
      /\ NumberAt(layout, 3, 7, v3) /\ layout[3].value = <<v3>> /\ v3 \in Nat /\ v3 < 128
  BY <1>5, SmallLimits DEF NumberIs
<1> DEFINE b1 == v2 * 128 + v3
<1>7. b1 = v2 * 128 + v3
  OBVIOUS
<1> HIDE DEF b1
<1>8. /\ U8(p, 2) = v1 /\ U8(p, 3) = b1 /\ Len(bytes) = 2
  <2>1. LaidOut(layout, 3, bytes) /\ Stands(2, bytes, p)
    BY <1>3 DEF LaidOut
  <2> HIDE DEF bytes
  <2> QED BY <1>6, <1>7, <2>1, Read_0x7c
<1>9. len = 2
  BY <1>6, <1>8 DEF BodyLength
<1> HIDE DEF len, bytes
<1>10. Flag(p, 3, 7) = 0
  <2>1. /\ v1 \in Nat /\ v1 < 256 /\ v2 \in Nat /\ v2 < 2 /\ v3 \in Nat /\ v3 < 128
    BY <1>6
  <2>2. (b1 \div 2^7) % 2^1 = 0
    BY <1>c, <2>1, <1>7
  <2> QED BY <2>2, <1>8 DEF Flag, Part, S8
<1> DEFINE f1 == File("profile_and_level", U8(p, 2))
           f2 == File("aac_type_flag", Flag(p, 3, 7))
           f3 == Bin("additional_info", Copy(p, 4, len - 4))
<1>11. descriptor_0x7c_parser(p, len) = Files(<<f1, f2, NoFiles, f3>>)
  <2>1. 4 \in Int /\ len \in Int /\ len >= 4 - 2
    BY <1>9
  <2>2. <<f1, f2>> \o <<NoFiles, f3>> = <<f1, f2, NoFiles, f3>>
    <3> HIDE DEF f1, f2, f3
    <3> QED BY JoinTwoTwo
  <2>3. descriptor_0x7c_parser(p, len) = Checked(4, len, Files(<<f1, f2>> \o <<NoFiles, f3>>))
    BY <1>c, <1>9, <1>10 DEF descriptor_0x7c_parser
  <2>4. descriptor_0x7c_parser(p, len) = Checked(4, len, Files(<<f1, f2, NoFiles, f3>>))
    BY <2>2, <2>3
  <2> QED BY <2>1, <2>4, CheckedIs
<1>12. /\ HasNumber(layout, 1, "profile_and_level", v1)
       /\ HasNumber(layout, 2, "aac_type_flag", v2)
       /\ HasNone(layout, "additional_info")
  BY <1>3, <1>4, <1>6 DEF HasNone, HasNumber
<1>13. Covers(f1, layout, {"profile_and_level"})
  <2>1. HasNumber(layout, 1, "profile_and_level", U8(p, 2))
    BY <1>c, <1>8, <1>10, <1>12
  <2> QED BY <1>3, <2>1, ShowsNumber
<1>14. Covers(f2, layout, {"aac_type_flag"})
  <2>1. HasNumber(layout, 2, "aac_type_flag", Flag(p, 3, 7))
    BY <1>c, <1>8, <1>10, <1>12
  <2> QED BY <1>3, <2>1, ShowsNumber
<1>15. Covers(f3, layout, {})
  <2>1. 4 \in Int /\ len - 4 \in Int /\ len - 4 <= 0
    BY <1>6, <1>9, <1>10
  <2> QED BY <1>3, <1>12, <2>1, ShowsNoBytes
<1> HIDE DEF f1, f2, f3
<1>16. Covers(Files(<<f1, f2, NoFiles, f3>>), layout,
             {"profile_and_level"} \cup {"aac_type_flag"} \cup {} \cup {})
  BY <1>13, <1>14, <1>15, CoversNone, CoversFour
<1>17. AllNamed(layout, {"profile_and_level"} \cup {"aac_type_flag"} \cup {} \cup {})
  <2>1. \A k \in 1 .. 3 : k = 1 \/ k = 2 \/ k = 3
    OBVIOUS
  <2> QED BY <1>3, <1>4, <2>1 DEF AllNamed
<1>18. Filled(Files(<<f1, f2, NoFiles, f3>>)) = Told(layout)
  BY <1>3, <1>16, <1>17, AllShown
<1> QED BY <1>11, <1>18 DEF len

LEMMA Shown_0xc1 ==
  ASSUME NEW d, IsLayout(d.layout), NEW p, Stands(2, Bytes(d.layout), p),
         Shaped(d, 193, <<Nr("digital_recording_control_data", 2), Nr("maximum_bitrate_flag", 1),
                          Nr("component_control_flag", 1), Nr("copy_control_type", 2), Nr("APS_control_data", 2)>>), d.layout[2].value[1] = 0, d.layout[3].value[1] = 0
  PROVE  Filled(descriptor_0xc1_parser(p, BodyLength(d))) = Told(d.layout)
<1> DEFINE shape == <<Nr("digital_recording_control_data", 2), Nr("maximum_bitrate_flag", 1),
                      Nr("component_control_flag", 1), Nr("copy_control_type", 2), Nr("APS_control_data", 2)>>
           layout == d.layout
           bytes == Bytes(layout)
           len == BodyLength(d)
           v1 == layout[1].value[1]
           v2 == layout[2].value[1]
           v3 == layout[3].value[1]
           v4 == layout[4].value[1]
           v5 == layout[5].value[1]
<1>1. /\ Len(shape) = 5 /\ DOMAIN shape = 1 .. 5
      /\ shape[1][1] = "digital_recording_control_data" /\ shape[1][2] = 2 /\ shape[1][3] = "number"
      /\ shape[2][1] = "maximum_bitrate_flag" /\ shape[2][2] = 1 /\ shape[2][3] = "number"
      /\ shape[3][1] = "component_control_flag" /\ shape[3][2] = 1 /\ shape[3][3] = "number"
      /\ shape[4][1] = "copy_control_type" /\ shape[4][2] = 2 /\ shape[4][3] = "number"
      /\ shape[5][1] = "APS_control_data" /\ shape[5][2] = 2 /\ shape[5][3] = "number"
  BY DEF Nr, Spare
<1>2. Shaped(d, 193, shape)
  OBVIOUS
<1> HIDE DEF shape
<1>3. /\ Flat(layout) /\ Len(layout) = 5 /\ DOMAIN layout = 1 .. 5
      /\ \A k \in 1 .. 5 : layout[k].name = shape[k][1] /\ HeldAt(layout, k, shape[k][2], shape[k][3])
  <2>1. Shapely(shape, 5)
    BY <1>1 DEF Shapely
  <2> QED BY <1>2, <2>1, ShapeHolds
<1>4. /\ layout[1].name = "digital_recording_control_data" /\ HeldAt(layout, 1, 2, "number")
      /\ layout[2].name = "maximum_bitrate_flag" /\ HeldAt(layout, 2, 1, "number")
      /\ layout[3].name = "component_control_flag" /\ HeldAt(layout, 3, 1, "number")
      /\ layout[4].name = "copy_control_type" /\ HeldAt(layout, 4, 2, "number")
      /\ layout[5].name = "APS_control_data" /\ HeldAt(layout, 5, 2, "number")
  BY <1>1, <1>3
<1>5. /\ NumberIs(layout, 1, 2, v1) /\ NumberIs(layout, 2, 1, v2) /\ NumberIs(layout, 3, 1, v3)
      /\ NumberIs(layout, 4, 2, v4) /\ NumberIs(layout, 5, 2, v5)
  BY <1>4, HeldNumber
<1>c. v2 = 0 /\ v3 = 0
  BY <1>5 DEF NumberIs
<1> HIDE DEF v1, v2, v3, v4, v5
<1>6. /\ NumberAt(layout, 1, 2, v1) /\ layout[1].value = <<v1>> /\ v1 \in Nat /\ v1 < 4
      /\ NumberAt(layout, 2, 1, v2) /\ layout[2].value = <<v2>> /\ v2 \in Nat /\ v2 < 2
      /\ NumberAt(layout, 3, 1, v3) /\ layout[3].value = <<v3>> /\ v3 \in Nat /\ v3 < 2
      /\ NumberAt(layout, 4, 2, v4) /\ layout[4].value = <<v4>> /\ v4 \in Nat /\ v4 < 4
      /\ NumberAt(layout, 5, 2, v5) /\ layout[5].value = <<v5>> /\ v5 \in Nat /\ v5 < 4
  BY <1>5, SmallLimits DEF NumberIs
<1> DEFINE b1 == v1 * 2 + v2
           b2 == b1 * 2 + v3
           b3 == b2 * 4 + v4
           b4 == b3 * 4 + v5
<1>7. /\ b1 = v1 * 2 + v2 /\ b2 = b1 * 2 + v3 /\ b3 = b2 * 4 + v4 /\ b4 = b3 * 4 + v5
  OBVIOUS
<1> HIDE DEF b1, b2, b3, b4
<1>8. /\ U8(p, 2) = b4 /\ Len(bytes) = 1
  <2>1. LaidOut(layout, 5, bytes) /\ Stands(2, bytes, p)
    BY <1>3 DEF LaidOut
  <2> HIDE DEF bytes
  <2> QED BY <1>6, <1>7, <2>1, Read_0xc1
<1>9. len = 1
  BY <1>6, <1>8 DEF BodyLength
<1> HIDE DEF len, bytes
<1>10. /\ Part(p, 2, 6, 2) = v1 /\ Flag(p, 2, 5) = 0 /\ Flag(p, 2, 4) = 0 /\ Part(p, 2, 2, 2) = v4
       /\ Part(p, 2, 0, 2) = v5
  <2>1. /\ v1 \in Nat /\ v1 < 4 /\ v2 \in Nat /\ v2 < 2 /\ v3 \in Nat /\ v3 < 2 /\ v4 \in Nat /\ v4 < 4
        /\ v5 \in Nat /\ v5 < 4
    BY <1>6
  <2>2. /\ (b4 \div 2^6) % 2^2 = v1 /\ (b4 \div 2^5) % 2^1 = 0 /\ (b4 \div 2^4) % 2^1 = 0
        /\ (b4 \div 2^2) % 2^2 = v4 /\ (b4 \div 2^0) % 2^2 = v5
    BY <1>c, <2>1, <1>7
  <2> QED BY <2>2, <1>8 DEF Flag, Part, S8
<1> DEFINE f1 == File("digital_recording_control_data", Part(p, 2, 6, 2))
           f2 == File("maximum_bitrate_flag", Flag(p, 2, 5))
           f3 == File("copy_control_type", Part(p, 2, 2, 2))
           f4 == File("APS_control_data", Part(p, 2, 0, 2))
           f5 == File("component_control_flag", Flag(p, 2, 4))
<1>11. descriptor_0xc1_parser(p, len) = Files(<<Files(<<f1, f2, f3, f4>>), f5, NoFiles, NoFiles>>)
  <2>1. 3 \in Int /\ len \in Int /\ len >= 3 - 2
    BY <1>9
  <2>2. <<CopyControl(p, 2), f5>> \o <<NoFiles, NoFiles>> = <<CopyControl(p, 2), f5, NoFiles, NoFiles>>
    <3> HIDE DEF f5
    <3> QED BY JoinTwoTwo
  <2>3. descriptor_0xc1_parser(p, len) = Checked(3, len, Files(<<CopyControl(p, 2), f5>> \o <<NoFiles, NoFiles>>))
    BY <1>c, <1>9, <1>10 DEF descriptor_0xc1_parser, CopyControl
  <2>4. descriptor_0xc1_parser(p, len) = Checked(3, len, Files(<<Files(<<f1, f2, f3, f4>>), f5, NoFiles, NoFiles>>))
    BY <2>2, <2>3 DEF CopyControl
  <2> QED BY <2>1, <2>4, CheckedIs
<1>12. /\ HasNumber(layout, 1, "digital_recording_control_data", v1)
       /\ HasNumber(layout, 2, "maximum_bitrate_flag", v2)
       /\ HasNumber(layout, 4, "copy_control_type", v4)
       /\ HasNumber(layout, 5, "APS_control_data", v5)
       /\ HasNumber(layout, 3, "component_control_flag", v3)
  BY <1>3, <1>4, <1>6 DEF HasNumber
<1>13. Covers(f1, layout, {"digital_recording_control_data"})
  <2>1. HasNumber(layout, 1, "digital_recording_control_data", Part(p, 2, 6, 2))
    BY <1>c, <1>8, <1>10, <1>12
  <2> QED BY <1>3, <2>1, ShowsNumber
<1>14. Covers(f2, layout, {"maximum_bitrate_flag"})
  <2>1. HasNumber(layout, 2, "maximum_bitrate_flag", Flag(p, 2, 5))
    BY <1>c, <1>8, <1>10, <1>12
  <2> QED BY <1>3, <2>1, ShowsNumber
<1>15. Covers(f3, layout, {"copy_control_type"})
  <2>1. HasNumber(layout, 4, "copy_control_type", Part(p, 2, 2, 2))
    BY <1>c, <1>8, <1>10, <1>12
  <2> QED BY <1>3, <2>1, ShowsNumber
<1>16. Covers(f4, layout, {"APS_control_data"})
  <2>1. HasNumber(layout, 5, "APS_control_data", Part(p, 2, 0, 2))
    BY <1>c, <1>8, <1>10, <1>12
  <2> QED BY <1>3, <2>1, ShowsNumber
<1>17. Covers(f5, layout, {"component_control_flag"})
  <2>1. HasNumber(layout, 3, "component_control_flag", Flag(p, 2, 4))
    BY <1>c, <1>8, <1>10, <1>12
  <2> QED BY <1>3, <2>1, ShowsNumber
<1> HIDE DEF f1, f2, f3, f4, f5
<1>18. Covers(Files(<<f1, f2, f3, f4>>), layout,
             {"digital_recording_control_data"} \cup {"maximum_bitrate_flag"} \cup {"copy_control_type"} \cup {"APS_control_data"})
  BY <1>13, <1>14, <1>15, <1>16, CoversFour
<1>19. Covers(Files(<<Files(<<f1, f2, f3, f4>>), f5, NoFiles, NoFiles>>), layout,
             ({"digital_recording_control_data"} \cup {"maximum_bitrate_flag"} \cup {"copy_control_type"} \cup {"APS_control_data"}) \cup {"component_control_flag"} \cup {} \cup {})
  BY <1>17, <1>18, CoversNone, CoversFour
<1>20. AllNamed(layout, ({"digital_recording_control_data"} \cup {"maximum_bitrate_flag"} \cup {"copy_control_type"} \cup {"APS_control_data"}) \cup {"component_control_flag"} \cup {} \cup {})
  <2>1. \A k \in 1 .. 5 : k = 1 \/ k = 2 \/ k = 3 \/ k = 4 \/ k = 5
    OBVIOUS
  <2> QED BY <1>3, <1>4, <2>1 DEF AllNamed
<1>21. Filled(Files(<<Files(<<f1, f2, f3, f4>>), f5, NoFiles, NoFiles>>)) = Told(layout)
  BY <1>3, <1>19, <1>20, AllShown
<1> QED BY <1>11, <1>21 DEF len

LEMMA Shown_0xc8 ==
  ASSUME NEW d, IsLayout(d.layout), NEW p, Stands(2, Bytes(d.layout), p),
         Shaped(d, 200, <<Nr("still_picture_flag", 1), Nr("sequence_end_code_flag", 1), Nr("video_encode_format", 4),
                          Spare(2)>>)
  PROVE  Filled(descriptor_0xc8_parser(p, BodyLength(d))) = Told(d.layout)
<1> DEFINE shape == <<Nr("still_picture_flag", 1), Nr("sequence_end_code_flag", 1), Nr("video_encode_format", 4),
                      Spare(2)>>
           layout == d.layout
           bytes == Bytes(layout)
           len == BodyLength(d)
           v1 == layout[1].value[1]
           v2 == layout[2].value[1]
           v3 == layout[3].value[1]
           v4 == layout[4].value[1]
<1>1. /\ Len(shape) = 4 /\ DOMAIN shape = 1 .. 4
      /\ shape[1][1] = "still_picture_flag" /\ shape[1][2] = 1 /\ shape[1][3] = "number"
      /\ shape[2][1] = "sequence_end_code_flag" /\ shape[2][2] = 1 /\ shape[2][3] = "number"
      /\ shape[3][1] = "video_encode_format" /\ shape[3][2] = 4 /\ shape[3][3] = "number"
      /\ shape[4][1] = "reserved" /\ shape[4][2] = 2 /\ shape[4][3] = "number"
  BY DEF Nr, Spare
<1>2. Shaped(d, 200, shape)
  OBVIOUS
<1> HIDE DEF shape
<1>3. /\ Flat(layout) /\ Len(layout) = 4 /\ DOMAIN layout = 1 .. 4
      /\ \A k \in 1 .. 4 : layout[k].name = shape[k][1] /\ HeldAt(layout, k, shape[k][2], shape[k][3])
  <2>1. Shapely(shape, 4)
    BY <1>1 DEF Shapely
  <2> QED BY <1>2, <2>1, ShapeHolds
<1>4. /\ layout[1].name = "still_picture_flag" /\ HeldAt(layout, 1, 1, "number")
      /\ layout[2].name = "sequence_end_code_flag" /\ HeldAt(layout, 2, 1, "number")
      /\ layout[3].name = "video_encode_format" /\ HeldAt(layout, 3, 4, "number")
      /\ layout[4].name = "reserved" /\ HeldAt(layout, 4, 2, "number")
  BY <1>1, <1>3
<1>5. /\ NumberIs(layout, 1, 1, v1) /\ NumberIs(layout, 2, 1, v2) /\ NumberIs(layout, 3, 4, v3)
      /\ NumberIs(layout, 4, 2, v4)
  BY <1>4, HeldNumber
<1> HIDE DEF v1, v2, v3, v4
<1>6. /\ NumberAt(layout, 1, 1, v1) /\ layout[1].value = <<v1>> /\ v1 \in Nat /\ v1 < 2
      /\ NumberAt(layout, 2, 1, v2) /\ layout[2].value = <<v2>> /\ v2 \in Nat /\ v2 < 2
      /\ NumberAt(layout, 3, 4, v3) /\ layout[3].value = <<v3>> /\ v3 \in Nat /\ v3 < 16
      /\ NumberAt(layout, 4, 2, v4) /\ layout[4].value = <<v4>> /\ v4 \in Nat /\ v4 < 4
  BY <1>5, SmallLimits DEF NumberIs
<1> DEFINE b1 == v1 * 2 + v2
           b2 == b1 * 16 + v3
           b3 == b2 * 4 + v4
<1>7. /\ b1 = v1 * 2 + v2 /\ b2 = b1 * 16 + v3 /\ b3 = b2 * 4 + v4
  OBVIOUS
<1> HIDE DEF b1, b2, b3
<1>8. /\ U8(p, 2) = b3 /\ Len(bytes) = 1
  <2>1. LaidOut(layout, 4, bytes) /\ Stands(2, bytes, p)
    BY <1>3 DEF LaidOut
  <2> HIDE DEF bytes
  <2> QED BY <1>6, <1>7, <2>1, Read_0xc8
<1>9. len = 1
  BY <1>6, <1>8 DEF BodyLength
<1> HIDE DEF len, bytes
<1>10. /\ Flag(p, 2, 7) = v1 /\ Flag(p, 2, 6) = v2 /\ Part(p, 2, 2, 4) = v3
  <2>1. /\ v1 \in Nat /\ v1 < 2 /\ v2 \in Nat /\ v2 < 2 /\ v3 \in Nat /\ v3 < 16 /\ v4 \in Nat /\ v4 < 4
    BY <1>6
  <2>2. /\ (b3 \div 2^7) % 2^1 = v1 /\ (b3 \div 2^6) % 2^1 = v2 /\ (b3 \div 2^2) % 2^4 = v3
    BY <2>1, <1>7
  <2> QED BY <2>2, <1>8 DEF Flag, Part, S8
<1> DEFINE f1 == File("still_picture_flag", Flag(p, 2, 7))
           f2 == File("sequence_end_code_flag", Flag(p, 2, 6))
           f3 == File("video_encode_format", Part(p, 2, 2, 4))
<1>11. descriptor_0xc8_parser(p, len) = Files(<<f1, f2, f3>>)
  <2>1. 3 \in Int /\ len \in Int /\ len >= 3 - 2
    BY <1>9
  <2>3. descriptor_0xc8_parser(p, len) = Checked(3, len, Files(<<f1, f2, f3>>))
    BY <1>9, <1>10 DEF descriptor_0xc8_parser
  <2> QED BY <2>1, <2>3, CheckedIs
<1>12. /\ HasNumber(layout, 1, "still_picture_flag", v1)
       /\ HasNumber(layout, 2, "sequence_end_code_flag", v2)
       /\ HasNumber(layout, 3, "video_encode_format", v3)
  BY <1>3, <1>4, <1>6 DEF HasNumber
<1>13. Covers(f1, layout, {"still_picture_flag"})
  <2>1. HasNumber(layout, 1, "still_picture_flag", Flag(p, 2, 7))
    BY <1>8, <1>10, <1>12
  <2> QED BY <1>3, <2>1, ShowsNumber
<1>14. Covers(f2, layout, {"sequence_end_code_flag"})
  <2>1. HasNumber(layout, 2, "sequence_end_code_flag", Flag(p, 2, 6))
    BY <1>8, <1>10, <1>12
  <2> QED BY <1>3, <2>1, ShowsNumber
<1>15. Covers(f3, layout, {"video_encode_format"})
  <2>1. HasNumber(layout, 3, "video_encode_format", Part(p, 2, 2, 4))
    BY <1>8, <1>10, <1>12
  <2> QED BY <1>3, <2>1, ShowsNumber
<1> HIDE DEF f1, f2, f3
<1>16. Covers(Files(<<f1, f2, f3>>), layout,
             {"still_picture_flag"} \cup {"sequence_end_code_flag"} \cup {"video_encode_format"})
  BY <1>13, <1>14, <1>15, CoversThree
<1>17. AllNamed(layout, {"still_picture_flag"} \cup {"sequence_end_code_flag"} \cup {"video_encode_format"})
  <2>1. \A k \in 1 .. 4 : k = 1 \/ k = 2 \/ k = 3 \/ k = 4
    OBVIOUS
  <2> QED BY <1>3, <1>4, <2>1 DEF AllNamed
<1>18. Filled(Files(<<f1, f2, f3>>)) = Told(layout)
  BY <1>3, <1>16, <1>17, AllShown
<1> QED BY <1>11, <1>18 DEF len

LEMMA Shown_0xcf_1 ==
  ASSUME NEW d, IsLayout(d.layout), NEW p, Stands(2, Bytes(d.layout), p),
         Shaped(d, 207, <<Nr("logo_transmission_type", 8), Spare(7), Nr("logo_id", 9), Spare(4), Nr("logo_version", 12),
                          Nr("download_data_id", 16)>>), d.layout[1].value[1] = 1
  PROVE  Filled(descriptor_0xcf_parser(p, BodyLength(d))) = Told(d.layout)
<1> DEFINE shape == <<Nr("logo_transmission_type", 8), Spare(7), Nr("logo_id", 9), Spare(4), Nr("logo_version", 12),
                      Nr("download_data_id", 16)>>
           layout == d.layout
           bytes == Bytes(layout)
           len == BodyLength(d)
           v1 == layout[1].value[1]
           v2 == layout[2].value[1]
           v3 == layout[3].value[1]
           v4 == layout[4].value[1]
           v5 == layout[5].value[1]
           v6 == layout[6].value[1]
<1>1. /\ Len(shape) = 6 /\ DOMAIN shape = 1 .. 6
      /\ shape[1][1] = "logo_transmission_type" /\ shape[1][2] = 8 /\ shape[1][3] = "number"
      /\ shape[2][1] = "reserved" /\ shape[2][2] = 7 /\ shape[2][3] = "number"
      /\ shape[3][1] = "logo_id" /\ shape[3][2] = 9 /\ shape[3][3] = "number"
      /\ shape[4][1] = "reserved" /\ shape[4][2] = 4 /\ shape[4][3] = "number"
      /\ shape[5][1] = "logo_version" /\ shape[5][2] = 12 /\ shape[5][3] = "number"
      /\ shape[6][1] = "download_data_id" /\ shape[6][2] = 16 /\ shape[6][3] = "number"
  BY DEF Nr, Spare
<1>2. Shaped(d, 207, shape)
  OBVIOUS
<1> HIDE DEF shape
<1>3. /\ Flat(layout) /\ Len(layout) = 6 /\ DOMAIN layout = 1 .. 6
      /\ \A k \in 1 .. 6 : layout[k].name = shape[k][1] /\ HeldAt(layout, k, shape[k][2], shape[k][3])
  <2>1. Shapely(shape, 6)
    BY <1>1 DEF Shapely
  <2> QED BY <1>2, <2>1, ShapeHolds
<1>4. /\ layout[1].name = "logo_transmission_type" /\ HeldAt(layout, 1, 8, "number")
      /\ layout[2].name = "reserved" /\ HeldAt(layout, 2, 7, "number")
      /\ layout[3].name = "logo_id" /\ HeldAt(layout, 3, 9, "number")
      /\ layout[4].name = "reserved" /\ HeldAt(layout, 4, 4, "number")
      /\ layout[5].name = "logo_version" /\ HeldAt(layout, 5, 12, "number")
      /\ layout[6].name = "download_data_id" /\ HeldAt(layout, 6, 16, "number")
  BY <1>1, <1>3
<1>5. /\ NumberIs(layout, 1, 8, v1) /\ NumberIs(layout, 2, 7, v2) /\ NumberIs(layout, 3, 9, v3)
      /\ NumberIs(layout, 4, 4, v4) /\ NumberIs(layout, 5, 12, v5) /\ NumberIs(layout, 6, 16, v6)
  BY <1>4, HeldNumber, SMTT(30)
<1>c. v1 = 1
  BY <1>5 DEF NumberIs
<1> HIDE DEF v1, v2, v3, v4, v5, v6
<1>6. /\ NumberAt(layout, 1, 8, v1) /\ layout[1].value = <<v1>> /\ v1 \in Nat /\ v1 < 256
      /\ NumberAt(layout, 2, 7, v2) /\ layout[2].value = <<v2>> /\ v2 \in Nat /\ v2 < 128
      /\ NumberAt(layout, 3, 9, v3) /\ layout[3].value = <<v3>> /\ v3 \in Nat /\ v3 < 512
      /\ NumberAt(layout, 4, 4, v4) /\ layout[4].value = <<v4>> /\ v4 \in Nat /\ v4 < 16
      /\ NumberAt(layout, 5, 12, v5) /\ layout[5].value = <<v5>> /\ v5 \in Nat /\ v5 < 4096
      /\ NumberAt(layout, 6, 16, v6) /\ layout[6].value = <<v6>> /\ v6 \in Nat
  BY <1>5, SmallLimits DEF NumberIs
<1> DEFINE b1 == v2 * 512 + v3
           b2 == v4 * 4096 + v5
<1>7. /\ b1 = v2 * 512 + v3 /\ b2 = v4 * 4096 + v5
  OBVIOUS
<1> HIDE DEF b1, b2
<1>8. /\ U8(p, 2) = v1 /\ U16(p, 3) = b1 /\ U16(p, 5) = b2 /\ U16(p, 7) = v6 /\ Len(bytes) = 7
  <2>1. LaidOut(layout, 6, bytes) /\ Stands(2, bytes, p)
    BY <1>3 DEF LaidOut
  <2> HIDE DEF bytes
  <2> QED BY <1>6, <1>7, <2>1, Read_0xcf_1
<1>9. len = 7
  BY <1>6, <1>8 DEF BodyLength
<1> HIDE DEF len, bytes
<1>10. /\ U8(p, 2) = 1 /\ U16(p, 3) % 2^9 = v3 /\ U16(p, 5) % 2^12 = v5
  <2>1. /\ v1 \in Nat /\ v1 < 256 /\ v2 \in Nat /\ v2 < 128 /\ v3 \in Nat /\ v3 < 512
        /\ v4 \in Nat /\ v4 < 16 /\ v5 \in Nat /\ v5 < 4096
    BY <1>6
  <2>2. /\ b1 % 2^9 = v3 /\ b2 % 2^12 = v5
    BY <1>c, <2>1, <1>7
  <2>3. U8(p, 2) = 1
    BY <1>c, <1>6, <1>8, <1>9
  <2> QED BY <2>2, <2>3, <1>8 DEF Flag, Part, S8
<1> DEFINE f1 == File("logo_transmission_type", U8(p, 2))
           f2 == File("logo_id", U16(p, 3) % 2^9)
           f3 == File("logo_version", U16(p, 5) % 2^12)
           f4 == File("download_data_id", U16(p, 7))
<1>11. descriptor_0xcf_parser(p, len) = Files(<<f1, Files(<<f2, f3, f4>>)>>)
  <2>1. 4 \in Int /\ len \in Int /\ len >= 4 - 2
    BY <1>9
  <2>3. descriptor_0xcf_parser(p, len) = Checked(4, len, Files(<<f1, Files(<<f2, f3, f4>>)>>))
    BY <1>c, <1>9, <1>10 DEF descriptor_0xcf_parser
  <2> QED BY <2>1, <2>3, CheckedIs
<1>12. /\ HasNumber(layout, 1, "logo_transmission_type", v1)
       /\ HasNumber(layout, 3, "logo_id", v3)
       /\ HasNumber(layout, 5, "logo_version", v5)
       /\ HasNumber(layout, 6, "download_data_id", v6)
  BY <1>3, <1>4, <1>6 DEF HasNumber
<1>13. Covers(f1, layout, {"logo_transmission_type"})
  <2>1. HasNumber(layout, 1, "logo_transmission_type", U8(p, 2))
    BY <1>c, <1>8, <1>10, <1>12
  <2> QED BY <1>3, <2>1, ShowsNumber
<1>14. Covers(f2, layout, {"logo_id"})
  <2>1. HasNumber(layout, 3, "logo_id", U16(p, 3) % 2^9)
    BY <1>c, <1>8, <1>10, <1>12
  <2> QED BY <1>3, <2>1, ShowsNumber
<1>15. Covers(f3, layout, {"logo_version"})
  <2>1. HasNumber(layout, 5, "logo_version", U16(p, 5) % 2^12)
    BY <1>c, <1>8, <1>10, <1>12
  <2> QED BY <1>3, <2>1, ShowsNumber
<1>16. Covers(f4, layout, {"download_data_id"})
  <2>1. HasNumber(layout, 6, "download_data_id", U16(p, 7))
    BY <1>c, <1>8, <1>10, <1>12
  <2> QED BY <1>3, <2>1, ShowsNumber
<1> HIDE DEF f1, f2, f3, f4
<1>17. Covers(Files(<<f2, f3, f4>>), layout,
             {"logo_id"} \cup {"logo_version"} \cup {"download_data_id"})
  BY <1>14, <1>15, <1>16, CoversThree
<1>18. Covers(Files(<<f1, Files(<<f2, f3, f4>>)>>), layout,
             {"logo_transmission_type"} \cup ({"logo_id"} \cup {"logo_version"} \cup {"download_data_id"}))
  BY <1>13, <1>17, CoversTwo
<1>19. AllNamed(layout, {"logo_transmission_type"} \cup ({"logo_id"} \cup {"logo_version"} \cup {"download_data_id"}))
  <2>1. \A k \in 1 .. 6 : k = 1 \/ k = 2 \/ k = 3 \/ k = 4 \/ k = 5 \/ k = 6
    OBVIOUS
  <2> QED BY <1>3, <1>4, <2>1 DEF AllNamed
<1>20. Filled(Files(<<f1, Files(<<f2, f3, f4>>)>>)) = Told(layout)
  BY <1>3, <1>18, <1>19, AllShown
<1> QED BY <1>11, <1>20 DEF len

LEMMA Shown_0xcf_2 ==
  ASSUME NEW d, IsLayout(d.layout), NEW p, Stands(2, Bytes(d.layout), p),
         Shaped(d, 207, <<Nr("logo_transmission_type", 8), Spare(7), Nr("logo_id", 9)>>), d.layout[1].value[1] = 2
  PROVE  Filled(descriptor_0xcf_parser(p, BodyLength(d))) = Told(d.layout)
<1> DEFINE shape == <<Nr("logo_transmission_type", 8), Spare(7), Nr("logo_id", 9)>>
           layout == d.layout
           bytes == Bytes(layout)
           len == BodyLength(d)
           v1 == layout[1].value[1]
           v2 == layout[2].value[1]
           v3 == layout[3].value[1]
<1>1. /\ Len(shape) = 3 /\ DOMAIN shape = 1 .. 3
      /\ shape[1][1] = "logo_transmission_type" /\ shape[1][2] = 8 /\ shape[1][3] = "number"
      /\ shape[2][1] = "reserved" /\ shape[2][2] = 7 /\ shape[2][3] = "number"
      /\ shape[3][1] = "logo_id" /\ shape[3][2] = 9 /\ shape[3][3] = "number"
  BY DEF Nr, Spare
<1>2. Shaped(d, 207, shape)
  OBVIOUS
<1> HIDE DEF shape
<1>3. /\ Flat(layout) /\ Len(layout) = 3 /\ DOMAIN layout = 1 .. 3
      /\ \A k \in 1 .. 3 : layout[k].name = shape[k][1] /\ HeldAt(layout, k, shape[k][2], shape[k][3])
  <2>1. Shapely(shape, 3)
    BY <1>1 DEF Shapely
  <2> QED BY <1>2, <2>1, ShapeHolds
<1>4. /\ layout[1].name = "logo_transmission_type" /\ HeldAt(layout, 1, 8, "number")
      /\ layout[2].name = "reserved" /\ HeldAt(layout, 2, 7, "number")
      /\ layout[3].name = "logo_id" /\ HeldAt(layout, 3, 9, "number")
  BY <1>1, <1>3
<1>5. /\ NumberIs(layout, 1, 8, v1) /\ NumberIs(layout, 2, 7, v2) /\ NumberIs(layout, 3, 9, v3)
  BY <1>4, HeldNumber
<1>c. v1 = 2
  BY <1>5 DEF NumberIs
<1> HIDE DEF v1, v2, v3
<1>6. /\ NumberAt(layout, 1, 8, v1) /\ layout[1].value = <<v1>> /\ v1 \in Nat /\ v1 < 256
      /\ NumberAt(layout, 2, 7, v2) /\ layout[2].value = <<v2>> /\ v2 \in Nat /\ v2 < 128
      /\ NumberAt(layout, 3, 9, v3) /\ layout[3].value = <<v3>> /\ v3 \in Nat /\ v3 < 512
  BY <1>5, SmallLimits DEF NumberIs
<1> DEFINE b1 == v2 * 512 + v3
<1>7. b1 = v2 * 512 + v3
  OBVIOUS
<1> HIDE DEF b1
<1>8. /\ U8(p, 2) = v1 /\ U16(p, 3) = b1 /\ Len(bytes) = 3
  <2>1. LaidOut(layout, 3, bytes) /\ Stands(2, bytes, p)
    BY <1>3 DEF LaidOut
  <2> HIDE DEF bytes
  <2> QED BY <1>6, <1>7, <2>1, Read_0xcf_2
<1>9. len = 3
  BY <1>6, <1>8 DEF BodyLength
<1> HIDE DEF len, bytes
<1>10. /\ U8(p, 2) = 2 /\ U16(p, 3) % 2^9 = v3
  <2>1. /\ v1 \in Nat /\ v1 < 256 /\ v2 \in Nat /\ v2 < 128 /\ v3 \in Nat /\ v3 < 512
    BY <1>6
  <2>2. b1 % 2^9 = v3
    BY <1>c, <2>1, <1>7
  <2>3. U8(p, 2) = 2
    BY <1>c, <1>6, <1>8, <1>9
  <2> QED BY <2>2, <2>3, <1>8 DEF Flag, Part, S8
<1> DEFINE f1 == File("logo_transmission_type", U8(p, 2))
           f2 == File("logo_id", U16(p, 3) % 2^9)
<1>11. descriptor_0xcf_parser(p, len) = Files(<<f1, f2>>)
  <2>1. 4 \in Int /\ len \in Int /\ len >= 4 - 2
    BY <1>9
  <2>3. descriptor_0xcf_parser(p, len) = Checked(4, len, Files(<<f1, f2>>))
    BY <1>c, <1>9, <1>10 DEF descriptor_0xcf_parser
  <2> QED BY <2>1, <2>3, CheckedIs
<1>12. /\ HasNumber(layout, 1, "logo_transmission_type", v1)
       /\ HasNumber(layout, 3, "logo_id", v3)
  BY <1>3, <1>4, <1>6 DEF HasNumber
<1>13. Covers(f1, layout, {"logo_transmission_type"})
  <2>1. HasNumber(layout, 1, "logo_transmission_type", U8(p, 2))
    BY <1>c, <1>8, <1>10, <1>12
  <2> QED BY <1>3, <2>1, ShowsNumber
<1>14. Covers(f2, layout, {"logo_id"})
  <2>1. HasNumber(layout, 3, "logo_id", U16(p, 3) % 2^9)
    BY <1>c, <1>8, <1>10, <1>12
  <2> QED BY <1>3, <2>1, ShowsNumber
<1> HIDE DEF f1, f2
<1>15. Covers(Files(<<f1, f2>>), layout,
             {"logo_transmission_type"} \cup {"logo_id"})
  BY <1>13, <1>14, CoversTwo
<1>16. AllNamed(layout, {"logo_transmission_type"} \cup {"logo_id"})
  <2>1. \A k \in 1 .. 3 : k = 1 \/ k = 2 \/ k = 3
    OBVIOUS
  <2> QED BY <1>3, <1>4, <2>1 DEF AllNamed
<1>17. Filled(Files(<<f1, f2>>)) = Told(layout)
  BY <1>3, <1>15, <1>16, AllShown
<1> QED BY <1>11, <1>17 DEF len

LEMMA Shown_0xcf_3 ==
  ASSUME NEW d, IsLayout(d.layout), NEW p, Stands(2, Bytes(d.layout), p),
         Shaped(d, 207, <<Nr("logo_transmission_type", 8), <<"logo_char", 8, "bytes">>>>), d.layout[1].value[1] = 3, BodyLength(d) > 1
  PROVE  Filled(descriptor_0xcf_parser(p, BodyLength(d))) = Told(d.layout)
<1> DEFINE shape == <<Nr("logo_transmission_type", 8), <<"logo_char", 8, "bytes">>>>
           layout == d.layout
           bytes == Bytes(layout)
           len == BodyLength(d)
           v1 == layout[1].value[1]
           x2 == layout[2].value
<1>1. /\ Len(shape) = 2 /\ DOMAIN shape = 1 .. 2
      /\ shape[1][1] = "logo_transmission_type" /\ shape[1][2] = 8 /\ shape[1][3] = "number"
      /\ shape[2][1] = "logo_char" /\ shape[2][2] = 8 /\ shape[2][3] = "bytes"
  BY DEF Nr, Spare
<1>2. Shaped(d, 207, shape)
  OBVIOUS
<1> HIDE DEF shape
<1>3. /\ Flat(layout) /\ Len(layout) = 2 /\ DOMAIN layout = 1 .. 2
      /\ \A k \in 1 .. 2 : layout[k].name = shape[k][1] /\ HeldAt(layout, k, shape[k][2], shape[k][3])
  <2>1. Shapely(shape, 2)
    BY <1>1 DEF Shapely
  <2> QED BY <1>2, <2>1, ShapeHolds
<1>4. /\ layout[1].name = "logo_transmission_type" /\ HeldAt(layout, 1, 8, "number")
      /\ layout[2].name = "logo_char" /\ HeldAt(layout, 2, 8, "bytes")
  BY <1>1, <1>3
<1>5. /\ NumberIs(layout, 1, 8, v1) /\ BytesIs(layout, 2, 8, x2)
  BY <1>4, HeldBytes, HeldNumber
<1>c. v1 = 3
  BY <1>5 DEF NumberIs
<1> HIDE DEF v1, x2
<1>6. /\ NumberAt(layout, 1, 8, v1) /\ layout[1].value = <<v1>> /\ v1 \in Nat /\ v1 < 256
      /\ FieldAt(layout, 2, 8, x2) /\ layout[2].value = x2 /\ x2 \in Seq(Nat)
  BY <1>5, SmallLimits DEF NumberIs, BytesIs
<1>7. /\ U8(p, 2) = v1 /\ Copy(p, 3, Len(x2)) = x2 /\ Len(bytes) = 1 + Len(x2)
  <2>1. LaidOut(layout, 2, bytes) /\ Stands(2, bytes, p)
    BY <1>3 DEF LaidOut
  <2> HIDE DEF bytes
  <2> QED BY <1>6, <2>1, Read_0xcf_3
<1>8. /\ len = 1 + Len(x2) /\ len > 1 /\ Len(x2) \in Nat
  BY <1>6, <1>7 DEF BodyLength
<1> HIDE DEF len, bytes
<1>9. /\ U8(p, 2) = 3 /\ Copy(p, 3, len - 1) = x2
  BY <1>c, <1>6, <1>7, <1>8
<1> DEFINE f1 == File("logo_transmission_type", U8(p, 2))
           f2 == Bin("logo_char", Copy(p, 3, len - 1))
<1>10. descriptor_0xcf_parser(p, len) = Files(<<f1, f2>>)
  <2>1. 4 \in Int /\ len \in Int /\ len >= 4 - 2
    BY <1>8
  <2>3. descriptor_0xcf_parser(p, len) = Checked(4, len, Files(<<f1, f2>>))
    BY <1>c, <1>8, <1>9 DEF descriptor_0xcf_parser
  <2> QED BY <2>1, <2>3, CheckedIs
<1>11. /\ HasNumber(layout, 1, "logo_transmission_type", v1)
       /\ HasBytes(layout, 2, "logo_char", x2)
  BY <1>3, <1>4, <1>6 DEF HasBytes, HasNumber
<1>12. Covers(f1, layout, {"logo_transmission_type"})
  <2>1. HasNumber(layout, 1, "logo_transmission_type", U8(p, 2))
    BY <1>c, <1>7, <1>9, <1>11
  <2> QED BY <1>3, <2>1, ShowsNumber
<1>13. Covers(f2, layout, {"logo_char"})
  <2>1. HasBytes(layout, 2, "logo_char", Copy(p, 3, len - 1))
    BY <1>c, <1>7, <1>9, <1>11
  <2> QED BY <1>3, <2>1, ShowsBytes
<1> HIDE DEF f1, f2
<1>14. Covers(Files(<<f1, f2>>), layout,
             {"logo_transmission_type"} \cup {"logo_char"})
  BY <1>12, <1>13, CoversTwo
<1>15. AllNamed(layout, {"logo_transmission_type"} \cup {"logo_char"})
  <2>1. \A k \in 1 .. 2 : k = 1 \/ k = 2
    OBVIOUS
  <2> QED BY <1>3, <1>4, <2>1 DEF AllNamed
<1>16. Filled(Files(<<f1, f2>>)) = Told(layout)
  BY <1>3, <1>14, <1>15, AllShown
<1> QED BY <1>10, <1>16 DEF len

LEMMA Shown_0xd0_0 ==
  ASSUME NEW d, IsLayout(d.layout), NEW p, Stands(2, Bytes(d.layout), p),
         Shaped(d, 208, <<Spare(4), Nr("segmentation_mode", 4), Nr("segmentation_info_length", 8)>>), d.layout[2].value[1] = 0
  PROVE  Filled(descriptor_0xd0_parser(p, BodyLength(d))) = Told(d.layout)
<1> DEFINE shape == <<Spare(4), Nr("segmentation_mode", 4), Nr("segmentation_info_length", 8)>>
           layout == d.layout
           bytes == Bytes(layout)
           len == BodyLength(d)
           v1 == layout[1].value[1]
           v2 == layout[2].value[1]
           v3 == layout[3].value[1]
<1>1. /\ Len(shape) = 3 /\ DOMAIN shape = 1 .. 3
      /\ shape[1][1] = "reserved" /\ shape[1][2] = 4 /\ shape[1][3] = "number"
      /\ shape[2][1] = "segmentation_mode" /\ shape[2][2] = 4 /\ shape[2][3] = "number"
      /\ shape[3][1] = "segmentation_info_length" /\ shape[3][2] = 8 /\ shape[3][3] = "number"
  BY DEF Nr, Spare
<1>2. Shaped(d, 208, shape)
  OBVIOUS
<1> HIDE DEF shape
<1>3. /\ Flat(layout) /\ Len(layout) = 3 /\ DOMAIN layout = 1 .. 3
      /\ \A k \in 1 .. 3 : layout[k].name = shape[k][1] /\ HeldAt(layout, k, shape[k][2], shape[k][3])
  <2>1. Shapely(shape, 3)
    BY <1>1 DEF Shapely
  <2> QED BY <1>2, <2>1, ShapeHolds
<1>4. /\ layout[1].name = "reserved" /\ HeldAt(layout, 1, 4, "number")
      /\ layout[2].name = "segmentation_mode" /\ HeldAt(layout, 2, 4, "number")
      /\ layout[3].name = "segmentation_info_length" /\ HeldAt(layout, 3, 8, "number")
  BY <1>1, <1>3
<1>5. /\ NumberIs(layout, 1, 4, v1) /\ NumberIs(layout, 2, 4, v2) /\ NumberIs(layout, 3, 8, v3)
  BY <1>4, HeldNumber
<1>c. v2 = 0
  BY <1>5 DEF NumberIs
<1> HIDE DEF v1, v2, v3
<1>6. /\ NumberAt(layout, 1, 4, v1) /\ layout[1].value = <<v1>> /\ v1 \in Nat /\ v1 < 16
      /\ NumberAt(layout, 2, 4, v2) /\ layout[2].value = <<v2>> /\ v2 \in Nat /\ v2 < 16
      /\ NumberAt(layout, 3, 8, v3) /\ layout[3].value = <<v3>> /\ v3 \in Nat /\ v3 < 256
  BY <1>5, SmallLimits DEF NumberIs
<1> DEFINE b1 == v1 * 16 + v2
<1>7. b1 = v1 * 16 + v2
  OBVIOUS
<1> HIDE DEF b1
<1>8. /\ U8(p, 2) = b1 /\ U8(p, 3) = v3 /\ Len(bytes) = 2
  <2>1. LaidOut(layout, 3, bytes) /\ Stands(2, bytes, p)
    BY <1>3 DEF LaidOut
  <2> HIDE DEF bytes
  <2> QED BY <1>6, <1>7, <2>1, Read_0xd0_0
<1>9. len = 2
  BY <1>6, <1>8 DEF BodyLength
<1> HIDE DEF len, bytes
<1>10. Part(p, 2, 0, 4) = v2
  <2>1. /\ v1 \in Nat /\ v1 < 16 /\ v2 \in Nat /\ v2 < 16 /\ v3 \in Nat /\ v3 < 256
    BY <1>6
  <2>2. (b1 \div 2^0) % 2^4 = v2
    BY <1>c, <2>1, <1>7
  <2> QED BY <2>2, <1>8 DEF Flag, Part, S8
<1> DEFINE f1 == File("segmentation_mode", Part(p, 2, 0, 4))
           f2 == File("segmentation_info_length", U8(p, 3))
<1>11. descriptor_0xd0_parser(p, len) = Files(<<f1, f2, NoFiles>>)
  <2>1. 4 \in Int /\ len \in Int /\ len >= 4 - 2
    BY <1>9
  <2>3. descriptor_0xd0_parser(p, len) = Checked(4, len, Files(<<f1, f2, NoFiles>>))
    BY <1>c, <1>9, <1>10 DEF descriptor_0xd0_parser
  <2> QED BY <2>1, <2>3, CheckedIs
<1>12. /\ HasNumber(layout, 2, "segmentation_mode", v2)
       /\ HasNumber(layout, 3, "segmentation_info_length", v3)
  BY <1>3, <1>4, <1>6 DEF HasNumber
<1>13. Covers(f1, layout, {"segmentation_mode"})
  <2>1. HasNumber(layout, 2, "segmentation_mode", Part(p, 2, 0, 4))
    BY <1>c, <1>8, <1>10, <1>12
  <2> QED BY <1>3, <2>1, ShowsNumber
<1>14. Covers(f2, layout, {"segmentation_info_length"})
  <2>1. HasNumber(layout, 3, "segmentation_info_length", U8(p, 3))
    BY <1>c, <1>8, <1>10, <1>12
  <2> QED BY <1>3, <2>1, ShowsNumber
<1> HIDE DEF f1, f2
<1>15. Covers(Files(<<f1, f2, NoFiles>>), layout,
             {"segmentation_mode"} \cup {"segmentation_info_length"} \cup {})
  BY <1>13, <1>14, CoversNone, CoversThree
<1>16. AllNamed(layout, {"segmentation_mode"} \cup {"segmentation_info_length"} \cup {})
  <2>1. \A k \in 1 .. 3 : k = 1 \/ k = 2 \/ k = 3
    OBVIOUS
  <2> QED BY <1>3, <1>4, <2>1 DEF AllNamed
<1>17. Filled(Files(<<f1, f2, NoFiles>>)) = Told(layout)
  BY <1>3, <1>15, <1>16, AllShown
<1> QED BY <1>11, <1>17 DEF len

LEMMA Shown_0xd0_2 ==
  ASSUME NEW d, IsLayout(d.layout), NEW p, Stands(2, Bytes(d.layout), p),
         Shaped(d, 208, <<Spare(4), Nr("segmentation_mode", 4), Nr("segmentation_info_length", 8), Nr("start_time", 24),
                          Nr("duration", 24)>>), d.layout[2].value[1] \in 2 .. 5
  PROVE  Filled(descriptor_0xd0_parser(p, BodyLength(d))) = Told(d.layout)
<1> DEFINE shape == <<Spare(4), Nr("segmentation_mode", 4), Nr("segmentation_info_length", 8), Nr("start_time", 24),
                      Nr("duration", 24)>>
           layout == d.layout
           bytes == Bytes(layout)
           len == BodyLength(d)
           v1 == layout[1].value[1]
           v2 == layout[2].value[1]
           v3 == layout[3].value[1]
           v4 == layout[4].value[1]
           v5 == layout[5].value[1]
<1>1. /\ Len(shape) = 5 /\ DOMAIN shape = 1 .. 5
      /\ shape[1][1] = "reserved" /\ shape[1][2] = 4 /\ shape[1][3] = "number"
      /\ shape[2][1] = "segmentation_mode" /\ shape[2][2] = 4 /\ shape[2][3] = "number"
      /\ shape[3][1] = "segmentation_info_length" /\ shape[3][2] = 8 /\ shape[3][3] = "number"
      /\ shape[4][1] = "start_time" /\ shape[4][2] = 24 /\ shape[4][3] = "number"
      /\ shape[5][1] = "duration" /\ shape[5][2] = 24 /\ shape[5][3] = "number"
  BY DEF Nr, Spare
<1>2. Shaped(d, 208, shape)
  OBVIOUS
<1> HIDE DEF shape
<1>3. /\ Flat(layout) /\ Len(layout) = 5 /\ DOMAIN layout = 1 .. 5
      /\ \A k \in 1 .. 5 : layout[k].name = shape[k][1] /\ HeldAt(layout, k, shape[k][2], shape[k][3])
  <2>1. Shapely(shape, 5)
    BY <1>1 DEF Shapely
  <2> QED BY <1>2, <2>1, ShapeHolds
<1>4. /\ layout[1].name = "reserved" /\ HeldAt(layout, 1, 4, "number")
      /\ layout[2].name = "segmentation_mode" /\ HeldAt(layout, 2, 4, "number")
      /\ layout[3].name = "segmentation_info_length" /\ HeldAt(layout, 3, 8, "number")
      /\ layout[4].name = "start_time" /\ HeldAt(layout, 4, 24, "number")
      /\ layout[5].name = "duration" /\ HeldAt(layout, 5, 24, "number")
  BY <1>1, <1>3
<1>5. /\ NumberIs(layout, 1, 4, v1) /\ NumberIs(layout, 2, 4, v2) /\ NumberIs(layout, 3, 8, v3)
      /\ NumberIs(layout, 4, 24, v4) /\ NumberIs(layout, 5, 24, v5)
  BY <1>4, HeldNumber, SMTT(30)
<1>c. v2 \in 2 .. 5
  BY <1>5 DEF NumberIs
<1> HIDE DEF v1, v2, v3, v4, v5
<1>6. /\ NumberAt(layout, 1, 4, v1) /\ layout[1].value = <<v1>> /\ v1 \in Nat /\ v1 < 16
      /\ NumberAt(layout, 2, 4, v2) /\ layout[2].value = <<v2>> /\ v2 \in Nat /\ v2 < 16
      /\ NumberAt(layout, 3, 8, v3) /\ layout[3].value = <<v3>> /\ v3 \in Nat /\ v3 < 256
      /\ NumberAt(layout, 4, 24, v4) /\ layout[4].value = <<v4>> /\ v4 \in Nat
      /\ NumberAt(layout, 5, 24, v5) /\ layout[5].value = <<v5>> /\ v5 \in Nat
  BY <1>5, SmallLimits DEF NumberIs
<1> DEFINE b1 == v1 * 16 + v2
<1>7. b1 = v1 * 16 + v2
  OBVIOUS
<1> HIDE DEF b1
<1>8. /\ U8(p, 2) = b1 /\ U8(p, 3) = v3 /\ U24(p, 4) = v4 /\ U24(p, 7) = v5 /\ Len(bytes) = 8
  <2>1. LaidOut(layout, 5, bytes) /\ Stands(2, bytes, p)
    BY <1>3 DEF LaidOut
  <2> HIDE DEF bytes
  <2> QED BY <1>6, <1>7, <2>1, Read_0xd0_2
<1>9. len = 8
  BY <1>6, <1>8 DEF BodyLength
<1> HIDE DEF len, bytes
<1>10. Part(p, 2, 0, 4) = v2
  <2>1. /\ v1 \in Nat /\ v1 < 16 /\ v2 \in Nat /\ v2 < 16 /\ v3 \in Nat /\ v3 < 256
    BY <1>6
  <2>2. (b1 \div 2^0) % 2^4 = v2
    BY <1>c, <2>1, <1>7
  <2> QED BY <2>2, <1>8 DEF Flag, Part, S8
<1> DEFINE f1 == File("segmentation_mode", Part(p, 2, 0, 4))
           f2 == File("segmentation_info_length", U8(p, 3))
           f3 == File("start_time", U24(p, 4))
           f4 == File("duration", U24(p, 7))
<1>11. descriptor_0xd0_parser(p, len) = Files(<<f1, f2, Files(<<f3, f4, NoFiles>>)>>)
  <2>1. 4 \in Int /\ len \in Int /\ len >= 4 - 2
    BY <1>9
  <2>i. \A made : Checked(10, len, made) = made
    BY <1>9, CheckedIs
  <2>3. descriptor_0xd0_parser(p, len) = Checked(4, len, Files(<<f1, f2, Files(<<f3, f4, NoFiles>>)>>))
    BY <1>c, <1>9, <1>10, <2>i DEF descriptor_0xd0_parser
  <2> QED BY <2>1, <2>3, CheckedIs
<1>12. /\ HasNumber(layout, 2, "segmentation_mode", v2)
       /\ HasNumber(layout, 3, "segmentation_info_length", v3)
       /\ HasNumber(layout, 4, "start_time", v4)
       /\ HasNumber(layout, 5, "duration", v5)
  BY <1>3, <1>4, <1>6 DEF HasNumber
<1>13. Covers(f1, layout, {"segmentation_mode"})
  <2>1. HasNumber(layout, 2, "segmentation_mode", Part(p, 2, 0, 4))
    BY <1>c, <1>8, <1>10, <1>12
  <2> QED BY <1>3, <2>1, ShowsNumber
<1>14. Covers(f2, layout, {"segmentation_info_length"})
  <2>1. HasNumber(layout, 3, "segmentation_info_length", U8(p, 3))
    BY <1>c, <1>8, <1>10, <1>12
  <2> QED BY <1>3, <2>1, ShowsNumber
<1>15. Covers(f3, layout, {"start_time"})
  <2>1. HasNumber(layout, 4, "start_time", U24(p, 4))
    BY <1>c, <1>8, <1>10, <1>12
  <2> QED BY <1>3, <2>1, ShowsNumber
<1>16. Covers(f4, layout, {"duration"})
  <2>1. HasNumber(layout, 5, "duration", U24(p, 7))
    BY <1>c, <1>8, <1>10, <1>12
  <2> QED BY <1>3, <2>1, ShowsNumber
<1> HIDE DEF f1, f2, f3, f4
<1>17. Covers(Files(<<f3, f4, NoFiles>>), layout,
             {"start_time"} \cup {"duration"} \cup {})
  BY <1>15, <1>16, CoversNone, CoversThree
<1>18. Covers(Files(<<f1, f2, Files(<<f3, f4, NoFiles>>)>>), layout,
             {"segmentation_mode"} \cup {"segmentation_info_length"} \cup ({"start_time"} \cup {"duration"} \cup {}))
  BY <1>13, <1>14, <1>17, CoversThree
<1>19. AllNamed(layout, {"segmentation_mode"} \cup {"segmentation_info_length"} \cup ({"start_time"} \cup {"duration"} \cup {}))
  <2>1. \A k \in 1 .. 5 : k = 1 \/ k = 2 \/ k = 3 \/ k = 4 \/ k = 5
    OBVIOUS
  <2> QED BY <1>3, <1>4, <2>1 DEF AllNamed
<1>20. Filled(Files(<<f1, f2, Files(<<f3, f4, NoFiles>>)>>)) = Told(layout)
  BY <1>3, <1>18, <1>19, AllShown
<1> QED BY <1>11, <1>20 DEF len

LEMMA Shown_0xfd_dmf ==
  ASSUME NEW d, IsLayout(d.layout), NEW p, Stands(2, Bytes(d.layout), p),
         Shaped(d, 253, <<Nr("data_component_id", 16), Nr("dmf", 4), Spare(2), Nr("timing", 2), <<"reserved", 8, "bytes">>>>), BodyLength(d) > 4
  PROVE  Filled(descriptor_0xfd_parser(p, BodyLength(d))) = Told(d.layout)
<1> DEFINE shape == <<Nr("data_component_id", 16), Nr("dmf", 4), Spare(2), Nr("timing", 2), <<"reserved", 8, "bytes">>>>
           layout == d.layout
           bytes == Bytes(layout)
           len == BodyLength(d)
           v1 == layout[1].value[1]
           v2 == layout[2].value[1]
           v3 == layout[3].value[1]
           v4 == layout[4].value[1]
           x5 == layout[5].value
<1>1. /\ Len(shape) = 5 /\ DOMAIN shape = 1 .. 5
      /\ shape[1][1] = "data_component_id" /\ shape[1][2] = 16 /\ shape[1][3] = "number"
      /\ shape[2][1] = "dmf" /\ shape[2][2] = 4 /\ shape[2][3] = "number"
      /\ shape[3][1] = "reserved" /\ shape[3][2] = 2 /\ shape[3][3] = "number"
      /\ shape[4][1] = "timing" /\ shape[4][2] = 2 /\ shape[4][3] = "number"
      /\ shape[5][1] = "reserved" /\ shape[5][2] = 8 /\ shape[5][3] = "bytes"
  BY DEF Nr, Spare
<1>2. Shaped(d, 253, shape)
  OBVIOUS
<1> HIDE DEF shape
<1>3. /\ Flat(layout) /\ Len(layout) = 5 /\ DOMAIN layout = 1 .. 5
      /\ \A k \in 1 .. 5 : layout[k].name = shape[k][1] /\ HeldAt(layout, k, shape[k][2], shape[k][3])
  <2>1. Shapely(shape, 5)
    BY <1>1 DEF Shapely
  <2> QED BY <1>2, <2>1, ShapeHolds
<1>4. /\ layout[1].name = "data_component_id" /\ HeldAt(layout, 1, 16, "number")
      /\ layout[2].name = "dmf" /\ HeldAt(layout, 2, 4, "number")
      /\ layout[3].name = "reserved" /\ HeldAt(layout, 3, 2, "number")
      /\ layout[4].name = "timing" /\ HeldAt(layout, 4, 2, "number")
      /\ layout[5].name = "reserved" /\ HeldAt(layout, 5, 8, "bytes")
  BY <1>1, <1>3
<1>5. /\ NumberIs(layout, 1, 16, v1) /\ NumberIs(layout, 2, 4, v2) /\ NumberIs(layout, 3, 2, v3)
      /\ NumberIs(layout, 4, 2, v4) /\ BytesIs(layout, 5, 8, x5)
  BY <1>4, HeldBytes, HeldNumber
<1> HIDE DEF v1, v2, v3, v4, x5
<1>6. /\ NumberAt(layout, 1, 16, v1) /\ layout[1].value = <<v1>> /\ v1 \in Nat
      /\ NumberAt(layout, 2, 4, v2) /\ layout[2].value = <<v2>> /\ v2 \in Nat /\ v2 < 16
      /\ NumberAt(layout, 3, 2, v3) /\ layout[3].value = <<v3>> /\ v3 \in Nat /\ v3 < 4
      /\ NumberAt(layout, 4, 2, v4) /\ layout[4].value = <<v4>> /\ v4 \in Nat /\ v4 < 4
      /\ FieldAt(layout, 5, 8, x5) /\ layout[5].value = x5 /\ x5 \in Seq(Nat)
  BY <1>5, SmallLimits DEF NumberIs, BytesIs
<1> DEFINE b1 == v2 * 4 + v3
           b2 == b1 * 4 + v4
<1>7. /\ b1 = v2 * 4 + v3 /\ b2 = b1 * 4 + v4
  OBVIOUS
<1> HIDE DEF b1, b2
<1>8. /\ U16(p, 2) = v1 /\ U8(p, 4) = b2 /\ Copy(p, 5, Len(x5)) = x5 /\ Len(bytes) = 3 + Len(x5)
  <2>1. LaidOut(layout, 5, bytes) /\ Stands(2, bytes, p)
    BY <1>3 DEF LaidOut
  <2> HIDE DEF bytes
  <2> QED BY <1>6, <1>7, <2>1, Read_0xfd_dmf
<1>9. /\ len = 3 + Len(x5) /\ len > 4 /\ Len(x5) \in Nat
  BY <1>6, <1>8 DEF BodyLength
<1> HIDE DEF len, bytes
<1>10. /\ Part(p, 4, 4, 4) = v2 /\ Part(p, 4, 0, 2) = v4
  <2>1. /\ v2 \in Nat /\ v2 < 16 /\ v3 \in Nat /\ v3 < 4 /\ v4 \in Nat /\ v4 < 4
    BY <1>6
  <2>2. /\ (b2 \div 2^4) % 2^4 = v2 /\ (b2 \div 2^0) % 2^2 = v4
    BY <2>1, <1>7
  <2> QED BY <2>2, <1>8 DEF Flag, Part, S8
<1> DEFINE f1 == File("data_component_id", U16(p, 2))
           f2 == File("dmf", Part(p, 4, 4, 4))
           f3 == File("timing", Part(p, 4, 0, 2))
<1>11. descriptor_0xfd_parser(p, len) = Files(<<f1, Files(<<f2, f3>>)>>)
  <2>1. 4 \in Int /\ len \in Int /\ len >= 4 - 2
    BY <1>9
  <2>3. descriptor_0xfd_parser(p, len) = Checked(4, len, Files(<<f1, Files(<<f2, f3>>)>>))
    BY <1>9, <1>10 DEF descriptor_0xfd_parser
  <2> QED BY <2>1, <2>3, CheckedIs
<1>12. /\ HasNumber(layout, 1, "data_component_id", v1)
       /\ HasNumber(layout, 2, "dmf", v2)
       /\ HasNumber(layout, 4, "timing", v4)
  BY <1>3, <1>4, <1>6 DEF HasNumber
<1>13. Covers(f1, layout, {"data_component_id"})
  <2>1. HasNumber(layout, 1, "data_component_id", U16(p, 2))
    BY <1>8, <1>10, <1>12
  <2> QED BY <1>3, <2>1, ShowsNumber
<1>14. Covers(f2, layout, {"dmf"})
  <2>1. HasNumber(layout, 2, "dmf", Part(p, 4, 4, 4))
    BY <1>8, <1>10, <1>12
  <2> QED BY <1>3, <2>1, ShowsNumber
<1>15. Covers(f3, layout, {"timing"})
  <2>1. HasNumber(layout, 4, "timing", Part(p, 4, 0, 2))
    BY <1>8, <1>10, <1>12
  <2> QED BY <1>3, <2>1, ShowsNumber
<1> HIDE DEF f1, f2, f3
<1>16. Covers(Files(<<f2, f3>>), layout,
             {"dmf"} \cup {"timing"})
  BY <1>14, <1>15, CoversTwo
<1>17. Covers(Files(<<f1, Files(<<f2, f3>>)>>), layout,
             {"data_component_id"} \cup ({"dmf"} \cup {"timing"}))
  BY <1>13, <1>16, CoversTwo
<1>18. AllNamed(layout, {"data_component_id"} \cup ({"dmf"} \cup {"timing"}))
  <2>1. \A k \in 1 .. 5 : k = 1 \/ k = 2 \/ k = 3 \/ k = 4 \/ k = 5
    OBVIOUS
  <2> QED BY <1>3, <1>4, <2>1 DEF AllNamed
<1>19. Filled(Files(<<f1, Files(<<f2, f3>>)>>)) = Told(layout)
  BY <1>3, <1>17, <1>18, AllShown
<1> QED BY <1>11, <1>19 DEF len

LEMMA Shown_0xfe ==
  ASSUME NEW d, IsLayout(d.layout), NEW p, Stands(2, Bytes(d.layout), p),
         Shaped(d, 254, <<Nr("broadcasting_flag", 2), Nr("broadcasting_identifier", 6),
                          Nr("additional_broadcasting_identification", 8),
                          <<"additional_identification_information", 8, "text">>>>), d.layout[1].value[1] < 2,
         NEW standard, HasIdentifiers(standard)
  PROVE  Filled(descriptor_0xfe_parser(p, BodyLength(d), standard)) = Told(d.layout)
<1> DEFINE shape == <<Nr("broadcasting_flag", 2), Nr("broadcasting_identifier", 6),
                      Nr("additional_broadcasting_identification", 8),
                      <<"additional_identification_information", 8, "text">>>>
           layout == d.layout
           bytes == Bytes(layout)
           len == BodyLength(d)
           v1 == layout[1].value[1]
           v2 == layout[2].value[1]
           v3 == layout[3].value[1]
           x4 == layout[4].value
<1>1. /\ Len(shape) = 4 /\ DOMAIN shape = 1 .. 4
      /\ shape[1][1] = "broadcasting_flag" /\ shape[1][2] = 2 /\ shape[1][3] = "number"
      /\ shape[2][1] = "broadcasting_identifier" /\ shape[2][2] = 6 /\ shape[2][3] = "number"
      /\ shape[3][1] = "additional_broadcasting_identification" /\ shape[3][2] = 8 /\ shape[3][3] = "number"
      /\ shape[4][1] = "additional_identification_information" /\ shape[4][2] = 8 /\ shape[4][3] = "text"
  BY DEF Nr, Spare
<1>2. Shaped(d, 254, shape)
  OBVIOUS
<1> HIDE DEF shape
<1>3. /\ Flat(layout) /\ Len(layout) = 4 /\ DOMAIN layout = 1 .. 4
      /\ \A k \in 1 .. 4 : layout[k].name = shape[k][1] /\ HeldAt(layout, k, shape[k][2], shape[k][3])
  <2>1. Shapely(shape, 4)
    BY <1>1 DEF Shapely
  <2> QED BY <1>2, <2>1, ShapeHolds
<1>4. /\ layout[1].name = "broadcasting_flag" /\ HeldAt(layout, 1, 2, "number")
      /\ layout[2].name = "broadcasting_identifier" /\ HeldAt(layout, 2, 6, "number")
      /\ layout[3].name = "additional_broadcasting_identification" /\ HeldAt(layout, 3, 8, "number")
      /\ layout[4].name = "additional_identification_information" /\ HeldAt(layout, 4, 8, "text")
  BY <1>1, <1>3
<1>5. /\ NumberIs(layout, 1, 2, v1) /\ NumberIs(layout, 2, 6, v2) /\ NumberIs(layout, 3, 8, v3)
      /\ BytesIs(layout, 4, 8, x4) /\ (\A u \in DOMAIN x4 : x4[u] > 0)
  <2>1. /\ "text" \in {"text", "code"} /\ "code" \in {"text", "code"} /\ "code" = "code"
    OBVIOUS
  <2> QED BY <1>4, <2>1, HeldBytes, HeldNumber, HeldText
<1>c. v1 < 2
  BY <1>5 DEF NumberIs
<1> HIDE DEF v1, v2, v3, x4
<1>6. /\ NumberAt(layout, 1, 2, v1) /\ layout[1].value = <<v1>> /\ v1 \in Nat /\ v1 < 4
      /\ NumberAt(layout, 2, 6, v2) /\ layout[2].value = <<v2>> /\ v2 \in Nat /\ v2 < 64
      /\ NumberAt(layout, 3, 8, v3) /\ layout[3].value = <<v3>> /\ v3 \in Nat /\ v3 < 256
      /\ FieldAt(layout, 4, 8, x4) /\ layout[4].value = x4 /\ x4 \in Seq(Nat)
  BY <1>5, SmallLimits DEF NumberIs, BytesIs
<1> DEFINE b1 == v1 * 64 + v2
<1>7. b1 = v1 * 64 + v2
  OBVIOUS
<1> HIDE DEF b1
<1>8. /\ U8(p, 2) = b1 /\ U8(p, 3) = v3 /\ Copy(p, 4, Len(x4)) = x4 /\ Len(bytes) = 2 + Len(x4)
  <2>1. LaidOut(layout, 4, bytes) /\ Stands(2, bytes, p)
    BY <1>3 DEF LaidOut
  <2> HIDE DEF bytes
  <2> QED BY <1>6, <1>7, <2>1, Read_0xfe
<1>9. /\ len = 2 + Len(x4) /\ Len(x4) \in Nat
  BY <1>6, <1>8 DEF BodyLength
<1> HIDE DEF len, bytes
<1>10. /\ (S8(p, 2) \div 2^6) % 2^16 = v1 /\ Part(p, 2, 0, 6) = v2 /\ Copy(p, 4, len - 2) = x4
  <2>1. /\ v1 \in Nat /\ v1 < 4 /\ v2 \in Nat /\ v2 < 64 /\ v3 \in Nat /\ v3 < 256
    BY <1>6
  <2>2. /\ (b1 \div 2^6) % 2^16 = v1 /\ b1 < 128 /\ (b1 \div 2^0) % 2^6 = v2
    BY <1>c, <2>1, <1>7
  <2>3. Copy(p, 4, len - 2) = x4
    BY <1>c, <1>6, <1>8, <1>9
  <2> QED BY <2>2, <2>3, <1>8 DEF Flag, Part, S8
<1> DEFINE f1 == File("broadcasting_flag", (S8(p, 2) \div 2^6) % 2^16)
           f2 == File("broadcasting_identifier", Part(p, 2, 0, 6))
           f3 == File("additional_broadcasting_identification", U8(p, 3))
           f4 == Str("additional_identification_information", Copy(p, 4, len - 2))
<1>11. descriptor_0xfe_parser(p, len, standard) = Files(<<f1, f2, f3, f4>>)
  <2>1. 2 \in Int /\ len \in Int /\ len >= 2 - 2
    BY <1>9
  <2>3. descriptor_0xfe_parser(p, len, standard) = Checked(2, len, Files(<<f1, f2, f3, f4>>))
    BY <1>c, <1>9, <1>10 DEF descriptor_0xfe_parser
  <2> QED BY <2>1, <2>3, CheckedIs
<1>12. /\ HasNumber(layout, 1, "broadcasting_flag", v1)
       /\ HasNumber(layout, 2, "broadcasting_identifier", v2)
       /\ HasNumber(layout, 3, "additional_broadcasting_identification", v3)
       /\ HasText(layout, 4, "additional_identification_information", x4)
  BY <1>3, <1>4, <1>5, <1>6 DEF HasBytes, HasNumber, HasText
<1>13. Covers(f1, layout, {"broadcasting_flag"})
  <2>1. HasNumber(layout, 1, "broadcasting_flag", (S8(p, 2) \div 2^6) % 2^16)
    BY <1>c, <1>8, <1>10, <1>12
  <2> QED BY <1>3, <2>1, ShowsNumber
<1>14. Covers(f2, layout, {"broadcasting_identifier"})
  <2>1. HasNumber(layout, 2, "broadcasting_identifier", Part(p, 2, 0, 6))
    BY <1>c, <1>8, <1>10, <1>12
  <2> QED BY <1>3, <2>1, ShowsNumber
<1>15. Covers(f3, layout, {"additional_broadcasting_identification"})
  <2>1. HasNumber(layout, 3, "additional_broadcasting_identification", U8(p, 3))
    BY <1>c, <1>8, <1>10, <1>12
  <2> QED BY <1>3, <2>1, ShowsNumber
<1>16. Covers(f4, layout, {"additional_identification_information"})
  <2>1. HasText(layout, 4, "additional_identification_information", Copy(p, 4, len - 2))
    BY <1>c, <1>8, <1>10, <1>12
  <2> QED BY <1>3, <2>1, ShowsText
<1> HIDE DEF f1, f2, f3, f4
<1>17. Covers(Files(<<f1, f2, f3, f4>>), layout,
             {"broadcasting_flag"} \cup {"broadcasting_identifier"} \cup {"additional_broadcasting_identification"} \cup {"additional_identification_information"})
  BY <1>13, <1>14, <1>15, <1>16, CoversFour
<1>18. AllNamed(layout, {"broadcasting_flag"} \cup {"broadcasting_identifier"} \cup {"additional_broadcasting_identification"} \cup {"additional_identification_information"})
  <2>1. \A k \in 1 .. 4 : k = 1 \/ k = 2 \/ k = 3 \/ k = 4
    OBVIOUS
  <2> QED BY <1>3, <1>4, <2>1 DEF AllNamed
<1>19. Filled(Files(<<f1, f2, f3, f4>>)) = Told(layout)
  BY <1>3, <1>17, <1>18, AllShown
<1> QED BY <1>11, <1>19 DEF len

(* The parser of a plain descriptor, pointed at its first byte (or behind  *)
(* its length), makes the files of what it tells.                          *)
LEMMA PlainShown ==
  ASSUME NEW family, NEW standard, NEW d, IsLayout(d.layout), IsPlain(family, standard, d),
         NEW p, Stands(IF family = Ts THEN 2 ELSE 0, Bytes(d.layout), p)
  PROVE  Filled(Parser(family, d.tag, p, BodyLength(d), standard)) = Told(d.layout)
<1>1. CASE family = Ts
  <2>0. Stands(2, Bytes(d.layout), p)
    BY <1>1
  <2>1. CASE Shaped(d, 6, <<Nr("alignment_type", 8)>>)
    <3>1. d.tag = 6
      BY <2>1 DEF Shaped
    <3>2. Filled(descriptor_0x06_parser(p, BodyLength(d))) = Told(d.layout)
      BY <2>0, <2>1, Shown_0x06 DEF Nr
    <3> QED BY <1>1, <3>1, <3>2, ParserIs
  <2>2. CASE Shaped(d, 11, <<Nr("external_clock_reference_indicator", 1), Spare(1),
                            Nr("clock_accuracy_integer", 6), Nr("clock_accuracy_exponent", 3), Spare(5)>>)
    <3>1. d.tag = 11
      BY <2>2 DEF Shaped
    <3>2. Filled(descriptor_0x0b_parser(p, BodyLength(d))) = Told(d.layout)
      BY <2>0, <2>2, Shown_0x0b
    <3> QED BY <1>1, <3>1, <3>2, ParserIs
  <2>3. CASE Shaped(d, 14, <<Nr("max_bitrate", 24)>>)
    <3>1. d.tag = 14
      BY <2>3 DEF Shaped
    <3>2. Filled(descriptor_0x0e_parser(p, BodyLength(d))) = Told(d.layout)
      BY <2>0, <2>3, Shown_0x0e
    <3> QED BY <1>1, <3>1, <3>2, ParserIs
  <2>4. CASE Shaped(d, 19, <<<<"carousel_id", 16, "halves">>>>)
    <3>1. d.tag = 19
      BY <2>4 DEF Shaped
    <3>2. Filled(descriptor_0x13_parser(p, BodyLength(d))) = Told(d.layout)
      BY <2>0, <2>4, Shown_0x13
    <3> QED BY <1>1, <3>1, <3>2, ParserIs
  <2>5. CASE /\ Shaped(d, 20, <<Nr("association_tag", 16), Nr("use", 16), Nr("selector_length", 8),
                               <<"transaction_id", 16, "halves">>, <<"timeout", 16, "halves">>>>)
             /\ d.layout[2].value[1] = 0
    <3>1. d.tag = 20
      BY <2>5 DEF Shaped
    <3>2. Filled(descriptor_0x14_parser(p, BodyLength(d))) = Told(d.layout)
      BY <2>0, <2>5, Shown_0x14_0
    <3> QED BY <1>1, <3>1, <3>2, ParserIs
  <2>6. CASE /\ Shaped(d, 20, <<Nr("association_tag", 16), Nr("use", 16), Nr("selector_length", 8)>>)
             /\ d.layout[2].value[1] = 1
    <3>1. d.tag = 20
      BY <2>6 DEF Shaped
    <3>2. Filled(descriptor_0x14_parser(p, BodyLength(d))) = Told(d.layout)
      BY <2>0, <2>6, Shown_0x14_1
    <3> QED BY <1>1, <3>1, <3>2, ParserIs
  <2>7. CASE /\ Shaped(d, 20, <<Nr("association_tag", 16), Nr("use", 16),
                               <<"selector_length", 8, "length">>, <<"selector_byte", 8, "text">>>>)
             /\ d.layout[2].value[1] > 1
    <3>1. d.tag = 20
      BY <2>7 DEF Shaped
    <3>2. Filled(descriptor_0x14_parser(p, BodyLength(d))) = Told(d.layout)
      BY <2>0, <2>7, Shown_0x14_2
    <3> QED BY <1>1, <3>1, <3>2, ParserIs
  <2>8. CASE Shaped(d, 64, <<<<"network_name", 8, "text">>>>)
    <3>1. d.tag = 64
      BY <2>8 DEF Shaped
    <3>2. Filled(descriptor_0x40_parser(p, BodyLength(d))) = Told(d.layout)
      BY <2>0, <2>8, Shown_0x40
    <3> QED BY <1>1, <3>1, <3>2, ParserIs
  <2>9. CASE Shaped(d, 72, <<Nr("service_type", 8), <<"service_provider_name_length", 8, "length">>,
                            <<"service_provider_name", 8, "text">>,
                            <<"service_name_length", 8, "length">>, <<"service_name", 8, "text">>>>)
    <3>1. d.tag = 72
      BY <2>9 DEF Shaped
    <3>2. Filled(descriptor_0x48_parser(p, BodyLength(d))) = Told(d.layout)
      BY <2>0, <2>9, Shown_0x48 DEF Nr
    <3> QED BY <1>1, <3>1, <3>2, ParserIs
  <2>10. CASE Shaped(d, 77, <<<<"language_code", 8, "code">>,
                             <<"event_name_length", 8, "length">>, <<"event_name", 8, "text">>,
                             <<"text_length", 8, "length">>, <<"text", 8, "text">>>>)
    <3>1. d.tag = 77
      BY <2>10 DEF Shaped
    <3>2. Filled(descriptor_0x4d_parser(p, BodyLength(d))) = Told(d.layout)
      BY <2>0, <2>10, Shown_0x4d
    <3> QED BY <1>1, <3>1, <3>2, ParserIs
  <2>11. CASE /\ Shaped(d, 80, <<Spare(4), Nr("stream_content", 4), Nr("component_type", 8),
                                Nr("component_tag", 8), <<"ISO_639_language_code", 8, "code">>>>)
              /\ ~NoResolution(d.layout[2].value[1], d.layout[3].value[1])
    <3>1. d.tag = 80
      BY <2>11 DEF Shaped
    <3>2. Filled(descriptor_0x50_parser(p, BodyLength(d))) = Told(d.layout)
      BY <2>0, <2>11, Shown_0x50
    <3> QED BY <1>1, <3>1, <3>2, ParserIs
  <2>12. CASE Shaped(d, 82, <<Nr("component_tag", 8)>>)
    <3>1. d.tag = 82
      BY <2>12 DEF Shaped
    <3>2. Filled(descriptor_0x52_parser(p, BodyLength(d))) = Told(d.layout)
      BY <2>0, <2>12, Shown_0x52 DEF Nr
    <3> QED BY <1>1, <3>1, <3>2, ParserIs
  <2>13. CASE /\ Shaped(d, 124, <<Nr("profile_and_level", 8), Nr("aac_type_flag", 1), Spare(7)>>)
              /\ d.layout[2].value[1] = 0
    <3>1. d.tag = 124
      BY <2>13 DEF Shaped
    <3>2. Filled(descriptor_0x7c_parser(p, BodyLength(d))) = Told(d.layout)
      BY <2>0, <2>13, Shown_0x7c
    <3> QED BY <1>1, <3>1, <3>2, ParserIs
  <2>14. CASE Shaped(d, 160, <<Nr("reference_level", 8), <<"free_text", 8, "text">>>>)
    <3>1. d.tag = 160
      BY <2>14 DEF Shaped
    <3>2. Filled(descriptor_0xa0_parser(p, BodyLength(d))) = Told(d.layout)
      BY <2>0, <2>14, Shown_0xa0 DEF Nr
    <3> QED BY <1>1, <3>1, <3>2, ParserIs
  <2>15. CASE /\ Shaped(d, 193, <<Nr("digital_recording_control_data", 2), Nr("maximum_bitrate_flag", 1),
                                 Nr("component_control_flag", 1), Nr("copy_control_type", 2),
                                 Nr("APS_control_data", 2)>>)
              /\ d.layout[2].value[1] = 0 /\ d.layout[3].value[1] = 0
    <3>1. d.tag = 193
      BY <2>15 DEF Shaped
    <3>2. Filled(descriptor_0xc1_parser(p, BodyLength(d))) = Told(d.layout)
      BY <2>0, <2>15, Shown_0xc1
    <3> QED BY <1>1, <3>1, <3>2, ParserIs
  <2>16. CASE Shaped(d, 200, <<Nr("still_picture_flag", 1), Nr("sequence_end_code_flag", 1),
                              Nr("video_encode_format", 4), Spare(2)>>)
    <3>1. d.tag = 200
      BY <2>16 DEF Shaped
    <3>2. Filled(descriptor_0xc8_parser(p, BodyLength(d))) = Told(d.layout)
      BY <2>0, <2>16, Shown_0xc8
    <3> QED BY <1>1, <3>1, <3>2, ParserIs
  <2>17. CASE /\ Shaped(d, 207, <<Nr("logo_transmission_type", 8), Spare(7), Nr("logo_id", 9),
                                 Spare(4), Nr("logo_version", 12), Nr("download_data_id", 16)>>)
              /\ d.layout[1].value[1] = 1
    <3>1. d.tag = 207
      BY <2>17 DEF Shaped
    <3>2. Filled(descriptor_0xcf_parser(p, BodyLength(d))) = Told(d.layout)
      BY <2>0, <2>17, Shown_0xcf_1
    <3> QED BY <1>1, <3>1, <3>2, ParserIs
  <2>18. CASE /\ Shaped(d, 207, <<Nr("logo_transmission_type", 8), Spare(7), Nr("logo_id", 9)>>)
              /\ d.layout[1].value[1] = 2
    <3>1. d.tag = 207
      BY <2>18 DEF Shaped
    <3>2. Filled(descriptor_0xcf_parser(p, BodyLength(d))) = Told(d.layout)
      BY <2>0, <2>18, Shown_0xcf_2
    <3> QED BY <1>1, <3>1, <3>2, ParserIs
  <2>19. CASE /\ Shaped(d, 207, <<Nr("logo_transmission_type", 8), <<"logo_char", 8, "bytes">>>>)
              /\ d.layout[1].value[1] = 3 /\ BodyLength(d) > 1
    <3>1. d.tag = 207
      BY <2>19 DEF Shaped
    <3>2. Filled(descriptor_0xcf_parser(p, BodyLength(d))) = Told(d.layout)
      BY <2>0, <2>19, Shown_0xcf_3
    <3> QED BY <1>1, <3>1, <3>2, ParserIs
  <2>20. CASE /\ Shaped(d, 208, <<Spare(4), Nr("segmentation_mode", 4), Nr("segmentation_info_length", 8)>>)
              /\ d.layout[2].value[1] = 0
    <3>1. d.tag = 208
      BY <2>20 DEF Shaped
    <3>2. Filled(descriptor_0xd0_parser(p, BodyLength(d))) = Told(d.layout)
      BY <2>0, <2>20, Shown_0xd0_0
    <3> QED BY <1>1, <3>1, <3>2, ParserIs
  <2>21. CASE /\ Shaped(d, 208, <<Spare(4), Nr("segmentation_mode", 4), Nr("segmentation_info_length", 8),
                                 Nr("start_time", 24), Nr("duration", 24)>>)
              /\ d.layout[2].value[1] \in 2..5
    <3>1. d.tag = 208
      BY <2>21 DEF Shaped
    <3>2. Filled(descriptor_0xd0_parser(p, BodyLength(d))) = Told(d.layout)
      BY <2>0, <2>21, Shown_0xd0_2
    <3> QED BY <1>1, <3>1, <3>2, ParserIs
  <2>22. CASE Shaped(d, 253, <<Nr("data_component_id", 16)>>)
    <3>1. d.tag = 253
      BY <2>22 DEF Shaped
    <3>2. Filled(descriptor_0xfd_parser(p, BodyLength(d))) = Told(d.layout)
      BY <2>0, <2>22, Shown_0xfd DEF Nr
    <3> QED BY <1>1, <3>1, <3>2, ParserIs
  <2>23. CASE /\ Shaped(d, 253, <<Nr("data_component_id", 16), Nr("dmf", 4), Spare(2), Nr("timing", 2),
                                 <<"reserved", 8, "bytes">>>>)
              /\ BodyLength(d) > 4
    <3>1. d.tag = 253
      BY <2>23 DEF Shaped
    <3>2. Filled(descriptor_0xfd_parser(p, BodyLength(d))) = Told(d.layout)
      BY <2>0, <2>23, Shown_0xfd_dmf
    <3> QED BY <1>1, <3>1, <3>2, ParserIs
  <2>24. CASE /\ Shaped(d, 254, <<Nr("broadcasting_flag", 2), Nr("broadcasting_identifier", 6),
                                 Nr("additional_broadcasting_identification", 8),
                                 <<"additional_identification_information", 8, "text">>>>)
              /\ d.layout[1].value[1] < 2 /\ HasIdentifiers(standard)
    <3>1. d.tag = 254
      BY <2>24 DEF Shaped
    <3>2. Filled(descriptor_0xfe_parser(p, BodyLength(d), standard)) = Told(d.layout)
      BY <2>0, <2>24, Shown_0xfe
    <3> QED BY <1>1, <3>1, <3>2, ParserIs
  <2> QED BY <1>1, <2>1, <2>2, <2>3, <2>4, <2>5, <2>6, <2>7, <2>8, <2>9, <2>10, <2>11, <2>12,
            <2>13, <2>14, <2>15, <2>16, <2>17, <2>18, <2>19, <2>20, <2>21, <2>22, <2>23, <2>24 DEF
            IsPlain
<1>2. CASE family # Ts
  <2>0. Stands(0, Bytes(d.layout), p)
    BY <1>2
  <2>1. CASE Shaped(d, 1, <<<<"text_char", 8, "text">>>>)
    <3>1. d.tag = 1
      BY <2>1 DEF Shaped
    <3>2. Filled(dsmcc_descriptor_0x01_parser(p, BodyLength(d))) = Told(d.layout)
      BY <2>0, <2>1, Shown_dsmcc_0x01
    <3> QED BY <1>2, <3>1, <3>2, DsmccParserIs
  <2>2. CASE Shaped(d, 2, <<<<"text_char", 8, "text">>>>)
    <3>1. d.tag = 2
      BY <2>2 DEF Shaped
    <3>2. Filled(dsmcc_descriptor_0x02_parser(p, BodyLength(d))) = Told(d.layout)
      BY <2>0, <2>2, Shown_dsmcc_0x02
    <3> QED BY <1>2, <3>1, <3>2, DsmccParserIs
  <2>3. CASE Shaped(d, 3, <<<<"text_char", 8, "text">>>>)
    <3>1. d.tag = 3
      BY <2>3 DEF Shaped
    <3>2. Filled(dsmcc_descriptor_0x03_parser(p, BodyLength(d))) = Told(d.layout)
      BY <2>0, <2>3, Shown_dsmcc_0x03
    <3> QED BY <1>2, <3>1, <3>2, DsmccParserIs
  <2>4. CASE Shaped(d, 4, <<Nr("position", 8), Nr("module_id", 16)>>)
    <3>1. d.tag = 4
      BY <2>4 DEF Shaped
    <3>2. Filled(dsmcc_descriptor_0x04_parser(p, BodyLength(d))) = Told(d.layout)
      BY <2>0, <2>4, Shown_dsmcc_0x04 DEF Nr
    <3> QED BY <1>2, <3>1, <3>2, DsmccParserIs
  <2>5. CASE Shaped(d, 5, <<<<"crc_32", 16, "halves">>>>)
    <3>1. d.tag = 5
      BY <2>5 DEF Shaped
    <3>2. Filled(dsmcc_descriptor_0x05_parser(p, BodyLength(d))) = Told(d.layout)
      BY <2>0, <2>5, Shown_dsmcc_0x05
    <3> QED BY <1>2, <3>1, <3>2, DsmccParserIs
  <2>6. CASE Shaped(d, 6, <<Nr("location_tag", 8)>>)
    <3>1. d.tag = 6
      BY <2>6 DEF Shaped
    <3>2. Filled(dsmcc_descriptor_0x06_parser(p, BodyLength(d))) = Told(d.layout)
      BY <2>0, <2>6, Shown_dsmcc_0x06 DEF Nr
    <3> QED BY <1>2, <3>1, <3>2, DsmccParserIs
  <2>7. CASE Shaped(d, 7, <<<<"est_download_time", 16, "halves">>>>)
    <3>1. d.tag = 7
      BY <2>7 DEF Shaped
    <3>2. Filled(dsmcc_descriptor_0x07_parser(p, BodyLength(d))) = Told(d.layout)
      BY <2>0, <2>7, Shown_dsmcc_0x07
    <3> QED BY <1>2, <3>1, <3>2, DsmccParserIs
  <2>8. \A tag \in 1 .. 3 : tag = 1 \/ tag = 2 \/ tag = 3
    OBVIOUS
  <2> QED BY <1>2, <2>1, <2>2, <2>3, <2>4, <2>5, <2>6, <2>7, <2>8 DEF IsPlain
<1> QED BY <1>1, <1>2, SMTT(30)

(* off[k] is where the kth descriptor ends, and the next one begins.       *)
Places(off, l) ==
  /\ off \in [0 .. Len(l.sent) -> Nat]
  /\ off[0] = 0 /\ off[Len(l.sent)] = Len(Sent(l))
  /\ \A k \in 1 .. Len(l.sent) :
       /\ off[k] = off[k - 1] + (2 + BodyLength(l.sent[k]))
       /\ off[k] <= off[Len(l.sent)]
       /\ \A u \in 1 .. 2 + BodyLength(l.sent[k]) : Sent(l)[off[k - 1] + u] = Wire(l.sent[k])[u]

(* A descriptor goes out as its tag, its length and its body.              *)
LEMMA WireIs ==
  ASSUME NEW d, d.tag \in Byte, IsLayout(d.layout), BodyLength(d) \in Byte
  PROVE  /\ Wire(d) \in Seq(Byte) /\ Len(Wire(d)) = 2 + BodyLength(d)
         /\ Wire(d)[1] = d.tag /\ Wire(d)[2] = BodyLength(d)
         /\ Stands(2, Bytes(d.layout), Wire(d))
<1> DEFINE t == d.tag
           b == Bytes(d.layout)
           n == Len(b)
           h == <<t, n>>
<1>1. Wire(d) = h \o b /\ BodyLength(d) = n
  BY DEF Wire, BodyLength
<1>2. t \in Byte /\ b \in Seq(Byte) /\ n \in Byte
  BY <1>1, BytesType
<1>n. n = Len(b)
  OBVIOUS
<1> HIDE DEF t, n, b
<1>3. h \in Seq(Byte) /\ Len(h) = 2 /\ h[1] = t /\ h[2] = n
  BY <1>2
<1> HIDE DEF h
<1>4. /\ h \o b \in Seq(Byte) /\ Len(h \o b) = Len(h) + Len(b)
      /\ \A i \in 1 .. Len(h) + Len(b) : (h \o b)[i] = IF i <= Len(h) THEN h[i] ELSE b[i - Len(h)]
  BY <1>2, <1>3, ConcatProperties
<1>5. 1 \in 1 .. Len(h) + Len(b) /\ 2 \in 1 .. Len(h) + Len(b)
  BY <1>2, <1>3
<1>6. (h \o b)[1] = t /\ (h \o b)[2] = n
  BY <1>3, <1>4, <1>5
<1>7. ASSUME NEW u \in 1 .. Len(b) PROVE (h \o b)[2 + u] = b[u]
  <2>1. n \in Nat
    BY <1>2, BytesCount
  <2>2. 2 + u \in 1 .. Len(h) + Len(b) /\ ~(2 + u <= Len(h)) /\ 2 + u - Len(h) = u
    BY <1>3, <1>n, <2>1
  <2> QED BY <1>4, <2>2
<1>8. Stands(2, b, h \o b)
  BY <1>7 DEF Stands
<1> QED BY <1>1, <1>3, <1>4, <1>6, <1>8, <1>n DEF t, b, h

(* Descriptors stand one behind the other in the loop.                     *)
LEMMA PlacesExist ==
  ASSUME NEW l, IsLoop(l)
  PROVE  /\ \E off : Places(off, l)
         /\ Sent(l) \in Seq(Byte)
<1> DEFINE N == Len(l.sent)
           W == [k \in DOMAIN l.sent |-> Wire(l.sent[k])]
<1>0. N \in Nat /\ DOMAIN l.sent = 1 .. N
  BY DEF IsLoop
<1>1. ASSUME NEW k \in 1 .. N
      PROVE  /\ Wire(l.sent[k]) \in Seq(Byte) /\ Len(Wire(l.sent[k])) = 2 + BodyLength(l.sent[k])
             /\ BodyLength(l.sent[k]) \in Byte
  BY <1>0, WireIs DEF IsLoop
<1> HIDE DEF N
<1>2. W \in Seq(Seq(Byte)) /\ Len(W) = N /\ \A k \in 1 .. N : W[k] = Wire(l.sent[k])
  <2>1. W = [k \in 1 .. N |-> Wire(l.sent[k])]
    BY <1>0
  <2> QED BY <1>0, <1>1, <2>1
<1>3. Sent(l) = FlattenSeq(W)
  <2>1. Sent(l) = Concat(W)
    BY DEF Sent, W
  <2> HIDE DEF W
  <2> QED BY <1>2, <2>1, ConcatIs
<1> HIDE DEF W
<1>4. PICK Pre \in [0 .. Len(W) -> Seq(Byte)] : PrefixesOf(Pre, W)
  BY <1>2, PrefixesExist
<1>5. Sent(l) = Pre[N]
  BY <1>2, <1>3, <1>4, FlattenIs
<1>6. /\ \A i \in 0 .. N : Pre[i] \in Seq(Byte)
      /\ Pre[0] = <<>>
  BY <1>2, <1>4, PrefixesAre
<1> DEFINE off == [i \in 0 .. N |-> Len(Pre[i])]
<1>7. off \in [0 .. N -> Nat] /\ off[0] = 0 /\ off[N] = Len(Sent(l)) /\ \A i \in 0 .. N : off[i] = Len(Pre[i])
  BY <1>0, <1>5, <1>6
<1> HIDE DEF off
<1>8. ASSUME NEW k \in 1 .. N
      PROVE  /\ off[k] = off[k - 1] + (2 + BodyLength(l.sent[k]))
             /\ off[k] <= off[N]
             /\ \A u \in 1 .. 2 + BodyLength(l.sent[k]) : Sent(l)[off[k - 1] + u] = Wire(l.sent[k])[u]
  <2>0. k \in 1 .. Len(W) /\ k \in 0 .. N /\ k - 1 \in 0 .. N /\ N \in 0 .. N
    BY <1>0, <1>2
  <2>a. W \in Seq(Seq(Byte)) /\ Len(W) = N
    BY <1>2
  <2>1. /\ Len(Pre[k]) = Len(Pre[k - 1]) + Len(W[k])
        /\ Len(Pre[k]) <= Len(Pre[N])
        /\ Stands(Len(Pre[k - 1]), W[k], Pre[N])
    <3>1. /\ Len(Pre[k]) = Len(Pre[k - 1]) + Len(W[k])
          /\ Len(Pre[k]) <= Len(Pre[Len(W)])
          /\ Stands(Len(Pre[k - 1]), W[k], Pre[Len(W)])
      BY <2>a, <1>4, <2>0, PartStands
    <3> QED BY <3>1, <2>a
  <2>2. W[k] = Wire(l.sent[k]) /\ Len(W[k]) = 2 + BodyLength(l.sent[k]) /\ BodyLength(l.sent[k]) \in Byte
    <3>1. W[k] = Wire(l.sent[k])
      BY <1>2
    <3>2. Len(Wire(l.sent[k])) = 2 + BodyLength(l.sent[k]) /\ BodyLength(l.sent[k]) \in Byte
      BY <1>1
    <3> QED BY <3>1, <3>2
  <2>3. off[k] = Len(Pre[k]) /\ off[k - 1] = Len(Pre[k - 1]) /\ off[N] = Len(Pre[N]) /\ off[k - 1] \in Nat
    BY <1>7, <2>0
  <2>4. off[k] = off[k - 1] + (2 + BodyLength(l.sent[k])) /\ off[k] <= off[N]
    BY <2>1, <2>2, <2>3
  <2>6. \A u \in 1 .. 2 + BodyLength(l.sent[k]) : Sent(l)[off[k - 1] + u] = Wire(l.sent[k])[u]
    <3>1. \A u \in 1 .. Len(W[k]) : Pre[N][Len(Pre[k - 1]) + u] = W[k][u]
      BY <2>1 DEF Stands
    <3>2. \A u \in 1 .. Len(W[k]) : Sent(l)[off[k - 1] + u] = W[k][u]
      BY <1>5, <3>1, <2>3
    <3> QED BY <3>2, <2>2
  <2> QED BY <2>4, <2>6
<1>9. Places(off, l)
  BY <1>7, <1>8 DEF Places, N
<1>10. Sent(l) \in Seq(Byte)
  BY <1>0, <1>5, <1>6
<1> QED BY <1>9, <1>10

(* The offsets of the loop being walked, and that it is as it was sent.    *)
Off == CHOOSE off : Places(off, loop)
Loaded == IsLoop(loop) /\ loop.bytes = Sent(loop) \o Trailer

LEMMA OffIs ==
  ASSUME IsLoop(loop)
  PROVE  Places(Off, loop)
BY PlacesExist DEF Off

(* The length of the loop is where its last descriptor ends.               *)
LEMMA LengthIs ==
  ASSUME Loaded
  PROVE  Length = Off[Len(loop.sent)]
<1> DEFINE s == Sent(loop)
<1>1. s \in Seq(Byte) /\ Trailer \in Seq(Byte)
  BY PlacesExist, LoopsAssumption DEF Loaded
<1>2. Off[Len(loop.sent)] = Len(s)
  BY OffIs DEF Loaded, Places
<1>3. loop.bytes = s \o Trailer
  BY DEF Loaded
<1> HIDE DEF s
<1>4. Len(s \o Trailer) = Len(s) + Len(Trailer) /\ Len(s) \in Nat /\ Len(Trailer) \in Nat
  BY <1>1, ConcatProperties
<1> QED BY <1>2, <1>3, <1>4 DEF Length

(* The bytes at a descriptor's offset are its tag and its length.          *)
LEMMA AtDescriptor ==
  ASSUME Loaded, NEW k \in 1 .. Len(loop.sent)
  PROVE  /\ Off[k - 1] \in Nat /\ Off[k] \in Nat /\ BodyLength(loop.sent[k]) \in Byte
         /\ Off[k] = Off[k - 1] + (2 + BodyLength(loop.sent[k]))
         /\ Off[k] <= Off[Len(loop.sent)]
         /\ U8(loop.bytes, Off[k - 1]) = loop.sent[k].tag
         /\ U8(loop.bytes, Off[k - 1] + 1) = BodyLength(loop.sent[k])
         /\ Stands(Off[k - 1], Wire(loop.sent[k]), loop.bytes)
<1> DEFINE N == Len(loop.sent)
           s == Sent(loop)
           d == loop.sent[k]
           len == BodyLength(d)
           o == Off[k - 1]
<1>1. N \in Nat /\ d.tag \in Byte /\ IsLayout(d.layout) /\ len \in Byte
  BY DEF Loaded, IsLoop
<1>2. /\ Off \in [0 .. N -> Nat] /\ Off[N] = Len(s)
      /\ Off[k] = o + (2 + len)
      /\ Off[k] <= Off[N]
      /\ \A u \in 1 .. 2 + len : s[o + u] = Wire(d)[u]
  BY OffIs DEF Loaded, Places
<1>3. k \in 0 .. N /\ k - 1 \in 0 .. N /\ N \in 0 .. N
  BY <1>1
<1>4. o \in Nat /\ Off[k] \in Nat /\ Off[N] \in Nat
  BY <1>2, <1>3
<1>5. Wire(d)[1] = d.tag /\ Wire(d)[2] = len /\ Len(Wire(d)) = 2 + len
  BY <1>1, WireIs
<1>6. s \in Seq(Byte) /\ Trailer \in Seq(Byte) /\ loop.bytes = s \o Trailer
  BY PlacesExist, LoopsAssumption DEF Loaded
<1> HIDE DEF N, s, d, len, o
<1>7. len \in Nat
  BY <1>1, BytesCount
<1>8. o + 1 \in 1 .. Len(s) /\ o + 2 \in 1 .. Len(s) /\ 1 \in 1 .. 2 + len /\ 2 \in 1 .. 2 + len /\ o + 1 + 1 = o + 2
  BY <1>2, <1>4, <1>7
<1>9. (s \o Trailer)[o + 1] = s[o + 1] /\ (s \o Trailer)[o + 2] = s[o + 2]
  BY <1>6, <1>8, ConcatProperties
<1>10. s[o + 1] = d.tag /\ s[o + 2] = len
  BY <1>2, <1>5, <1>8
<1>11. U8(loop.bytes, o) = d.tag /\ U8(loop.bytes, o + 1) = len
  BY <1>6, <1>8, <1>9, <1>10 DEF U8
<1>12. ASSUME NEW u \in 1 .. 2 + len PROVE loop.bytes[o + u] = Wire(d)[u]
  <2>1. o + u \in 1 .. Len(s)
    BY <1>2, <1>4, <1>7
  <2>2. (s \o Trailer)[o + u] = s[o + u]
    BY <1>6, <2>1, ConcatProperties
  <2> QED BY <1>2, <1>6, <2>2
<1>13. Stands(o, Wire(d), loop.bytes)
  BY <1>5, <1>12 DEF Stands
<1> QED BY <1>1, <1>2, <1>4, <1>11, <1>13 DEF N, d, len, o

(* Nothing stands between the end of the last one and the end of the loop. *)
LEMMA LastEnds ==
  ASSUME Loaded, NEW k \in 0 .. Len(loop.sent)
  PROVE  /\ Off[k] \in Nat /\ Off[Len(loop.sent)] \in Nat
         /\ Off[k] < Off[Len(loop.sent)] <=> k < Len(loop.sent)
         /\ Off[k] <= Off[Len(loop.sent)]
<1> DEFINE N == Len(loop.sent)
<1>1. N \in Nat
  BY DEF Loaded, IsLoop
<1>2. Off \in [0 .. N -> Nat]
  BY OffIs DEF Loaded, Places
<1>3. CASE k = N
  BY <1>1, <1>2, <1>3
<1>4. CASE k # N
  <2>1. k + 1 \in 1 .. N /\ k + 1 - 1 = k /\ k < N
    BY <1>1, <1>4
  <2>2. PICK m \in 1 .. N : m = k + 1
    BY <2>1
  <2> DEFINE len == BodyLength(loop.sent[m])
  <2>3. Off[m] = Off[m - 1] + (2 + len) /\ Off[m] <= Off[N] /\ len \in Byte
    BY AtDescriptor
  <2>4. Off[m - 1] = Off[k] /\ len \in Nat
    BY <2>1, <2>2, <2>3, BytesCount
  <2>5. Off[k] \in Nat /\ Off[N] \in Nat
    BY <1>1, <1>2
  <2> HIDE DEF len, N
  <2>6. Off[k] < Off[N]
    BY <2>3, <2>4, <2>5
  <2> QED BY <2>1, <2>5, <2>6 DEF N
<1> QED BY <1>3, <1>4
(* A parser that is pointed at a descriptor finds its body there.          *)
LEMMA BodyStands ==
  ASSUME Loaded, NEW k \in 1 .. Len(loop.sent), NEW family
  PROVE  Stands(IF family = Ts THEN 2 ELSE 0, Bytes(loop.sent[k].layout), Pointed(family, Off[k - 1]))
<1> DEFINE d == loop.sent[k]
           y == Bytes(d.layout)
           w == Wire(d)
           o == Off[k - 1]
           s == loop.bytes
           len == BodyLength(d)
           base == IF family = Ts THEN 2 ELSE 0
           from == 1 + (IF family = Ts THEN o ELSE o + 2)
           n == Len(s)
           q == SubSeq(s, from, n)
<1>1. /\ o \in Nat /\ len \in Byte /\ Off[k] = o + (2 + len) /\ Off[k] <= Off[Len(loop.sent)]
      /\ Stands(o, w, s)
  BY AtDescriptor
<1>2. d.tag \in Byte /\ IsLayout(d.layout) /\ len \in Byte
  BY DEF Loaded, IsLoop
<1>3. y \in Seq(Byte) /\ Len(y) = len /\ w \in Seq(Byte) /\ Len(w) = 2 + len /\ Stands(2, y, w)
  BY <1>2, BytesType, WireIs DEF BodyLength
<1>4. s \in Seq(Byte) /\ Off[Len(loop.sent)] <= n /\ n \in Nat
  <2>1. Sent(loop) \in Seq(Byte) /\ Trailer \in Seq(Byte) /\ s = Sent(loop) \o Trailer
    BY PlacesExist, LoopsAssumption DEF Loaded
  <2>2. Off[Len(loop.sent)] = Len(Sent(loop))
    BY OffIs DEF Loaded, Places
  <2> DEFINE x == Sent(loop)
  <2> HIDE DEF x
  <2>3. /\ Len(x \o Trailer) = Len(x) + Len(Trailer) /\ x \o Trailer \in Seq(Byte)
        /\ Len(x) \in Nat /\ Len(Trailer) \in Nat
    BY <2>1, ConcatProperties DEF x
  <2>4. Len(x) <= Len(x \o Trailer) /\ Len(x \o Trailer) \in Nat
    BY <2>3
  <2> QED BY <2>1, <2>2, <2>3, <2>4 DEF x
<1>q. q = Pointed(family, o)
  BY DEF Pointed
<1>l. Off[Len(loop.sent)] \in Nat /\ len \in Nat /\ Off[k] \in Nat
  <2>1. Len(loop.sent) \in 0 .. Len(loop.sent)
    BY DEF Loaded, IsLoop
  <2> QED BY <1>1, <2>1, LastEnds, AtDescriptor, BytesCount
<1> HIDE DEF d, y, w, o, s, len, n, q
<1>5. ASSUME NEW u \in 1 .. len
      PROVE  s[o + 2 + u] = y[u]
  <2>1. w[2 + u] = y[u]
    BY <1>3 DEF Stands
  <2>2. PICK v \in 1 .. 2 + len : v = 2 + u
    <3>1. 2 + u \in 1 .. 2 + len
      BY <1>l
    <3> QED BY <3>1
  <2>3. s[o + v] = w[v]
    BY <1>1, <1>3 DEF Stands
  <2>4. o + v = o + 2 + u
    BY <1>1, <2>2
  <2> QED BY <2>1, <2>2, <2>3, <2>4
<1>6. from \in Nat /\ from \in Int /\ n \in Int /\ from >= 1
  BY <1>1, <1>4
<1>7. \A i \in from .. n : s[i] \in Byte
  <2> TAKE i \in from .. n
  <2>1. i \in 1 .. Len(s)
    BY <1>4, <1>6 DEF n
  <2> QED BY <1>4, <2>1, ElementOfSeq
<1> HIDE DEF from
<1>8. \A i \in 1 .. n - from + 1 : q[i] = s[from + i - 1]
  BY <1>6, <1>7, SubSeqProperties DEF q
<1>9. ASSUME NEW u \in 1 .. len PROVE q[base + u] = y[u]
  <2>1. base + u \in 1 .. n - from + 1 /\ from + (base + u) - 1 = o + 2 + u
    BY <1>1, <1>4, <1>l DEF from
  <2> DEFINE i == base + u
  <2> HIDE DEF i
  <2>2. i \in 1 .. n - from + 1 /\ from + i - 1 = o + 2 + u
    BY <2>1 DEF i
  <2>3. q[i] = y[u]
    BY <1>5, <1>8, <2>2
  <2> QED BY <2>3 DEF i
<1>10. Stands(base, y, q)
  BY <1>3, <1>9 DEF Stands
<1> QED BY <1>10, <1>q DEF y, d, o

(* While a loop that can be counted is walked: the counter has come to the *)
(* end of num descriptors, the parser to that of nth, and it has been      *)
(* pointed at the first byte of each.                                      *)
WalkInv ==
  /\ Loaded
  /\ Countable(loop) =>
       LET N == Len(loop.sent)
       IN /\ phase \in {"count", "parse", "done"}
          /\ phase = "count" => /\ loop.counted /\ num \in 0 .. N /\ nth = 0 /\ offsets = <<>>
                                /\ at = Off[num] /\ left = Length - at
          /\ phase # "count" => /\ nth \in 0 .. N /\ offsets \in Seq(Nat) /\ Len(offsets) = nth
                                /\ at = Off[nth] /\ \A k \in 1 .. nth : offsets[k] = Off[k - 1]
                                /\ loop.counted => num = N
          /\ phase = "done" => nth = N

LEMMA WalkBegins == DInit => WalkInv
<1> SUFFICES ASSUME NEW l \in Loops, Begin(l) PROVE WalkInv
  BY DEF DInit
<1>1. IsLoop(l)
  BY LoopsAssumption
<1>2. /\ loop.family = l.family /\ loop.counted = l.counted /\ loop.sent = l.sent
      /\ loop.standard = l.standard
      /\ loop.bytes = Sent(l) \o Trailer
      /\ phase = (IF loop.counted THEN "count" ELSE "parse")
      /\ left = Length /\ at = 0 /\ num = 0 /\ nth = 0 /\ offsets = <<>>
  BY DEF Begin
<1>3. IsLoop(loop)
  BY <1>1, <1>2 DEF IsLoop
<1>4. Sent(loop) = Sent(l)
  BY <1>2 DEF Sent
<1>5. Loaded
  BY <1>2, <1>3, <1>4 DEF Loaded
<1>6. Off[0] = 0 /\ Len(loop.sent) \in Nat /\ loop.counted \in BOOLEAN
  BY <1>3, OffIs DEF Places, IsLoop
<1>7. Length \in Nat /\ 0 \in 0 .. Len(loop.sent)
  <2>1. 0 \in 0 .. Len(loop.sent)
    BY <1>6
  <2> QED BY <1>5, <2>1, LengthIs, LastEnds
<1>8. Length = Length - 0 /\ offsets \in Seq(Nat) /\ Len(offsets) = 0 /\ 1 .. 0 = {}
  BY <1>2, <1>7
<1>9. \A k \in 1 .. nth : offsets[k] = Off[k - 1]
  BY <1>2, <1>8
<1>10. phase = "count" => loop.counted
  BY <1>2
<1>11. CASE phase = "count"
  BY <1>2, <1>5, <1>6, <1>7, <1>8, <1>10, <1>11 DEF WalkInv
<1>12. CASE phase # "count"
  <2>1. phase = "parse" /\ ~loop.counted
    BY <1>2, <1>12
  <2>2. Len(offsets) = nth
    BY <1>2, <1>8
  <2> QED BY <1>2, <1>5, <1>6, <1>7, <1>8, <1>9, <2>1, <2>2 DEF WalkInv
<1> QED BY <1>11, <1>12

(* The loop and what is said of it stay as they are.                       *)
LEMMA LoopStays ==
  ASSUME loop' = loop
  PROVE  /\ Loaded => Loaded'
         /\ Off' = Off /\ Length' = Length /\ Countable(loop)' = Countable(loop)
<1>1. /\ Sent(loop)' = Sent(loop) /\ IsLoop(loop)' = IsLoop(loop)
      /\ Length' = Length /\ Countable(loop)' = Countable(loop)
  BY DEF Sent, IsLoop, Length, Countable, Wire, BodyLength
<1>2. Loaded => Loaded'
  BY <1>1 DEF Loaded
<1>3. Off' = Off
  BY DEF Off, Places, Sent, BodyLength, Wire
<1> QED BY <1>1, <1>2, <1>3

(* A round of the counter meets the length it needs: the descriptor is     *)
(* there, and its length is no negative number.                            *)
LEMMA CountRight ==
  ASSUME WalkInv, Count, Countable(loop)
  PROVE  /\ phase' = "count" /\ num' \in 0 .. Len(loop.sent) /\ num' = num + 1
         /\ at' = Off[num'] /\ left' = Length - at'
<1> DEFINE N == Len(loop.sent)
<1>1. /\ Loaded /\ loop.counted /\ num \in 0 .. N /\ at = Off[num] /\ left = Length - at /\ left > 0
      /\ phase = "count"
  BY DEF WalkInv, Count
<1>2. N \in Nat /\ N < 256 /\ DOMAIN loop.sent = 1 .. N
  BY <1>1 DEF Loaded, IsLoop, Countable
<1>3. /\ Off[num] \in Nat /\ Off[N] \in Nat /\ Length = Off[N]
      /\ Off[num] < Off[N] <=> num < N
  BY <1>1, LastEnds, LengthIs
<1>4. num < N
  <2> HIDE DEF N
  <2> QED BY <1>1, <1>3
<1>5. PICK k \in 1 .. N : k = num + 1 /\ k - 1 = num
  <2> HIDE DEF N
  <2>1. num \in Nat /\ num + 1 \in 1 .. N
    BY <1>1, <1>2, <1>4
  <2> DEFINE m == num + 1
  <2>2. m \in 1 .. N /\ m = num + 1 /\ m - 1 = num
    BY <2>1
  <2> HIDE DEF m
  <2> QED BY <2>2
<1> DEFINE len == BodyLength(loop.sent[k])
<1>6. /\ Off[k] \in Nat /\ len \in Byte
      /\ Off[k] = Off[k - 1] + (2 + len) /\ Off[k] <= Off[N]
      /\ U8(loop.bytes, Off[k - 1] + 1) = len
  BY <1>1, AtDescriptor
<1>7. len \in Nat /\ len <= 127
  <2>1. len <= 127
    BY <1>1, <1>2 DEF Countable
  <2> QED BY <1>6, <2>1, BytesCount
<1>8. Off[k - 1] = at /\ Off[k - 1] \in Nat
  BY <1>1, <1>3, <1>5
<1> HIDE DEF N, len
<1>9. S8(loop.bytes, at + 1) = len
  BY <1>6, <1>7, <1>8 DEF S8
<1>10. left >= 2 /\ len + 2 >= 0 /\ at + (len + 2) = Off[k] /\ left - (len + 2) = Length - Off[k] /\ at \in Nat
  BY <1>1, <1>3, <1>6, <1>7, <1>8
<1>11. phase' = phase /\ num' = (num + 1) % 256 /\ at' = at + (len + 2) /\ left' = left - (len + 2)
  BY <1>9, <1>10 DEF Count
<1>12. num + 1 \in 0 .. N /\ (num + 1) % 256 = num + 1
  BY <1>1, <1>2, <1>4
<1> QED BY <1>1, <1>5, <1>10, <1>11, <1>12 DEF N

(* A round of the parser takes the next descriptor, by the tag and the     *)
(* length it was sent with.                                                *)
LEMMA ParseRight ==
  ASSUME WalkInv, Parse, Countable(loop)
  PROVE  LET N == Len(loop.sent)
         IN \E k \in 1 .. N :
              /\ k = nth + 1 /\ nth' = k /\ offsets' = Append(offsets, Off[k - 1]) /\ at' = Off[k]
              /\ at = Off[k - 1]
              /\ U8(loop.bytes, at) = loop.sent[k].tag
              /\ U8(loop.bytes, at + 1) = BodyLength(loop.sent[k])
<1> DEFINE N == Len(loop.sent)
<1>1. /\ Loaded /\ nth \in 0 .. N /\ at = Off[nth]
      /\ loop.counted => num = N
      /\ MoreToParse
  BY DEF WalkInv, Parse
<1>c. loop.counted \in BOOLEAN /\ N \in Nat
  BY <1>1 DEF Loaded, IsLoop
<1>3. /\ Off[nth] \in Nat /\ Off[N] \in Nat /\ Length = Off[N]
      /\ Off[nth] < Off[N] <=> nth < N
  BY <1>1, LastEnds, LengthIs
<1>4. nth < N
  <2>1. CASE loop.counted
    BY <1>1, <2>1 DEF MoreToParse
  <2>2. CASE ~loop.counted
    BY <1>1, <1>3, <2>2 DEF MoreToParse
  <2> QED BY <2>1, <2>2
<1>5. PICK k \in 1 .. N : k = nth + 1 /\ k - 1 = nth
  <2> HIDE DEF N
  <2>1. nth \in Nat /\ nth + 1 \in 1 .. N
    BY <1>1, <1>c, <1>4
  <2> DEFINE m == nth + 1
  <2>2. m \in 1 .. N /\ m = nth + 1 /\ m - 1 = nth
    BY <2>1
  <2> HIDE DEF m
  <2> QED BY <2>2
<1> DEFINE len == BodyLength(loop.sent[k])
<1>6. /\ Off[k] \in Nat /\ len \in Byte
      /\ Off[k] = Off[k - 1] + (2 + len)
      /\ U8(loop.bytes, Off[k - 1]) = loop.sent[k].tag
      /\ U8(loop.bytes, Off[k - 1] + 1) = len
  BY <1>1, AtDescriptor
<1>8. Off[k - 1] = at /\ at \in Nat /\ len \in Nat
  BY <1>1, <1>3, <1>5, <1>6, BytesCount
<1>9. at' = at + 2 + U8(loop.bytes, at + 1) /\ offsets' = Append(offsets, at) /\ nth' = nth + 1
  BY DEF Parse
<1>10. at + 2 + len = at + (2 + len)
  BY <1>8
<1> HIDE DEF len, N
<1> QED BY <1>5, <1>6, <1>8, <1>9, <1>10 DEF N, len

LEMMA WalkStep == WalkInv /\ [DNext]_dvars => WalkInv'
<1> SUFFICES ASSUME WalkInv, [DNext]_dvars PROVE WalkInv'
  OBVIOUS
<1> DEFINE N == Len(loop.sent)
<1>0. loop' = loop
  BY DEF DNext, Count, Counted, Parse, Finish, dvars
<1>1. Loaded' /\ Off' = Off /\ Length' = Length /\ Countable(loop)' = Countable(loop) /\ Loaded
  BY <1>0, LoopStays DEF WalkInv
<1>2. SUFFICES ASSUME Countable(loop) PROVE WalkInv'
  BY <1>1 DEF WalkInv
<1>n. N \in Nat /\ N' = N
  BY <1>0, <1>1 DEF Loaded, IsLoop
<1>3. CASE Count
  <2>1. /\ phase' = "count" /\ num' \in 0 .. N /\ at' = Off[num'] /\ left' = Length - at'
    BY <1>2, <1>3, CountRight
  <2>2. nth' = nth /\ offsets' = offsets /\ loop.counted /\ nth = 0 /\ offsets = <<>>
    BY <1>2, <1>3 DEF Count, WalkInv
  <2> QED BY <1>0, <1>1, <2>1, <2>2 DEF WalkInv
<1>4. CASE Counted
  <2>1. /\ loop.counted /\ num \in 0 .. N /\ at = Off[num] /\ left = Length - at /\ left <= 0
        /\ nth = 0 /\ offsets = <<>> /\ phase' = "parse" /\ at' = 0 /\ num' = num /\ nth' = nth /\ offsets' = offsets
    BY <1>2, <1>4 DEF Counted, WalkInv
  <2>2. /\ Off[num] \in Nat /\ Off[N] \in Nat /\ Length = Off[N]
        /\ Off[num] < Off[N] <=> num < N
    BY <1>1, <2>1, LastEnds, LengthIs
  <2>3. num = N
    <3> HIDE DEF N
    <3> QED BY <1>n, <2>1, <2>2
  <2>4. Off[0] = 0 /\ 0 \in 0 .. N
    BY <1>1, <1>n, OffIs DEF Places, Loaded
  <2>5. offsets' \in Seq(Nat) /\ Len(offsets') = nth' /\ \A k \in 1 .. nth' : offsets'[k] = Off[k - 1]
    <3>1. <<>> \in Seq(Nat) /\ Len(<<>>) = 0 /\ 1 .. 0 = {}
      OBVIOUS
    <3> QED BY <2>1, <3>1
  <2> QED BY <1>0, <1>1, <2>1, <2>3, <2>4, <2>5 DEF WalkInv
<1>5. CASE Parse
  <2>1. PICK k \in 1 .. N : k = nth + 1 /\ nth' = k /\ offsets' = Append(offsets, Off[k - 1]) /\ at' = Off[k]
    BY <1>2, <1>5, ParseRight
  <2>2. /\ offsets \in Seq(Nat) /\ Len(offsets) = nth /\ nth \in 0 .. N
        /\ \A m \in 1 .. nth : offsets[m] = Off[m - 1]
        /\ loop.counted => num = N
        /\ phase' = "parse" /\ num' = num
    BY <1>2, <1>5 DEF Parse, WalkInv
  <2>3. k - 1 \in 0 .. N /\ k \in 0 .. N
    BY <1>n
  <2>4. Off[k - 1] \in Nat
    BY <1>1, <2>3, LastEnds
  <2> DEFINE o == Off[k - 1]
  <2>5. /\ Append(offsets, o) \in Seq(Nat) /\ Len(Append(offsets, o)) = k
        /\ Append(offsets, o)[k] = o
        /\ \A m \in 1 .. nth : Append(offsets, o)[m] = offsets[m]
    <3> HIDE DEF o
    <3>1. o \in Nat
      BY <2>4 DEF o
    <3> QED BY <2>1, <2>2, <3>1, AppendProperties
  <2>6. ASSUME NEW m \in 1 .. k PROVE offsets'[m] = Off[m - 1]
    <3>1. CASE m = k
      BY <2>1, <2>5, <3>1
    <3>2. CASE m # k
      <4>1. m \in 1 .. nth
        BY <2>1, <2>2, <3>2
      <4> QED BY <2>1, <2>2, <2>5, <4>1
    <3> QED BY <3>1, <3>2
  <2>7. offsets' \in Seq(Nat) /\ Len(offsets') = nth'
    BY <2>1, <2>5
  <2>8. \A m \in 1 .. nth' : offsets'[m] = Off[m - 1]
    BY <2>1, <2>6
  <2>9. nth' \in 0 .. N /\ at' = Off[nth']
    BY <2>1, <2>3
  <2> QED BY <1>0, <1>1, <2>2, <2>7, <2>8, <2>9 DEF WalkInv
<1>6. CASE Finish
  <2>1. /\ nth \in 0 .. N /\ offsets \in Seq(Nat) /\ Len(offsets) = nth
        /\ at = Off[nth] /\ \A k \in 1 .. nth : offsets[k] = Off[k - 1]
        /\ loop.counted => num = N
        /\ ~MoreToParse /\ phase' = "done"
        /\ at' = at /\ num' = num /\ nth' = nth /\ offsets' = offsets
    BY <1>2, <1>6 DEF Finish, WalkInv
  <2>2. /\ Off[nth] \in Nat /\ Off[N] \in Nat /\ Length = Off[N]
        /\ Off[nth] < Off[N] <=> nth < N
    BY <1>1, <2>1, LastEnds, LengthIs
  <2>3. nth = N
    <3>1. ~(nth < N)
      <4>1. CASE loop.counted
        BY <2>1, <4>1 DEF MoreToParse
      <4>2. CASE ~loop.counted
        BY <2>1, <2>2, <4>2 DEF MoreToParse
      <4> QED BY <4>1, <4>2
    <3> HIDE DEF N
    <3> QED BY <3>1, <2>1, <1>n
  <2> QED BY <1>0, <1>1, <2>1, <2>3 DEF WalkInv
<1>7. CASE UNCHANGED dvars
  BY <1>0, <1>1, <1>7 DEF WalkInv, dvars
<1> QED BY <1>3, <1>4, <1>5, <1>6, <1>7 DEF DNext

LEMMA WalkSafe == WalkInv => Walked
<1> SUFFICES ASSUME WalkInv, phase = "done", Countable(loop)
             PROVE  /\ Len(offsets) = Len(loop.sent) /\ at = Length
                    /\ \A k \in DOMAIN offsets :
                         offsets[k] = IF k = 1 THEN 0 ELSE offsets[k-1] + 2 + BodyLength(loop.sent[k-1])
  BY DEF Walked, WalkedRight
<1> DEFINE N == Len(loop.sent)
<1>1. /\ Loaded /\ offsets \in Seq(Nat) /\ Len(offsets) = nth /\ nth = N
      /\ at = Off[nth] /\ \A k \in 1 .. nth : offsets[k] = Off[k - 1]
  BY DEF WalkInv
<1>2. at = Length /\ N \in Nat /\ Off[0] = 0
  BY <1>1, LengthIs, OffIs DEF Loaded, IsLoop, Places
<1>3. DOMAIN offsets = 1 .. N
  BY <1>1
<1>4. ASSUME NEW k \in 1 .. N
      PROVE  offsets[k] = IF k = 1 THEN 0 ELSE offsets[k-1] + 2 + BodyLength(loop.sent[k-1])
  <2>1. CASE k = 1
    <3>1. offsets[k] = Off[k - 1] /\ k - 1 = 0
      BY <1>1, <2>1
    <3> QED BY <1>2, <2>1, <3>1
  <2>2. CASE k # 1
    <3>1. PICK m \in 1 .. N : m = k - 1
      <4>1. k - 1 \in 1 .. N
        BY <1>2, <2>2
      <4> QED BY <4>1
    <3> DEFINE len == BodyLength(loop.sent[m])
    <3>2. Off[m - 1] \in Nat /\ Off[m] = Off[m - 1] + (2 + len) /\ len \in Byte
      BY <1>1, AtDescriptor
    <3>3. offsets[k] = Off[m] /\ offsets[m] = Off[m - 1]
      BY <1>1, <3>1
    <3>4. len \in Nat
      BY <3>2, BytesCount
    <3> HIDE DEF len
    <3>5. offsets[k] = offsets[m] + 2 + len
      <4> DEFINE a == Off[m - 1]
                 b == Off[m]
      <4>1. a \in Nat /\ b = a + (2 + len)
        BY <3>2
      <4>2. offsets[k] = b /\ offsets[m] = a
        BY <3>3
      <4> HIDE DEF a, b
      <4>3. b = a + 2 + len
        BY <3>4, <4>1
      <4> QED BY <4>2, <4>3
    <3> QED BY <2>2, <3>1, <3>5 DEF len
  <2> QED BY <2>1, <2>2
<1> QED BY <1>1, <1>2, <1>3, <1>4

-----------------------------------------------------------------------------
(* What the parser of the kth descriptor makes of it, and what is there of *)
(* those parsed so far that share no directory.                            *)
MadeOf(k) ==
  Parser(loop.family, loop.sent[k].tag, Pointed(loop.family, Off[k - 1]), BodyLength(loop.sent[k]),
         loop.standard)
FilesInv ==
  Countable(loop) =>
    /\ phase = "count" => DOMAIN files = {}
    /\ phase # "count" => /\ DOMAIN files = {loop.sent[k].tag : k \in 1 .. nth}
                          /\ \A k \in 1 .. nth : Alone(k) => files[loop.sent[k].tag] = MadeOf(k)

LEMMA FilesBegin == DInit => FilesInv
<1> SUFFICES ASSUME NEW l \in Loops, Begin(l) PROVE FilesInv
  BY DEF DInit
<1>1. nth = 0 /\ files = [tag \in {} |-> NoFiles]
  BY DEF Begin
<1>2. DOMAIN files = {} /\ 1 .. nth = {}
  BY <1>1
<1> QED BY <1>2 DEF FilesInv

LEMMA MadeStays ==
  ASSUME loop' = loop
  PROVE  \A k : MadeOf(k)' = MadeOf(k) /\ Alone(k)' = Alone(k)
BY LoopStays DEF MadeOf, Alone, Pointed, BodyLength

(* A parser that runs for another tag leaves the files of this one alone.  *)
LEMMA FilesOfParse ==
  ASSUME WalkInv, FilesInv, Parse, Countable(loop)
  PROVE  /\ DOMAIN files' = {loop.sent[k].tag : k \in 1 .. nth'}
         /\ \A k \in 1 .. nth' : Alone(k) => files'[loop.sent[k].tag] = MadeOf(k)
<1> DEFINE N == Len(loop.sent)
           Tag(k) == loop.sent[k].tag
<1>1. PICK k \in 1 .. N : /\ k = nth + 1 /\ nth' = k /\ at = Off[k - 1]
                          /\ U8(loop.bytes, at) = Tag(k) /\ U8(loop.bytes, at + 1) = BodyLength(loop.sent[k])
  BY ParseRight
<1>2. /\ nth \in 0 .. N /\ N \in Nat /\ DOMAIN loop.sent = 1 .. N
      /\ DOMAIN files = {Tag(m) : m \in 1 .. nth}
      /\ \A m \in 1 .. nth : Alone(m) => files[Tag(m)] = MadeOf(m)
  BY DEF WalkInv, FilesInv, Parse, Loaded, IsLoop
<1> DEFINE made == MadeOf(k)
<1>3. files' = [t \in DOMAIN files \cup {Tag(k)} |->
                  IF t # Tag(k) THEN files[t]
                  ELSE IF t \in DOMAIN files THEN Files(<<files[t], made>>) ELSE made]
  BY <1>1 DEF Parse, MadeOf
<1>4. \A m \in 1 .. N : Alone(m) => \A j \in 1 .. N : j # m => Tag(j) # Tag(m)
  BY <1>2 DEF Alone
<1>5. 1 .. nth' = 1 .. nth \cup {k} /\ k \notin 1 .. nth /\ 1 .. nth \subseteq 1 .. N
  BY <1>1, <1>2
<1> HIDE DEF made, N, Tag
<1>6. DOMAIN files' = {Tag(m) : m \in 1 .. nth'}
  BY <1>2, <1>3, <1>5
<1>7. ASSUME NEW m \in 1 .. nth', Alone(m) PROVE files'[Tag(m)] = MadeOf(m)
  <2>1. CASE m = k
    <3>1. Tag(k) \notin DOMAIN files
      BY <1>2, <1>4, <1>5, <1>7, <2>1
    <3> QED BY <1>3, <2>1, <3>1 DEF made
  <2>2. CASE m # k
    <3>1. m \in 1 .. nth /\ Tag(m) # Tag(k) /\ Tag(m) \in DOMAIN files
      BY <1>2, <1>4, <1>5, <1>7, <2>2
    <3> QED BY <1>2, <1>3, <1>7, <3>1
  <2> QED BY <2>1, <2>2
<1> QED BY <1>6, <1>7 DEF Tag

LEMMA FilesStep == WalkInv /\ FilesInv /\ [DNext]_dvars => FilesInv'
<1> SUFFICES ASSUME WalkInv, FilesInv, [DNext]_dvars PROVE FilesInv'
  OBVIOUS
<1>0. loop' = loop
  BY DEF DNext, Count, Counted, Parse, Finish, dvars
<1>1. /\ Countable(loop)' = Countable(loop)
      /\ \A k : MadeOf(k)' = MadeOf(k) /\ Alone(k)' = Alone(k)
  BY <1>0, LoopStays, MadeStays
<1> SUFFICES ASSUME Countable(loop) PROVE FilesInv'
  BY <1>1 DEF FilesInv
<1>2. CASE Parse
  <2>1. /\ DOMAIN files' = {loop.sent[k].tag : k \in 1 .. nth'}
        /\ \A k \in 1 .. nth' : Alone(k) => files'[loop.sent[k].tag] = MadeOf(k)
    BY <1>2, FilesOfParse
  <2>2. phase' # "count"
    BY <1>2 DEF Parse
  <2> QED BY <1>0, <1>1, <2>1, <2>2 DEF FilesInv
<1>3. CASE Count \/ Counted
  <2>1. files' = files /\ nth' = nth /\ nth = 0 /\ DOMAIN files = {}
    BY <1>3 DEF Count, Counted, WalkInv, FilesInv
  <2>2. 1 .. nth' = {}
    BY <2>1
  <2> QED BY <2>1, <2>2 DEF FilesInv
<1>4. CASE Finish \/ UNCHANGED dvars
  <2>1. files' = files /\ nth' = nth /\ (phase' = "count" <=> phase = "count")
    BY <1>4 DEF Finish, dvars
  <2> QED BY <1>0, <1>1, <2>1 DEF FilesInv
<1> QED BY <1>2, <1>3, <1>4 DEF DNext

LEMMA FilesSafe == WalkInv /\ FilesInv => PlainAsSent
<1> SUFFICES ASSUME WalkInv, FilesInv, phase = "done", Countable(loop),
                    NEW k \in DOMAIN loop.sent, Alone(k), IsPlain(loop.family, loop.standard, loop.sent[k])
             PROVE  Shows(k)
  BY DEF PlainAsSent
<1> DEFINE d == loop.sent[k]
           p == Pointed(loop.family, Off[k - 1])
<1>1. /\ Loaded /\ nth = Len(loop.sent) /\ DOMAIN loop.sent = 1 .. Len(loop.sent) /\ IsLayout(d.layout)
      /\ DOMAIN files = {loop.sent[m].tag : m \in 1 .. nth}
      /\ \A m \in 1 .. nth : Alone(m) => files[loop.sent[m].tag] = MadeOf(m)
  BY DEF WalkInv, FilesInv, Loaded, IsLoop
<1>2. k \in 1 .. nth /\ k \in 1 .. Len(loop.sent)
  BY <1>1
<1>3. d.tag \in DOMAIN files /\ files[d.tag] = MadeOf(k)
  BY <1>1, <1>2
<1>4. Stands(IF loop.family = Ts THEN 2 ELSE 0, Bytes(d.layout), p)
  BY <1>1, <1>2, BodyStands
<1>5. Filled(Parser(loop.family, d.tag, p, BodyLength(d), loop.standard)) = Told(d.layout)
  <2> DEFINE family == loop.family
             standard == loop.standard
  <2>1. IsPlain(family, standard, d) /\ IsLayout(d.layout) /\ Stands(IF family = Ts THEN 2 ELSE 0, Bytes(d.layout), p)
    BY <1>1, <1>4
  <2> HIDE DEF family, standard, d, p
  <2>2. Filled(Parser(family, d.tag, p, BodyLength(d), standard)) = Told(d.layout)
    BY <2>1, PlainShown
  <2> QED BY <2>2 DEF family, standard
<1> QED BY <1>3, <1>5 DEF Shows, MadeOf
-----------------------------------------------------------------------------
(* Every loop that the counter can count is parsed descriptor by           *)
(* descriptor, each once, from its first byte.                             *)
THEOREM LoopsAreWalkedRight == DSpec => []Walked
<1>1. DSpec => []WalkInv
  BY WalkBegins, WalkStep, PTL DEF DSpec
<1> QED BY <1>1, WalkSafe, PTL

(* The files of a descriptor of one of the sequences of fields of IsPlain  *)
(* that shares no directory show what the multiplexer put into it: for a   *)
(* component whose type picks one of the names of resolutions, for a system*)
(* management descriptor in the standards with words for it, for the others*)
(* whatever their flags, numbers and texts are within the conditions of    *)
(* IsPlain.                                                                *)
THEOREM PlainFilesAreRight == DSpec => []PlainAsSent
<1>1. DSpec => []WalkInv
  BY WalkBegins, WalkStep, PTL DEF DSpec
<1>2. DSpec => []FilesInv
  BY <1>1, FilesBegin, FilesStep, PTL DEF DSpec
<1> QED BY <1>1, <1>2, FilesSafe, PTL
=============================================================================
