--------------------------- MODULE SignallingProofs ---------------------------
(***************************************************************************)
(* Proofs about what sections lead to.                                     *)
(*                                                                         *)
(* ParserRegistry: whatever PATs and PMTs announce, and in whatever order, *)
(* each PID's packets go to the parser it was announced for, and a PES     *)
(* packet to a FIFO that is in the tree. The handlers loop over programs   *)
(* and streams: each loop is unrolled once (PatLoop, PmtLoop, PesLoop), by *)
(* induction, and what it keeps is shown program by program, call by call. *)
(*                                                                         *)
(* Carousel: whatever the modules, their sizes and the versions, and in    *)
(* whatever order sections come, a file system is created of whole modules *)
(* and once per DII, and the DSI's link is right.                          *)
(*                                                                         *)
(* ObjectTree: that file system is the one the messages in the modules     *)
(* describe, whatever their number, their shape and their order, and its   *)
(* files have their own contents. The macros of fsutils.h are summed up    *)
(* first (what each does to one dentry), then what it is to bind a child   *)
(* (Binds), then the loop over children, and TreeInv is kept.              *)
(***************************************************************************)
EXTENDS Carousel, ParserRegistry, ObjectTree, SequenceTheorems, FiniteSetTheorems, WellFoundedInduction, TLAPS

-----------------------------------------------------------------------------
(* Induction and folds.                                                    *)
LEMMA MinOfNat == ASSUME NEW I, I \subseteq Nat, I # {} PROVE Min(I) \in I /\ \A j \in I : Min(I) <= j
<1> DEFINE R == OpToRel(<, Nat)
<1>1. IsWellFoundedOn(R, Nat)
  BY NatLessThanWellFounded
<1>2. \A i, j \in Nat : j < i => <<j, i>> \in R
  BY DEF OpToRel
<1> HIDE DEF R
<1>3. PICK i \in I : \A j \in I : ~ (<<j, i>> \in R)
  BY <1>1, WFMin
<1>4. \A j \in I : i \in Nat /\ j \in Nat /\ ~ (j < i)
  BY <1>2, <1>3
<1>5. \A j \in I : i <= j
  BY <1>4
<1> QED BY <1>5 DEF Min

LEMMA NatSetInduction ==
  ASSUME NEW S, 0 \in S, \A n \in Nat : n \in S => n + 1 \in S
  PROVE  Nat \subseteq S
<1> SUFFICES ASSUME Nat \ S # {} PROVE FALSE
  OBVIOUS
<1>1. PICK m \in Nat : m = Min(Nat \ S) /\ m \notin S /\ \A j \in Nat \ S : m <= j
  BY MinOfNat
<1>2. m # 0
  BY <1>1
<1>3. m - 1 \in Nat /\ m - 1 \in S
  BY <1>1, <1>2
<1>4. m - 1 + 1 \in S
  BY <1>3
<1> QED BY <1>1, <1>4

(* The largest number of a set that has none beyond n.                     *)
LEMMA MaxIs ==
  ASSUME NEW n \in Nat, NEW x \in SUBSET (1 .. n), n \in x
  PROVE  Max(x) = n
<1>1. \A y \in x : y \in Int /\ n >= y
  OBVIOUS
<1>2. \A z \in x : (\A y \in x : z >= y) => z = n
  BY <1>1
<1> QED BY <1>1, <1>2 DEF Max

(* The loop of pat_populate(): what it has registered after program i. *)
PatUnrolls(P, base, s) ==
  /\ P[0] = base
  /\ \A i \in 1 .. Len(s) : P[i] = PatRegister(P[i - 1], s[i])
  /\ FoldLeft(PatRegister, base, s) = P[Len(s)]

(* The loop of pat_populate(), program by program.                         *)
LEMMA PatLoop ==
  ASSUME NEW D, NEW s \in Seq(D), NEW base
  PROVE  \E P : PatUnrolls(P, base, s)
<1> DEFINE K == Len(s)
           Step(F, x) == IF x = {} THEN base
                         ELSE LET i == Max(x) IN PatRegister(F[x \ {i}], s[i])
           Eq(F, n) == F = [x \in SUBSET (1 .. n) |-> Step(F, x)]
           S == {n \in Nat : \E F : Eq(F, n)}
<1>1. 0 \in S
  <2> DEFINE F == [x \in SUBSET (1 .. 0) |-> base]
  <2>1. \A x \in SUBSET (1 .. 0) : Step(F, x) = base
    OBVIOUS
  <2>2. Eq(F, 0)
    BY <2>1
  <2> QED BY <2>2
<1>2. ASSUME NEW n \in Nat, n \in S PROVE n + 1 \in S
  <2>1. PICK F : Eq(F, n)
    BY <1>2
  <2> DEFINE G == [x \in SUBSET (1 .. n + 1) |->
                     IF n + 1 \in x THEN PatRegister(F[x \ {n + 1}], s[n + 1]) ELSE F[x]]
  <2>2. ASSUME NEW x \in SUBSET (1 .. n + 1) PROVE G[x] = Step(G, x)
    <3>1. CASE n + 1 \in x
      <4>1. Max(x) = n + 1 /\ x # {}
        BY <3>1, MaxIs
      <4>2. x \ {n + 1} \in SUBSET (1 .. n) /\ x \ {n + 1} \in SUBSET (1 .. n + 1) /\ n + 1 \notin x \ {n + 1}
        OBVIOUS
      <4>3. G[x \ {n + 1}] = F[x \ {n + 1}]
        BY <4>2
      <4> QED BY <3>1, <4>1, <4>3
    <3>2. CASE n + 1 \notin x
      <4>1. x \in SUBSET (1 .. n)
        BY <3>2
      <4>2. G[x] = F[x] /\ F[x] = Step(F, x)
        BY <3>2, <4>1, <2>1
      <4>3. x # {} => G[x \ {Max(x)}] = F[x \ {Max(x)}]
        BY <4>1, <3>2
      <4> QED BY <4>2, <4>3
    <3> QED BY <3>1, <3>2
  <2>3. Eq(G, n + 1)
    <3>1. G = [x \in SUBSET (1 .. n + 1) |-> G[x]]
      OBVIOUS
    <3> HIDE DEF G, Step
    <3> QED BY <2>2, <3>1, Zenon
  <2> HIDE DEF G, Eq
  <2> QED BY <2>3
<1> HIDE DEF S
<1>3. Nat \subseteq S
  BY <1>1, <1>2, NatSetInduction
<1>4. K \in Nat /\ DOMAIN s = 1 .. K
  OBVIOUS
<1> DEFINE E == CHOOSE F : F = [x \in SUBSET DOMAIN s |-> Step(F, x)]
<1>5. E = [x \in SUBSET DOMAIN s |-> Step(E, x)]
  <2>1. \E F : F = [x \in SUBSET DOMAIN s |-> Step(F, x)]
    BY <1>3, <1>4 DEF S
  <2> HIDE DEF Step
  <2> QED BY <2>1
<1>6. FoldLeft(PatRegister, base, s) = E[DOMAIN s]
  BY DEF FoldLeft, MapThenFoldSet
<1> HIDE DEF E
<1> DEFINE P == [i \in 0 .. K |-> E[1 .. i]]
<1>7. P[0] = base
  BY <1>4, <1>5
<1>8. ASSUME NEW i \in 1 .. K PROVE P[i] = PatRegister(P[i - 1], s[i])
  <2>1. Max(1 .. i) = i /\ (1 .. i) # {} /\ (1 .. i) \ {i} = 1 .. i - 1
    BY <1>4, MaxIs
  <2>2. 1 .. i \in SUBSET DOMAIN s
    BY <1>4
  <2>3. E[1 .. i] = PatRegister(E[1 .. i - 1], s[i])
    BY <1>5, <2>1, <2>2
  <2> QED BY <2>3, <1>4
<1>9. FoldLeft(PatRegister, base, s) = P[K]
  BY <1>4, <1>6
<1> HIDE DEF P
<1> QED BY <1>7, <1>8, <1>9 DEF PatUnrolls
(* What the parsers of PES packets remember of a packet, and their look-ups *)
(* one by one.                                                             *)
Remembered(pid, base, names) == FoldLeft(LAMBDA c, n : Remember(c, pid, n), base, names)

(* The same loop for a packet's look-ups. *)
PesUnrolls(P, pid, base, s) ==
  /\ P[0] = base
  /\ \A i \in 1 .. Len(s) : P[i] = Remember(P[i - 1], pid, s[i])
  /\ Remembered(pid, base, s) = P[Len(s)]

LEMMA PesLoop ==
  ASSUME NEW pid, NEW D, NEW s \in Seq(D), NEW base
  PROVE  \E P : PesUnrolls(P, pid, base, s)
<1> DEFINE K == Len(s)
           Step(F, x) == IF x = {} THEN base
                         ELSE LET i == Max(x) IN Remember(F[x \ {i}], pid, s[i])
           Eq(F, n) == F = [x \in SUBSET (1 .. n) |-> Step(F, x)]
           S == {n \in Nat : \E F : Eq(F, n)}
<1>1. 0 \in S
  <2> DEFINE F == [x \in SUBSET (1 .. 0) |-> base]
  <2>1. \A x \in SUBSET (1 .. 0) : Step(F, x) = base
    OBVIOUS
  <2>2. Eq(F, 0)
    BY <2>1
  <2> QED BY <2>2
<1>2. ASSUME NEW n \in Nat, n \in S PROVE n + 1 \in S
  <2>1. PICK F : Eq(F, n)
    BY <1>2
  <2> DEFINE G == [x \in SUBSET (1 .. n + 1) |->
                     IF n + 1 \in x THEN Remember(F[x \ {n + 1}], pid, s[n + 1]) ELSE F[x]]
  <2>2. ASSUME NEW x \in SUBSET (1 .. n + 1) PROVE G[x] = Step(G, x)
    <3>1. CASE n + 1 \in x
      <4>1. Max(x) = n + 1 /\ x # {}
        BY <3>1, MaxIs
      <4>2. x \ {n + 1} \in SUBSET (1 .. n) /\ x \ {n + 1} \in SUBSET (1 .. n + 1) /\ n + 1 \notin x \ {n + 1}
        OBVIOUS
      <4>3. G[x \ {n + 1}] = F[x \ {n + 1}]
        BY <4>2
      <4> QED BY <3>1, <4>1, <4>3
    <3>2. CASE n + 1 \notin x
      <4>1. x \in SUBSET (1 .. n)
        BY <3>2
      <4>2. G[x] = F[x] /\ F[x] = Step(F, x)
        BY <3>2, <4>1, <2>1
      <4>3. x # {} => G[x \ {Max(x)}] = F[x \ {Max(x)}]
        BY <4>1, <3>2
      <4> QED BY <4>2, <4>3
    <3> QED BY <3>1, <3>2
  <2>3. Eq(G, n + 1)
    <3>1. G = [x \in SUBSET (1 .. n + 1) |-> G[x]]
      OBVIOUS
    <3> HIDE DEF G, Step
    <3> QED BY <2>2, <3>1, Zenon
  <2> HIDE DEF G, Eq
  <2> QED BY <2>3
<1> HIDE DEF S
<1>3. Nat \subseteq S
  BY <1>1, <1>2, NatSetInduction
<1>4. K \in Nat /\ DOMAIN s = 1 .. K
  OBVIOUS
<1> DEFINE E == CHOOSE F : F = [x \in SUBSET DOMAIN s |-> Step(F, x)]
<1>5. E = [x \in SUBSET DOMAIN s |-> Step(E, x)]
  <2>1. \E F : F = [x \in SUBSET DOMAIN s |-> Step(F, x)]
    BY <1>3, <1>4 DEF S
  <2> HIDE DEF Step
  <2> QED BY <2>1
<1> DEFINE R == Remembered(pid, base, s)
<1>6. R = E[DOMAIN s]
  BY DEF Remembered, FoldLeft, MapThenFoldSet
<1> HIDE DEF E, R
<1> DEFINE P == [i \in 0 .. K |-> E[1 .. i]]
<1>7. P[0] = base
  BY <1>4, <1>5
<1>8. ASSUME NEW i \in 1 .. K PROVE P[i] = Remember(P[i - 1], pid, s[i])
  <2>1. Max(1 .. i) = i /\ (1 .. i) # {} /\ (1 .. i) \ {i} = 1 .. i - 1
    BY <1>4, MaxIs
  <2>2. 1 .. i \in SUBSET DOMAIN s
    BY <1>4
  <2>3. E[1 .. i] = Remember(E[1 .. i - 1], pid, s[i])
    BY <1>5, <2>1, <2>2
  <2> QED BY <2>3, <1>4
<1>9. R = P[K]
  BY <1>4, <1>6
<1> HIDE DEF P
<1> QED BY <1>7, <1>8, <1>9 DEF R, PesUnrolls, Remembered
(* All calls of a section, and the loop of pmt_parse() that makes them:    *)
AllCalls(t, base, calls) == FoldLeft(LAMBDA u, call : Populate(t, u, call), base, calls)

(* The calls of a section one after the other: what there is after call i. *)
PmtUnrolls(P, t, base, s) ==
  /\ P[0] = base
  /\ \A i \in 1 .. Len(s) : P[i] = Populate(t, P[i - 1], s[i])
  /\ AllCalls(t, base, s) = P[Len(s)]

(* The loop of pmt_parse(), call by call of pmt_populate_stream_dir().      *)
LEMMA PmtLoop ==
  ASSUME NEW t, NEW D, NEW s \in Seq(D), NEW base
  PROVE  \E P : PmtUnrolls(P, t, base, s)
<1> DEFINE K == Len(s)
           Step(F, x) == IF x = {} THEN base
                         ELSE LET i == Max(x) IN Populate(t, F[x \ {i}], s[i])
           Eq(F, n) == F = [x \in SUBSET (1 .. n) |-> Step(F, x)]
           S == {n \in Nat : \E F : Eq(F, n)}
<1>1. 0 \in S
  <2> DEFINE F == [x \in SUBSET (1 .. 0) |-> base]
  <2>1. \A x \in SUBSET (1 .. 0) : Step(F, x) = base
    OBVIOUS
  <2>2. Eq(F, 0)
    BY <2>1
  <2> QED BY <2>2
<1>2. ASSUME NEW n \in Nat, n \in S PROVE n + 1 \in S
  <2>1. PICK F : Eq(F, n)
    BY <1>2
  <2> DEFINE G == [x \in SUBSET (1 .. n + 1) |->
                     IF n + 1 \in x THEN Populate(t, F[x \ {n + 1}], s[n + 1]) ELSE F[x]]
  <2>2. ASSUME NEW x \in SUBSET (1 .. n + 1) PROVE G[x] = Step(G, x)
    <3>1. CASE n + 1 \in x
      <4>1. Max(x) = n + 1 /\ x # {}
        BY <3>1, MaxIs
      <4>2. x \ {n + 1} \in SUBSET (1 .. n) /\ x \ {n + 1} \in SUBSET (1 .. n + 1) /\ n + 1 \notin x \ {n + 1}
        OBVIOUS
      <4>3. G[x \ {n + 1}] = F[x \ {n + 1}]
        BY <4>2
      <4> QED BY <3>1, <4>1, <4>3
    <3>2. CASE n + 1 \notin x
      <4>1. x \in SUBSET (1 .. n)
        BY <3>2
      <4>2. G[x] = F[x] /\ F[x] = Step(F, x)
        BY <3>2, <4>1, <2>1
      <4>3. x # {} => G[x \ {Max(x)}] = F[x \ {Max(x)}]
        BY <4>1, <3>2
      <4> QED BY <4>2, <4>3
    <3> QED BY <3>1, <3>2
  <2>3. Eq(G, n + 1)
    <3>1. G = [x \in SUBSET (1 .. n + 1) |-> G[x]]
      OBVIOUS
    <3> HIDE DEF G, Step
    <3> QED BY <2>2, <3>1, Zenon
  <2> HIDE DEF G, Eq
  <2> QED BY <2>3
<1> HIDE DEF S
<1>3. Nat \subseteq S
  BY <1>1, <1>2, NatSetInduction
<1>4. K \in Nat /\ DOMAIN s = 1 .. K
  OBVIOUS
<1> DEFINE E == CHOOSE F : F = [x \in SUBSET DOMAIN s |-> Step(F, x)]
<1>5. E = [x \in SUBSET DOMAIN s |-> Step(E, x)]
  <2>1. \E F : F = [x \in SUBSET DOMAIN s |-> Step(F, x)]
    BY <1>3, <1>4 DEF S
  <2> HIDE DEF Step
  <2> QED BY <2>1
<1> DEFINE R == AllCalls(t, base, s)
<1>6. R = E[DOMAIN s]
  BY DEF AllCalls, FoldLeft, MapThenFoldSet
<1> HIDE DEF E, R
<1> DEFINE P == [i \in 0 .. K |-> E[1 .. i]]
<1>7. P[0] = base
  BY <1>4, <1>5
<1>8. ASSUME NEW i \in 1 .. K PROVE P[i] = Populate(t, P[i - 1], s[i])
  <2>1. Max(1 .. i) = i /\ (1 .. i) # {} /\ (1 .. i) \ {i} = 1 .. i - 1
    BY <1>4, MaxIs
  <2>2. 1 .. i \in SUBSET DOMAIN s
    BY <1>4
  <2>3. E[1 .. i] = Populate(t, E[1 .. i - 1], s[i])
    BY <1>5, <2>1, <2>2
  <2> QED BY <2>3, <1>4
<1>9. R = P[K]
  BY <1>4, <1>6
<1> HIDE DEF P
<1> QED BY <1>7, <1>8, <1>9 DEF R, PmtUnrolls, AllCalls
(* The calls of a section are of streams it announces.                     *)
LEMMA Flattened ==
  ASSUME NEW D, NEW ss \in Seq(Seq(D))
  PROVE  FlattenSeq(ss) \in Seq(D)
<1> DEFINE K == Len(ss)
           Step(F, i) == IF i = 1 THEN ss[i] ELSE F[i - 1] \o ss[i]
           Eq(F, n) == F = [i \in 1 .. n |-> Step(F, i)]
           S == {n \in Nat : \E F : Eq(F, n)}
<1>1. 0 \in S
  <2> DEFINE F == [i \in 1 .. 0 |-> ss[i]]
  <2>1. F = [i \in 1 .. 0 |-> Step(F, i)]
    <3>1. 1 .. 0 = {}
      OBVIOUS
    <3> QED BY <3>1
  <2> QED BY <2>1
<1>2. ASSUME NEW n \in Nat, n \in S PROVE n + 1 \in S
  <2>1. PICK F : Eq(F, n)
    BY <1>2
  <2> DEFINE G == [i \in 1 .. n + 1 |-> IF i = n + 1 THEN Step(F, n + 1) ELSE F[i]]
  <2>2. ASSUME NEW i \in 1 .. n + 1 PROVE G[i] = Step(G, i)
    <3>1. CASE i = n + 1
      <4>1. i # 1 => G[i - 1] = F[i - 1]
        BY <3>1
      <4> QED BY <3>1, <4>1
    <3>2. CASE i # n + 1
      <4>0. i \in 1 .. n /\ G[i] = F[i]
        BY <3>2
      <4>1. i \in 1 .. n /\ G[i] = F[i] /\ F[i] = Step(F, i)
        <5>1. F[i] = [k \in 1 .. n |-> Step(F, k)][i]
          BY <2>1
        <5> HIDE DEF Step, G
        <5> QED BY <4>0, <5>1
      <4>2. i # 1 => G[i - 1] = F[i - 1]
        BY <4>1
      <4> QED BY <4>1, <4>2
    <3> QED BY <3>1, <3>2
  <2>3. Eq(G, n + 1)
    <3>1. G = [i \in 1 .. n + 1 |-> G[i]]
      OBVIOUS
    <3> HIDE DEF G, Step
    <3> QED BY <2>2, <3>1, Zenon
  <2> HIDE DEF G, Eq
  <2> QED BY <2>3
<1> HIDE DEF S
<1>3. Nat \subseteq S
  BY <1>1, <1>2, NatSetInduction
<1>4. K \in Nat /\ DOMAIN ss = 1 .. K /\ \A i \in 1 .. K : ss[i] \in Seq(D)
  OBVIOUS
<1> DEFINE E == CHOOSE F : F = [i \in 1 .. Len(ss) |-> Step(F, i)]
<1>5. E = [i \in 1 .. K |-> Step(E, i)]
  <2>1. \E F : F = [i \in 1 .. Len(ss) |-> Step(F, i)]
    BY <1>3, <1>4 DEF S
  <2> HIDE DEF Step
  <2> QED BY <2>1
<1>0. \A i \in 1 .. K : E[i] = Step(E, i)
  <2> HIDE DEF E, Step
  <2> QED BY <1>5
<1>6. K # 0 => FlattenSeq(ss) = E[K]
  BY DEF FlattenSeq
<1> HIDE DEF E
<1> DEFINE T == {n \in Nat : n \in 1 .. K => E[n] \in Seq(D)}
<1>7. 0 \in T
  OBVIOUS
<1>8. ASSUME NEW n \in Nat, n \in T PROVE n + 1 \in T
  <2> SUFFICES ASSUME n + 1 \in 1 .. K PROVE E[n + 1] \in Seq(D)
    OBVIOUS
  <2>1. ss[n + 1] \in Seq(D)
    BY <1>4
  <2>2. E[n + 1] = IF n + 1 = 1 THEN ss[n + 1] ELSE E[n + 1 - 1] \o ss[n + 1]
    BY <1>0
  <2>3. n # 0 => n \in 1 .. K /\ n + 1 - 1 = n
    BY <1>4
  <2>4. n # 0 => E[n] \in Seq(D)
    BY <1>8, <2>3
  <2> QED BY <2>1, <2>2, <2>3, <2>4
<1> HIDE DEF T
<1>9. Nat \subseteq T
  BY <1>7, <1>8, NatSetInduction
<1>10. CASE K = 0
  <2>1. ss = <<>>
    BY <1>10
  <2> QED BY <1>10, <2>1 DEF FlattenSeq
<1>11. CASE K # 0
  BY <1>4, <1>6, <1>9, <1>11 DEF T
<1> QED BY <1>10, <1>11

Tag == {NoTag} \cup (0 .. 255)
Stream == [pid : StreamPids, type : 0 .. 255, tags : Seq(Tag)]
Call == [stream : Stream, tag : Tag]

LEMMA CallsAre == ASSUME NEW t \in Pmts PROVE Calls(t) \in Seq(Call)
<1>1. t.streams \in Seq([pid : Pids, type : 0 .. 255, tags : Seq(Tag)])
  BY RegistryAssumption DEF Tag
<1>2. \A i \in DOMAIN t.streams : t.streams[i] \in Stream
  <2> TAKE i \in DOMAIN t.streams
  <2>1. t.streams[i] \in [pid : Pids, type : 0 .. 255, tags : Seq(Tag)]
    <3> DEFINE X == [pid : Pids, type : 0 .. 255, tags : Seq(Tag)]
    <3>1. t.streams \in Seq(X)
      BY <1>1
    <3> HIDE DEF X
    <3>2. t.streams[i] \in X
      BY <3>1
    <3> QED BY <3>2 DEF X
  <2>2. t.streams[i].pid \in StreamPids
    BY DEF StreamPids
  <2> QED BY <2>1, <2>2 DEF Stream
<1> DEFINE Of(i) == IF t.streams[i].tags = <<>>
                      THEN <<[stream |-> t.streams[i], tag |-> NoTag]>>
                      ELSE [j \in DOMAIN t.streams[i].tags |->
                              [stream |-> t.streams[i], tag |-> t.streams[i].tags[j]]]
           K == Len(t.streams)
<1>3. ASSUME NEW i \in 1 .. K PROVE Of(i) \in Seq(Call)
  <2> DEFINE m == t.streams[i]
  <2>1. m \in Stream
    BY <1>1, <1>2
  <2> HIDE DEF m
  <2>2. m.tags \in Seq(Tag)
    BY <2>1 DEF Stream
  <2>3. <<[stream |-> m, tag |-> NoTag]>> \in Seq(Call)
    BY <2>1 DEF Call, Tag
  <2> DEFINE n == Len(m.tags)
             q == [j \in 1 .. n |-> [stream |-> m, tag |-> m.tags[j]]]
  <2>4. n \in Nat /\ DOMAIN m.tags = 1 .. n /\ \A j \in 1 .. n : m.tags[j] \in Tag
    BY <2>2
  <2>5. \A j \in 1 .. n : [stream |-> m, tag |-> m.tags[j]] \in Call
    BY <2>1, <2>4 DEF Call
  <2>6. q \in [1 .. n -> Call]
    BY <2>5
  <2>7. q \in Seq(Call)
    BY <2>4, <2>6, SeqDef, ZenonT(60)
  <2> QED BY <2>3, <2>4, <2>7 DEF m
<1> HIDE DEF Of
<1>4. K \in Nat /\ DOMAIN t.streams = 1 .. K
  BY <1>1
<1>5. [i \in 1 .. K |-> Of(i)] \in Seq(Seq(Call))
  <2>1. [i \in 1 .. K |-> Of(i)] \in [1 .. K -> Seq(Call)]
    BY <1>3
  <2> QED BY <1>4, <2>1, SeqDef
<1>6. Calls(t) = FlattenSeq([i \in 1 .. K |-> Of(i)])
  BY <1>4 DEF Calls, Of
<1> QED BY <1>5, <1>6, Flattened
-----------------------------------------------------------------------------
Parsers == {"nit_parse", "pmt_parse", "dsmcc_parse", "pes_parse_other"}
PesParsers == {"pes_parse_audio", "pes_parse_video"}
PmtPids == {t.pid : t \in Pmts}
Marks == Dirs \X {"Primary", "Secondary"}

Bounded(table) == IsFiniteSet(DOMAIN table) /\ Cardinality(DOMAIN table) <= MaxPids

(* A table that was added to: what it has, no key is lost, and a full one  *)
(* takes no more.                                                          *)
Grown(f, g) ==
  /\ DOMAIN f \subseteq DOMAIN g
  /\ Full(f) => DOMAIN g = DOMAIN f

Announced(psi, pes, links, grown) ==
  /\ DOMAIN pes \subseteq DOMAIN links
  /\ \A p \in DOMAIN links :
       \/ Full(psi) \/ p \in DOMAIN psi
       \/ \A i \in DOMAIN Names :
            \E f \in grown : f.dir = links[p] /\ f.pid = p /\ f.name = Names[i]

StreamsAnnounced == Updated \/ Announced(psi_parsers, pes_parsers, streams, fifos)

IInv ==
  /\ TypeOK
  /\ Bounded(psi_tables) /\ Bounded(psi_parsers) /\ Bounded(pes_parsers) /\ Bounded(pes_tables)
  /\ CacheLive /\ StreamsAnnounced /\ EndsOnlyAfterUpdate /\ Registered

LEMMA GrownTwice ==
  ASSUME NEW f, NEW g, NEW h, Grown(f, g), Grown(g, h)
  PROVE  Grown(f, h)
BY DEF Grown, Full

LEMMA PutIs ==
  ASSUME NEW f, NEW k, NEW v, NEW g, g = Put(f, k, v)
  PROVE  /\ Grown(f, g)
         /\ DOMAIN g \subseteq DOMAIN f \cup {k}
         /\ k \in DOMAIN g \/ Full(f)
         /\ \A x \in DOMAIN f : x # k => g[x] = f[x]
         /\ k \in DOMAIN g => g[k] = v
         /\ Bounded(f) => Bounded(g)
<1>1. CASE k \notin DOMAIN f /\ Full(f)
  <2>1. g = f
    BY <1>1 DEF Put, Full
  <2> QED BY <2>1, <1>1 DEF Grown
<1>2. CASE ~ (k \notin DOMAIN f /\ Full(f))
  <2>1. g = With(f, k, v)
    BY <1>2 DEF Put, Full
  <2>4. DOMAIN g = DOMAIN f \cup {k} /\ g[k] = v /\ \A x \in DOMAIN f : x # k => g[x] = f[x]
    BY <2>1 DEF With
  <2>5. k \in DOMAIN f => DOMAIN g = DOMAIN f
    BY <2>4
  <2>6. Grown(f, g)
    BY <1>2, <2>4, <2>5 DEF Grown
  <2>7. ASSUME Bounded(f) PROVE Bounded(g)
    <3>1. CASE k \in DOMAIN f
      BY <2>5, <2>7, <3>1 DEF Bounded
    <3>2. CASE k \notin DOMAIN f
      <4>1. IsFiniteSet(DOMAIN f) /\ Cardinality(DOMAIN f) <= MaxPids /\ Cardinality(DOMAIN f) # MaxPids
        BY <1>2, <2>7, <3>2 DEF Bounded, Full
      <4>2. Cardinality(DOMAIN f) \in Nat /\ MaxPids \in Nat
        BY <4>1, FS_CardinalityType, RegistryAssumption
      <4>3. IsFiniteSet(DOMAIN g) /\ Cardinality(DOMAIN g) = Cardinality(DOMAIN f) + 1
        BY <2>4, <3>2, <4>1, FS_AddElement
      <4> QED BY <4>1, <4>2, <4>3 DEF Bounded
    <3> QED BY <3>1, <3>2
  <2> QED BY <2>4, <2>6, <2>7
<1> QED BY <1>1, <1>2

LEMMA PutTyped ==
  ASSUME NEW f, NEW K, NEW V, NEW k \in K, NEW v \in V, IsMap(f, K, V)
  PROVE  IsMap(Put(f, k, v), K, V)
<1>1. PICK g : g = Put(f, k, v)
  OBVIOUS
<1>2. /\ DOMAIN g \subseteq DOMAIN f \cup {k}
      /\ \A x \in DOMAIN f : x # k => g[x] = f[x]
      /\ k \in DOMAIN g => g[k] = v
  BY <1>1, PutIs
<1>3. IsMap(g, K, V)
  BY <1>2 DEF IsMap
<1> QED BY <1>1, <1>3

(* The same where a key that is there is left alone.                       *)
LEMMA AbsentIs ==
  ASSUME NEW f, NEW K, NEW V, NEW k \in K, NEW v \in V, IsMap(f, K, V), Bounded(f),
         NEW g, g = PutIfAbsent(f, k, v)
  PROVE  /\ IsMap(g, K, V) /\ Bounded(g) /\ Grown(f, g)
         /\ DOMAIN g \subseteq DOMAIN f \cup {k}
         /\ k \in DOMAIN g \/ Full(f)
         /\ \A x \in DOMAIN f : g[x] = f[x]
         /\ k \in DOMAIN g \ DOMAIN f => g[k] = v
<1>1. CASE k \in DOMAIN f
  <2>1. g = f
    BY <1>1 DEF PutIfAbsent
  <2> QED BY <1>1, <2>1 DEF Grown
<1>2. CASE k \notin DOMAIN f
  <2>1. g = Put(f, k, v)
    BY <1>2 DEF PutIfAbsent
  <2>2. IsMap(g, K, V)
    BY <2>1, PutTyped
  <2> QED BY <1>2, <2>1, <2>2, PutIs
<1> QED BY <1>1, <1>2

-----------------------------------------------------------------------------
LEMMA NameIs ==
  ASSUME NEW type \in 0 .. 255, NEW tag \in Tag
  PROVE  StreamsName(type, tag) \in
           {"", "OneSeg"} \X {"Video", "Audio", "ClosedCaption", "Superimposed",
            "ObjectCarousel", "DataCarousel", "EventMessage", "Mpe", "Reserved"}
<1>1. Component(tag) \in {"Video", "Audio", "ClosedCaption", "Superimposed", "ObjectCarousel",
                          "DataCarousel", "EventMessage", "Reserved"}
  BY DEF Component
<1>2. CASE tag # NoTag
  BY <1>1, <1>2 DEF StreamsName
<1>3. CASE tag = NoTag
  BY <1>3 DEF StreamsName
<1> QED BY <1>2, <1>3

LEMMA LabelIs ==
  ASSUME NEW tag \in Tag, Label(tag) # None
  PROVE  Label(tag) \in {"Primary", "Secondary"}
BY DEF Label, PrimaryTag

LEMMA LinkHas ==
  ASSUME NEW f, NEW k, NEW v, NEW g, g = Link(f, k, v)
  PROVE  DOMAIN g = DOMAIN f \cup {k} /\ (k \notin DOMAIN f => g[k] = v)
BY DEF Link, With

LEMMA LinkKeeps ==
  ASSUME NEW f, NEW k, NEW v, NEW g, g = Link(f, k, v), NEW x \in DOMAIN f
  PROVE  g[x] = f[x]
BY DEF Link, With

LEMMA LinkTyped ==
  ASSUME NEW f, NEW K, NEW V, NEW k \in K, NEW v \in V, IsMap(f, K, V)
  PROVE  IsMap(Link(f, k, v), K, V)
<1>1. PICK g : g = Link(f, k, v)
  OBVIOUS
<1>2. DOMAIN g = DOMAIN f \cup {k} /\ (k \notin DOMAIN f => g[k] = v)
  BY <1>1, LinkHas
<1>3. \A x \in DOMAIN f : g[x] = f[x]
  BY <1>1, LinkKeeps
<1>4. IsMap(g, K, V)
  BY <1>2, <1>3 DEF IsMap
<1> QED BY <1>1, <1>4

(* What pmt_parse() has made of a section so far.                          *)
Kept(s) ==
  /\ s = [psi |-> s.psi, pes |-> s.pes, streams |-> s.streams, fifos |-> s.fifos, marks |-> s.marks]
  /\ IsMap(s.psi, Pids, Parsers) /\ Bounded(s.psi) /\ Grown(psi_parsers, s.psi)
  /\ IsMap(s.pes, StreamPids, PesParsers) /\ Bounded(s.pes)
  /\ IsMap(s.streams, StreamPids, Dirs) /\ DOMAIN streams \subseteq DOMAIN s.streams
  /\ \A p \in DOMAIN streams : s.streams[p] = streams[p]
  /\ s.fifos \subseteq Fifos /\ fifos \subseteq s.fifos
  /\ IsMap(s.marks, Marks, StreamPids)
  /\ Announced(psi_parsers, pes_parsers, streams, fifos) =>
       Announced(s.psi, s.pes, s.streams, s.fifos)

LEMMA NewFifosAre ==
  ASSUME NEW dir \in Dirs, NEW stream \in Stream, life \in [PmtPids -> 0 .. MaxUpdates]
  PROVE  /\ NewFifos(dir, stream) \subseteq Fifos
         /\ IsAudio(stream.type) \/ IsVideo(stream.type) =>
              \A i \in DOMAIN Names :
                \E f \in NewFifos(dir, stream) : f.dir = dir /\ f.pid = stream.pid /\ f.name = Names[i]
<1> DEFINE N == IF ParsePes THEN {"PES", "ES"} ELSE {"PES"}
           F(n) == [dir |-> dir, pid |-> stream.pid, name |-> n, life |-> life[dir.pmt]]
<1>1. life[dir.pmt] \in 0 .. MaxUpdates /\ stream.pid \in StreamPids
  BY DEF Dirs, PmtPids, Stream
<1>2. \A n \in N : F(n) \in Fifos
  BY <1>1 DEF Fifos
<1>3. NewFifos(dir, stream) = IF IsAudio(stream.type) \/ IsVideo(stream.type) THEN {F(n) : n \in N} ELSE {}
  BY DEF NewFifos
<1>4. \A i \in DOMAIN Names : Names[i] \in N
  BY DEF Names
<1>5. \A n \in N : F(n).dir = dir /\ F(n).pid = stream.pid /\ F(n).name = n
  OBVIOUS
<1> HIDE DEF F, N
<1> QED BY <1>2, <1>3, <1>4, <1>5

LEMMA StreamPidsAre == StreamPids \subseteq Pids
<1> SUFFICES ASSUME NEW t \in Pmts, NEW i \in DOMAIN t.streams PROVE t.streams[i].pid \in Pids
  BY DEF StreamPids
<1>1. t.streams \in Seq([pid : Pids, type : 0 .. 255, tags : Seq(Tag)])
  BY RegistryAssumption DEF Tag
<1> DEFINE X == [pid : Pids, type : 0 .. 255, tags : Seq(Tag)]
<1>2. t.streams \in Seq(X)
  BY <1>1
<1> HIDE DEF X
<1>3. t.streams[i] \in X
  BY <1>2
<1> QED BY <1>3 DEF X

(* The tables a stream is registered in.                                   *)
LEMMA RegisterIs ==
  ASSUME NEW s, NEW stream \in Stream, NEW r, r = Register(s, stream),
         s = [psi |-> s.psi, pes |-> s.pes, streams |-> s.streams, fifos |-> s.fifos, marks |-> s.marks],
         IsMap(s.psi, Pids, Parsers), Bounded(s.psi),
         IsMap(s.pes, StreamPids, PesParsers), Bounded(s.pes)
  PROVE  /\ r = [psi |-> r.psi, pes |-> r.pes, streams |-> s.streams, fifos |-> s.fifos, marks |-> s.marks]
         /\ IsMap(r.psi, Pids, Parsers) /\ Bounded(r.psi) /\ Grown(s.psi, r.psi)
         /\ IsMap(r.pes, StreamPids, PesParsers) /\ Bounded(r.pes)
         /\ DOMAIN r.pes \subseteq DOMAIN s.pes \cup {stream.pid}
         /\ \/ IsAudio(stream.type) \/ IsVideo(stream.type)
            \/ stream.pid \in DOMAIN s.pes
            \/ stream.pid \in DOMAIN r.psi \/ Full(r.psi)
<1>1. stream.pid \in StreamPids /\ stream.pid \in Pids
  BY StreamPidsAre DEF Stream
<1>2. \A f, g : Grown(f, g) => (Full(f) => Full(g))
  BY DEF Grown, Full
<1>3. Grown(s.psi, s.psi)
  BY DEF Grown
<1> DEFINE d == PutIfAbsent(s.psi, stream.pid, "dsmcc_parse")
           a == PutIfAbsent(s.pes, stream.pid, "pes_parse_audio")
           v == PutIfAbsent(s.pes, stream.pid, "pes_parse_video")
           o == Put(s.psi, stream.pid, "pes_parse_other")
<1>4. CASE IsDsmcc(stream.type)
  <2>0. ~ IsAudio(stream.type) /\ ~ IsVideo(stream.type)
    BY <1>4 DEF IsDsmcc, IsAudio, IsVideo, IsDataCarousel, IsEventMessage, IsMpe, IsObjectCarousel
  <2>1. r = [s EXCEPT !.psi = d]
    BY <1>4, <2>0 DEF Register
  <2>2. IsMap(d, Pids, Parsers) /\ Bounded(d) /\ Grown(s.psi, d) /\ (stream.pid \in DOMAIN d \/ Full(s.psi))
    BY <1>1, AbsentIs DEF Parsers
  <2> HIDE DEF d
  <2>3. r = [psi |-> d, pes |-> s.pes, streams |-> s.streams, fifos |-> s.fifos, marks |-> s.marks]
    BY <2>1
  <2> QED BY <1>2, <2>2, <2>3
<1>5. CASE ~ IsDsmcc(stream.type) /\ IsAudio(stream.type)
  <2>1. r = [s EXCEPT !.pes = a]
    BY <1>5 DEF Register, IsAudio, IsVideo
  <2>2. IsMap(a, StreamPids, PesParsers) /\ Bounded(a) /\ DOMAIN a \subseteq DOMAIN s.pes \cup {stream.pid}
    BY <1>1, AbsentIs DEF PesParsers
  <2> HIDE DEF a
  <2>3. r = [psi |-> s.psi, pes |-> a, streams |-> s.streams, fifos |-> s.fifos, marks |-> s.marks]
    BY <2>1
  <2> QED BY <1>3, <1>5, <2>2, <2>3
<1>6. CASE ~ IsDsmcc(stream.type) /\ ~ IsAudio(stream.type) /\ IsVideo(stream.type)
  <2>1. r = [s EXCEPT !.pes = v]
    BY <1>6 DEF Register
  <2>2. IsMap(v, StreamPids, PesParsers) /\ Bounded(v) /\ DOMAIN v \subseteq DOMAIN s.pes \cup {stream.pid}
    BY <1>1, AbsentIs DEF PesParsers
  <2> HIDE DEF v
  <2>3. r = [psi |-> s.psi, pes |-> v, streams |-> s.streams, fifos |-> s.fifos, marks |-> s.marks]
    BY <2>1
  <2> QED BY <1>3, <1>6, <2>2, <2>3
<1>7. CASE ~ IsDsmcc(stream.type) /\ ~ IsAudio(stream.type) /\ ~ IsVideo(stream.type)
  <2>1. r = [s EXCEPT !.psi = IF stream.pid \in DOMAIN s.pes THEN s.psi ELSE o]
    BY <1>7 DEF Register
  <2>2. IsMap(o, Pids, Parsers) /\ Bounded(o) /\ Grown(s.psi, o) /\ (stream.pid \in DOMAIN o \/ Full(s.psi))
    <3>1. IsMap(o, Pids, Parsers)
      BY <1>1, PutTyped DEF Parsers
    <3> QED BY <3>1, PutIs
  <2> HIDE DEF o
  <2>3. r = [psi |-> IF stream.pid \in DOMAIN s.pes THEN s.psi ELSE o,
             pes |-> s.pes, streams |-> s.streams, fifos |-> s.fifos, marks |-> s.marks]
    BY <2>1
  <2>4. r.psi = IF stream.pid \in DOMAIN s.pes THEN s.psi ELSE o
    BY <2>3
  <2> QED BY <1>2, <1>3, <2>2, <2>3, <2>4
<1> QED BY <1>4, <1>5, <1>6, <1>7

LEMMA PopulateKeeps ==
  ASSUME NEW t \in Pmts, life \in [PmtPids -> 0 .. MaxUpdates],
         NEW s, Kept(s), NEW call \in Call
  PROVE  Kept(Populate(t, s, call))
<1> DEFINE stream == call.stream
           pid == call.stream.pid
           dir == [pmt |-> t.pid, version |-> t.version,
                   streams |-> StreamsName(call.stream.type, call.tag)]
           links == Link(s.streams, pid, dir)
           grown == s.fifos \cup NewFifos(dir, stream)
           label == Label(call.tag)
           marked == IF label = None THEN s.marks ELSE Link(s.marks, <<dir, label>>, pid)
           u == [psi |-> s.psi, pes |-> s.pes, streams |-> links, fifos |-> grown, marks |-> marked]
           r == Register(u, stream)
<1>1. stream \in Stream /\ call.tag \in Tag /\ pid \in StreamPids /\ stream.type \in 0 .. 255
  BY DEF Call, Stream
<1>2. dir \in Dirs
  <2>1. StreamsName(call.stream.type, call.tag) \in
           {"", "OneSeg"} \X {"Video", "Audio", "ClosedCaption", "Superimposed",
            "ObjectCarousel", "DataCarousel", "EventMessage", "Mpe", "Reserved"}
    BY <1>1, NameIs
  <2>2. t.pid \in {x.pid : x \in Pmts} /\ t.version \in {x.version : x \in Pmts}
    OBVIOUS
  <2> QED BY <2>1, <2>2 DEF Dirs
<1>3. /\ IsMap(links, StreamPids, Dirs) /\ DOMAIN links = DOMAIN s.streams \cup {pid}
      /\ \A x \in DOMAIN s.streams : links[x] = s.streams[x]
      /\ pid \notin DOMAIN s.streams => links[pid] = dir
  <2>1. IsMap(s.streams, StreamPids, Dirs)
    BY DEF Kept
  <2>2. PICK g : g = links
    OBVIOUS
  <2> HIDE DEF dir, pid
  <2>3. g = Link(s.streams, pid, dir)
    BY <2>2
  <2> HIDE DEF links
  <2>4. /\ IsMap(g, StreamPids, Dirs) /\ DOMAIN g = DOMAIN s.streams \cup {pid}
        /\ \A x \in DOMAIN s.streams : g[x] = s.streams[x]
        /\ pid \notin DOMAIN s.streams => g[pid] = dir
    <3>1. IsMap(g, StreamPids, Dirs)
      BY <1>1, <1>2, <2>1, <2>3, LinkTyped
    <3>2. DOMAIN g = DOMAIN s.streams \cup {pid} /\ (pid \notin DOMAIN s.streams => g[pid] = dir)
      BY <2>3, LinkHas
    <3>3. \A x \in DOMAIN s.streams : g[x] = s.streams[x]
      BY <2>3, LinkKeeps
    <3> QED BY <3>1, <3>2, <3>3
  <2> QED BY <2>2, <2>4
<1>4. /\ grown \subseteq Fifos /\ s.fifos \subseteq grown
      /\ IsAudio(stream.type) \/ IsVideo(stream.type) =>
           \A i \in DOMAIN Names : \E f \in grown : f.dir = dir /\ f.pid = pid /\ f.name = Names[i]
  <2> HIDE DEF dir
  <2>1. /\ NewFifos(dir, stream) \subseteq Fifos
        /\ IsAudio(stream.type) \/ IsVideo(stream.type) =>
             \A i \in DOMAIN Names :
               \E f \in NewFifos(dir, stream) : f.dir = dir /\ f.pid = pid /\ f.name = Names[i]
    BY <1>1, <1>2, NewFifosAre
  <2> QED BY <2>1 DEF Kept
<1>5. IsMap(marked, Marks, StreamPids)
  <2>1. CASE label = None
    BY <2>1 DEF Kept
  <2>2. CASE label # None
    <3>1. label \in {"Primary", "Secondary"}
      BY <1>1, <2>2, LabelIs
    <3> HIDE DEF dir, label
    <3>2. <<dir, label>> \in Marks
      BY <1>2, <3>1 DEF Marks
    <3> QED BY <1>1, <2>2, <3>2, LinkTyped DEF Kept
  <2> QED BY <2>1, <2>2
<1> HIDE DEF dir, links, grown, label
<1>6. u = [psi |-> s.psi, pes |-> s.pes, streams |-> links, fifos |-> grown, marks |-> marked]
  OBVIOUS
<1>7. Populate(t, s, call) = r
  <2> DEFINE created == [s EXCEPT !.fifos = grown]
             linked == [created EXCEPT !.streams = links]
             all == IF label = None THEN linked ELSE [linked EXCEPT !.marks = Link(linked.marks, <<dir, label>>, pid)]
  <2>1. s = [psi |-> s.psi, pes |-> s.pes, streams |-> s.streams, fifos |-> s.fifos, marks |-> s.marks]
    BY DEF Kept
  <2>2. created = [psi |-> s.psi, pes |-> s.pes, streams |-> s.streams, fifos |-> grown, marks |-> s.marks]
    BY <2>1
  <2>3. Populate(t, s, call) = Register(all, stream)
    BY <2>1, <2>2 DEF Populate, dir, links, grown, label
  <2> HIDE DEF created
  <2>4. linked = [psi |-> s.psi, pes |-> s.pes, streams |-> links, fifos |-> grown, marks |-> s.marks]
    BY <2>2
  <2> HIDE DEF linked
  <2>5. all = u
    BY <2>4
  <2> QED BY <2>3, <2>5
<1> HIDE DEF marked, u
<1>8. PICK q : q = r
  OBVIOUS
<1> HIDE DEF r
<1>9. u.psi = s.psi /\ u.pes = s.pes /\ u.streams = links /\ u.fifos = grown /\ u.marks = marked
  BY <1>6
<1>10. /\ q = [psi |-> q.psi, pes |-> q.pes, streams |-> u.streams, fifos |-> u.fifos, marks |-> u.marks]
       /\ IsMap(q.psi, Pids, Parsers) /\ Bounded(q.psi) /\ Grown(u.psi, q.psi)
       /\ IsMap(q.pes, StreamPids, PesParsers) /\ Bounded(q.pes)
       /\ DOMAIN q.pes \subseteq DOMAIN u.pes \cup {stream.pid}
       /\ \/ IsAudio(stream.type) \/ IsVideo(stream.type)
          \/ stream.pid \in DOMAIN u.pes
          \/ stream.pid \in DOMAIN q.psi \/ Full(q.psi)
  <2>1. u = [psi |-> u.psi, pes |-> u.pes, streams |-> u.streams, fifos |-> u.fifos, marks |-> u.marks]
    BY <1>6, <1>9
  <2>2. IsMap(u.psi, Pids, Parsers) /\ Bounded(u.psi) /\ IsMap(u.pes, StreamPids, PesParsers) /\ Bounded(u.pes)
    BY <1>9 DEF Kept
  <2> HIDE DEF stream
  <2> QED BY <1>1, <1>8, <2>1, <2>2, RegisterIs DEF r
<1>11. q.streams = links /\ q.fifos = grown /\ q.marks = marked
  BY <1>9, <1>10
<1>12. Grown(psi_parsers, q.psi)
  BY <1>9, <1>10, GrownTwice DEF Kept
<1>13. ASSUME Announced(s.psi, s.pes, s.streams, s.fifos)
       PROVE  Announced(q.psi, q.pes, links, grown)
  <2>1. DOMAIN q.pes \subseteq DOMAIN links
    BY <1>3, <1>9, <1>10, <1>13 DEF Announced
  <2>2. ASSUME NEW p \in DOMAIN links, ~ Full(q.psi), p \notin DOMAIN q.psi, NEW i \in DOMAIN Names
        PROVE  \E f \in grown : f.dir = links[p] /\ f.pid = p /\ f.name = Names[i]
    <3>1. ~ Full(s.psi) /\ p \notin DOMAIN s.psi
      BY <1>9, <1>10, <2>2 DEF Grown, Full
    <3>2. CASE p \in DOMAIN s.streams
      <4>1. \E f \in s.fifos : f.dir = s.streams[p] /\ f.pid = p /\ f.name = Names[i]
        BY <1>13, <3>1, <3>2 DEF Announced
      <4> QED BY <1>3, <1>4, <3>2, <4>1
    <3>3. CASE p \notin DOMAIN s.streams
      <4>1. p = pid /\ links[p] = dir /\ p \notin DOMAIN s.pes
        BY <1>3, <1>13, <3>3 DEF Announced
      <4>2. IsAudio(stream.type) \/ IsVideo(stream.type)
        BY <1>9, <1>10, <2>2, <4>1
      <4> QED BY <1>4, <4>1, <4>2
    <3> QED BY <3>2, <3>3
  <2> QED BY <2>1, <2>2 DEF Announced
<1>14. /\ DOMAIN streams \subseteq DOMAIN links
       /\ \A p \in DOMAIN streams : links[p] = streams[p]
       /\ fifos \subseteq grown
  BY <1>3, <1>4 DEF Kept
<1>15. Announced(psi_parsers, pes_parsers, streams, fifos) => Announced(q.psi, q.pes, q.streams, q.fifos)
  BY <1>11, <1>13 DEF Kept
<1>16. q = [psi |-> q.psi, pes |-> q.pes, streams |-> q.streams, fifos |-> q.fifos, marks |-> q.marks]
  BY <1>9, <1>10, <1>11
<1>17. Kept(q)
  BY <1>3, <1>4, <1>5, <1>10, <1>11, <1>12, <1>14, <1>15, <1>16 DEF Kept
<1> QED BY <1>7, <1>8, <1>17

(* What pmt_parse() makes of a section with any number of streams.         *)
LEMMA PopulatedKeeps ==
  ASSUME NEW t \in Pmts, IInv
  PROVE  Kept(Populated(t))
<1> DEFINE base == [psi |-> psi_parsers, pes |-> pes_parsers, streams |-> streams,
                    fifos |-> fifos, marks |-> marks]
           c == Calls(t)
<1>1. life \in [PmtPids -> 0 .. MaxUpdates]
  BY DEF IInv, TypeOK, PmtPids
<1>2. Kept(base)
  <2>1. /\ IsMap(psi_parsers, Pids, Parsers) /\ IsMap(pes_parsers, StreamPids, PesParsers)
        /\ IsMap(streams, StreamPids, Dirs) /\ fifos \subseteq Fifos /\ IsMap(marks, Marks, StreamPids)
        /\ Bounded(psi_parsers) /\ Bounded(pes_parsers)
    BY DEF IInv, TypeOK, Parsers, PesParsers, Marks
  <2>2. Grown(psi_parsers, psi_parsers)
    BY DEF Grown
  <2> QED BY <2>1, <2>2 DEF Kept
<1>3. c \in Seq(Call)
  BY CallsAre
<1> HIDE DEF base, c
<1>4. PICK P : /\ P[0] = base
               /\ \A i \in 1 .. Len(c) : P[i] = Populate(t, P[i - 1], c[i])
               /\ AllCalls(t, base, c) = P[Len(c)]
  <2>1. PICK P : PmtUnrolls(P, t, base, c)
    BY <1>3, PmtLoop
  <2> QED BY <2>1 DEF PmtUnrolls
<1> DEFINE S == {n \in Nat : n <= Len(c) => Kept(P[n])}
<1>5. 0 \in S
  BY <1>2, <1>4
<1>6. ASSUME NEW n \in Nat, n \in S PROVE n + 1 \in S
  <2> SUFFICES ASSUME n + 1 <= Len(c) PROVE Kept(P[n + 1])
    OBVIOUS
  <2>1. Len(c) \in Nat /\ \A i \in 1 .. Len(c) : c[i] \in Call
    BY <1>3
  <2>2. Kept(P[n])
    BY <1>6, <2>1
  <2>3. c[n + 1] \in Call
    BY <2>1
  <2>4. P[n + 1] = Populate(t, P[n], c[n + 1])
    <3>1. n + 1 \in 1 .. Len(c) /\ n + 1 - 1 = n
      BY <2>1
    <3>2. P[n + 1] = Populate(t, P[n + 1 - 1], c[n + 1])
      BY <1>4, <3>1
    <3> QED BY <3>1, <3>2
  <2> QED BY <1>1, <2>2, <2>3, <2>4, PopulateKeeps
<1> HIDE DEF S
<1>7. Nat \subseteq S
  BY <1>5, <1>6, NatSetInduction
<1>8. Kept(P[Len(c)])
  <2>1. Len(c) \in Nat /\ Len(c) <= Len(c)
    BY <1>3
  <2> QED BY <1>7, <2>1 DEF S
<1>9. Populated(t) = AllCalls(t, base, c)
  BY DEF Populated, AllCalls, base, c
<1> QED BY <1>4, <1>8, <1>9

-----------------------------------------------------------------------------
LEMMA FullStays == ASSUME NEW f, NEW g, Grown(f, g), Full(f) PROVE Full(g)
BY DEF Grown, Full

(* Every program of a PAT is registered, unless its PID is a table's key.  *)
LEMMA PatKeeps ==
  ASSUME NEW t \in Pats, IInv, NEW q, q = FoldLeft(PatRegister, psi_parsers, t.programs)
  PROVE  /\ IsMap(q, Pids, Parsers) /\ Bounded(q) /\ Grown(psi_parsers, q)
         /\ \A j \in DOMAIN t.programs :
              t.programs[j].pid \in DOMAIN q \cup DOMAIN psi_tables \/ Full(q)
<1> DEFINE c == t.programs
           X == [number : Nat, pid : Pids]
<1>1. c \in Seq(X)
  BY RegistryAssumption
<1>2. Len(c) \in Nat /\ DOMAIN c = 1 .. Len(c) /\ \A i \in 1 .. Len(c) : c[i].pid \in Pids
  <2> HIDE DEF c, X
  <2>1. Len(c) \in Nat /\ DOMAIN c = 1 .. Len(c) /\ \A i \in 1 .. Len(c) : c[i] \in X
    BY <1>1
  <2> QED BY <2>1 DEF X
<1> HIDE DEF c, X
<1>3. PICK P : /\ P[0] = psi_parsers
               /\ \A i \in 1 .. Len(c) : P[i] = PatRegister(P[i - 1], c[i])
               /\ FoldLeft(PatRegister, psi_parsers, c) = P[Len(c)]
  <2>1. PICK P : PatUnrolls(P, psi_parsers, c)
    BY <1>1, PatLoop
  <2> QED BY <2>1 DEF PatUnrolls
<1> DEFINE Good(n) == /\ IsMap(P[n], Pids, Parsers) /\ Bounded(P[n]) /\ Grown(psi_parsers, P[n])
                      /\ \A j \in 1 .. n : c[j].pid \in DOMAIN P[n] \cup DOMAIN psi_tables \/ Full(P[n])
           S == {n \in Nat : n <= Len(c) => Good(n)}
<1>4. 0 \in S
  <2>1. IsMap(psi_parsers, Pids, Parsers) /\ Bounded(psi_parsers) /\ Grown(psi_parsers, psi_parsers)
    BY DEF IInv, TypeOK, Parsers, Grown
  <2> QED BY <1>3, <2>1
<1>5. ASSUME NEW n \in Nat, n \in S PROVE n + 1 \in S
  <2> SUFFICES ASSUME n + 1 <= Len(c) PROVE Good(n + 1)
    OBVIOUS
  <2>1. Good(n)
    BY <1>2, <1>5
  <2>2. P[n + 1] = PatRegister(P[n], c[n + 1]) /\ c[n + 1].pid \in Pids
    <3>1. n + 1 \in 1 .. Len(c) /\ n + 1 - 1 = n
      BY <1>2
    <3>2. P[n + 1] = PatRegister(P[n + 1 - 1], c[n + 1])
      BY <1>3, <3>1
    <3> QED BY <1>2, <3>1, <3>2
  <2>3. PICK f, g : f = P[n] /\ g = P[n + 1]
    OBVIOUS
  <2> DEFINE pid == c[n + 1].pid
  <2>4. /\ IsMap(g, Pids, Parsers) /\ Bounded(g) /\ Grown(f, g)
        /\ pid \in DOMAIN g \cup DOMAIN psi_tables \/ Full(g)
    <3>1. CASE pid \in DOMAIN psi_tables
      <4>1. g = f
        BY <2>2, <2>3, <3>1 DEF PatRegister
      <4> QED BY <2>1, <2>3, <3>1, <4>1 DEF Grown
    <3>2. CASE pid \notin DOMAIN psi_tables
      <4>1. PICK v \in Parsers : g = Put(f, pid, v)
        BY <2>2, <2>3, <3>2 DEF PatRegister, Parsers
      <4>2. IsMap(g, Pids, Parsers)
        BY <2>1, <2>2, <2>3, <4>1, PutTyped
      <4>3. Bounded(g) /\ Grown(f, g) /\ (pid \in DOMAIN g \/ Full(f))
        BY <2>1, <2>3, <4>1, PutIs
      <4> QED BY <4>2, <4>3, FullStays
    <3> QED BY <3>1, <3>2
  <2>5. Grown(psi_parsers, g)
    BY <2>1, <2>3, <2>4, GrownTwice
  <2>6. ASSUME NEW j \in 1 .. n + 1
        PROVE  c[j].pid \in DOMAIN g \cup DOMAIN psi_tables \/ Full(g)
    <3>1. CASE j = n + 1
      BY <2>4, <3>1
    <3>2. CASE j # n + 1
      <4>1. c[j].pid \in DOMAIN f \cup DOMAIN psi_tables \/ Full(f)
        BY <2>1, <2>3, <3>2
      <4> QED BY <2>4, <4>1, FullStays DEF Grown
    <3> QED BY <3>1, <3>2
  <2> QED BY <2>3, <2>4, <2>5, <2>6
<1> HIDE DEF S
<1>6. Nat \subseteq S
  BY <1>4, <1>5, NatSetInduction
<1>7. Good(Len(c))
  BY <1>2, <1>6 DEF S
<1>8. q = P[Len(c)]
  BY <1>3 DEF c
<1> QED BY <1>2, <1>7, <1>8 DEF c

(* The programs of the PAT that was taken last stay registered.            *)
LEMMA RegisteredStays ==
  ASSUME IInv, Grown(psi_parsers, psi_parsers'),
         DOMAIN psi_tables \subseteq DOMAIN psi_tables' \cup {PmtKey(u.pid) : u \in Pmts},
         PatKey \in DOMAIN psi_tables' =>
           PatKey \in DOMAIN psi_tables /\ psi_tables'[PatKey] = psi_tables[PatKey]
  PROVE  Registered'
<1> SUFFICES ASSUME NEW t \in Pats, PatKey \in DOMAIN psi_tables', psi_tables'[PatKey].version = t.version,
                    NEW i \in DOMAIN t.programs
             PROVE  \/ t.programs[i].pid \in DOMAIN psi_parsers'
                    \/ t.programs[i].pid \in DOMAIN psi_tables' \cup {PmtKey(u.pid) : u \in Pmts}
                    \/ Full(psi_parsers')
  BY DEF Registered
<1>1. \/ t.programs[i].pid \in DOMAIN psi_parsers
      \/ t.programs[i].pid \in DOMAIN psi_tables \cup {PmtKey(u.pid) : u \in Pmts}
      \/ Full(psi_parsers)
  BY DEF IInv, Registered
<1> QED BY <1>1, FullStays DEF Grown

(* What the cache leads to stays in the tree where links are only added.   *)
LEMMA CacheStays ==
  ASSUME IInv, pes_tables' = pes_tables,
         DOMAIN streams \subseteq DOMAIN streams', \A p \in DOMAIN streams : streams'[p] = streams[p],
         fifos \subseteq fifos'
  PROVE  CacheLive'
<1> SUFFICES ASSUME NEW k \in DOMAIN pes_tables
             PROVE  pes_tables[k] \in InTree(k[1], k[2])'
  BY DEF CacheLive
<1>1. pes_tables[k] \in InTree(k[1], k[2])
  BY DEF IInv, CacheLive
<1> QED BY <1>1 DEF InTree

(* A PID that sections go to keeps them.                                   *)
LEMMA SectionsStay ==
  ASSUME Grown(psi_parsers, psi_parsers')
  PROVE  \A p \in StreamPids : Dispatch(p) = "psi" => Dispatch(p)' = "psi"
<1> TAKE p \in StreamPids
<1>1. Dispatch(p) = "psi" <=> p \in StaticPids \cup DOMAIN psi_parsers
  BY DEF Dispatch
<1>2. Dispatch(p)' = "psi" <=> p \in StaticPids \cup DOMAIN psi_parsers'
  BY DEF Dispatch
<1> QED BY <1>1, <1>2 DEF Grown

-----------------------------------------------------------------------------
(* What every step keeps, and what it may not do to sections.              *)
Kind == IInv' /\ SectionsForGood

LEMMA TypesOf ==
  ASSUME IInv
  PROVE  /\ IsMap(psi_parsers, Pids, Parsers) /\ IsMap(pes_parsers, StreamPids, PesParsers)
         /\ IsMap(psi_tables, Nat, [version : Nat, alive : BOOLEAN])
         /\ IsMap(pes_tables, StreamPids \X {"ES", "PES"}, Fifos)
         /\ IsMap(streams, StreamPids, Dirs) /\ IsMap(marks, Marks, StreamPids)
         /\ fifos \subseteq Fifos /\ fed \subseteq Fifos
         /\ life \in [PmtPids -> 0 .. MaxUpdates]
         /\ running \in BOOLEAN /\ fault \in BOOLEAN
         /\ Bounded(psi_tables) /\ Bounded(psi_parsers) /\ Bounded(pes_parsers) /\ Bounded(pes_tables)
BY DEF IInv, TypeOK, Parsers, PesParsers, Marks, PmtPids

LEMMA TypesHold ==
  ASSUME IsMap(psi_parsers', Pids, Parsers), IsMap(pes_parsers', StreamPids, PesParsers),
         IsMap(psi_tables', Nat, [version : Nat, alive : BOOLEAN]),
         IsMap(pes_tables', StreamPids \X {"ES", "PES"}, Fifos),
         IsMap(streams', StreamPids, Dirs), IsMap(marks', Marks, StreamPids),
         fifos' \subseteq Fifos, fed' \subseteq Fifos,
         life' \in [PmtPids -> 0 .. MaxUpdates],
         running' \in BOOLEAN, fault' \in BOOLEAN,
         Bounded(psi_tables'), Bounded(psi_parsers'), Bounded(pes_parsers'), Bounded(pes_tables')
  PROVE  TypeOK'
BY DEF TypeOK, Parsers, PesParsers, Marks, PmtPids, Bounded

LEMMA KeysAre ==
  /\ PatKey = 0 /\ PatKey \in Nat
  /\ \A p \in Pids : PmtKey(p) \in Nat /\ PmtKey(p) # PatKey
  /\ \A t \in Tables : HashKey(t.pid, t.table_id) \in Nat /\ HashKey(t.pid, t.table_id) # PatKey
<1>1. PatKey = 0
  BY DEF PatKey, HashKey
<1>2. \A p \in Pids : PmtKey(p) \in Nat /\ PmtKey(p) # 0
  BY DEF PmtKey, HashKey, Pids
<1>3. ASSUME NEW t \in Tables
      PROVE  HashKey(t.pid, t.table_id) \in Nat /\ HashKey(t.pid, t.table_id) # 0
  <2>1. t.pid \in StaticPids \ {0} /\ t.table_id \in 0 .. 255
    BY RegistryAssumption
  <2>2. t.pid \in Nat \ {0} /\ t.table_id \in Nat
    BY <2>1 DEF StaticPids
  <2> QED BY <2>2 DEF HashKey
<1> QED BY <1>1, <1>2, <1>3

LEMMA PatParseKeeps ==
  ASSUME IInv, running, NEW t \in Pats, PatParse(t)
  PROVE  Kind
<1>1. /\ IsMap(psi_parsers', Pids, Parsers) /\ Bounded(psi_parsers)' /\ Grown(psi_parsers, psi_parsers')
      /\ \A j \in DOMAIN t.programs :
           t.programs[j].pid \in DOMAIN psi_parsers' \cup DOMAIN psi_tables \/ Full(psi_parsers')
  <2>1. PICK q : q = psi_parsers'
    OBVIOUS
  <2>2. q = FoldLeft(PatRegister, psi_parsers, t.programs)
    BY <2>1 DEF PatParse
  <2>3. /\ IsMap(q, Pids, Parsers) /\ Bounded(q) /\ Grown(psi_parsers, q)
        /\ \A j \in DOMAIN t.programs :
             t.programs[j].pid \in DOMAIN q \cup DOMAIN psi_tables \/ Full(q)
    BY <2>2, PatKeeps
  <2> QED BY <2>1, <2>3 DEF Bounded
<1>2. /\ UNCHANGED <<pes_parsers, pes_tables, streams, fifos, marks, life, running>>
      /\ fed' = {} /\ fault' \in BOOLEAN
      /\ psi_tables' = Put(psi_tables, PatKey, [version |-> t.version, alive |-> TRUE])
  BY DEF PatParse
<1>3. /\ IsMap(psi_tables', Nat, [version : Nat, alive : BOOLEAN])
      /\ Bounded(psi_tables') /\ DOMAIN psi_tables \subseteq DOMAIN psi_tables'
      /\ PatKey \in DOMAIN psi_tables' => psi_tables'[PatKey].version = t.version
  <2> DEFINE v == [version |-> t.version, alive |-> TRUE]
  <2>1. v \in [version : Nat, alive : BOOLEAN] /\ PatKey \in Nat /\ v.version = t.version
    <3>1. t \in Pats \cup Pmts
      OBVIOUS
    <3>2. \A x \in Pats \cup Pmts : x.version \in 0 .. 31
      BY RegistryAssumption
    <3>3. t.version \in 0 .. 31
      BY <3>1, <3>2
    <3>4. t.version \in Nat
      BY <3>3
    <3> QED BY <3>4, KeysAre
  <2> HIDE DEF v
  <2>2. psi_tables' = Put(psi_tables, PatKey, v)
    BY <1>2 DEF v
  <2>3. IsMap(psi_tables', Nat, [version : Nat, alive : BOOLEAN])
    BY <2>1, <2>2, TypesOf, PutTyped
  <2>4. PICK g : g = psi_tables'
    OBVIOUS
  <2>5. Bounded(g) /\ Grown(psi_tables, g) /\ (PatKey \in DOMAIN g => g[PatKey] = v)
    BY <2>2, <2>4, TypesOf, PutIs
  <2> QED BY <2>1, <2>3, <2>4, <2>5 DEF Grown
<1>4. TypeOK'
  BY <1>1, <1>2, <1>3, TypesOf, TypesHold DEF Bounded
<1>5. CacheLive'
  BY <1>2, CacheStays
<1>6. StreamsAnnounced'
  <2>1. Announced(psi_parsers, pes_parsers, streams, fifos) =>
          Announced(psi_parsers', pes_parsers, streams, fifos)
    BY <1>1, FullStays DEF Announced, Grown
  <2> QED BY <1>2, <2>1 DEF IInv, StreamsAnnounced, Updated, Announced, Names
<1>7. EndsOnlyAfterUpdate'
  BY <1>2 DEF EndsOnlyAfterUpdate
<1>8. Registered'
  <2> SUFFICES ASSUME NEW u \in Pats, PatKey \in DOMAIN psi_tables', psi_tables'[PatKey].version = u.version,
                      NEW i \in DOMAIN u.programs
               PROVE  \/ u.programs[i].pid \in DOMAIN psi_parsers'
                      \/ u.programs[i].pid \in DOMAIN psi_tables' \cup {PmtKey(x.pid) : x \in Pmts}
                      \/ Full(psi_parsers')
    BY DEF Registered
  <2>1. u = t
    BY <1>3, RegistryAssumption
  <2> QED BY <1>1, <1>3, <2>1
<1>9. SectionsForGood
  BY <1>1, <1>2, SectionsStay DEF SectionsForGood
<1> QED BY <1>1, <1>2, <1>3, <1>4, <1>5, <1>6, <1>7, <1>8, <1>9, TypesOf DEF Kind, IInv, Bounded

LEMMA TableParseKeeps ==
  ASSUME IInv, running, NEW t \in Tables, TableParse(t)
  PROVE  Kind
<1> DEFINE k == HashKey(t.pid, t.table_id)
<1>1. /\ UNCHANGED <<psi_parsers, pes_parsers, pes_tables, streams, fifos, marks, life, running, fault>>
      /\ fed' = {}
      /\ psi_tables' = Put(psi_tables, k, [version |-> 0, alive |-> TRUE])
  BY DEF TableParse
<1>2. k \in Nat /\ k # PatKey
  BY KeysAre
<1> HIDE DEF k
<1>3. /\ IsMap(psi_tables', Nat, [version : Nat, alive : BOOLEAN]) /\ Bounded(psi_tables')
      /\ DOMAIN psi_tables \subseteq DOMAIN psi_tables'
      /\ PatKey \in DOMAIN psi_tables' =>
           PatKey \in DOMAIN psi_tables /\ psi_tables'[PatKey] = psi_tables[PatKey]
  <2> DEFINE v == [version |-> 0, alive |-> TRUE]
  <2>1. v \in [version : Nat, alive : BOOLEAN]
    OBVIOUS
  <2> HIDE DEF v
  <2>2. psi_tables' = Put(psi_tables, k, v)
    BY <1>1 DEF v
  <2>3. IsMap(psi_tables', Nat, [version : Nat, alive : BOOLEAN])
    BY <1>2, <2>1, <2>2, TypesOf, PutTyped
  <2>4. PICK g : g = psi_tables'
    OBVIOUS
  <2>5. /\ Bounded(g) /\ Grown(psi_tables, g) /\ DOMAIN g \subseteq DOMAIN psi_tables \cup {k}
        /\ \A x \in DOMAIN psi_tables : x # k => g[x] = psi_tables[x]
    BY <2>2, <2>4, TypesOf, PutIs
  <2> QED BY <1>2, <2>3, <2>4, <2>5 DEF Grown
<1>4. TypeOK'
  BY <1>1, <1>3, TypesOf, TypesHold DEF Bounded
<1>5. CacheLive'
  BY <1>1, CacheStays
<1>6. StreamsAnnounced' /\ EndsOnlyAfterUpdate'
  BY <1>1 DEF IInv, StreamsAnnounced, Updated, Announced, Names, EndsOnlyAfterUpdate
<1>7. Grown(psi_parsers, psi_parsers')
  BY <1>1 DEF Grown
<1>8. Registered'
  BY <1>3, <1>7, RegisteredStays
<1>9. SectionsForGood
  BY <1>1, <1>7, SectionsStay DEF SectionsForGood
<1> QED BY <1>1, <1>3, <1>4, <1>5, <1>6, <1>8, <1>9, TypesOf DEF Kind, IInv, Bounded

LEMMA AnnouncedStays ==
  ASSUME IInv, NEW t \in Pmts, Kept(Populated(t)), ~ Updated
  PROVE  Announced(Populated(t).psi, Populated(t).pes, Populated(t).streams, Populated(t).fifos)
BY DEF Kept, IInv, StreamsAnnounced

LEMMA PmtVersion == ASSUME NEW t \in Pmts PROVE t.version \in Nat /\ t.pid \in Pids
<1>1. \A x \in Pats \cup Pmts : x.version \in 0 .. 31
  BY RegistryAssumption
<1>2. t.version \in 0 .. 31
  BY <1>1
<1>3. t.pid \in Pids
  BY RegistryAssumption
<1> QED BY <1>2, <1>3

LEMMA PmtFirstKeeps ==
  ASSUME IInv, running, NEW t \in Pmts, PmtFirst(t)
  PROVE  Kind
<1>1. PICK s : s = Populated(t)
  OBVIOUS
<1>2. Kept(s)
  BY <1>1, PopulatedKeeps
<1>3. /\ psi_parsers' = s.psi /\ pes_parsers' = s.pes /\ streams' = s.streams
      /\ fifos' = s.fifos /\ marks' = s.marks /\ fed' = {}
      /\ UNCHANGED <<pes_tables, life, running, fault>>
      /\ psi_tables' = Put(psi_tables, PmtKey(t.pid), [version |-> t.version, alive |-> TRUE])
  BY <1>1 DEF PmtFirst
<1>4. /\ IsMap(psi_parsers', Pids, Parsers) /\ Bounded(psi_parsers') /\ Grown(psi_parsers, psi_parsers')
      /\ IsMap(pes_parsers', StreamPids, PesParsers) /\ Bounded(pes_parsers')
      /\ IsMap(streams', StreamPids, Dirs) /\ DOMAIN streams \subseteq DOMAIN streams'
      /\ \A p \in DOMAIN streams : streams'[p] = streams[p]
      /\ fifos' \subseteq Fifos /\ fifos \subseteq fifos'
      /\ IsMap(marks', Marks, StreamPids)
  BY <1>2, <1>3 DEF Kept
<1>5. /\ IsMap(psi_tables', Nat, [version : Nat, alive : BOOLEAN]) /\ Bounded(psi_tables')
      /\ DOMAIN psi_tables \subseteq DOMAIN psi_tables'
      /\ PatKey \in DOMAIN psi_tables' =>
           PatKey \in DOMAIN psi_tables /\ psi_tables'[PatKey] = psi_tables[PatKey]
  <2> DEFINE v == [version |-> t.version, alive |-> TRUE]
             k == PmtKey(t.pid)
  <2>1. v \in [version : Nat, alive : BOOLEAN]
    BY PmtVersion
  <2>2. k \in Nat /\ k # PatKey
    BY PmtVersion, KeysAre
  <2> HIDE DEF v, k
  <2>3. psi_tables' = Put(psi_tables, k, v)
    BY <1>3 DEF v, k
  <2>4. IsMap(psi_tables', Nat, [version : Nat, alive : BOOLEAN])
    BY <2>1, <2>2, <2>3, TypesOf, PutTyped
  <2>5. PICK g : g = psi_tables'
    OBVIOUS
  <2>6. /\ Bounded(g) /\ Grown(psi_tables, g) /\ DOMAIN g \subseteq DOMAIN psi_tables \cup {k}
        /\ \A x \in DOMAIN psi_tables : x # k => g[x] = psi_tables[x]
    BY <2>3, <2>5, TypesOf, PutIs
  <2> QED BY <2>2, <2>4, <2>5, <2>6 DEF Grown
<1>6. TypeOK'
  BY <1>3, <1>4, <1>5, TypesOf, TypesHold DEF Bounded
<1>7. CacheLive'
  BY <1>3, <1>4, CacheStays
<1>8. Updated' <=> Updated
  BY <1>3 DEF Updated
<1>9. StreamsAnnounced'
  <2>1. ~ Updated => Announced(s.psi, s.pes, s.streams, s.fifos)
    BY <1>1, <1>2, AnnouncedStays
  <2>2. Announced(psi_parsers, pes_parsers, streams, fifos)' <=> Announced(s.psi, s.pes, s.streams, s.fifos)
    BY <1>3 DEF Announced, Names
  <2> QED BY <1>8, <2>1, <2>2 DEF StreamsAnnounced
<1>10. EndsOnlyAfterUpdate'
  BY <1>3 DEF EndsOnlyAfterUpdate
<1>11. Registered'
  BY <1>4, <1>5, RegisteredStays
<1>12. SectionsForGood
  BY <1>3, <1>4, SectionsStay DEF SectionsForGood
<1> QED BY <1>3, <1>4, <1>5, <1>6, <1>7, <1>9, <1>10, <1>11, <1>12, TypesOf DEF Kind, IInv, Bounded

(* With the update of a PMT nothing of the freed directory stays cached.   *)
LEMMA PmtUpdateKeeps ==
  ASSUME IInv, running, NEW t \in Pmts, PmtUpdate(t)
  PROVE  Kind
<1>1. PICK s : s = Populated(t)
  OBVIOUS
<1>2. Kept(s)
  BY <1>1, PopulatedKeeps
<1> DEFINE k == PmtKey(t.pid)
<1>3. /\ psi_parsers' = s.psi /\ pes_parsers' = s.pes /\ streams' = s.streams
      /\ fifos' = {f \in s.fifos : f.dir.pmt # t.pid} /\ fed' = {}
      /\ marks' = [m \in {x \in DOMAIN s.marks : x[1].pmt # t.pid} |-> s.marks[m]]
      /\ life[t.pid] < MaxUpdates /\ life' = [life EXCEPT ![t.pid] = @ + 1]
      /\ pes_tables' = Invalidated(pes_tables) /\ running' = running
      /\ fault' \in BOOLEAN
      /\ \/ psi_tables' = Put(psi_tables, k, [version |-> t.version, alive |-> FALSE])
         \/ psi_tables' = [x \in DOMAIN psi_tables \ {k} |-> psi_tables[x]]
  BY <1>1 DEF PmtUpdate
<1>4. /\ IsMap(psi_parsers', Pids, Parsers) /\ Bounded(psi_parsers') /\ Grown(psi_parsers, psi_parsers')
      /\ IsMap(pes_parsers', StreamPids, PesParsers) /\ Bounded(pes_parsers')
      /\ IsMap(streams', StreamPids, Dirs)
      /\ fifos' \subseteq Fifos
      /\ IsMap(s.marks, Marks, StreamPids)
  BY <1>2, <1>3 DEF Kept
<1>5. IsMap(marks', Marks, StreamPids)
  BY <1>3, <1>4 DEF IsMap
<1>6. t.version \in Nat /\ t.pid \in Pids /\ k \in Nat /\ k # PatKey /\ t.pid \in PmtPids
  BY PmtVersion, KeysAre DEF PmtPids
<1>7. life' \in [PmtPids -> 0 .. MaxUpdates] /\ Updated'
  <2>1. life \in [PmtPids -> 0 .. MaxUpdates] /\ MaxUpdates \in Nat
    BY TypesOf, RegistryAssumption
  <2>2. life[t.pid] + 1 \in 0 .. MaxUpdates /\ life[t.pid] + 1 > 0
    BY <1>3, <1>6, <2>1
  <2>3. life' \in [PmtPids -> 0 .. MaxUpdates] /\ life'[t.pid] > 0 /\ t.pid \in DOMAIN life'
    BY <1>3, <1>6, <2>1, <2>2
  <2> QED BY <2>3 DEF Updated
<1>8. DOMAIN pes_tables' = {}
  BY <1>3 DEF Invalidated
<1>9. IsMap(pes_tables', StreamPids \X {"ES", "PES"}, Fifos) /\ Bounded(pes_tables') /\ CacheLive'
  <2>1. IsFiniteSet({}) /\ Cardinality({}) = 0 /\ MaxPids \in Nat
    BY FS_EmptySet, RegistryAssumption
  <2> QED BY <1>8, <2>1 DEF IsMap, Bounded, CacheLive
<1>10. /\ IsMap(psi_tables', Nat, [version : Nat, alive : BOOLEAN]) /\ Bounded(psi_tables')
       /\ DOMAIN psi_tables \subseteq DOMAIN psi_tables' \cup {k}
       /\ PatKey \in DOMAIN psi_tables' =>
            PatKey \in DOMAIN psi_tables /\ psi_tables'[PatKey] = psi_tables[PatKey]
  <2>1. CASE psi_tables' = Put(psi_tables, k, [version |-> t.version, alive |-> FALSE])
    <3> DEFINE v == [version |-> t.version, alive |-> FALSE]
    <3>1. v \in [version : Nat, alive : BOOLEAN]
      BY <1>6
    <3> HIDE DEF v, k
    <3>2. psi_tables' = Put(psi_tables, k, v)
      BY <2>1 DEF v
    <3>3. IsMap(psi_tables', Nat, [version : Nat, alive : BOOLEAN])
      BY <1>6, <3>1, <3>2, TypesOf, PutTyped
    <3>4. PICK g : g = psi_tables'
      OBVIOUS
    <3>5. /\ Bounded(g) /\ Grown(psi_tables, g) /\ DOMAIN g \subseteq DOMAIN psi_tables \cup {k}
          /\ \A x \in DOMAIN psi_tables : x # k => g[x] = psi_tables[x]
      BY <3>2, <3>4, TypesOf, PutIs
    <3> QED BY <1>6, <3>3, <3>4, <3>5 DEF Grown
  <2>2. CASE psi_tables' = [x \in DOMAIN psi_tables \ {k} |-> psi_tables[x]]
    <3> HIDE DEF k
    <3>1. DOMAIN psi_tables' = DOMAIN psi_tables \ {k} /\ \A x \in DOMAIN psi_tables' : psi_tables'[x] = psi_tables[x]
      BY <2>2
    <3>2. IsMap(psi_tables', Nat, [version : Nat, alive : BOOLEAN])
      BY <3>1, TypesOf DEF IsMap
    <3>3. IsFiniteSet(DOMAIN psi_tables) /\ Cardinality(DOMAIN psi_tables) <= MaxPids
      BY TypesOf DEF Bounded
    <3>4. PICK D, E : D = DOMAIN psi_tables /\ E = DOMAIN psi_tables'
      OBVIOUS
    <3>5. E \in SUBSET D
      BY <3>1, <3>4
    <3>6. IsFiniteSet(E) /\ Cardinality(E) <= Cardinality(D)
      BY <3>3, <3>4, <3>5, FS_Subset
    <3>7. Cardinality(E) \in Nat /\ Cardinality(D) \in Nat /\ MaxPids \in Nat
      BY <3>3, <3>4, <3>6, FS_CardinalityType, RegistryAssumption
    <3>8. Bounded(psi_tables')
      BY <3>3, <3>4, <3>6, <3>7 DEF Bounded
    <3> QED BY <3>1, <3>2, <3>8
  <2> QED BY <1>3, <2>1, <2>2
<1>11. TypeOK'
  BY <1>3, <1>4, <1>5, <1>7, <1>9, <1>10, TypesOf, TypesHold DEF Bounded
<1>12. StreamsAnnounced'
  BY <1>7 DEF StreamsAnnounced
<1>13. EndsOnlyAfterUpdate'
  BY <1>7 DEF EndsOnlyAfterUpdate
<1>14. Registered'
  BY <1>4, <1>10, RegisteredStays
<1>15. SectionsForGood
  BY <1>3, <1>4, SectionsStay DEF SectionsForGood
<1> QED BY <1>4, <1>9, <1>10, <1>11, <1>12, <1>13, <1>14, <1>15 DEF Kind, IInv, Bounded

-----------------------------------------------------------------------------
(* pes_get_dentry(): what it finds is in the tree, where the link leads.   *)
LEMMA DentryIs ==
  ASSUME IInv, NEW pid, NEW n
  PROVE  PesGetDentry(pid, n) = None \/ PesGetDentry(pid, n) \in InTree(pid, n)
<1>1. CASE <<pid, n>> \in DOMAIN pes_tables
  <2>1. pes_tables[<<pid, n>>] \in InTree(<<pid, n>>[1], <<pid, n>>[2])
    BY <1>1 DEF IInv, CacheLive
  <2> QED BY <1>1, <2>1 DEF PesGetDentry
<1>2. CASE <<pid, n>> \notin DOMAIN pes_tables
  BY <1>2 DEF PesGetDentry
<1> QED BY <1>1, <1>2

(* The look-ups of a PES packet, up to the first that fails.               *)
LEMMA FoundIs ==
  ASSUME NEW pid
  PROVE  /\ Found(pid) \in Seq({"ES", "PES"})
         /\ \A i \in 1 .. Len(Found(pid)) : PesGetDentry(pid, Found(pid)[i]) # None
         /\ (\A i \in DOMAIN Names : PesGetDentry(pid, Names[i]) # None) => Found(pid) = Names
<1> DEFINE missing == {i \in DOMAIN Names : PesGetDentry(pid, Names[i]) = None}
<1>1. Names \in Seq({"ES", "PES"})
  <2>1. <<"ES", "PES">> \in Seq({"ES", "PES"}) /\ <<"PES">> \in Seq({"ES", "PES"})
    OBVIOUS
  <2> QED BY <2>1 DEF Names
<1>2. PICK N : N = Names /\ N \in Seq({"ES", "PES"})
  BY <1>1
<1>3. Len(N) \in Nat /\ DOMAIN N = 1 .. Len(N) /\ \A i \in 1 .. Len(N) : N[i] \in {"ES", "PES"}
  BY <1>2
<1>4. missing \subseteq 1 .. Len(N) /\ missing = {i \in 1 .. Len(N) : PesGetDentry(pid, N[i]) = None}
  BY <1>2, <1>3
<1>5. Found(pid) = IF missing = {} THEN N ELSE SubSeq(N, 1, Min(missing) - 1)
  BY <1>2 DEF Found
<1> HIDE DEF missing
<1>6. CASE missing = {}
  BY <1>2, <1>3, <1>4, <1>5, <1>6
<1>7. CASE missing # {}
  <2>1. PICK m \in 1 .. Len(N) : m = Min(missing) /\ m \in missing /\ \A j \in missing : m <= j
    <3>1. missing \subseteq Nat
      BY <1>3, <1>4
    <3>2. Min(missing) \in missing /\ \A j \in missing : Min(missing) <= j
      BY <1>7, <3>1, MinOfNat
    <3> QED BY <1>4, <3>2
  <2>2. PICK f : f = Found(pid) /\ f = SubSeq(N, 1, m - 1)
    BY <1>5, <1>7, <2>1
  <2>3. f \in Seq({"ES", "PES"}) /\ Len(f) = m - 1 /\ \A i \in 1 .. m - 1 : f[i] = N[i]
    BY <1>2, <1>3, <2>1, <2>2
  <2>4. \A i \in 1 .. m - 1 : i \notin missing /\ i \in 1 .. Len(N)
    BY <1>3, <2>1
  <2>5. \A i \in 1 .. m - 1 : PesGetDentry(pid, N[i]) # None
    BY <1>4, <2>4
  <2>6. PesGetDentry(pid, N[m]) = None
    BY <1>4, <2>1
  <2>7. \A i \in 1 .. Len(f) : PesGetDentry(pid, f[i]) # None
    BY <2>3, <2>5
  <2>8. ~ (\A i \in DOMAIN Names : PesGetDentry(pid, Names[i]) # None)
    BY <1>2, <1>3, <2>1, <2>6
  <2> QED BY <2>2, <2>3, <2>7, <2>8
<1> QED BY <1>6, <1>7

(* Where no PMT was updated, psi_parsers has room and the links have the   *)
(* names that are looked for, all of them succeed.                         *)
LEMMA AllFound ==
  ASSUME IInv, NEW pid \in StreamPids, Dispatch(pid) = "pes",
         ~ Updated, ~ Full(psi_parsers), ~ Misnamed
  PROVE  Found(pid) = Names
<1>1. pid \in DOMAIN pes_parsers /\ pid \notin DOMAIN psi_parsers
  BY DEF Dispatch
<1>2. Announced(psi_parsers, pes_parsers, streams, fifos)
  BY DEF IInv, StreamsAnnounced
<1>3. pid \in DOMAIN streams
  BY <1>1, <1>2 DEF Announced
<1>0. LinkName(pid) = PathName(pid)
  BY <1>1 DEF Misnamed
<1>4. ASSUME NEW i \in DOMAIN Names PROVE PesGetDentry(pid, Names[i]) # None
  <2>1. \E f \in fifos : f.dir = streams[pid] /\ f.pid = pid /\ f.name = Names[i]
    BY <1>1, <1>2, <1>3 DEF Announced
  <2>2. InTree(pid, Names[i]) # {}
    BY <1>0, <1>3, <2>1 DEF InTree
  <2>3. PesGetDentry(pid, Names[i]) \in InTree(pid, Names[i])
    <3>1. CASE <<pid, Names[i]>> \in DOMAIN pes_tables
      <4>1. pes_tables[<<pid, Names[i]>>] \in InTree(<<pid, Names[i]>>[1], <<pid, Names[i]>>[2])
        BY <3>1 DEF IInv, CacheLive
      <4> QED BY <3>1, <4>1 DEF PesGetDentry
    <3>2. CASE <<pid, Names[i]>> \notin DOMAIN pes_tables
      BY <2>2, <3>2 DEF PesGetDentry
    <3> QED BY <3>1, <3>2
  <2>4. InTree(pid, Names[i]) \subseteq Fifos
    BY TypesOf DEF InTree
  <2> QED BY <2>3, <2>4, NoneAssumption
<1> QED BY <1>4, FoundIs

LEMMA FoundInTree ==
  ASSUME IInv, NEW pid, NEW i \in 1 .. Len(Found(pid))
  PROVE  PesGetDentry(pid, Found(pid)[i]) \in InTree(pid, Found(pid)[i])
BY FoundIs, DentryIs

(* What is remembered of a packet is what was found.                       *)
LEMMA RememberKeeps ==
  ASSUME IInv, NEW pid \in StreamPids, NEW n \in {"ES", "PES"}, NEW c, NEW d, d = Remember(c, pid, n),
         IsMap(c, StreamPids \X {"ES", "PES"}, Fifos), Bounded(c),
         \A k \in DOMAIN c : c[k] \in InTree(k[1], k[2])
  PROVE  /\ IsMap(d, StreamPids \X {"ES", "PES"}, Fifos) /\ Bounded(d)
         /\ \A k \in DOMAIN d : d[k] \in InTree(k[1], k[2])
<1>1. CASE PesGetDentry(pid, n) = None
  BY <1>1 DEF Remember
<1>2. CASE PesGetDentry(pid, n) # None
  <2>1. PICK f : f = PesGetDentry(pid, n) /\ f \in InTree(pid, n)
    BY <1>2, DentryIs
  <2>2. f \in Fifos
    BY <2>1, TypesOf DEF InTree
  <2>3. PICK key : key = <<pid, n>>
    OBVIOUS
  <2>4. key \in StreamPids \X {"ES", "PES"} /\ key[1] = pid /\ key[2] = n
    BY <2>3
  <2>5. d = PutIfAbsent(c, key, f)
    BY <1>2, <2>1, <2>3 DEF Remember
  <2>6. /\ IsMap(d, StreamPids \X {"ES", "PES"}, Fifos) /\ Bounded(d)
        /\ DOMAIN d \subseteq DOMAIN c \cup {key}
        /\ \A x \in DOMAIN c : d[x] = c[x]
        /\ key \in DOMAIN d \ DOMAIN c => d[key] = f
    BY <2>2, <2>4, <2>5, AbsentIs
  <2>7. ASSUME NEW k \in DOMAIN d PROVE d[k] \in InTree(k[1], k[2])
    <3>1. CASE k \in DOMAIN c
      BY <2>6, <3>1
    <3>2. CASE k \notin DOMAIN c
      <4>1. k = key /\ d[k] = f
        BY <2>6, <2>7, <3>2
      <4> QED BY <2>1, <2>4, <4>1
    <3> QED BY <3>1, <3>2
  <2> QED BY <2>6, <2>7
<1> QED BY <1>1, <1>2

LEMMA PesPacketKeeps ==
  ASSUME IInv, running, NEW pid \in StreamPids, PesPacket(pid)
  PROVE  Kind
<1>1. /\ Dispatch(pid) = "pes"
      /\ fed' = {PesGetDentry(pid, Found(pid)[i]) : i \in DOMAIN Found(pid)}
      /\ pes_tables' = Remembered(pid, pes_tables, Found(pid))
      /\ running' = (Found(pid) = Names)
      /\ UNCHANGED <<psi_tables, psi_parsers, pes_parsers, streams, fifos, marks, life, fault>>
  BY DEF PesPacket, Remembered
<1>2. PICK c : c = Found(pid)
  OBVIOUS
<1>3. c \in Seq({"ES", "PES"})
  BY <1>2, FoundIs
<1>4. Len(c) \in Nat /\ DOMAIN c = 1 .. Len(c) /\ \A i \in 1 .. Len(c) : c[i] \in {"ES", "PES"}
  BY <1>3
<1>5. PICK P : /\ P[0] = pes_tables
               /\ \A i \in 1 .. Len(c) : P[i] = Remember(P[i - 1], pid, c[i])
               /\ Remembered(pid, pes_tables, c) = P[Len(c)]
  <2>1. PICK P : PesUnrolls(P, pid, pes_tables, c)
    BY <1>3, PesLoop
  <2> QED BY <2>1 DEF PesUnrolls
<1> DEFINE Good(d) == /\ IsMap(d, StreamPids \X {"ES", "PES"}, Fifos) /\ Bounded(d)
                      /\ \A k \in DOMAIN d : d[k] \in InTree(k[1], k[2])
           S == {n \in Nat : n <= Len(c) => Good(P[n])}
<1>6. 0 \in S
  <2>1. Good(pes_tables)
    BY TypesOf DEF IInv, CacheLive
  <2> QED BY <1>5, <2>1
<1>7. ASSUME NEW n \in Nat, n \in S PROVE n + 1 \in S
  <2> SUFFICES ASSUME n + 1 <= Len(c) PROVE Good(P[n + 1])
    OBVIOUS
  <2>1. Good(P[n])
    BY <1>4, <1>7
  <2>2. n + 1 \in 1 .. Len(c) /\ n + 1 - 1 = n
    BY <1>4
  <2>3. P[n + 1] = Remember(P[n + 1 - 1], pid, c[n + 1])
    BY <1>5, <2>2
  <2>4. PICK f, g : f = P[n] /\ g = P[n + 1]
    OBVIOUS
  <2>5. g = Remember(f, pid, c[n + 1]) /\ c[n + 1] \in {"ES", "PES"}
    BY <1>4, <2>2, <2>3, <2>4
  <2>6. Good(f)
    BY <2>1, <2>4
  <2>7. Good(g)
    BY <2>5, <2>6, RememberKeeps, ZenonT(60)
  <2> QED BY <2>4, <2>7
<1> HIDE DEF S
<1>8. Nat \subseteq S
  BY <1>6, <1>7, NatSetInduction
<1>9. Good(P[Len(c)])
  <2>1. Len(c) \in S /\ Len(c) <= Len(c)
    BY <1>4, <1>8
  <2> HIDE DEF Good
  <2> QED BY <2>1 DEF S
<1>10. PICK d : d = pes_tables' /\ d = P[Len(c)]
  BY <1>1, <1>2, <1>5
<1>11. Good(d)
  BY <1>9, <1>10
<1>12. IsMap(pes_tables', StreamPids \X {"ES", "PES"}, Fifos) /\ Bounded(pes_tables')
  BY <1>10, <1>11
<1>13. CacheLive'
  <2>1. \A k \in DOMAIN d : d[k] \in InTree(k[1], k[2])
    BY <1>11
  <2>2. \A k \in DOMAIN pes_tables' : pes_tables'[k] \in InTree(k[1], k[2])'
    BY <1>1, <1>10, <2>1 DEF InTree
  <2> QED BY <2>2 DEF CacheLive
<1>14. fed' \subseteq Fifos /\ \A f \in fed' : f.pid = pid
  <2> SUFFICES ASSUME NEW i \in DOMAIN Found(pid), NEW f, f = PesGetDentry(pid, Found(pid)[i])
               PROVE  f \in Fifos /\ f.pid = pid
    BY <1>1
  <2>1. i \in 1 .. Len(Found(pid))
    BY <1>2, <1>4
  <2>2. f \in InTree(pid, Found(pid)[i])
    BY <2>1, FoundInTree
  <2> QED BY <2>2, TypesOf DEF InTree
<1>15. TypeOK'
  BY <1>1, <1>12, <1>14, TypesOf, TypesHold DEF Bounded
<1>16. StreamsAnnounced'
  BY <1>1 DEF IInv, StreamsAnnounced, Updated, Announced, Names
<1>17. EndsOnlyAfterUpdate'
  <2>1. Updated \/ Full(psi_parsers) \/ Misnamed \/ Found(pid) = Names
    BY <1>1, AllFound
  <2>2. /\ Updated <=> Updated'
        /\ Full(psi_parsers) <=> Full(psi_parsers)'
        /\ Misnamed <=> Misnamed'
    BY <1>1 DEF Updated, Full, Misnamed
  <2> QED BY <1>1, <2>1, <2>2 DEF EndsOnlyAfterUpdate
<1>18. Grown(psi_parsers, psi_parsers')
  BY <1>1 DEF Grown
<1>19. Registered'
  BY <1>1, <1>18, RegisteredStays
<1>20. SectionsForGood
  <2>1. pid \notin DOMAIN psi_parsers
    BY <1>1 DEF Dispatch
  <2> QED BY <1>14, <1>18, <2>1, SectionsStay DEF SectionsForGood
<1> QED BY <1>1, <1>12, <1>13, <1>15, <1>16, <1>17, <1>19, <1>20, TypesOf DEF Kind, IInv, Bounded

-----------------------------------------------------------------------------
LEMMA InitIInv == Init => IInv
<1> SUFFICES ASSUME Init PROVE IInv
  OBVIOUS
<1>1. /\ DOMAIN psi_tables = {} /\ DOMAIN psi_parsers = {} /\ DOMAIN pes_parsers = {}
      /\ DOMAIN pes_tables = {} /\ DOMAIN streams = {} /\ DOMAIN marks = {}
      /\ fifos = {} /\ fed = {} /\ running = TRUE /\ fault = FALSE
      /\ life = [p \in {t.pid : t \in Pmts} |-> 0]
  BY DEF Init
<1>2. IsFiniteSet({}) /\ Cardinality({}) = 0 /\ MaxPids \in Nat /\ MaxUpdates \in Nat
  BY FS_EmptySet, RegistryAssumption
<1>3. Bounded(psi_tables) /\ Bounded(psi_parsers) /\ Bounded(pes_parsers) /\ Bounded(pes_tables)
  BY <1>1, <1>2 DEF Bounded
<1>4. life \in [{t.pid : t \in Pmts} -> 0 .. MaxUpdates]
  BY <1>1, <1>2
<1>5. TypeOK
  BY <1>1, <1>3, <1>4 DEF TypeOK, IsMap, Bounded
<1>6. CacheLive /\ StreamsAnnounced /\ EndsOnlyAfterUpdate /\ Registered
  BY <1>1 DEF CacheLive, StreamsAnnounced, Announced, EndsOnlyAfterUpdate, Registered
<1> QED BY <1>3, <1>5, <1>6 DEF IInv

LEMMA NextKind == IInv /\ Next => Kind
<1> SUFFICES ASSUME IInv, Next PROVE Kind
  OBVIOUS
<1>1. running
  BY DEF Next
<1>2. CASE \E t \in Pats : PatParse(t)
  BY <1>1, <1>2, PatParseKeeps
<1>3. CASE \E t \in Tables : TableParse(t)
  BY <1>1, <1>3, TableParseKeeps
<1>4. CASE \E t \in Pmts : PmtFirst(t)
  BY <1>1, <1>4, PmtFirstKeeps
<1>5. CASE \E t \in Pmts : PmtUpdate(t)
  BY <1>1, <1>5, PmtUpdateKeeps
<1>6. CASE \E p \in StreamPids : PesPacket(p)
  BY <1>1, <1>6, PesPacketKeeps
<1> QED BY <1>2, <1>3, <1>4, <1>5, <1>6 DEF Next, Packet

LEMMA NextIInv == IInv /\ [Next]_vars => IInv'
<1> SUFFICES ASSUME IInv, [Next]_vars PROVE IInv'
  OBVIOUS
<1>1. CASE Next
  BY <1>1, NextKind DEF Kind
<1>2. CASE UNCHANGED vars
  BY <1>2 DEF vars, IInv, TypeOK, Bounded, CacheLive, InTree, StreamsAnnounced, Announced, Names,
              Updated, Full, Misnamed, EndsOnlyAfterUpdate, Registered
<1> QED BY <1>1, <1>2

(* Tables, links and FIFOs stay what they are, and the tables have at most *)
(* MaxPids entries, whatever the multiplexer announces.                    *)
THEOREM RegistryTyped == Spec => []TypeOK
<1>1. IInv => TypeOK
  BY DEF IInv
<1> QED BY InitIInv, NextIInv, <1>1, PTL DEF Spec

(* No FIFO that pes_get_dentry() has in its cache was freed.               *)
THEOREM CacheIsLive == Spec => []CacheLive
<1>1. IInv => CacheLive
  BY DEF IInv
<1> QED BY InitIInv, NextIInv, <1>1, PTL DEF Spec

(* Only a stream of an updated PMT, or one whose PID is below 16, ends the *)
(* parser thread (pes_get_dentry()).                                       *)
THEOREM ThreadGoesOn == Spec => []EndsOnlyAfterUpdate
<1>1. IInv => EndsOnlyAfterUpdate
  BY DEF IInv
<1> QED BY InitIInv, NextIInv, <1>1, PTL DEF Spec

(* A packet goes to the parser its PID was announced for, for good.        *)
THEOREM DispatchIsRight == Spec => DispatchRight
<1>1. IInv /\ [Next]_vars => [Registered' /\ SectionsForGood]_vars
  BY NextKind DEF Kind, IInv
<1> QED BY InitIInv, NextIInv, <1>1, PTL DEF Spec, DispatchRight

-----------------------------------------------------------------------------
(* Carousel.                                                               *)

(* A module has as many blocks as dii_expected_module_blocks() says: the   *)
(* whole ones, and one for a remainder.                                    *)
LEMMA BlocksExpected ==
  ASSUME NEW size \in Nat, NEW block \in Nat \ {0}, NEW b \in Nat
  PROVE  /\ (b * block < size) <=> b < size \div block + (IF size % block # 0 THEN 1 ELSE 0)
         /\ b * block < size => b <= size
<1> DEFINE q == size \div block
           r == size % block
<1>1. q \in Nat /\ r \in 0 .. block - 1 /\ size = q * block + r
  OBVIOUS
<1> HIDE DEF q, r
<1>2. b < q => b * block + block <= q * block
  <2> SUFFICES ASSUME b < q PROVE (b + 1) * block <= q * block
    BY <1>1
  <2>1. PICK d \in Nat : q = b + 1 + d
    <3>1. q - b - 1 \in Nat
      BY <1>1
    <3> QED BY <1>1, <3>1
  <2>2. q * block = (b + 1) * block + d * block /\ d * block \in Nat
    BY <2>1
  <2> QED BY <2>2
<1>3. b > q => b * block >= q * block + block
  <2> SUFFICES ASSUME b > q PROVE b * block >= (q + 1) * block
    BY <1>1
  <2>1. PICK d \in Nat : b = q + 1 + d
    <3>1. b - q - 1 \in Nat
      BY <1>1
    <3> QED BY <1>1, <3>1
  <2>2. b * block = (q + 1) * block + d * block /\ d * block \in Nat
    BY <1>1, <2>1
  <2>3. (q + 1) * block \in Nat /\ b * block \in Nat
    BY <1>1
  <2> QED BY <2>2, <2>3
<1>4. b * block \in Nat /\ q * block \in Nat /\ b <= b * block
  BY <1>1
<1>5. (b * block < size) <=> b < q + (IF r # 0 THEN 1 ELSE 0)
  <2>1. CASE b < q
    BY <1>1, <1>2, <1>4, <2>1
  <2>2. CASE b = q
    BY <1>1, <1>4, <2>2
  <2>3. CASE b > q
    BY <1>1, <1>3, <1>4, <2>3
  <2> QED BY <1>1, <2>1, <2>2, <2>3
<1> QED BY <1>4, <1>5 DEF q, r

LEMMA BlocksOfExpected ==
  ASSUME NEW v \in Versions, NEW m \in Modules, NEW b \in Nat
  PROVE  b \in BlocksOf(v, m) <=> b < Expected(v, m)
<1>1. ModuleSize[v][m] \in Nat /\ BlockSize \in Nat \ {0}
  BY CarouselAssumption DEF Versions
<1> DEFINE size == ModuleSize[v][m]
<1>2. (b * BlockSize < size) <=> b < size \div BlockSize + (IF size % BlockSize # 0 THEN 1 ELSE 0)
  BY <1>1, BlocksExpected
<1>3. b * BlockSize < size => b \in 0 .. size
  BY <1>1, BlocksExpected
<1> QED BY <1>2, <1>3 DEF BlocksOf, Expected

LEMMA NumbersAreNat == Numbers \subseteq Nat
BY CarouselAssumption DEF Numbers, BlocksOf, Versions

-----------------------------------------------------------------------------
(* What the invariants rest on: a DSI that has looked at a DII is followed *)
(* by one as long as nothing went wrong, and a DII whose file system is    *)
(* still to be created has made none.                                      *)
LinkHasDii == ~undefined /\ dsi.link # "none" => dii # NoDii
NoneMade == ~undefined /\ ~dii.created => made = 0

CarouselInv == CarouselTypes /\ LinkHasDii /\ NoneMade /\ LinkRight /\ FsWhole

LEMMA CarouselStarts == CarouselInit => CarouselInv
<1> SUFFICES ASSUME CarouselInit PROVE CarouselInv
  OBVIOUS
<1> USE CarouselAssumption DEF CarouselInit
<1>1. CarouselTypes
  <2>1. NoBlocks \in BlockFiles
    BY DEF NoBlocks, BlockFiles
  <2>2. onAir \in Versions
    BY DEF Versions
  <2>3. NoFs \in [version : Versions \cup {NoVersion}, app : {"none", "name"}, blocks : BlockFiles]
    BY <2>1 DEF NoFs
  <2>4. dsi = NoDsi /\ dii = NoDii /\ blocks \in BlockFiles /\ (ddb = NoVersion <=> blocks = NoBlocks)
    BY <2>1
  <2>5. made \in 0 .. 1 /\ ait \in {"none", "name", "noname"} /\ ddb \in Versions \cup {NoVersion}
    OBVIOUS
  <2>6. undefined \in BOOLEAN
    OBVIOUS
  <2>7. fs \in [version : Versions \cup {NoVersion}, app : {"none", "name"}, blocks : BlockFiles]
    BY <2>3
  <2> QED BY <2>2, <2>4, <2>5, <2>6, <2>7 DEF CarouselTypes
<1>2. LinkHasDii /\ NoneMade /\ LinkRight /\ FsWhole
  BY DEF LinkHasDii, NoneMade, LinkRight, FsWhole, NoDsi, NoDii, NoFs
<1> QED BY <1>1, <1>2 DEF CarouselInv

(* A block goes to the files, and none of the rest changes.                *)
LEMMA DdbKeeps ==
  ASSUME CarouselInv, NEW m \in Modules, NEW b \in Numbers, Ddb(m, b)
  PROVE  CarouselInv'
<1> USE DEF Ddb, DdbParse
<1>1. onAir \in Versions /\ onAir # NoVersion
  BY CarouselAssumption DEF CarouselInv, CarouselTypes, Versions
<1>2. blocks' \in BlockFiles /\ blocks'[m][b] = onAir
  BY <1>1 DEF CarouselInv, CarouselTypes, BlockFiles
<1>3. blocks' # NoBlocks
  BY <1>1, <1>2 DEF NoBlocks
<1>4. CarouselTypes'
  BY <1>1, <1>2, <1>3 DEF CarouselInv, CarouselTypes
<1>5. LinkHasDii' /\ NoneMade' /\ LinkRight' /\ FsWhole'
  BY DEF CarouselInv, LinkHasDii, NoneMade, LinkRight, FsWhole
<1> QED BY <1>4, <1>5 DEF CarouselInv

LEMMA DsiKeeps == ASSUME CarouselInv, Dsi PROVE CarouselInv'
<1> USE DEF Dsi
<1>1. onAir \in Versions /\ NoVersion \notin Versions
  BY CarouselAssumption DEF CarouselInv, CarouselTypes, Versions
<1>2. CASE DsiFirst
  <2>1. LinkTo(onAir) \in {"none", "dii", "broken"}
    BY DEF LinkTo
  <2>2. CarouselTypes'
    BY <1>1, <1>2, <2>1 DEF CarouselInv, CarouselTypes, DsiFirst
  <2>3. LinkHasDii' /\ NoneMade' /\ LinkRight' /\ FsWhole'
    BY <1>2 DEF CarouselInv, LinkHasDii, NoneMade, LinkRight, FsWhole, DsiFirst, LinkTo
  <2> QED BY <2>2, <2>3 DEF CarouselInv
<1>3. CASE DsiRepeat
  <2>1. LinkTo(dsi.version) \in {"none", "dii", "broken"}
    BY DEF LinkTo
  <2>2. dsi \in [version : Versions, link : {"none", "dii", "broken"}]
    BY <1>3 DEF CarouselInv, CarouselTypes, DsiRepeat
  <2>3. CarouselTypes'
    BY <1>1, <1>3, <2>1, <2>2 DEF CarouselInv, CarouselTypes, DsiRepeat
  <2>4. LinkHasDii' /\ NoneMade' /\ LinkRight' /\ FsWhole'
    BY <1>3, <2>2 DEF CarouselInv, LinkHasDii, NoneMade, LinkRight, FsWhole, DsiRepeat, LinkTo
  <2> QED BY <2>3, <2>4 DEF CarouselInv
<1>4. CASE DsiUpdate
  BY <1>1, <1>4 DEF DsiUpdate, CarouselInv, CarouselTypes, LinkHasDii, NoneMade, LinkRight, FsWhole
<1> QED BY <1>2, <1>3, <1>4

(* The file system is created of the blocks the DII expects.               *)
LEMMA ContentsWhole ==
  ASSUME CarouselInv, NEW v \in Versions, DownloadComplete(v)
  PROVE  /\ Contents(v) \in BlockFiles
         /\ \A m \in Modules, b \in Numbers :
              Contents(v)[m][b] # NoVersion <=> b \in BlocksOf(v, m)
<1>1. blocks \in BlockFiles
  BY DEF CarouselInv, CarouselTypes
<1>2. Contents(v) \in BlockFiles
  BY <1>1 DEF Contents, BlockFiles
<1>3. ASSUME NEW m \in Modules, NEW b \in Numbers
      PROVE  Contents(v)[m][b] # NoVersion <=> b \in BlocksOf(v, m)
  <2>1. b \in Nat
    BY NumbersAreNat
  <2>2. Expected(v, m) \in Nat
    <3>1. ModuleSize[v][m] \in Nat /\ BlockSize \in Nat \ {0}
      BY CarouselAssumption DEF Versions
    <3>2. ModuleSize[v][m] \div BlockSize \in Nat
      BY <3>1
    <3> QED BY <3>2 DEF Expected
  <2>3. b < Expected(v, m) => blocks[m][b] # NoVersion
    BY <2>1, <2>2 DEF DownloadComplete, ModuleComplete
  <2>4. Contents(v)[m][b] = IF b < Expected(v, m) THEN blocks[m][b] ELSE NoVersion
    BY DEF Contents
  <2> QED BY <2>1, <2>3, <2>4, BlocksOfExpected
<1> QED BY <1>2, <1>3

LEMMA DiiKeeps == ASSUME CarouselInv, Dii PROVE CarouselInv'
<1> USE DEF Dii
<1>1. onAir \in Versions /\ NoVersion \notin Versions
  BY CarouselAssumption DEF CarouselInv, CarouselTypes, Versions
<1>2. CASE DiiFirst
  <2>1. CarouselTypes'
    BY <1>1, <1>2 DEF CarouselInv, CarouselTypes, DiiFirst
  <2>2. dsi.link = "none"
    BY <1>2 DEF CarouselInv, LinkHasDii, DiiFirst
  <2>3. LinkHasDii' /\ NoneMade' /\ LinkRight' /\ FsWhole'
    BY <1>2, <2>2 DEF CarouselInv, LinkHasDii, NoneMade, LinkRight, FsWhole, DiiFirst
  <2> QED BY <2>1, <2>3 DEF CarouselInv
<1>3. CASE DiiRepeat
  <2>1. dii \in [version : Versions, created : BOOLEAN] /\ ~dii.created
    BY <1>3 DEF CarouselInv, CarouselTypes, DiiRepeat, Wanted
  <2>2. dii' = [version |-> dii.version, created |-> TRUE] /\ dii' # NoDii
    BY <1>1, <1>3, <2>1 DEF DiiRepeat, NoDii
  <2>3. LinkHasDii' /\ NoneMade' /\ LinkRight'
    BY <1>3, <2>1, <2>2 DEF CarouselInv, LinkHasDii, NoneMade, LinkRight, DiiRepeat
  <2>4. made = 0
    BY <2>1 DEF CarouselInv, NoneMade, Dii
  <2>5. CASE ait = "noname"
    <3>1. UNCHANGED <<onAir, dsi, ddb, blocks, ait, fs, made>> /\ undefined' = TRUE
      BY <1>3, <2>5 DEF DiiRepeat
    <3>2. CarouselTypes' /\ FsWhole'
      BY <2>1, <2>2, <3>1 DEF CarouselInv, CarouselTypes, FsWhole
    <3> QED BY <2>3, <3>2 DEF CarouselInv
  <2>6. CASE ait # "noname"
    <3> DEFINE v == dii.version
    <3>1. /\ UNCHANGED <<onAir, dsi, ddb, blocks, ait, undefined>> /\ made' = 1
          /\ fs' = [version |-> v, app |-> ait, blocks |-> Contents(v)]
      BY <1>3, <2>4, <2>6 DEF DiiRepeat
    <3>2. v \in Versions /\ DownloadComplete(v)
      BY <1>3, <2>1 DEF DiiRepeat, Wanted
    <3>3. /\ Contents(v) \in BlockFiles
          /\ \A m \in Modules, b \in Numbers :
               Contents(v)[m][b] # NoVersion <=> b \in BlocksOf(v, m)
      BY <3>2, ContentsWhole
    <3>4. CarouselTypes'
      BY <2>1, <2>2, <2>6, <3>1, <3>2, <3>3 DEF CarouselInv, CarouselTypes
    <3>5. FsWhole'
      BY <3>1, <3>3 DEF FsWhole
    <3> QED BY <2>3, <3>4, <3>5 DEF CarouselInv
  <2> QED BY <2>5, <2>6
<1>4. CASE DiiUpdate
  BY <1>1, <1>4 DEF DiiUpdate, CarouselInv, CarouselTypes, LinkHasDii, NoneMade, LinkRight, FsWhole
<1> QED BY <1>2, <1>3, <1>4

LEMMA CarouselGoesOn == CarouselInv /\ [CarouselNext]_carousel => CarouselInv'
<1> SUFFICES ASSUME CarouselInv, [CarouselNext]_carousel PROVE CarouselInv'
  OBVIOUS
<1>1. CASE Dsi
  BY <1>1, DsiKeeps
<1>2. CASE Dii
  BY <1>2, DiiKeeps
<1>3. CASE \E m \in Modules, b \in Numbers : Ddb(m, b)
  BY <1>3, DdbKeeps
<1>4. CASE ~undefined /\ AitParse
  BY <1>4 DEF AitParse, CarouselInv, CarouselTypes, LinkHasDii, NoneMade, LinkRight, FsWhole
<1>5. CASE ~undefined /\ Change
  <2>1. onAir' \in Versions
    BY <1>5, CarouselAssumption DEF Change, CarouselInv, CarouselTypes, Versions
  <2> QED BY <1>5, <2>1 DEF Change, CarouselInv, CarouselTypes, LinkHasDii, NoneMade, LinkRight, FsWhole
<1>6. CASE UNCHANGED carousel
  BY <1>6 DEF carousel, CarouselInv, CarouselTypes, LinkHasDii, NoneMade, LinkRight, FsWhole
<1> QED BY <1>1, <1>2, <1>3, <1>4, <1>5, <1>6 DEF CarouselNext

-----------------------------------------------------------------------------
(* Whatever comes in whatever order, the tables, the block files and the   *)
(* file system stay what they are; a DII never creates a second one.       *)
THEOREM CarouselTyped == CarouselSpec => []CarouselTypes
<1>1. CarouselInv => CarouselTypes
  BY DEF CarouselInv
<1> QED BY CarouselStarts, CarouselGoesOn, <1>1, PTL DEF CarouselSpec

(* The file system dii_create_filesystem() makes is of whole modules.      *)
THEOREM WholeModules == CarouselSpec => []FsWhole
<1>1. CarouselInv => FsWhole
  BY DEF CarouselInv
<1> QED BY CarouselStarts, CarouselGoesOn, <1>1, PTL DEF CarouselSpec

(* The link dsi_create_dii_symlink() makes is to a DII of the same         *)
(* transaction, and broken only if there was another one's.                *)
THEOREM LinksRight == CarouselSpec => []LinkRight
<1>1. CarouselInv => LinkRight
  BY DEF CarouselInv
<1> QED BY CarouselStarts, CarouselGoesOn, <1>1, PTL DEF CarouselSpec

-----------------------------------------------------------------------------
(* The dentries but the root's, and the lists they may be in.              *)
Others == Objects \ {Root}
Lists == Objects \cup {Stepfather}
Dentry == [list : Lists \cup {Nil}, parent : Lists \cup {Nil},
           name : {Name[i] : i \in Objects} \cup {Nil}, size : Nat,
           contents : Files \cup {Raw, Nil}, owed : Directories \cup {Nil}]

(* A dentry is in the list that it says it is in, once; clashes included.  *)
Sound(st) ==
  /\ st = [dentry |-> st.dentry, kids |-> st.kids, clashed |-> st.clashed]
  /\ st.dentry \in [Objects -> Dentry] /\ st.kids \in [Lists -> Seq(Others)]
  /\ st.clashed \in BOOLEAN
  /\ st.dentry[Root] = Absent
  /\ \A p \in Lists : IsInjective(st.kids[p])
  /\ \A i \in Others, p \in Lists : i \in ToSet(st.kids[p]) <=> st.dentry[i].list = p
  /\ \A i \in Others : st.dentry[i].list = Nil => st.dentry[i] = Absent

(* Objects whose directory's message has come.                             *)
BoundBy(dirs) == {i \in Others : HomeOf(i) \in dirs}
AtHome(st, i) == i = Root \/ st.dentry[i].list = HomeOf(i)

(* Where a dentry is: home, where the messages before led to or one of     *)
(* this pass says so, or with the stepfather.                              *)
Homes(st, bound) ==
  /\ \A i \in Others :
       /\ st.dentry[i].list \in {Nil, Stepfather, HomeOf(i)}
       /\ AtHome(st, i) => i \in placed \cup bound
  /\ \A i \in placed : AtHome(st, i) /\ (i # Root => HomeOf(i) \in placed)

(* As long as messages come, what is with the stepfather has no children.  *)
Coming(st, bound) ==
  /\ Homes(st, bound)
  /\ \A i \in Others :
       /\ AtHome(st, i) => AtHome(st, HomeOf(i))
       /\ i \in Directories /\ st.dentry[i].list # Nil => i \in placed \cup bound

(* Then it moves, unless no message led to it.                             *)
Leaving(st, bound) ==
  /\ Homes(st, bound)
  /\ \A i \in Others : AtHome(st, i) => HomeOf(i) = Root \/ st.dentry[HomeOf(i)].list # Nil
  /\ \A i \in Others : LedTo(i) => st.dentry[i].list # Nil

(* Up to a clash a dentry has the name it is bound to, and the stepfather  *)
(* knows whose it is.                                                      *)
Named(st, bound) ==
  \A i \in Others :
    /\ AtHome(st, i) => st.dentry[i].name = Name[i]
    /\ st.dentry[i].list = Stepfather =>
         IF i \in bound THEN st.dentry[i].owed = HomeOf(i) /\ st.dentry[i].name = Name[i]
         ELSE st.dentry[i].owed = Nil

(* A file has the contents its message brought, or none yet. In the first  *)
(* pass none that update_file_dentry() would refuse to write over.         *)
Brought(st, i, seen) ==
  st.dentry[i].list # Nil =>
    \/ Sent(i, st.dentry[i])
    \/ /\ Unwritten(i, st.dentry[i])
       /\ pass > 1 \/ (i \notin seen /\ (Stated[i] = 0 => st.dentry[i].contents = Nil))

(* What a message was about has a dentry.                                  *)
Heard(st, bound, seen) ==
  \A i \in Others : i \in bound \/ (i \in Files /\ i \in seen) => st.dentry[i].list # Nil

TreeInv ==
  /\ Sound(tree) /\ handled \subseteq Objects /\ Root \in placed /\ placed \subseteq Objects
  /\ phase \in {"messages", "reparent", "over"} /\ pass \in Nat \ {0}
  /\ Root \in handled => rootKnown
  /\ phase = "messages" =>
       /\ Coming(tree, BoundBy(handled))
       /\ ~tree.clashed => Heard(tree, BoundBy(handled), handled)
       /\ pass = 1 => placed = {Root}
  /\ phase = "reparent" /\ ~tree.clashed => Leaving(tree, BoundBy(handled))
  /\ phase = "over" /\ ~tree.clashed =>
       /\ tree.kids[Stepfather] = <<>>
       /\ Homes(tree, {})
  /\ ~tree.clashed =>
       Named(tree, BoundBy(handled)) /\ \A i \in Files : Brought(tree, i, handled)

-----------------------------------------------------------------------------
LEMMA HomeIs ==
  ASSUME NEW i \in Others
  PROVE  /\ HomeOf(i) \in Directories /\ HomeOf(i) \in Objects
         /\ \A d \in Directories : i \in ToSet(Bindings[d]) <=> d = HomeOf(i)
<1>1. PICK d \in Directories : \A c \in Directories : i \in ToSet(Bindings[c]) <=> c = d
  BY ObjectTreeAssumption DEF Others
<1>2. HomeOf(i) = d
  BY <1>1 DEF HomeOf
<1> QED BY <1>1, <1>2 DEF Directories

(* Induction along the bindings, from the gateway to every object.         *)
LEMMA FromRoot ==
  ASSUME NEW S \in SUBSET Objects, Root \in S,
         \A i \in Others : HomeOf(i) \in S => i \in S
  PROVE  S = Objects
<1>1. Closed(S, Directories)
  <2> SUFFICES ASSUME NEW d \in S \cap Directories, NEW i \in ToSet(Bindings[d]) PROVE i \in S
    BY DEF Closed
  <2>1. Bindings[d] \in Seq(Others)
    BY ObjectTreeAssumption DEF Others
  <2>2. i \in Others
    BY <2>1 DEF ToSet
  <2> QED BY <2>2, HomeIs
<1> QED BY <1>1, ObjectTreeAssumption

LEMMA NilIs == Nil \notin Objects /\ Nil \notin Lists /\ Stepfather \notin Objects /\ Root \in Objects
BY ObjectTreeAssumption DEF Directories, Lists

(* What is below p: its children, and theirs.                              *)
LEMMA UnderChild ==
  ASSUME NEW st, NEW p, NEW i \in Objects,
         st.dentry[i].list = p \/ (st.dentry[i].list \in Objects /\ Under(st, st.dentry[i].list, p))
  PROVE  Under(st, i, p)
BY DEF Under

LEMMA UnderIn ==
  ASSUME NEW st, NEW p, NEW i \in Objects, Under(st, i, p), NEW S \in SUBSET Objects,
         \A k \in Objects : st.dentry[k].list \in S \cup {p} => k \in S
  PROVE  i \in S
BY DEF Under

LEMMA UnderIs ==
  ASSUME NEW st, NEW p, NEW i \in Objects, Under(st, i, p)
  PROVE  st.dentry[i].list = p \/ (st.dentry[i].list \in Objects /\ Under(st, st.dentry[i].list, p))
<1> DEFINE S == {k \in Objects : \/ st.dentry[k].list = p
                                 \/ st.dentry[k].list \in Objects /\ Under(st, st.dentry[k].list, p)}
<1>1. ASSUME NEW k \in Objects, st.dentry[k].list \in S \cup {p} PROVE k \in S
  <2>1. CASE st.dentry[k].list = p
    BY <2>1
  <2>2. CASE st.dentry[k].list \in S
    <3> DEFINE l == st.dentry[k].list
    <3>1. l \in Objects /\ (st.dentry[l].list = p \/ (st.dentry[l].list \in Objects /\ Under(st, st.dentry[l].list, p)))
      BY <2>2
    <3>2. Under(st, l, p)
      BY <3>1, UnderChild
    <3> QED BY <3>1, <3>2
  <2> QED BY <1>1, <2>1, <2>2
<1>2. S \in SUBSET Objects
  OBVIOUS
<1> HIDE DEF S
<1>3. i \in S
  BY <1>1, <1>2, UnderIn
<1> QED BY <1>3 DEF S

-----------------------------------------------------------------------------
(* Lists without an element.                                               *)
LEMMA FirstGone ==
  ASSUME NEW S, NEW s \in Seq(S), NEW a, IsInjective(s)
  PROVE  /\ RemoveFirst(s, a) \in Seq(S) /\ IsInjective(RemoveFirst(s, a))
         /\ ToSet(RemoveFirst(s, a)) = ToSet(s) \ {a}
<1> DEFINE I == {i \in 1 .. Len(s) : s[i] = a}
           k == Min(I)
           r == RemoveFirst(s, a)
<1>1. CASE I = {}
  <2>1. r = s
    BY <1>1 DEF RemoveFirst
  <2>2. a \notin ToSet(s)
    BY <1>1 DEF ToSet
  <2> QED BY <2>1, <2>2
<1>2. CASE I # {}
  <2>1. r = SubSeq(s, 1, k - 1) \o SubSeq(s, k + 1, Len(s))
    BY <1>2 DEF RemoveFirst, RemoveAt, SelectInSeq
  <2>2. k \in 1 .. Len(s) /\ s[k] = a /\ Len(s) \in Nat
    <3>1. Len(s) \in Nat OBVIOUS
    <3>2. I \subseteq Nat BY <3>1
    <3>3. k \in I
      BY <1>2, <3>2, MinOfNat
    <3> QED BY <3>1, <3>3
  <2> HIDE DEF k
  <2>3. r \in Seq(S) /\ Len(r) = Len(s) - 1 /\ \A i \in 1 .. Len(s) - 1 : r[i] = IF i < k THEN s[i] ELSE s[i + 1]
    <3> DEFINE u == SubSeq(s, 1, k - 1)
               v == SubSeq(s, k + 1, Len(s))
    <3>1. u \in Seq(S) /\ Len(u) = k - 1 /\ \A i \in 1 .. k - 1 : u[i] = s[i]
      BY <2>2
    <3>2. v \in Seq(S) /\ Len(v) = Len(s) - k /\ \A i \in 1 .. Len(s) - k : v[i] = s[i + k]
      BY <2>2
    <3> HIDE DEF u, v
    <3>3. r = u \o v
      BY <2>1 DEF u, v
    <3> HIDE DEF r
    <3>4. r \in Seq(S) /\ Len(r) = Len(u) + Len(v)
      <4>1. \A p, q \in Seq(S) : p \o q \in Seq(S) /\ Len(p \o q) = Len(p) + Len(q)
        OBVIOUS
      <4> QED BY <3>1, <3>2, <3>3, <4>1
    <3>5. \A i \in 1 .. Len(s) - 1 : r[i] = IF i < k THEN u[i] ELSE v[i - Len(u)]
      <4>1. \A i \in 1 .. Len(u) + Len(v) : (u \o v)[i] = IF i <= Len(u) THEN u[i] ELSE v[i - Len(u)]
        BY <3>1, <3>2, ConcatProperties
      <4>2. Len(u) + Len(v) = Len(s) - 1 /\ \A i \in 1 .. Len(s) - 1 : i <= Len(u) <=> i < k
        BY <2>2, <3>1, <3>2
      <4> QED BY <3>3, <4>1, <4>2
    <3>6. ASSUME NEW i \in 1 .. Len(s) - 1 PROVE r[i] = IF i < k THEN s[i] ELSE s[i + 1]
      <4>1. CASE i < k
        BY <2>2, <3>1, <3>5, <4>1
      <4>2. CASE ~ (i < k)
        <5>1. i - Len(u) = i - (k - 1) /\ i - (k - 1) \in 1 .. Len(s) - k /\ (i - (k - 1)) + k = i + 1
          BY <2>2, <3>1, <4>2
        <5> QED BY <3>2, <3>5, <4>2, <5>1
      <4> QED BY <4>1, <4>2
    <3> QED BY <2>2, <3>1, <3>2, <3>4, <3>6
  <2> HIDE DEF r
  <2>4. DOMAIN r = 1 .. Len(s) - 1 /\ DOMAIN s = 1 .. Len(s)
    BY <2>3
  <2>5. ToSet(r) \subseteq ToSet(s)
    <3>1. \A i \in DOMAIN r : \E j \in DOMAIN s : r[i] = s[j]
      <4> TAKE i \in DOMAIN r
      <4>1. i \in DOMAIN s /\ i + 1 \in DOMAIN s
        BY <2>2, <2>4
      <4>2. r[i] = s[i] \/ r[i] = s[i + 1]
        BY <2>3, <2>4
      <4> QED BY <4>1, <4>2
    <3> QED BY <3>1 DEF ToSet
  <2>6. \A i, j \in 1 .. Len(s) : s[i] = s[j] => i = j
    BY <2>4 DEF IsInjective
  <2>7. IsInjective(r)
    BY <2>2, <2>3, <2>4, <2>6 DEF IsInjective
  <2>8. a \notin ToSet(r)
    BY <2>2, <2>3, <2>4, <2>6 DEF ToSet
  <2>9. ToSet(s) \ {a} \subseteq ToSet(r)
    <3> SUFFICES ASSUME NEW i \in DOMAIN s, s[i] # a PROVE \E j \in DOMAIN r : r[j] = s[i]
      BY DEF ToSet
    <3>1. CASE i < k
      BY <2>2, <2>3, <2>4, <3>1
    <3>2. CASE ~ (i < k)
      <4>1. i - 1 \in DOMAIN r /\ ~ (i - 1 < k) /\ i - 1 + 1 = i
        BY <2>2, <2>4, <3>2
      <4> QED BY <2>3, <2>4, <4>1
    <3> QED BY <3>1, <3>2
  <2> QED BY <2>3, <2>5, <2>7, <2>8, <2>9 DEF r
<1> QED BY <1>1, <1>2

(* list_add_tail() of what is not there.                                  *)
LEMMA OneAdded ==
  ASSUME NEW S, NEW s \in Seq(S), NEW a \in S
  PROVE  /\ Append(s, a) \in Seq(S) /\ ToSet(Append(s, a)) = ToSet(s) \cup {a}
         /\ IsInjective(s) /\ a \notin ToSet(s) => IsInjective(Append(s, a))
<1> DEFINE q == Append(s, a)
<1>1. q \in Seq(S) /\ DOMAIN q = 1 .. Len(s) + 1 /\ DOMAIN s = 1 .. Len(s) /\ Len(s) \in Nat
  OBVIOUS
<1>2. q[Len(s) + 1] = a /\ \A i \in 1 .. Len(s) : q[i] = s[i]
  OBVIOUS
<1> HIDE DEF q
<1>3. ToSet(q) = ToSet(s) \cup {a}
  BY <1>1, <1>2 DEF ToSet
<1>4. ASSUME IsInjective(s), a \notin ToSet(s) PROVE IsInjective(q)
  <2>1. \A i \in DOMAIN s : s[i] # a
    BY <1>4 DEF ToSet
  <2> QED BY <1>1, <1>2, <1>4, <2>1 DEF IsInjective
<1> QED BY <1>1, <1>3, <1>4 DEF q

-----------------------------------------------------------------------------
(* What the macros do to one dentry.                                       *)
Changed(st, r, i, d) == r.clashed = st.clashed /\ r.dentry = [st.dentry EXCEPT ![i] = d]

Left(st, i, r) ==
  /\ r = [dentry |-> st.dentry, kids |-> r.kids, clashed |-> st.clashed]
  /\ r.kids \in [Lists -> Seq(Others)]
  /\ \A p \in Lists : IsInjective(r.kids[p]) /\ ToSet(r.kids[p]) = ToSet(st.kids[p]) \ {i}

LEMMA UnlinkedIs ==
  ASSUME NEW st, Sound(st), NEW i \in Others, NEW r, r = Unlinked(st, i)
  PROVE  Left(st, i, r)
<1> DEFINE l == st.dentry[i].list
           q == RemoveFirst(st.kids[l], i)
<1>0. /\ st = [dentry |-> st.dentry, kids |-> st.kids, clashed |-> st.clashed]
      /\ st.kids \in [Lists -> Seq(Others)]
      /\ \A p \in Lists : IsInjective(st.kids[p])
      /\ \A p \in Lists : i \in ToSet(st.kids[p]) <=> l = p
      /\ l \in Lists \cup {Nil}
  <2>1. st.dentry[i] \in Dentry
    BY DEF Sound, Others
  <2> QED BY <2>1 DEF Sound, Dentry
<1>1. CASE l = Nil
  <2>1. r = st
    BY <1>1 DEF Unlinked
  <2>2. \A p \in Lists : i \notin ToSet(st.kids[p])
    BY <1>0, <1>1, NilIs
  <2> QED BY <1>0, <2>1, <2>2 DEF Left
<1>2. CASE l # Nil
  <2>1. l \in Lists /\ st.kids[l] \in Seq(Others)
    BY <1>0, <1>2
  <2>2. q \in Seq(Others) /\ IsInjective(q) /\ ToSet(q) = ToSet(st.kids[l]) \ {i}
    BY <1>0, <2>1, FirstGone
  <2>3. r = [st EXCEPT !.kids[l] = q]
    BY <1>2 DEF Unlinked
  <2> HIDE DEF q
  <2>4. r = [dentry |-> st.dentry, kids |-> [st.kids EXCEPT ![l] = q], clashed |-> st.clashed]
    BY <1>0, <2>3
  <2> HIDE DEF l
  <2>5. /\ r.kids = [st.kids EXCEPT ![l] = q]
        /\ r = [dentry |-> st.dentry, kids |-> r.kids, clashed |-> st.clashed]
    BY <2>4
  <2>6. r.kids \in [Lists -> Seq(Others)]
    BY <1>0, <2>1, <2>2, <2>5
  <2>7. ASSUME NEW p \in Lists PROVE IsInjective(r.kids[p]) /\ ToSet(r.kids[p]) = ToSet(st.kids[p]) \ {i}
    <3>1. CASE p = l
      <4>1. r.kids[p] = q
        BY <1>0, <2>5, <3>1
      <4> QED BY <2>2, <3>1, <4>1
    <3>2. CASE p # l
      <4>1. r.kids[p] = st.kids[p] /\ i \notin ToSet(st.kids[p])
        BY <1>0, <2>5, <3>2
      <4> QED BY <1>0, <4>1
    <3> QED BY <3>1, <3>2
  <2> QED BY <2>5, <2>6, <2>7 DEF Left
<1> QED BY <1>1, <1>2

LEMMA HungIs ==
  ASSUME NEW st, st = [dentry |-> st.dentry, kids |-> st.kids, clashed |-> st.clashed],
         NEW p, NEW i, NEW d, NEW r, r = Hung(st, p, i, d)
  PROVE  r = [dentry |-> [st.dentry EXCEPT ![i] = [d EXCEPT !.list = p]],
              kids |-> [st.kids EXCEPT ![p] = Append(st.kids[p], i)], clashed |-> st.clashed]
<1> DEFINE e == [d EXCEPT !.list = p]
           q == Append(st.kids[p], i)
<1>1. r = [st EXCEPT !.dentry[i] = e, !.kids[p] = q]
  BY DEF Hung
<1> HIDE DEF e, q
<1>2. r = [dentry |-> [st.dentry EXCEPT ![i] = e], kids |-> [st.kids EXCEPT ![p] = q], clashed |-> st.clashed]
  BY <1>1
<1> QED BY <1>2 DEF e, q

(* A dentry is moved to the end of a list.                                 *)
LEMMA MovedIs ==
  ASSUME NEW st, Sound(st), NEW i \in Others, NEW p \in Lists, NEW d \in Dentry,
         NEW r, r = Hung(Unlinked(st, i), p, i, d)
  PROVE  Sound(r) /\ Changed(st, r, i, [d EXCEPT !.list = p])
<1> DEFINE e == [d EXCEPT !.list = p]
<1>1. PICK u : u = Unlinked(st, i)
  OBVIOUS
<1>2. /\ u = [dentry |-> st.dentry, kids |-> u.kids, clashed |-> st.clashed]
      /\ u.kids \in [Lists -> Seq(Others)]
      /\ \A x \in Lists : IsInjective(u.kids[x]) /\ ToSet(u.kids[x]) = ToSet(st.kids[x]) \ {i}
  <2>1. Left(st, i, u)
    BY <1>1, UnlinkedIs
  <2> QED BY <2>1 DEF Left
<1>3. u.dentry = st.dentry /\ u.clashed = st.clashed
  BY <1>2
<1>4. r = Hung(u, p, i, d) /\ u = [dentry |-> u.dentry, kids |-> u.kids, clashed |-> u.clashed]
  BY <1>1, <1>2, <1>3
<1>5. r = [dentry |-> [st.dentry EXCEPT ![i] = e], kids |-> [u.kids EXCEPT ![p] = Append(u.kids[p], i)],
           clashed |-> st.clashed]
  BY <1>3, <1>4, HungIs
<1>6. e \in Dentry /\ e.list = p
  BY DEF Dentry
<1> HIDE DEF e
<1>7. PICK q : q = Append(u.kids[p], i)
  OBVIOUS
<1>8. q \in Seq(Others) /\ ToSet(q) = ToSet(st.kids[p]) \cup {i} /\ IsInjective(q)
  <2>1. u.kids[p] \in Seq(Others) /\ IsInjective(u.kids[p]) /\ ToSet(u.kids[p]) = ToSet(st.kids[p]) \ {i}
    BY <1>2
  <2> QED BY <1>7, <2>1, OneAdded
<1>9. r.dentry = [st.dentry EXCEPT ![i] = e] /\ r.kids = [u.kids EXCEPT ![p] = q] /\ r.clashed = st.clashed
  BY <1>5, <1>7
<1>10. r = [dentry |-> r.dentry, kids |-> r.kids, clashed |-> r.clashed]
  BY <1>5, <1>9
<1>11. i \in Objects /\ i # Root /\ Root \in Objects /\ Nil \notin Lists
  BY NilIs DEF Others
<1>12. st.dentry \in [Objects -> Dentry] /\ st.clashed \in BOOLEAN /\ st.dentry[Root] = Absent
  BY DEF Sound
<1>13. r.dentry \in [Objects -> Dentry] /\ r.kids \in [Lists -> Seq(Others)] /\ r.dentry[Root] = Absent
  BY <1>2, <1>6, <1>8, <1>9, <1>11, <1>12
<1>14. ASSUME NEW x \in Lists PROVE /\ IsInjective(r.kids[x])
                                   /\ \A k \in Others : k \in ToSet(r.kids[x]) <=> r.dentry[k].list = x
  <2>1. \A k \in Others : k \in ToSet(st.kids[x]) <=> st.dentry[k].list = x
    BY DEF Sound
  <2>2. \A k \in Others : r.dentry[k] = IF k = i THEN e ELSE st.dentry[k]
    BY <1>9, <1>12 DEF Others
  <2>3. CASE x = p
    <3>1. r.kids[x] = q
      BY <1>2, <1>9, <2>3
    <3> QED BY <1>6, <1>8, <2>1, <2>2, <2>3, <3>1
  <2>4. CASE x # p
    <3>1. r.kids[x] = u.kids[x]
      BY <1>2, <1>9, <2>4
    <3>2. IsInjective(r.kids[x]) /\ ToSet(r.kids[x]) = ToSet(st.kids[x]) \ {i}
      BY <1>2, <3>1
    <3> QED BY <1>6, <2>1, <2>2, <2>4, <3>2
  <2> QED BY <2>3, <2>4
<1>15. \A k \in Others : r.dentry[k].list = Nil => r.dentry[k] = Absent
  <2>1. \A k \in Others : st.dentry[k].list = Nil => st.dentry[k] = Absent
    BY DEF Sound
  <2> QED BY <1>6, <1>9, <1>11, <1>12, <2>1 DEF Others
<1>16. Sound(r)
  BY <1>9, <1>10, <1>12, <1>13, <1>14, <1>15 DEF Sound
<1> QED BY <1>9, <1>16 DEF Changed, e

(* A dentry is changed where it hangs.                                     *)
LEMMA RedoneIs ==
  ASSUME NEW st, Sound(st), NEW i \in Others, st.dentry[i].list # Nil,
         NEW d \in Dentry, d.list = st.dentry[i].list,
         NEW r, r = [dentry |-> [st.dentry EXCEPT ![i] = d], kids |-> st.kids, clashed |-> st.clashed]
  PROVE  Sound(r) /\ Changed(st, r, i, d)
<1>1. r.dentry = [st.dentry EXCEPT ![i] = d] /\ r.kids = st.kids /\ r.clashed = st.clashed
  OBVIOUS
<1>2. r = [dentry |-> r.dentry, kids |-> r.kids, clashed |-> r.clashed]
  BY <1>1
<1>3. i \in Objects /\ i # Root /\ Root \in Objects
  BY NilIs DEF Others
<1>4. st.dentry \in [Objects -> Dentry]
  BY DEF Sound
<1>5. \A k \in Objects : r.dentry[k] = IF k = i THEN d ELSE st.dentry[k]
  BY <1>1, <1>4
<1>6. \A k \in Others : r.dentry[k].list = st.dentry[k].list
  BY <1>5 DEF Others
<1>7. r.dentry \in [Objects -> Dentry]
  BY <1>1, <1>4
<1>8. Sound(r)
  BY <1>1, <1>2, <1>3, <1>5, <1>6, <1>7 DEF Sound, Others
<1> QED BY <1>1, <1>8 DEF Changed
(* fsutils_dispose_node(): a dentry goes with all that is below it.        *)
Gone(st, i) == {k \in Others : k = i \/ Under(st, k, i)}

LEMMA DisposedIs ==
  ASSUME NEW st, Sound(st), NEW i \in Others, NEW r, r = Disposed(st, i)
  PROVE  /\ Sound(r) /\ r.clashed = st.clashed
         /\ r.dentry = [k \in Objects |-> IF k \in Gone(st, i) THEN Absent ELSE st.dentry[k]]
<1> DEFINE G == Gone(st, i)
<1>1. PICK u : u = Unlinked(st, i)
  OBVIOUS
<1>2. /\ u.kids \in [Lists -> Seq(Others)]
      /\ \A x \in Lists : IsInjective(u.kids[x]) /\ ToSet(u.kids[x]) = ToSet(st.kids[x]) \ {i}
  <2>1. Left(st, i, u)
    BY <1>1, UnlinkedIs
  <2> QED BY <2>1 DEF Left
<1>3. r = [dentry |-> [k \in Objects |-> IF k \in G THEN Absent ELSE st.dentry[k]],
           kids |-> [k \in Lists |-> IF k \in G THEN <<>> ELSE u.kids[k]], clashed |-> st.clashed]
  BY <1>1, <1>2 DEF Disposed, Gone, Others
<1>4. /\ st.dentry \in [Objects -> Dentry] /\ st.clashed \in BOOLEAN /\ st.dentry[Root] = Absent
      /\ \A k \in Others, p \in Lists : k \in ToSet(st.kids[p]) <=> st.dentry[k].list = p
      /\ \A k \in Others : st.dentry[k].list = Nil => st.dentry[k] = Absent
  BY DEF Sound
<1>5. \A k \in Others : k \in Objects /\ k # Root
  BY DEF Others
<1>6. ASSUME NEW k \in Others, st.dentry[k].list \in G PROVE k \in G
  <2>1. Under(st, k, i)
    BY <1>5, <1>6, UnderChild DEF Gone
  <2> QED BY <2>1 DEF Gone
<1>7. ASSUME NEW k \in G, k # i PROVE st.dentry[k].list \in G
  <2>1. k \in Objects /\ Under(st, k, i)
    BY <1>5, <1>7 DEF Gone
  <2>2. st.dentry[k].list = i \/ (st.dentry[k].list \in Objects /\ Under(st, st.dentry[k].list, i))
    BY <2>1, UnderIs
  <2>3. ~ Under(st, Root, i)
    <3>1. st.dentry[Root].list = Nil
      BY <1>4 DEF Absent
    <3> QED BY <3>1, UnderIs, NilIs, <1>5
  <2> QED BY <2>2, <2>3 DEF Gone, Others
<1>8. i \in G /\ G \subseteq Others
  BY DEF Gone
<1> HIDE DEF G
<1>9. /\ r.dentry = [k \in Objects |-> IF k \in G THEN Absent ELSE st.dentry[k]]
      /\ r.kids = [k \in Lists |-> IF k \in G THEN <<>> ELSE u.kids[k]]
      /\ r.clashed = st.clashed
  BY <1>3
<1>10. r = [dentry |-> r.dentry, kids |-> r.kids, clashed |-> r.clashed]
  BY <1>3, <1>9
<1>11. Absent \in Dentry /\ Absent.list = Nil
  BY DEF Absent, Dentry
<1>12. r.dentry \in [Objects -> Dentry] /\ r.dentry[Root] = Absent /\ r.kids \in [Lists -> Seq(Others)]
  <2>1. \A k \in Lists : (IF k \in G THEN <<>> ELSE u.kids[k]) \in Seq(Others)
    BY <1>2
  <2> QED BY <1>4, <1>9, <1>11, <2>1, NilIs
<1>13. \A k \in Others : r.dentry[k] = IF k \in G THEN Absent ELSE st.dentry[k]
  BY <1>5, <1>9
<1>14. ASSUME NEW p \in Lists PROVE /\ IsInjective(r.kids[p])
                                   /\ \A k \in Others : k \in ToSet(r.kids[p]) <=> r.dentry[k].list = p
  <2>1. CASE p \in G
    <3>1. r.kids[p] = <<>>
      BY <1>9, <2>1
    <3>2. IsInjective(<<>>) /\ ToSet(<<>>) = {}
      BY DEF IsInjective, ToSet
    <3> QED BY <1>6, <1>11, <1>13, <2>1, <3>1, <3>2, NilIs
  <2>2. CASE p \notin G
    <3>1. r.kids[p] = u.kids[p]
      BY <1>9, <2>2
    <3>2. IsInjective(r.kids[p]) /\ ToSet(r.kids[p]) = ToSet(st.kids[p]) \ {i}
      BY <1>2, <3>1
    <3> QED BY <1>4, <1>7, <1>8, <1>11, <1>13, <2>2, <3>2, NilIs
  <2> QED BY <2>1, <2>2
<1>15. Sound(r)
  BY <1>4, <1>9, <1>10, <1>11, <1>12, <1>13, <1>14 DEF Sound
<1> QED BY <1>9, <1>15 DEF G

(* fsutils_get_child().                                                    *)
LEMMA ChildIs ==
  ASSUME NEW st, Sound(st), NEW p \in Lists, NEW name, NEW c, c = Child(st, p, name)
  PROVE  c = Nil \/ (c \in Others /\ st.dentry[c].list = p /\ st.dentry[c].name = name)
<1> DEFINE s == st.kids[p]
           N == {n \in DOMAIN s : st.dentry[s[n]].name = name}
<1>1. CASE N = {}
  BY <1>1 DEF Child
<1>2. CASE N # {}
  <2>1. c = s[Min(N)]
    BY <1>2 DEF Child
  <2>2. s \in Seq(Others) /\ \A i \in Others : i \in ToSet(s) <=> st.dentry[i].list = p
    BY DEF Sound
  <2> HIDE DEF s
  <2>3. N \subseteq Nat
    BY <2>2
  <2>4. Min(N) \in N
    BY <1>2, <2>3, MinOfNat
  <2>5. c \in ToSet(s) /\ c \in Others /\ st.dentry[c].name = name
    <3>1. PICK n : n = Min(N)
      OBVIOUS
    <3>2. n \in DOMAIN s /\ st.dentry[s[n]].name = name /\ c = s[n]
      BY <2>1, <2>4, <3>1
    <3>3. s[n] \in Others /\ s[n] \in ToSet(s)
      BY <2>2, <3>2 DEF ToSet
    <3> QED BY <3>2, <3>3
  <2> QED BY <2>2, <2>5
<1> QED BY <1>1, <1>2

LEMMA RenamedIs ==
  ASSUME NEW st, Sound(st), NEW i \in Others, NEW p \in Lists, st.dentry[i].list = p,
         NEW r, r = Renamed(st, p, i, Name[i])
  PROVE  Sound(r) /\ Changed(st, r, i, [st.dentry[i] EXCEPT !.name = Name[i], !.parent = p])
<1> DEFINE e == [st.dentry[i] EXCEPT !.name = Name[i]]
           named == [st EXCEPT !.dentry[i].name = Name[i]]
<1>1. st.dentry[i] \in Dentry /\ p # Nil /\ i \in Objects
  BY NilIs DEF Sound, Others
<1>2. e \in Dentry /\ e.list = p /\ e.parent = st.dentry[i].parent
  BY <1>1 DEF Dentry
<1>3. named = [dentry |-> [st.dentry EXCEPT ![i] = e], kids |-> st.kids, clashed |-> st.clashed]
  <2>1. st = [dentry |-> st.dentry, kids |-> st.kids, clashed |-> st.clashed]
    BY DEF Sound
  <2>2. named = [st EXCEPT !.dentry = [st.dentry EXCEPT ![i] = e]]
    OBVIOUS
  <2> HIDE DEF e, named
  <2> QED BY <2>1, <2>2
<1>4. Sound(named) /\ Changed(st, named, i, e)
  <2> HIDE DEF e, named
  <2> QED BY <1>1, <1>2, <1>3, RedoneIs
<1>5. st.dentry \in [Objects -> Dentry]
  BY DEF Sound
<1>6. named.dentry[i] = e /\ named.clashed = st.clashed
  <2> HIDE DEF e, named
  <2> QED BY <1>1, <1>4, <1>5 DEF Changed
<1>7. CASE st.dentry[i].parent = p
  <2>1. r = named
    BY <1>7 DEF Renamed
  <2>2. [st.dentry[i] EXCEPT !.name = Name[i], !.parent = p] = e
    BY <1>1, <1>7 DEF Dentry
  <2> QED BY <1>4, <2>1, <2>2
<1>8. CASE st.dentry[i].parent # p
  <2> DEFINE f == [e EXCEPT !.parent = p]
  <2>1. r = Hung(Unlinked(named, i), p, i, [named.dentry[i] EXCEPT !.parent = p])
    BY <1>8 DEF Renamed
  <2>2. r = Hung(Unlinked(named, i), p, i, f)
    <3> HIDE DEF e, named
    <3> QED BY <1>6, <2>1
  <2>3. f \in Dentry /\ [f EXCEPT !.list = p] = f
    BY <1>1 DEF Dentry
  <2>4. [st.dentry[i] EXCEPT !.name = Name[i], !.parent = p] = f
    BY <1>1 DEF Dentry
  <2> HIDE DEF e, f, named
  <2>5. Sound(r) /\ Changed(named, r, i, [f EXCEPT !.list = p])
    BY <1>4, <2>2, <2>3, MovedIs
  <2>6. r.clashed = st.clashed /\ r.dentry = [st.dentry EXCEPT ![i] = f]
    BY <1>4, <1>5, <2>3, <2>5 DEF Changed
  <2> QED BY <2>4, <2>5, <2>6 DEF Changed
<1> QED BY <1>7, <1>8

Wrote(st, r, i, c, z) ==
  /\ Sound(r) /\ Changed(st, r, i, r.dentry[i])
  /\ \E x : /\ r.dentry[i] = [st.dentry[i] EXCEPT !.contents = x, !.size = z]
            /\ z > 0 => x = c
            /\ z = 0 /\ st.dentry[i].size = 0 => x = st.dentry[i].contents

LEMMA OverwrittenIs ==
  ASSUME NEW st, Sound(st), NEW i \in Others, st.dentry[i].list # Nil,
         NEW c \in Files \cup {Raw, Nil}, NEW z \in Nat, NEW r, r = Overwritten(st, i, c, z)
  PROVE  Wrote(st, r, i, c, z)
<1>0. PICK o : o = IF z = 0 THEN Raw ELSE c
  OBVIOUS
<1> DEFINE d == [st.dentry[i] EXCEPT !.contents = o, !.size = z]
<1>1. st.dentry[i] \in Dentry /\ i \in Objects /\ st.dentry \in [Objects -> Dentry]
      /\ o \in Files \cup {Raw, Nil}
  BY <1>0 DEF Sound, Others
<1>2. CASE st.dentry[i].size = z /\ z = 0
  <2>1. r = st
    BY <1>2 DEF Overwritten
  <2>2. st.dentry[i] = [st.dentry[i] EXCEPT !.contents = st.dentry[i].contents, !.size = z]
    BY <1>1, <1>2 DEF Dentry
  <2>3. st.dentry = [st.dentry EXCEPT ![i] = st.dentry[i]]
    BY <1>1
  <2>4. Sound(r) /\ Changed(st, r, i, r.dentry[i])
    BY <2>1, <2>3 DEF Changed
  <2>5. \E x : /\ r.dentry[i] = [st.dentry[i] EXCEPT !.contents = x, !.size = z]
               /\ z > 0 => x = c
               /\ z = 0 /\ st.dentry[i].size = 0 => x = st.dentry[i].contents
    <3>1. WITNESS st.dentry[i].contents
    <3> QED BY <1>2, <2>1, <2>2
  <2> QED BY <2>4, <2>5 DEF Wrote
<1>3. CASE ~ (st.dentry[i].size = z /\ z = 0)
  <2>1. r = [st EXCEPT !.dentry[i] = d]
    BY <1>0, <1>3 DEF Overwritten
  <2>2. d \in Dentry /\ d.list = st.dentry[i].list
    BY <1>1 DEF Dentry
  <2>3. st = [dentry |-> st.dentry, kids |-> st.kids, clashed |-> st.clashed]
    BY DEF Sound
  <2> HIDE DEF d
  <2>4. r = [dentry |-> [st.dentry EXCEPT ![i] = d], kids |-> st.kids, clashed |-> st.clashed]
    BY <2>1, <2>3
  <2>5. Sound(r) /\ Changed(st, r, i, d)
    BY <2>2, <2>4, RedoneIs
  <2>6. r.dentry[i] = d
    BY <1>1, <2>5 DEF Changed
  <2>7. \E x : /\ r.dentry[i] = [st.dentry[i] EXCEPT !.contents = x, !.size = z]
               /\ z > 0 => x = c
               /\ z = 0 /\ st.dentry[i].size = 0 => x = st.dentry[i].contents
    <3>1. WITNESS o
    <3> QED BY <1>0, <1>3, <2>6 DEF d
  <2>8. Changed(st, r, i, r.dentry[i])
    BY <2>5, <2>6
  <2> QED BY <2>5, <2>7, <2>8 DEF Wrote
<1> QED BY <1>2, <1>3

LEMMA OwingIs ==
  ASSUME NEW st, Sound(st), NEW i \in Others, st.dentry[i].list # Nil, NEW d \in Directories,
         NEW q, q.st = st, q.id = i, NEW r, r = Owing(q, d)
  PROVE  Sound(r) /\ Changed(st, r, i, [st.dentry[i] EXCEPT !.owed = d])
<1> DEFINE e == [st.dentry[i] EXCEPT !.owed = d]
<1>1. st.dentry[i] \in Dentry
  BY DEF Sound, Others
<1>2. e \in Dentry /\ e.list = st.dentry[i].list
  BY <1>1 DEF Dentry
<1>3. r = [st EXCEPT !.dentry[i].owed = d]
  BY DEF Owing
<1>4. r = [st EXCEPT !.dentry = [st.dentry EXCEPT ![i] = e]]
  BY <1>3
<1> HIDE DEF e
<1>5. st = [dentry |-> st.dentry, kids |-> st.kids, clashed |-> st.clashed]
  BY DEF Sound
<1>6. r = [dentry |-> [st.dentry EXCEPT ![i] = e], kids |-> st.kids, clashed |-> st.clashed]
  BY <1>4, <1>5
<1>7. Sound(r) /\ Changed(st, r, i, e)
  BY <1>2, <1>6, RedoneIs
<1> QED BY <1>7 DEF e

(* A name that is taken: of the dentries, only the one that has it changes *)
(* after that.                                                             *)
Collided(st, r, i, p) == r.clashed /\ r.dentry = st.dentry /\ i \in Others /\ st.dentry[i].list = p

LEMMA ClashedIs ==
  ASSUME NEW st, Sound(st), NEW r, r = [st EXCEPT !.clashed = TRUE]
  PROVE  Sound(r) /\ r.clashed /\ r.dentry = st.dentry
<1>1. st = [dentry |-> st.dentry, kids |-> st.kids, clashed |-> st.clashed]
  BY DEF Sound
<1>2. r = [dentry |-> st.dentry, kids |-> st.kids, clashed |-> TRUE]
  BY <1>1
<1>3. r.dentry = st.dentry /\ r.kids = st.kids /\ r.clashed = TRUE
  BY <1>2
<1>4. r = [dentry |-> r.dentry, kids |-> r.kids, clashed |-> r.clashed]
  BY <1>2, <1>3
<1> QED BY <1>3, <1>4 DEF Sound

LEMMA CreatedIs ==
  ASSUME NEW st, Sound(st), NEW i \in Others, st.dentry[i].list = Nil, NEW p \in Lists,
         NEW d \in Dentry, NEW q, q = Created(st, p, i, d)
  PROVE  /\ Sound(q.st)
         /\ \/ q.id = i /\ Changed(st, q.st, i, [d EXCEPT !.parent = p, !.list = p])
            \/ Collided(st, q.st, q.id, p)
<1>1. PICK c : c = Child(st, p, d.name)
  OBVIOUS
<1>2. c = Nil \/ (c \in Others /\ st.dentry[c].list = p)
  BY <1>1, ChildIs
<1>3. CASE c # Nil
  <2>1. PICK r : r = [st EXCEPT !.clashed = TRUE]
    OBVIOUS
  <2>2. q = [st |-> r, id |-> c]
    BY <1>1, <1>3, <2>1 DEF Created
  <2>3. Sound(r) /\ r.clashed /\ r.dentry = st.dentry
    BY <2>1, ClashedIs
  <2>4. q.st = r /\ q.id = c
    BY <2>2
  <2> QED BY <1>2, <1>3, <2>3, <2>4 DEF Collided
<1>4. CASE c = Nil
  <2> DEFINE e == [d EXCEPT !.parent = p]
  <2>1. PICK r : r = Hung(st, p, i, e)
    OBVIOUS
  <2>2. q = [st |-> r, id |-> i]
    BY <1>1, <1>4, <2>1 DEF Created
  <2>3. q.st = r /\ q.id = i
    BY <2>2
  <2>4. Unlinked(st, i) = st
    BY DEF Unlinked
  <2>5. e \in Dentry /\ [e EXCEPT !.list = p] = [d EXCEPT !.parent = p, !.list = p]
    BY DEF Dentry
  <2> HIDE DEF e
  <2>6. Sound(r) /\ Changed(st, r, i, [e EXCEPT !.list = p])
    BY <2>1, <2>4, <2>5, MovedIs
  <2> QED BY <2>3, <2>5, <2>6
<1> QED BY <1>3, <1>4

Settled(st, q, i, p, d) ==
  /\ Sound(q.st)
  /\ \/ /\ st.dentry[i].list = p /\ q.id = i
        /\ Changed(st, q.st, i, [st.dentry[i] EXCEPT !.name = Name[i], !.parent = p])
     \/ /\ st.dentry[i].list = Nil /\ q.id = i
        /\ Changed(st, q.st, i, [d EXCEPT !.parent = p, !.list = p])
     \/ st.dentry[i].list = Nil /\ Collided(st, q.st, q.id, p)

(* CREATE_SIMPLE_FILE() of an object that is in p or nowhere.              *)
LEMMA SimpleIs ==
  ASSUME NEW st, Sound(st), NEW i \in Others, NEW p \in Lists, st.dentry[i].list \in {Nil, p},
         NEW d \in Dentry, NEW q, q = Simple(st, p, i, d)
  PROVE  Settled(st, q, i, p, d)
<1>0. Under(st, i, p) <=> st.dentry[i].list = p
  <2>1. i \in Objects /\ p # Nil /\ Nil \notin Objects
    BY NilIs DEF Others
  <2>2. st.dentry[i].list = p => Under(st, i, p)
    BY <2>1, UnderChild
  <2>3. Under(st, i, p) => st.dentry[i].list = p
    BY <2>1, UnderIs
  <2> QED BY <2>2, <2>3
<1>1. CASE st.dentry[i].list = p
  <2>1. PICK r : r = Renamed(st, p, i, Name[i])
    OBVIOUS
  <2>2. q = [st |-> r, id |-> i]
    BY <1>0, <1>1, <2>1 DEF Simple
  <2>3. q.st = r /\ q.id = i
    BY <2>2
  <2> QED BY <1>1, <2>1, <2>3, RenamedIs DEF Settled
<1>2. CASE st.dentry[i].list # p
  <2>1. q = Created(st, p, i, d)
    BY <1>0, <1>2 DEF Simple
  <2> QED BY <1>2, <2>1, CreatedIs DEF Settled
<1> QED BY <1>1, <1>2

-----------------------------------------------------------------------------
(* While messages come, fsutils_find_by_inode() finds below the gateway    *)
(* what is at home, and below the stepfather what waits there.             *)
LEMMA Places ==
  ASSUME NEW st, Sound(st), NEW bound, Coming(st, bound), NEW i \in Others
  PROVE  /\ Under(st, i, Root) <=> AtHome(st, i)
         /\ Under(st, i, Stepfather) <=> st.dentry[i].list = Stepfather
<1>1. /\ st.dentry[Root].list = Nil /\ Root \in Objects /\ Nil \notin Objects /\ Stepfather \notin Objects
      /\ Nil # Stepfather
  BY NilIs DEF Sound, Absent, Lists
<1>2. \A k \in Others : /\ st.dentry[k].list \in {Nil, Stepfather, HomeOf(k)}
                        /\ st.dentry[k].list = HomeOf(k) => AtHome(st, HomeOf(k))
                        /\ HomeOf(k) \in Objects /\ k \in Objects /\ k # Root
  BY HomeIs DEF Coming, Homes, AtHome, Others
<1>3. AtHome(st, i) => Under(st, i, Root)
  <2> DEFINE S == {k \in Objects : k # Root /\ AtHome(st, k) => Under(st, k, Root)}
  <2>1. ASSUME NEW k \in Others, HomeOf(k) \in S PROVE k \in S
    <3> SUFFICES ASSUME AtHome(st, k) PROVE Under(st, k, Root)
      BY <1>2
    <3>1. st.dentry[k].list = HomeOf(k) /\ AtHome(st, HomeOf(k))
      BY <1>2 DEF AtHome
    <3>2. CASE HomeOf(k) = Root
      BY <1>2, <3>1, <3>2, UnderChild
    <3>3. CASE HomeOf(k) # Root
      <4>1. Under(st, HomeOf(k), Root)
        BY <2>1, <3>1, <3>3
      <4> QED BY <1>2, <3>1, <4>1, UnderChild
    <3> QED BY <3>2, <3>3
  <2>2. Root \in S /\ S \in SUBSET Objects
    BY <1>1
  <2> HIDE DEF S
  <2>3. S = Objects
    BY <2>1, <2>2, FromRoot
  <2>4. i \in S
    BY <1>2, <2>3
  <2> QED BY <1>2, <2>4 DEF S
<1>4. ASSUME Under(st, i, Root) PROVE AtHome(st, i)
  <2> DEFINE S == {k \in Others : st.dentry[k].list = HomeOf(k)}
  <2>1. ASSUME NEW k \in Objects, st.dentry[k].list \in S \cup {Root} PROVE k \in S
    <3>1. st.dentry[k].list \in Objects
      BY <1>1, <2>1 DEF Others
    <3> QED BY <1>1, <1>2, <3>1 DEF Others
  <2>2. S \in SUBSET Objects
    BY DEF Others
  <2> HIDE DEF S
  <2>3. i \in S
    BY <1>2, <1>4, <2>1, <2>2, UnderIn
  <2> QED BY <2>3 DEF S, AtHome
<1>5. st.dentry[i].list = Stepfather => Under(st, i, Stepfather)
  BY <1>2, UnderChild
<1>6. ASSUME Under(st, i, Stepfather) PROVE st.dentry[i].list = Stepfather
  <2> DEFINE S == {k \in Others : st.dentry[k].list = Stepfather}
  <2>1. ASSUME NEW k \in Objects, st.dentry[k].list \in S \cup {Stepfather} PROVE k \in S
    <3>1. k \in Others /\ st.dentry[k].list # Nil
      BY <1>1, <1>2, <2>1 DEF Others
    <3>2. CASE st.dentry[k].list \in S
      <4>1. st.dentry[k].list = HomeOf(k) /\ AtHome(st, HomeOf(k)) /\ HomeOf(k) \in Others
        BY <1>1, <1>2, <3>1, <3>2
      <4>2. st.dentry[HomeOf(k)].list = HomeOf(HomeOf(k))
        BY <4>1 DEF AtHome, Others
      <4>3. HomeOf(HomeOf(k)) = Stepfather
        BY <3>2, <4>1, <4>2
      <4> QED BY <1>1, <1>2, <4>1, <4>3
    <3> QED BY <2>1, <3>1, <3>2
  <2>2. S \in SUBSET Objects
    BY DEF Others
  <2> HIDE DEF S
  <2>3. i \in S
    BY <1>2, <1>6, <2>1, <2>2, UnderIn
  <2> QED BY <2>3 DEF S
<1> QED BY <1>3, <1>4, <1>5, <1>6

LEMMA GoneAlone ==
  ASSUME NEW st, Sound(st), NEW bound, Coming(st, bound), NEW i \in Others, st.dentry[i].list = Stepfather
  PROVE  Gone(st, i) = {i}
<1>1. ASSUME NEW k \in Objects PROVE st.dentry[k].list # i
  <2>1. CASE k = Root
    BY <2>1, NilIs DEF Sound, Absent, Others
  <2>2. CASE k # Root
    <3>1. k \in Others /\ st.dentry[k].list \in {Nil, Stepfather, HomeOf(k)}
      BY <2>2 DEF Coming, Homes, Others
    <3>2. ASSUME st.dentry[k].list = HomeOf(k), HomeOf(k) = i PROVE FALSE
      <4>1. AtHome(st, i)
        BY <3>1, <3>2 DEF Coming, AtHome
      <4> QED BY <4>1, HomeIs, NilIs DEF AtHome, Others
    <3> QED BY <3>1, <3>2, NilIs DEF Others, Lists
  <2> QED BY <2>1, <2>2
<1>2. \A k \in Objects : st.dentry[k].list \in {} \cup {i} => k \in {}
  BY <1>1
<1>3. ASSUME NEW k \in Objects, Under(st, k, i) PROVE FALSE
  <2>1. PICK S : S = {}
    OBVIOUS
  <2>2. S \in SUBSET Objects /\ \A m \in Objects : st.dentry[m].list \in S \cup {i} => m \in S
    BY <1>2, <2>1
  <2>3. k \in S
    BY <1>3, <2>2, UnderIn
  <2> QED BY <2>1, <2>3
<1> QED BY <1>3 DEF Gone, Others

-----------------------------------------------------------------------------
(* A directory d binds i: i is where it belongs, p, if no name clashes.    *)
Binds(st, r, i, p, d) ==
  /\ Sound(r) /\ (st.clashed => r.clashed)
  /\ \A k \in Others \ {i} :
       \/ r.dentry[k].list = st.dentry[k].list
       \/ r.clashed /\ st.dentry[k].list = Stepfather /\ r.dentry[k].list = Nil
  /\ \/ r.dentry[i].list = p
     \/ r.clashed /\ r.dentry[i].list = Nil /\ st.dentry[i].list # HomeOf(i)
  /\ ~ r.clashed =>
       /\ \A k \in Others \ {i} : r.dentry[k] = st.dentry[k]
       /\ r.dentry[i].name = Name[i]
       /\ p = Stepfather => r.dentry[i].owed = d

(* The contents that a file has by then.                                   *)
Brings(st, r, i, seen) ==
  ~ r.clashed /\ i \in Files /\ Brought(st, i, seen) /\ (i \in seen => st.dentry[i].list # Nil)
    /\ (i \in placed => pass > 1) => Brought(r, i, seen)

LEMMA WaitsIs ==
  ASSUME NEW st, Sound(st), NEW i \in Others, st.dentry[i].list \in {Nil, Stepfather},
         NEW d \in Directories, NEW e \in Dentry, e.name = Name[i],
         NEW q, q = Simple(st, Stepfather, i, e), NEW r, r = Owing(q, d)
  PROVE  /\ Binds(st, r, i, Stepfather, d)
         /\ ~ r.clashed => IF st.dentry[i].list = Nil
                           THEN r.dentry[i].size = e.size /\ r.dentry[i].contents = e.contents
                           ELSE r.dentry[i].size = st.dentry[i].size
                                /\ r.dentry[i].contents = st.dentry[i].contents
<1>1. PICK s : s = q.st
  OBVIOUS
<1> DEFINE j == q.id
<1>2. Stepfather \in Lists /\ Stepfather # Nil /\ HomeOf(i) # Stepfather /\ HomeOf(i) # Nil
  BY NilIs, HomeIs DEF Lists
<1>3. /\ Sound(s)
      /\ \/ /\ st.dentry[i].list = Stepfather /\ j = i
            /\ Changed(st, s, i, [st.dentry[i] EXCEPT !.name = Name[i], !.parent = Stepfather])
         \/ /\ st.dentry[i].list = Nil /\ j = i
            /\ Changed(st, s, i, [e EXCEPT !.parent = Stepfather, !.list = Stepfather])
         \/ st.dentry[i].list = Nil /\ Collided(st, s, j, Stepfather)
  <2>1. Settled(st, q, i, Stepfather, e)
    BY <1>2, SimpleIs
  <2> QED BY <1>1, <2>1 DEF Settled
<1>4. st.dentry \in [Objects -> Dentry] /\ s.dentry \in [Objects -> Dentry] /\ i \in Objects
      /\ st.dentry[i] \in Dentry /\ \A k \in Others : k \in Objects
  BY <1>3 DEF Sound, Others
<1>5. CASE st.dentry[i].list = Nil /\ Collided(st, s, j, Stepfather)
  <2>1. j \in Others /\ s.dentry[j].list = Stepfather /\ s.clashed /\ s.dentry = st.dentry
    BY <1>5 DEF Collided
  <2>2. Sound(r) /\ Changed(s, r, j, [s.dentry[j] EXCEPT !.owed = d])
    BY <1>1, <1>2, <1>3, <2>1, OwingIs
  <2>3. r.clashed /\ r.dentry = [s.dentry EXCEPT ![j] = [s.dentry[j] EXCEPT !.owed = d]]
    BY <2>1, <2>2 DEF Changed
  <2>4. \A k \in Others : r.dentry[k].list = st.dentry[k].list
    <3> TAKE k \in Others
    <3>1. s.dentry[k] \in Dentry
      BY <1>4
    <3>2. [s.dentry[k] EXCEPT !.owed = d].list = s.dentry[k].list
      BY <3>1 DEF Dentry
    <3>3. r.dentry[k] = IF k = j THEN [s.dentry[k] EXCEPT !.owed = d] ELSE s.dentry[k]
      BY <1>4, <2>3
    <3> QED BY <2>1, <3>2, <3>3
  <2> QED BY <1>2, <1>5, <2>2, <2>3, <2>4 DEF Binds
<1>6. ASSUME NEW f \in Dentry, f.list = Stepfather, f.name = Name[i], j = i, Changed(st, s, i, f)
      PROVE  Binds(st, r, i, Stepfather, d) /\ r.dentry[i].size = f.size /\ r.dentry[i].contents = f.contents
  <2>1. s.dentry[i] = f /\ s.clashed = st.clashed /\ s.dentry = [st.dentry EXCEPT ![i] = f]
    BY <1>4, <1>6 DEF Changed
  <2>2. Sound(r) /\ Changed(s, r, i, [s.dentry[i] EXCEPT !.owed = d])
    BY <1>1, <1>2, <1>3, <1>6, <2>1, OwingIs, ZenonT(60)
  <2> DEFINE g == [f EXCEPT !.owed = d]
  <2>3. g.list = Stepfather /\ g.name = Name[i] /\ g.owed = d /\ g.size = f.size /\ g.contents = f.contents
    BY <1>6 DEF Dentry
  <2>4. r.dentry = [s.dentry EXCEPT ![i] = g] /\ r.clashed = st.clashed
    BY <2>1, <2>2 DEF Changed
  <2> HIDE DEF g
  <2>5. r.dentry[i] = g /\ \A k \in Others \ {i} : r.dentry[k] = st.dentry[k]
    BY <1>4, <2>1, <2>4
  <2> QED BY <2>2, <2>3, <2>4, <2>5 DEF Binds
<1>7. CASE st.dentry[i].list = Stepfather
  <2> DEFINE f == [st.dentry[i] EXCEPT !.name = Name[i], !.parent = Stepfather]
  <2>1. f \in Dentry /\ f.list = Stepfather /\ f.name = Name[i] /\ f.size = st.dentry[i].size
        /\ f.contents = st.dentry[i].contents
    BY <1>2, <1>4, <1>7 DEF Dentry
  <2>2. j = i /\ Changed(st, s, i, f)
    BY <1>2, <1>3, <1>7
  <2> HIDE DEF f
  <2> QED BY <1>2, <1>6, <1>7, <2>1, <2>2
<1>8. CASE st.dentry[i].list = Nil /\ j = i /\ Changed(st, s, i, [e EXCEPT !.parent = Stepfather, !.list = Stepfather])
  <2> DEFINE f == [e EXCEPT !.parent = Stepfather, !.list = Stepfather]
  <2>1. f \in Dentry /\ f.list = Stepfather /\ f.name = Name[i] /\ f.size = e.size /\ f.contents = e.contents
    BY <1>2 DEF Dentry
  <2>2. j = i /\ Changed(st, s, i, f)
    BY <1>8
  <2> HIDE DEF f
  <2> QED BY <1>6, <1>8, <2>1, <2>2
<1>9. ~ r.clashed => ~ (st.dentry[i].list = Nil /\ Collided(st, s, j, Stepfather))
  <2> SUFFICES ASSUME st.dentry[i].list = Nil, Collided(st, s, j, Stepfather) PROVE r.clashed
    OBVIOUS
  <2>1. j \in Others /\ s.dentry[j].list # Nil /\ s.clashed
    BY <1>2 DEF Collided
  <2>2. Changed(s, r, j, [s.dentry[j] EXCEPT !.owed = d])
    BY <1>1, <1>2, <1>3, <2>1, OwingIs
  <2> QED BY <2>1, <2>2 DEF Changed
<1> QED BY <1>3, <1>5, <1>7, <1>8, <1>9

LEMMA HomedIs ==
  ASSUME NEW st, Sound(st), NEW i \in Others, NEW d \in Directories, d = HomeOf(i),
         st.dentry[i].list \in {Nil, d}, NEW e \in Dentry, e.name = Name[i],
         NEW q, q = Simple(st, d, i, e)
  PROVE  /\ q.id \in Others /\ q.st.dentry[q.id].list # Nil
         /\ Binds(st, q.st, i, d, d) /\ (~ q.st.clashed => q.id = i)
         /\ ~ q.st.clashed /\ st.dentry[i].list = Nil =>
              q.st.dentry[i].size = e.size /\ q.st.dentry[i].contents = e.contents
<1>1. PICK s : s = q.st
  OBVIOUS
<1> DEFINE j == q.id
<1>2. d \in Lists /\ d # Nil /\ d # Stepfather
  BY NilIs DEF Lists, Directories
<1>3. /\ Sound(s)
      /\ \/ /\ st.dentry[i].list = d /\ j = i
            /\ Changed(st, s, i, [st.dentry[i] EXCEPT !.name = Name[i], !.parent = d])
         \/ /\ st.dentry[i].list = Nil /\ j = i
            /\ Changed(st, s, i, [e EXCEPT !.parent = d, !.list = d])
         \/ st.dentry[i].list = Nil /\ Collided(st, s, j, d)
  <2>1. Settled(st, q, i, d, e)
    BY <1>2, SimpleIs
  <2> QED BY <1>1, <2>1 DEF Settled
<1>4. st.dentry \in [Objects -> Dentry] /\ s.dentry \in [Objects -> Dentry] /\ i \in Objects
      /\ st.dentry[i] \in Dentry /\ \A k \in Others : k \in Objects
  BY <1>3 DEF Sound, Others
<1>5. CASE st.dentry[i].list = Nil /\ Collided(st, s, j, d)
  <2>1. j \in Others /\ s.dentry[j].list = d /\ s.clashed /\ s.dentry = st.dentry
    BY <1>5 DEF Collided
  <2> QED BY <1>1, <1>2, <1>3, <1>5, <2>1 DEF Binds
<1>6. ASSUME NEW f \in Dentry, f.list = d, f.name = Name[i], j = i, Changed(st, s, i, f)
      PROVE  j \in Others /\ s.dentry[j].list # Nil /\ Binds(st, s, i, d, d) /\ s.dentry[i] = f
  <2>1. s.dentry[i] = f /\ s.clashed = st.clashed /\ s.dentry = [st.dentry EXCEPT ![i] = f]
    BY <1>4, <1>6 DEF Changed
  <2>2. \A k \in Others \ {i} : s.dentry[k] = st.dentry[k]
    BY <1>4, <2>1
  <2> QED BY <1>2, <1>3, <1>6, <2>1, <2>2 DEF Binds
<1>7. CASE st.dentry[i].list = d
  <2> DEFINE f == [st.dentry[i] EXCEPT !.name = Name[i], !.parent = d]
  <2>1. f \in Dentry /\ f.list = d /\ f.name = Name[i]
    BY <1>2, <1>4, <1>7 DEF Dentry
  <2>2. j = i /\ Changed(st, s, i, f)
    BY <1>2, <1>3, <1>7
  <2> HIDE DEF f
  <2> QED BY <1>1, <1>2, <1>6, <1>7, <2>1, <2>2
<1>8. CASE st.dentry[i].list = Nil /\ j = i /\ Changed(st, s, i, [e EXCEPT !.parent = d, !.list = d])
  <2> DEFINE f == [e EXCEPT !.parent = d, !.list = d]
  <2>1. f \in Dentry /\ f.list = d /\ f.name = Name[i] /\ f.size = e.size /\ f.contents = e.contents
    BY <1>2 DEF Dentry
  <2>2. j = i /\ Changed(st, s, i, f)
    BY <1>8
  <2> HIDE DEF f
  <2> QED BY <1>1, <1>6, <2>1, <2>2
<1>9. ~ s.clashed => j = i
  BY <1>3 DEF Collided
<1> QED BY <1>1, <1>2, <1>3, <1>5, <1>7, <1>8, <1>9

Rested(st, w, i, r) ==
  Sound(r) /\ r.clashed = (st.clashed \/ w # i) /\ r.dentry = [st.dentry EXCEPT ![w] = Absent]

(* What waits is taken off the stepfather.                                 *)
LEMMA RestIs ==
  ASSUME NEW st, Sound(st), NEW bound, Coming(st, bound), NEW w \in Others, st.dentry[w].list = Stepfather,
         NEW i, NEW r, r = [Disposed(st, w) EXCEPT !.clashed = @ \/ w # i]
  PROVE  Rested(st, w, i, r)
<1>1. PICK u : u = Disposed(st, w)
  OBVIOUS
<1>2. Sound(u) /\ u.clashed = st.clashed
      /\ u.dentry = [k \in Objects |-> IF k \in Gone(st, w) THEN Absent ELSE st.dentry[k]]
  BY <1>1, DisposedIs
<1>3. Gone(st, w) = {w}
  BY GoneAlone
<1>4. u.dentry = [st.dentry EXCEPT ![w] = Absent]
  BY <1>2, <1>3 DEF Sound, Others
<1>5. u = [dentry |-> u.dentry, kids |-> u.kids, clashed |-> u.clashed] /\ u.clashed \in BOOLEAN
  BY <1>2 DEF Sound
<1>6. PICK b : b = (st.clashed \/ w # i)
  OBVIOUS
<1>7. r = [u EXCEPT !.clashed = b]
  BY <1>1, <1>2, <1>6
<1>8. r = [dentry |-> u.dentry, kids |-> u.kids, clashed |-> b]
  BY <1>5, <1>7
<1>9. r.dentry = u.dentry /\ r.kids = u.kids /\ r.clashed = b
  BY <1>8
<1>10. r = [dentry |-> r.dentry, kids |-> r.kids, clashed |-> r.clashed] /\ b \in BOOLEAN
  BY <1>6, <1>8, <1>9
<1>11. Sound(r)
  <2>1. r.clashed \in BOOLEAN
    BY <1>9, <1>10
  <2>2. /\ r.dentry \in [Objects -> Dentry] /\ r.kids \in [Lists -> Seq(Others)]
        /\ r.dentry[Root] = Absent
        /\ \A p \in Lists : IsInjective(r.kids[p])
        /\ \A k \in Others, p \in Lists : k \in ToSet(r.kids[p]) <=> r.dentry[k].list = p
        /\ \A k \in Others : r.dentry[k].list = Nil => r.dentry[k] = Absent
    <3>1. Sound(u)
      BY <1>2
    <3> QED BY <1>9, <3>1 DEF Sound
  <2>3. r = [dentry |-> r.dentry, kids |-> r.kids, clashed |-> r.clashed]
    BY <1>10
  <2> QED BY <2>1, <2>2, <2>3 DEF Sound
<1> QED BY <1>4, <1>6, <1>9, <1>11 DEF Rested

(* A file is bound where its directory is known.                           *)
LEMMA TakenIs ==
  ASSUME NEW st, NEW rest, Sound(st), Sound(rest), NEW i \in Others, NEW d \in Directories, d = HomeOf(i),
         NEW e \in Dentry, e.name = Name[i], NEW tmp \in Dentry,
         NEW q, q = Simple(rest, d, i, e), NEW r, r = Taken(q.st, q.id, tmp),
         rest.dentry[i].list \in {Nil, d}, st.clashed => rest.clashed,
         rest.dentry[i].list # d => st.dentry[i].list # d,
         \A k \in Others \ {i} :
           \/ rest.dentry[k] = st.dentry[k]
           \/ rest.clashed /\ st.dentry[k].list = Stepfather /\ rest.dentry[k].list = Nil
  PROVE  /\ Binds(st, r, i, d, d)
         /\ ~ r.clashed => /\ r.dentry[i].size = tmp.size
                           /\ tmp.size > 0 => r.dentry[i].contents = tmp.contents
                           /\ rest.dentry[i].list = Nil /\ tmp.size = 0 /\ e.size = 0 =>
                                r.dentry[i].contents = e.contents
<1>1. PICK s : s = q.st
  OBVIOUS
<1>2. PICK j : j = q.id
  OBVIOUS
<1>3. j \in Others /\ s.dentry[j].list # Nil /\ Binds(rest, s, i, d, d) /\ (~ s.clashed => j = i)
  <2>1. /\ q.id \in Others /\ q.st.dentry[q.id].list # Nil
        /\ Binds(rest, q.st, i, d, d) /\ (~ q.st.clashed => q.id = i)
    BY HomedIs
  <2> QED BY <1>1, <1>2, <2>1
<1> PICK c, z : c = tmp.contents /\ z = tmp.size
  OBVIOUS
<1>4. r = Overwritten(s, j, c, z) /\ Sound(s)
  BY <1>1, <1>2, <1>3 DEF Taken, Binds
<1>5. c \in Files \cup {Raw, Nil} /\ z \in Nat
  BY DEF Dentry
<1>0. Wrote(s, r, j, c, z)
  BY <1>3, <1>4, <1>5, OverwrittenIs
<1>6. Sound(r) /\ Changed(s, r, j, r.dentry[j])
  BY <1>0 DEF Wrote
<1>7. PICK x : /\ r.dentry[j] = [s.dentry[j] EXCEPT !.contents = x, !.size = z]
               /\ z > 0 => x = c
               /\ z = 0 /\ s.dentry[j].size = 0 => x = s.dentry[j].contents
  BY <1>0 DEF Wrote
<1>8. s.dentry \in [Objects -> Dentry] /\ s.dentry[j] \in Dentry /\ \A k \in Others : k \in Objects
  BY <1>3, <1>4 DEF Sound, Others
<1>9. /\ r.dentry[j].list = s.dentry[j].list /\ r.dentry[j].name = s.dentry[j].name
      /\ r.dentry[j].size = z /\ r.dentry[j].contents = x
  BY <1>7, <1>8 DEF Dentry
<1>10. r.clashed = s.clashed /\ \A k \in Others \ {j} : r.dentry[k] = s.dentry[k]
  BY <1>6, <1>8 DEF Changed
<1>11. \A k \in Others : r.dentry[k].list = s.dentry[k].list
  BY <1>9, <1>10
<1>12. d # Stepfather
  BY NilIs DEF Directories
<1>13. Binds(rest, s, i, d, d) /\ i \in Others
  BY <1>3
<1>14. st.clashed => r.clashed
  BY <1>3, <1>10 DEF Binds
<1>15. ASSUME NEW k \in Others \ {i}
       PROVE  \/ r.dentry[k].list = st.dentry[k].list
              \/ r.clashed /\ st.dentry[k].list = Stepfather /\ r.dentry[k].list = Nil
  <2>1. rest.clashed => r.clashed
    BY <1>3, <1>10 DEF Binds
  <2>2. \/ r.dentry[k].list = rest.dentry[k].list
        \/ r.clashed /\ rest.dentry[k].list = Stepfather /\ r.dentry[k].list = Nil
    BY <1>3, <1>10, <1>11 DEF Binds
  <2>3. \/ rest.dentry[k].list = st.dentry[k].list
        \/ rest.clashed /\ st.dentry[k].list = Stepfather /\ rest.dentry[k].list = Nil
    OBVIOUS
  <2>4. Nil # Stepfather
    BY NilIs DEF Lists
  <2> QED BY <2>1, <2>2, <2>3, <2>4
<1>16. \/ r.dentry[i].list = d
       \/ r.clashed /\ r.dentry[i].list = Nil /\ st.dentry[i].list # HomeOf(i)
  BY <1>3, <1>10, <1>11 DEF Binds
<1>17. ASSUME ~ r.clashed
       PROVE  /\ \A k \in Others \ {i} : r.dentry[k] = st.dentry[k]
              /\ r.dentry[i].name = Name[i] /\ j = i
  <2>1. ~ s.clashed /\ ~ rest.clashed /\ j = i
    BY <1>3, <1>10, <1>17 DEF Binds
  <2> QED BY <1>3, <1>9, <1>10, <2>1 DEF Binds
<1>18. Binds(st, r, i, d, d)
  BY <1>6, <1>12, <1>14, <1>15, <1>16, <1>17 DEF Binds
<1>19. ~ s.clashed /\ rest.dentry[i].list = Nil => s.dentry[i].size = e.size /\ s.dentry[i].contents = e.contents
  BY <1>1, HomedIs
<1>20. ASSUME ~ r.clashed, rest.dentry[i].list = Nil, tmp.size = 0, e.size = 0
       PROVE  r.dentry[i].contents = e.contents
  <2>1. ~ s.clashed /\ j = i
    BY <1>10, <1>17, <1>20
  <2>2. s.dentry[i].size = 0 /\ s.dentry[i].contents = e.contents
    BY <1>19, <1>20, <2>1
  <2>3. z = 0
    BY <1>20
  <2> QED BY <1>7, <1>9, <2>1, <2>2, <2>3
<1>21. ASSUME ~ r.clashed
       PROVE  r.dentry[i].size = tmp.size /\ (tmp.size > 0 => r.dentry[i].contents = tmp.contents)
  BY <1>7, <1>9, <1>17, <1>21
<1> QED BY <1>18, <1>20, <1>21

(* Where an object is that no message of this pass has bound yet.          *)
LEMMA NotYetBound ==
  ASSUME NEW st, NEW bound, Coming(st, bound), NEW i \in Others, i \notin bound
  PROVE  /\ st.dentry[i].list \in {Nil, Stepfather, HomeOf(i)}
         /\ st.dentry[i].list = HomeOf(i) => i \in placed /\ AtHome(st, HomeOf(i))
         /\ i \in Directories /\ st.dentry[i].list # Nil => st.dentry[i].list = HomeOf(i)
<1>1. i # Root
  BY DEF Others
<1> QED BY <1>1 DEF Coming, Homes, AtHome

LEMMA NewIs ==
  ASSUME NEW i \in Others
  PROVE  /\ NewDir(i) \in Dentry /\ NewDir(i).name = Name[i]
         /\ i \in Files => /\ NewFile(i, Name[i], Stated[i]) \in Dentry
                           /\ NewFile(i, Name[i], Stated[i]).name = Name[i]
                           /\ NewFile(i, Name[i], Stated[i]).size = Stated[i]
                           /\ NewFile(i, Name[i], Stated[i]).contents = IF Stated[i] = 0 THEN Nil ELSE Raw
                           /\ Stated[i] \in Nat
<1>1. Name[i] \in {Name[k] : k \in Objects} \cup {Nil}
  BY DEF Others
<1>2. NewDir(i) \in Dentry /\ NewDir(i).name = Name[i]
  BY <1>1 DEF NewDir, Absent, Dentry
<1>3. ASSUME i \in Files
      PROVE  /\ NewFile(i, Name[i], Stated[i]) \in Dentry
             /\ NewFile(i, Name[i], Stated[i]).name = Name[i]
             /\ NewFile(i, Name[i], Stated[i]).size = Stated[i]
             /\ NewFile(i, Name[i], Stated[i]).contents = IF Stated[i] = 0 THEN Nil ELSE Raw
             /\ Stated[i] \in Nat
  <2>1. Stated[i] \in Nat
    BY <1>3, ObjectTreeAssumption
  <2>2. PICK n, z, c : n = Name[i] /\ z = Stated[i] /\ c = IF z = 0 THEN Nil ELSE Raw
    OBVIOUS
  <2>3. NewFile(i, n, z) = [list |-> Nil, parent |-> Nil, name |-> n, size |-> z, contents |-> c, owed |-> Nil]
    <3> DEFINE a == [Absent EXCEPT !.name = n]
               b == [a EXCEPT !.size = z]
    <3>1. a = [list |-> Nil, parent |-> Nil, name |-> n, size |-> 0, contents |-> Nil, owed |-> Nil]
      BY DEF Absent
    <3>2. b = [list |-> Nil, parent |-> Nil, name |-> n, size |-> z, contents |-> Nil, owed |-> Nil]
      <4> HIDE DEF a
      <4> QED BY <3>1
    <3>3. NewFile(i, n, z) = [b EXCEPT !.contents = c]
      BY <2>2 DEF NewFile
    <3> HIDE DEF b
    <3> QED BY <3>2, <3>3
  <2>4. z \in Nat /\ n \in {Name[k] : k \in Objects} \cup {Nil} /\ c \in Files \cup {Raw, Nil}
    BY <1>1, <2>1, <2>2
  <2>5. NewFile(i, n, z) \in Dentry /\ NewFile(i, n, z).name = n /\ NewFile(i, n, z).size = z
        /\ NewFile(i, n, z).contents = c
    BY <2>3, <2>4 DEF Dentry
  <2> QED BY <2>1, <2>2, <2>5
<1> QED BY <1>2, <1>3

LEMMA DirBoundIs ==
  ASSUME NEW st, Sound(st), NEW bound, Coming(st, bound), NEW i \in Others, i \notin bound,
         i \in Directories, NEW d \in Directories, d = HomeOf(i),
         NEW found \in BOOLEAN, found <=> AtHome(st, d), NEW r, r = DirBound(st, d, found, i)
  PROVE  Binds(st, r, i, IF found THEN d ELSE Stepfather, d)
<1>1. PICK e : e = NewDir(i)
  OBVIOUS
<1>2. e \in Dentry /\ e.name = Name[i]
  BY <1>1, NewIs
<1>3. CASE found
  <2>1. PICK q : q = Simple(st, d, i, e)
    OBVIOUS
  <2>2. st.dentry[i].list \in {Nil, d}
    BY NotYetBound
  <2>3. Binds(st, q.st, i, d, d)
    BY <1>2, <2>1, <2>2, HomedIs
  <2>4. r = q.st
    BY <1>1, <1>3, <2>1 DEF DirBound
  <2> QED BY <1>3, <2>3, <2>4
<1>4. CASE ~ found
  <2>1. PICK q : q = Simple(st, Stepfather, i, e)
    OBVIOUS
  <2>2. st.dentry[i].list \in {Nil, Stepfather}
    BY <1>4, NotYetBound
  <2>3. r = Owing(q, d)
    BY <1>1, <1>4, <2>1 DEF DirBound
  <2>4. Binds(st, r, i, Stepfather, d)
    BY <1>2, <2>1, <2>2, <2>3, WaitsIs
  <2> QED BY <1>4, <2>4
<1> QED BY <1>3, <1>4

LEMMA FileBoundIs ==
  ASSUME NEW st, Sound(st), NEW bound, Coming(st, bound), NEW i \in Others, i \notin bound,
         i \in Files, NEW d \in Directories, d = HomeOf(i), NEW seen,
         NEW found \in BOOLEAN, found <=> AtHome(st, d), NEW r, r = FileBound(st, d, found, i)
  PROVE  Binds(st, r, i, IF found THEN d ELSE Stepfather, d) /\ Brings(st, r, i, seen)
<1>1. PICK e : e = NewFile(i, Name[i], Stated[i])
  OBVIOUS
<1>2. e \in Dentry /\ e.name = Name[i] /\ e.size = Stated[i] /\ Stated[i] \in Nat
      /\ e.contents = IF Stated[i] = 0 THEN Nil ELSE Raw
  BY <1>1, NewIs
<1>3. /\ st.dentry[i].list \in {Nil, Stepfather, d}
      /\ st.dentry[i].list = d => i \in placed /\ found
  BY NotYetBound
<1>4. Nil # Stepfather /\ d # Stepfather /\ d # Nil /\ d \in Lists /\ Stepfather \in Lists
  BY NilIs DEF Directories, Lists
<1>5. CASE ~ found
  <2>1. PICK q : q = Simple(st, Stepfather, i, e)
    OBVIOUS
  <2>2. st.dentry[i].list \in {Nil, Stepfather}
    BY <1>3, <1>5
  <2>3. r = Owing(q, d)
    BY <1>1, <1>5, <2>1 DEF FileBound
  <2>4. Binds(st, r, i, Stepfather, d)
        /\ (~ r.clashed => IF st.dentry[i].list = Nil
                           THEN r.dentry[i].size = e.size /\ r.dentry[i].contents = e.contents
                           ELSE r.dentry[i].size = st.dentry[i].size
                                /\ r.dentry[i].contents = st.dentry[i].contents)
    BY <1>2, <2>1, <2>2, <2>3, WaitsIs
  <2>5. Brings(st, r, i, seen)
    BY <1>2, <2>4 DEF Brings, Brought, Sent, Unwritten
  <2> QED BY <1>5, <2>4, <2>5
<1>6. CASE found
  <2>1. PICK w : w = IF Under(st, i, Stepfather) THEN i ELSE Child(st, Stepfather, Name[i])
    OBVIOUS
  <2>2. PICK tmp : tmp = IF w = Nil THEN e ELSE st.dentry[w]
    OBVIOUS
  <2>3. PICK rest : rest = IF w = Nil THEN st ELSE [Disposed(st, w) EXCEPT !.clashed = @ \/ w # i]
    OBVIOUS
  <2>4. PICK q : q = Simple(rest, d, i, e)
    OBVIOUS
  <2>5. r = Taken(q.st, q.id, tmp)
    BY <1>1, <1>6, <2>1, <2>2, <2>3, <2>4 DEF FileBound
  <2>6. /\ Under(st, i, Stepfather) <=> st.dentry[i].list = Stepfather
        /\ w = Nil \/ (w \in Others /\ st.dentry[w].list = Stepfather)
        /\ st.dentry[i].list = Stepfather => w = i
    <3>1. Under(st, i, Stepfather) <=> st.dentry[i].list = Stepfather
      BY Places
    <3>2. CASE st.dentry[i].list = Stepfather
      BY <2>1, <3>1, <3>2
    <3>3. CASE st.dentry[i].list # Stepfather
      <4>1. w = Child(st, Stepfather, Name[i])
        BY <2>1, <3>1, <3>3
      <4> QED BY <1>4, <3>1, <3>3, <4>1, ChildIs
    <3> QED BY <3>1, <3>2, <3>3
  <2>7. /\ Sound(rest) /\ tmp \in Dentry /\ (st.clashed => rest.clashed)
        /\ rest.dentry[i].list \in {Nil, d}
        /\ rest.dentry[i].list # d => st.dentry[i].list # d
        /\ \A k \in Others \ {i} :
             \/ rest.dentry[k] = st.dentry[k]
             \/ rest.clashed /\ st.dentry[k].list = Stepfather /\ rest.dentry[k].list = Nil
        /\ ~ rest.clashed => w \in {i, Nil}
    <3>1. CASE w = Nil
      <4>1. rest = st /\ tmp = e
        BY <2>2, <2>3, <3>1
      <4>2. st.dentry[i].list # Stepfather
        BY <2>6, <3>1, NilIs DEF Others
      <4> QED BY <1>2, <1>3, <3>1, <4>1, <4>2
    <3>2. CASE w # Nil
      <4>1. w \in Others /\ st.dentry[w].list = Stepfather
        BY <2>6, <3>2
      <4>2. Sound(rest) /\ rest.clashed = (st.clashed \/ w # i) /\ rest.dentry = [st.dentry EXCEPT ![w] = Absent]
        <5>1. rest = [Disposed(st, w) EXCEPT !.clashed = @ \/ w # i]
          BY <2>3, <3>2
        <5>2. Rested(st, w, i, rest)
          BY <4>1, <5>1, RestIs
        <5> QED BY <5>2 DEF Rested
      <4>3. st.dentry \in [Objects -> Dentry] /\ \A k \in Others : k \in Objects
        BY DEF Sound, Others
      <4>4. \A k \in Others : rest.dentry[k] = IF k = w THEN Absent ELSE st.dentry[k]
        BY <4>2, <4>3
      <4>5. tmp \in Dentry /\ Absent.list = Nil
        BY <2>2, <3>2, <4>1, <4>3 DEF Absent
      <4>6. rest.dentry[i].list \in {Nil, d} /\ (rest.dentry[i].list # d => st.dentry[i].list # d)
        <5>1. CASE w = i
          BY <1>4, <4>1, <4>4, <4>5, <5>1
        <5>2. CASE w # i
          <6>1. st.dentry[i].list # Stepfather /\ rest.dentry[i] = st.dentry[i]
            BY <2>6, <4>4, <5>2
          <6> QED BY <1>3, <6>1
        <5> QED BY <5>1, <5>2
      <4>7. \A k \in Others \ {i} :
             \/ rest.dentry[k] = st.dentry[k]
             \/ rest.clashed /\ st.dentry[k].list = Stepfather /\ rest.dentry[k].list = Nil
        BY <4>1, <4>2, <4>4, <4>5
      <4> QED BY <4>2, <4>5, <4>6, <4>7
    <3> QED BY <3>1, <3>2
  <2>8. /\ Binds(st, r, i, d, d)
        /\ ~ r.clashed => /\ r.dentry[i].size = tmp.size
                          /\ tmp.size > 0 => r.dentry[i].contents = tmp.contents
                          /\ rest.dentry[i].list = Nil /\ tmp.size = 0 /\ e.size = 0 =>
                               r.dentry[i].contents = e.contents
    BY <1>2, <2>4, <2>5, <2>7, TakenIs
  <2>9. ~ r.clashed => w \in {i, Nil}
    <3>1. rest.clashed => r.clashed
      <4>1. rest.clashed => q.st.clashed
        <5>1. Binds(rest, q.st, i, d, d)
          BY <1>2, <2>4, <2>7, HomedIs
        <5> QED BY <5>1 DEF Binds
      <4>2. r.clashed = q.st.clashed
        <5>1. q.id \in Others /\ q.st.dentry[q.id].list # Nil /\ Sound(q.st)
          <6>1. Binds(rest, q.st, i, d, d) /\ q.id \in Others /\ q.st.dentry[q.id].list # Nil
            BY <1>2, <2>4, <2>7, HomedIs
          <6> QED BY <6>1 DEF Binds
        <5>2. PICK s, j, c, z : s = q.st /\ j = q.id /\ c = tmp.contents /\ z = tmp.size
          OBVIOUS
        <5>3. c \in Files \cup {Raw, Nil} /\ z \in Nat
          BY <2>7, <5>2 DEF Dentry
        <5>4. r = Overwritten(s, j, c, z)
          BY <2>5, <5>2 DEF Taken
        <5>5. Wrote(s, r, j, c, z)
          BY <5>1, <5>2, <5>3, <5>4, OverwrittenIs
        <5> QED BY <5>2, <5>5 DEF Wrote, Changed
      <4> QED BY <4>1, <4>2
    <3> QED BY <2>7, <3>1
  <2>10. Brings(st, r, i, seen)
    <3> SUFFICES ASSUME ~ r.clashed, Brought(st, i, seen), i \in seen => st.dentry[i].list # Nil,
                        i \in placed => pass > 1
                 PROVE  Brought(r, i, seen)
      BY DEF Brings
    <3>1. CASE st.dentry[i].list = Stepfather
      <4>1. tmp = st.dentry[i] /\ w = i
        BY <1>4, <2>2, <2>6, <3>1, NilIs DEF Others
      <4>2. rest.dentry[i].list = Nil
        <5>1. w \in Others /\ w # Nil /\ st.dentry[w].list = Stepfather
          BY <1>4, <2>6, <3>1, <4>1, NilIs DEF Others
        <5>2. rest = [Disposed(st, w) EXCEPT !.clashed = @ \/ w # i]
          BY <2>3, <5>1
        <5>3. Rested(st, w, i, rest)
          BY <5>1, <5>2, RestIs
        <5>4. st.dentry \in [Objects -> Dentry] /\ i \in Objects
          BY DEF Sound, Others
        <5> QED BY <4>1, <5>3, <5>4 DEF Rested, Absent
      <4>3. tmp.size \in Nat /\ Length[i] \in Nat
        BY <2>7, ObjectTreeAssumption DEF Dentry
      <4> QED BY <1>2, <1>4, <2>8, <3>1, <4>1, <4>2, <4>3 DEF Brought, Sent, Unwritten
    <3>2. CASE st.dentry[i].list # Stepfather
      <4>1. w = Nil
        <5>1. CASE w = i
          <6>1. w = Nil \/ st.dentry[w].list = Stepfather
            BY <2>6
          <6> QED BY <3>2, <5>1, <6>1
        <5> QED BY <2>9, <5>1
      <4>2. tmp = e
        BY <2>2, <4>1
      <4>3. pass > 1 \/ (i \notin seen /\ rest.dentry[i].list = Nil)
        BY <1>3, <2>3, <3>2, <4>1
      <4> QED BY <1>2, <2>8, <4>2, <4>3 DEF Brought, Unwritten
    <3> QED BY <3>1, <3>2
  <2> QED BY <1>6, <2>8, <2>10
<1> QED BY <1>5, <1>6

-----------------------------------------------------------------------------
(* The loop of biop_create_children_dentries(), child by child.            *)
AllBound(d, found, base, s) == FoldLeft(LAMBDA u, i : ChildBound(u, d, found, i), base, s)

BoundUnrolls(P, d, found, base, s) ==
  /\ P[0] = base
  /\ \A i \in 1 .. Len(s) : P[i] = ChildBound(P[i - 1], d, found, s[i])
  /\ AllBound(d, found, base, s) = P[Len(s)]

LEMMA BoundLoop ==
  ASSUME NEW d, NEW found, NEW D, NEW s \in Seq(D), NEW base
  PROVE  \E P : BoundUnrolls(P, d, found, base, s)
<1> DEFINE K == Len(s)
           Step(F, x) == IF x = {} THEN base
                         ELSE LET i == Max(x) IN ChildBound(F[x \ {i}], d, found, s[i])
           Eq(F, n) == F = [x \in SUBSET (1 .. n) |-> Step(F, x)]
           S == {n \in Nat : \E F : Eq(F, n)}
<1>1. 0 \in S
  <2> DEFINE F == [x \in SUBSET (1 .. 0) |-> base]
  <2>1. \A x \in SUBSET (1 .. 0) : Step(F, x) = base
    OBVIOUS
  <2>2. Eq(F, 0)
    BY <2>1
  <2> QED BY <2>2
<1>2. ASSUME NEW n \in Nat, n \in S PROVE n + 1 \in S
  <2>1. PICK F : Eq(F, n)
    BY <1>2
  <2> DEFINE G == [x \in SUBSET (1 .. n + 1) |->
                     IF n + 1 \in x THEN ChildBound(F[x \ {n + 1}], d, found, s[n + 1]) ELSE F[x]]
  <2>2. ASSUME NEW x \in SUBSET (1 .. n + 1) PROVE G[x] = Step(G, x)
    <3>1. CASE n + 1 \in x
      <4>1. Max(x) = n + 1 /\ x # {}
        BY <3>1, MaxIs
      <4>2. x \ {n + 1} \in SUBSET (1 .. n) /\ x \ {n + 1} \in SUBSET (1 .. n + 1) /\ n + 1 \notin x \ {n + 1}
        OBVIOUS
      <4>3. G[x \ {n + 1}] = F[x \ {n + 1}]
        BY <4>2
      <4> QED BY <3>1, <4>1, <4>3
    <3>2. CASE n + 1 \notin x
      <4>1. x \in SUBSET (1 .. n)
        BY <3>2
      <4>2. G[x] = F[x] /\ F[x] = Step(F, x)
        BY <3>2, <4>1, <2>1
      <4>3. x # {} => G[x \ {Max(x)}] = F[x \ {Max(x)}]
        BY <4>1, <3>2
      <4> QED BY <4>2, <4>3
    <3> QED BY <3>1, <3>2
  <2>3. Eq(G, n + 1)
    <3>1. G = [x \in SUBSET (1 .. n + 1) |-> G[x]]
      OBVIOUS
    <3> HIDE DEF G, Step
    <3> QED BY <2>2, <3>1, Zenon
  <2> HIDE DEF G, Eq
  <2> QED BY <2>3
<1> HIDE DEF S
<1>3. Nat \subseteq S
  BY <1>1, <1>2, NatSetInduction
<1>4. K \in Nat /\ DOMAIN s = 1 .. K
  OBVIOUS
<1> DEFINE E == CHOOSE F : F = [x \in SUBSET DOMAIN s |-> Step(F, x)]
<1>5. E = [x \in SUBSET DOMAIN s |-> Step(E, x)]
  <2>1. \E F : F = [x \in SUBSET DOMAIN s |-> Step(F, x)]
    BY <1>3, <1>4 DEF S
  <2> HIDE DEF Step
  <2> QED BY <2>1
<1> DEFINE R == AllBound(d, found, base, s)
<1>6. R = E[DOMAIN s]
  BY DEF AllBound, FoldLeft, MapThenFoldSet
<1> HIDE DEF E, R
<1> DEFINE P == [i \in 0 .. K |-> E[1 .. i]]
<1>7. P[0] = base
  BY <1>4, <1>5
<1>8. ASSUME NEW i \in 1 .. K PROVE P[i] = ChildBound(P[i - 1], d, found, s[i])
  <2>1. Max(1 .. i) = i /\ (1 .. i) # {} /\ (1 .. i) \ {i} = 1 .. i - 1
    BY <1>4, MaxIs
  <2>2. 1 .. i \in SUBSET DOMAIN s
    BY <1>4
  <2>3. E[1 .. i] = ChildBound(E[1 .. i - 1], d, found, s[i])
    BY <1>5, <2>1, <2>2
  <2> QED BY <2>3, <1>4
<1>9. R = P[K]
  BY <1>4, <1>6
<1> HIDE DEF P
<1> QED BY <1>7, <1>8, <1>9 DEF R, BoundUnrolls, AllBound

-----------------------------------------------------------------------------
(* No object is bound in itself.                                           *)
LEMMA NotOwnHome ==
  ASSUME NEW i \in Others
  PROVE  HomeOf(i) # i
<1> SUFFICES ASSUME HomeOf(i) = i PROVE FALSE
  OBVIOUS
<1>1. PICK S : S = Objects \ {i}
  OBVIOUS
<1>2. S \in SUBSET Objects /\ Root \in S /\ i \notin S
  BY <1>1, NilIs DEF Others
<1>3. \A k \in Others : HomeOf(k) \in S => k \in S
  BY <1>1 DEF Others
<1>4. S = Objects
  BY <1>2, <1>3, FromRoot
<1> QED BY <1>2, <1>4 DEF Others

LEMMA BindKeeps ==
  ASSUME placed \subseteq Objects, NEW st, NEW bound, Sound(st), Coming(st, bound),
         NEW i \in Others, i \notin bound,
         NEW d \in Directories, d = HomeOf(i), NEW found \in BOOLEAN, found <=> AtHome(st, d),
         NEW r, Binds(st, r, i, IF found THEN d ELSE Stepfather, d)
  PROVE  /\ Coming(r, bound \cup {i}) /\ (found <=> AtHome(r, d))
         /\ \A k \in Others : AtHome(st, k) => AtHome(r, k)
<1> DEFINE p == IF found THEN d ELSE Stepfather
<1>0. /\ \A k \in Others \ {i} :
           \/ r.dentry[k].list = st.dentry[k].list
           \/ r.clashed /\ st.dentry[k].list = Stepfather /\ r.dentry[k].list = Nil
      /\ \/ r.dentry[i].list = p
         \/ r.clashed /\ r.dentry[i].list = Nil /\ st.dentry[i].list # HomeOf(i)
  BY DEF Binds
<1>1. /\ \A k \in Others : HomeOf(k) \in Directories /\ HomeOf(k) \in Objects /\ HomeOf(k) # Stepfather
                           /\ HomeOf(k) # Nil /\ HomeOf(k) # k /\ k # Root
      /\ Nil # Stepfather
      /\ \A k \in Objects : k = Root \/ k \in Others
  BY HomeIs, NilIs, NotOwnHome DEF Others, Lists
<1>2. /\ \A k \in Others : st.dentry[k].list \in {Nil, Stepfather, HomeOf(k)}
      /\ \A k \in Others : AtHome(st, k) => k \in placed \cup bound
      /\ \A k \in placed : AtHome(st, k) /\ (k # Root => HomeOf(k) \in placed)
      /\ \A k \in Others : AtHome(st, k) => AtHome(st, HomeOf(k))
      /\ \A k \in Others : k \in Directories /\ st.dentry[k].list # Nil => k \in placed \cup bound
  BY DEF Coming, Homes
<1>3. ASSUME NEW k \in Others \ {i} PROVE AtHome(r, k) <=> AtHome(st, k)
  BY <1>0, <1>1 DEF AtHome
<1>4. AtHome(r, Root) /\ AtHome(st, Root)
  BY DEF AtHome
<1>5. AtHome(st, i) => found /\ AtHome(r, i)
  BY <1>0, <1>1, <1>2 DEF AtHome
<1>6. AtHome(r, i) => found
  BY <1>0, <1>1 DEF AtHome
<1>7. d \in Objects /\ d # i
  BY <1>1
<1>8. found <=> AtHome(r, d)
  BY <1>1, <1>3, <1>4, <1>7
<1>9. \A k \in Others : AtHome(st, k) => AtHome(r, k)
  BY <1>3, <1>5
<1>10. \A k \in Others : AtHome(r, k) => AtHome(st, k) \/ k = i
  BY <1>3
<1>11. \A k \in Others : r.dentry[k].list \in {Nil, Stepfather, HomeOf(k)}
  BY <1>0, <1>2
<1>12. \A k \in Others : AtHome(r, k) => AtHome(r, HomeOf(k))
  <2> TAKE k \in Others
  <2> HAVE AtHome(r, k)
  <2>1. CASE k = i
    BY <1>6, <1>8, <2>1
  <2>2. CASE k # i
    <3>1. AtHome(st, HomeOf(k))
      BY <1>2, <1>10, <2>2
    <3> QED BY <1>1, <1>4, <1>9, <3>1
  <2> QED BY <2>1, <2>2
<1>13. \A k \in placed : AtHome(r, k)
  <2> TAKE k \in placed
  <2>1. AtHome(st, k) /\ (k = Root \/ k \in Others)
    BY <1>1, <1>2
  <2> QED BY <1>4, <1>9, <2>1
<1>14. \A k \in Others : k \in Directories /\ r.dentry[k].list # Nil => k \in placed \cup (bound \cup {i})
  BY <1>0, <1>2
<1>15. \A k \in Others : AtHome(r, k) => k \in placed \cup (bound \cup {i})
  BY <1>2, <1>10
<1>16. Coming(r, bound \cup {i})
  BY <1>2, <1>11, <1>12, <1>13, <1>14, <1>15 DEF Coming, Homes
<1> QED BY <1>8, <1>9, <1>16

(* What holds while a directory binds its children.                        *)
Binding(st, bound, d, found, seen) ==
  /\ Sound(st) /\ Coming(st, bound) /\ (found <=> AtHome(st, d))
  /\ ~ st.clashed => Named(st, bound) /\ Heard(st, bound, seen) /\ \A j \in Files : Brought(st, j, seen)

LEMMA ChildKeeps ==
  ASSUME placed \subseteq Objects, NEW bound, NEW d \in Directories, NEW found \in BOOLEAN, NEW seen,
         NEW st, Binding(st, bound, d, found, seen), NEW i \in Others, i \notin bound, d = HomeOf(i),
         i \in placed => pass > 1, NEW r, r = ChildBound(st, d, found, i)
  PROVE  Binding(r, bound \cup {i}, d, found, seen)
<1>1. Sound(st) /\ Coming(st, bound) /\ (found <=> AtHome(st, d))
  BY DEF Binding
<1>2. Binds(st, r, i, IF found THEN d ELSE Stepfather, d) /\ (i \in Files => Brings(st, r, i, seen))
  <2>1. CASE i \in Files
    <3>1. r = FileBound(st, d, found, i)
      BY <2>1 DEF ChildBound
    <3> QED BY <1>1, <2>1, <3>1, FileBoundIs
  <2>2. CASE i \notin Files
    <3>1. r = DirBound(st, d, found, i) /\ i \in Directories
      BY <2>2 DEF ChildBound, Directories, Others
    <3> QED BY <1>1, <2>2, <3>1, DirBoundIs
  <2> QED BY <2>1, <2>2
<1>3. /\ Coming(r, bound \cup {i}) /\ (found <=> AtHome(r, d))
      /\ \A k \in Others : AtHome(st, k) => AtHome(r, k)
  BY <1>1, <1>2, BindKeeps
<1>4. Sound(r)
  BY <1>2 DEF Binds
<1>5. ASSUME ~ r.clashed
      PROVE  Named(r, bound \cup {i}) /\ Heard(r, bound \cup {i}, seen) /\ \A j \in Files : Brought(r, j, seen)
  <2>1. ~ st.clashed /\ Named(st, bound) /\ Heard(st, bound, seen) /\ \A j \in Files : Brought(st, j, seen)
    BY <1>2, <1>5 DEF Binding, Binds
  <2>2. /\ \A k \in Others \ {i} : r.dentry[k] = st.dentry[k]
        /\ r.dentry[i].name = Name[i]
        /\ ~ found => r.dentry[i].owed = d
        /\ r.dentry[i].list = IF found THEN d ELSE Stepfather
    BY <1>2, <1>5 DEF Binds
  <2>3. d # Nil /\ Stepfather # Nil /\ d # Stepfather
    BY NilIs DEF Directories, Lists
  <2>4. Heard(r, bound \cup {i}, seen)
    BY <2>1, <2>2, <2>3 DEF Heard
  <2>5. Named(r, bound \cup {i})
    <3> SUFFICES ASSUME NEW k \in Others
                 PROVE  /\ AtHome(r, k) => r.dentry[k].name = Name[k]
                        /\ r.dentry[k].list = Stepfather =>
                             IF k \in bound \cup {i}
                             THEN r.dentry[k].owed = HomeOf(k) /\ r.dentry[k].name = Name[k]
                             ELSE r.dentry[k].owed = Nil
      BY DEF Named
    <3>1. CASE k = i
      BY <2>2, <2>3, <3>1
    <3>2. CASE k # i
      <4>1. AtHome(r, k) <=> AtHome(st, k)
        BY <2>2, <3>2 DEF AtHome
      <4> QED BY <2>1, <2>2, <3>2, <4>1 DEF Named
    <3> QED BY <3>1, <3>2
  <2>6. ASSUME NEW j \in Files PROVE Brought(r, j, seen)
    <3>1. j \in Others
      BY ObjectTreeAssumption DEF Others, Directories
    <3>2. CASE j = i
      <4>1. i \in seen => st.dentry[i].list # Nil
        BY <2>1, <3>2 DEF Heard
      <4> QED BY <1>2, <1>5, <2>1, <3>2, <4>1 DEF Brings
    <3>3. CASE j # i
      BY <2>1, <2>2, <3>1, <3>3 DEF Brought
    <3> QED BY <3>2, <3>3
  <2> QED BY <2>4, <2>5, <2>6
<1> QED BY <1>3, <1>4, <1>5 DEF Binding

(* biop_create_children_dentries(): all that the directory binds.          *)
LEMMA BoundKeeps ==
  ASSUME placed \subseteq Objects, NEW dirs, NEW d \in Directories, d \notin dirs, NEW found \in BOOLEAN, NEW seen,
         NEW st, Binding(st, BoundBy(dirs), d, found, seen),
         \A i \in Others : i \in placed => pass > 1, NEW r, r = Bound(st, d, found)
  PROVE  Binding(r, BoundBy(dirs \cup {d}), d, found, seen)
<1>1. PICK s : s = Bindings[d]
  OBVIOUS
<1>2. s \in Seq(Others) /\ Len(s) \in Nat /\ DOMAIN s = 1 .. Len(s)
  <2>1. Bindings[d] \in Seq(Others)
    BY ObjectTreeAssumption DEF Others
  <2> QED BY <1>1, <2>1
<1>3. /\ \A n \in 1 .. Len(s) : s[n] \in Others /\ HomeOf(s[n]) = d
      /\ \A m, n \in 1 .. Len(s) : s[m] = s[n] => m = n
      /\ \A i \in Others : HomeOf(i) = d => \E n \in 1 .. Len(s) : s[n] = i
  <2>1. ASSUME NEW n \in 1 .. Len(s) PROVE s[n] \in Others /\ HomeOf(s[n]) = d
    <3>1. s[n] \in Others /\ s[n] \in ToSet(Bindings[d])
      BY <1>1, <1>2 DEF ToSet
    <3> QED BY <3>1, HomeIs
  <2>2. \A m, n \in DOMAIN Bindings[d] : Name[Bindings[d][m]] = Name[Bindings[d][n]] => m = n
    BY ObjectTreeAssumption
  <2>3. ASSUME NEW i \in Others, HomeOf(i) = d PROVE \E n \in 1 .. Len(s) : s[n] = i
    <3>1. i \in ToSet(Bindings[d])
      BY <2>3, HomeIs
    <3> QED BY <1>1, <1>2, <3>1 DEF ToSet
  <2> QED BY <1>1, <1>2, <2>1, <2>2, <2>3
<1>4. PICK P : BoundUnrolls(P, d, found, st, s)
  BY <1>2, BoundLoop
<1>5. P[0] = st /\ r = P[Len(s)] /\ \A n \in 1 .. Len(s) : P[n] = ChildBound(P[n - 1], d, found, s[n])
  <2>1. r = AllBound(d, found, st, s)
    BY <1>1 DEF Bound, AllBound
  <2> QED BY <1>4, <2>1 DEF BoundUnrolls
<1> DEFINE B(n) == BoundBy(dirs) \cup {s[m] : m \in 1 .. n}
           I(n) == Binding(P[n], B(n), d, found, seen)
           S == {n \in Nat : n <= Len(s) => I(n)}
<1>6. 0 \in S
  <2>1. B(0) = BoundBy(dirs)
    OBVIOUS
  <2> QED BY <1>5, <2>1
<1>7. ASSUME NEW n \in Nat, n \in S PROVE n + 1 \in S
  <2> SUFFICES ASSUME n + 1 <= Len(s) PROVE I(n + 1)
    OBVIOUS
  <2>1. Binding(P[n], B(n), d, found, seen)
    BY <1>2, <1>7
  <2>2. n + 1 \in 1 .. Len(s) /\ n + 1 - 1 = n
    BY <1>2
  <2>3. PICK i : i = s[n + 1]
    OBVIOUS
  <2>4. P[n + 1] = ChildBound(P[n], d, found, i) /\ i \in Others /\ HomeOf(i) = d
    BY <1>3, <1>5, <2>2, <2>3
  <2>5. i \notin B(n)
    <3>1. i \notin BoundBy(dirs)
      BY <2>4 DEF BoundBy
    <3>2. \A m \in 1 .. n : s[m] # i
      BY <1>2, <1>3, <2>2, <2>3
    <3> QED BY <3>1, <3>2
  <2>6. B(n + 1) = B(n) \cup {i}
    <3>1. 1 .. (n + 1) = (1 .. n) \cup {n + 1}
      OBVIOUS
    <3> QED BY <2>3, <3>1
  <2> HIDE DEF B
  <2>7. PICK b, u, v : b = B(n) /\ u = P[n] /\ v = P[n + 1]
    OBVIOUS
  <2>8. Binding(v, b \cup {i}, d, found, seen)
    BY <2>1, <2>4, <2>5, <2>7, ChildKeeps
  <2> QED BY <2>6, <2>7, <2>8
<1> HIDE DEF S
<1>8. Nat \subseteq S
  BY <1>6, <1>7, NatSetInduction
<1>9. I(Len(s))
  <2>1. PICK n : n = Len(s)
    OBVIOUS
  <2>2. n \in S /\ n <= Len(s)
    BY <1>2, <1>8, <2>1
  <2> HIDE DEF B
  <2>3. I(n)
    BY <2>2 DEF S
  <2> QED BY <2>1, <2>3
<1>10. B(Len(s)) = BoundBy(dirs \cup {d})
  <2>1. ASSUME NEW i \in B(Len(s)) PROVE i \in BoundBy(dirs \cup {d})
    BY <1>3 DEF BoundBy
  <2>2. ASSUME NEW i \in BoundBy(dirs \cup {d}) PROVE i \in B(Len(s))
    BY <1>3 DEF BoundBy
  <2> QED BY <2>1, <2>2
<1> QED BY <1>5, <1>9, <1>10

-----------------------------------------------------------------------------
(* The message of a file.                                                  *)
Fills(st, r, i) ==
  /\ Sound(r) /\ (st.clashed => r.clashed)
  /\ \A k \in Others \ {i} : r.dentry[k].list = st.dentry[k].list
  /\ \/ r.dentry[i].list = st.dentry[i].list
     \/ st.dentry[i].list = Nil /\ r.dentry[i].list = Stepfather
  /\ ~ r.clashed =>
       /\ \A k \in Others \ {i} : r.dentry[k] = st.dentry[k]
       /\ r.dentry[i].list # Nil
       /\ Sent(i, r.dentry[i]) \/ (pass > 1 /\ st.dentry[i].list # Nil /\ r.dentry[i] = st.dentry[i])
       /\ IF st.dentry[i].list = Nil THEN r.dentry[i].owed = Nil
          ELSE r.dentry[i].owed = st.dentry[i].owed /\ r.dentry[i].name = st.dentry[i].name

LEMMA NamelessIs ==
  ASSUME NEW i \in Files
  PROVE  /\ NewFile(i, Nil, Length[i]) \in Dentry /\ NewFile(i, Nil, Length[i]).size = Length[i]
         /\ NewFile(i, Nil, Length[i]).owed = Nil
<1>1. Length[i] \in Nat
  BY ObjectTreeAssumption
<1>2. PICK z, c : z = Length[i] /\ c = IF z = 0 THEN Nil ELSE Raw
  OBVIOUS
<1>3. NewFile(i, Nil, z) = [list |-> Nil, parent |-> Nil, name |-> Nil, size |-> z, contents |-> c, owed |-> Nil]
  <2> DEFINE a == [Absent EXCEPT !.name = Nil]
             b == [a EXCEPT !.size = z]
  <2>1. a = [list |-> Nil, parent |-> Nil, name |-> Nil, size |-> 0, contents |-> Nil, owed |-> Nil]
    BY DEF Absent
  <2>2. b = [list |-> Nil, parent |-> Nil, name |-> Nil, size |-> z, contents |-> Nil, owed |-> Nil]
    <3> HIDE DEF a
    <3> QED BY <2>1
  <2>3. NewFile(i, Nil, z) = [b EXCEPT !.contents = c]
    BY <1>2 DEF NewFile
  <2> HIDE DEF b
  <2> QED BY <2>2, <2>3
<1>4. z \in Nat /\ c \in Files \cup {Raw, Nil}
  BY <1>1, <1>2
<1>5. NewFile(i, Nil, z) \in Dentry /\ NewFile(i, Nil, z).size = z /\ NewFile(i, Nil, z).owed = Nil
  BY <1>3, <1>4 DEF Dentry
<1> QED BY <1>2, <1>5

LEMMA FilledIs ==
  ASSUME NEW st, Sound(st), NEW bound, Coming(st, bound), NEW i \in Files, i \in Others,
         NEW seen, i \notin seen, ~ st.clashed => Brought(st, i, seen),
         NEW r, r = Filled(st, i)
  PROVE  Fills(st, r, i)
<1>1. /\ st.dentry[i].list \in {Nil, Stepfather, HomeOf(i)} /\ Stepfather # Nil /\ HomeOf(i) # Nil
      /\ Stepfather \in Lists
      /\ (Under(st, i, Root) \/ Under(st, i, Stepfather)) <=> st.dentry[i].list # Nil
  <2>1. i # Root
    BY DEF Others
  <2>2. AtHome(st, i) <=> st.dentry[i].list = HomeOf(i)
    BY <2>1 DEF AtHome
  <2>3. HomeOf(i) # Nil /\ Stepfather # Nil /\ Stepfather \in Lists
    BY HomeIs, NilIs DEF Lists
  <2>4. st.dentry[i].list \in {Nil, Stepfather, HomeOf(i)}
    BY DEF Coming, Homes
  <2> QED BY <2>2, <2>3, <2>4, Places
<1>2. st.dentry \in [Objects -> Dentry] /\ i \in Objects /\ (\A k \in Others : k \in Objects) /\ Length[i] \in Nat
      /\ i \in Files \cup {Raw, Nil}
  BY ObjectTreeAssumption DEF Sound, Others
<1>3. PICK e : e = NewFile(i, Nil, Length[i])
  OBVIOUS
<1>4. e \in Dentry /\ e.size = Length[i] /\ e.owed = Nil
  BY <1>3, NamelessIs
<1>5. PICK c : c = IF Under(st, i, Root) \/ Under(st, i, Stepfather) THEN [st |-> st, id |-> i]
                   ELSE Created(st, Stepfather, i, e)
  OBVIOUS
<1>6. PICK s, j : s = c.st /\ j = c.id
  OBVIOUS
<1>7. r = IF s.dentry[j].size # Length[i] /\ s.dentry[j].size = 0 /\ s.dentry[j].contents # Nil
          THEN s ELSE Overwritten(s, j, i, Length[i])
  BY <1>3, <1>5, <1>6 DEF Filled
<1>8. /\ Sound(s)
      /\ \/ s = st /\ j = i /\ st.dentry[i].list # Nil
         \/ st.dentry[i].list = Nil /\ j = i
            /\ Changed(st, s, i, [e EXCEPT !.parent = Stepfather, !.list = Stepfather])
         \/ st.dentry[i].list = Nil /\ Collided(st, s, j, Stepfather)
  <2>1. CASE st.dentry[i].list # Nil
    <3>1. c = [st |-> st, id |-> i]
      BY <1>1, <1>5, <2>1
    <3> QED BY <1>6, <2>1, <3>1
  <2>2. CASE st.dentry[i].list = Nil
    <3>1. c = Created(st, Stepfather, i, e)
      BY <1>1, <1>5, <2>2
    <3>2. /\ Sound(c.st)
          /\ \/ c.id = i /\ Changed(st, c.st, i, [e EXCEPT !.parent = Stepfather, !.list = Stepfather])
             \/ Collided(st, c.st, c.id, Stepfather)
      BY <1>1, <1>4, <2>2, <3>1, CreatedIs
    <3> QED BY <1>6, <2>2, <3>2
  <2> QED BY <2>1, <2>2
<1> DEFINE f == [e EXCEPT !.parent = Stepfather, !.list = Stepfather]
<1>9. f.list = Stepfather /\ f.size = Length[i] /\ f.owed = Nil
  BY <1>4 DEF Dentry
<1> HIDE DEF f
<1>10. s.dentry \in [Objects -> Dentry]
  BY <1>8 DEF Sound
<1>11. /\ j \in Others /\ s.dentry[j].list # Nil /\ (st.clashed => s.clashed)
       /\ \A k \in Others \ {i} : s.dentry[k] = st.dentry[k]
       /\ \/ s.dentry[i].list = st.dentry[i].list
          \/ st.dentry[i].list = Nil /\ s.dentry[i].list = Stepfather
       /\ ~ s.clashed =>
            /\ j = i
            /\ st.dentry[i].list = Nil => s.dentry[i].size = Length[i]
            /\ st.dentry[i].list # Nil => s.dentry[i] = st.dentry[i]
            /\ IF st.dentry[i].list = Nil THEN s.dentry[i].owed = Nil
               ELSE s.dentry[i].owed = st.dentry[i].owed /\ s.dentry[i].name = st.dentry[i].name
  <2>1. CASE s = st /\ j = i /\ st.dentry[i].list # Nil
    BY <2>1
  <2>2. CASE st.dentry[i].list = Nil /\ j = i /\ Changed(st, s, i, f)
    <3>1. s.clashed = st.clashed /\ s.dentry = [st.dentry EXCEPT ![i] = f]
      BY <2>2 DEF Changed
    <3>2. s.dentry[i] = f /\ \A k \in Others \ {i} : s.dentry[k] = st.dentry[k]
      BY <1>2, <3>1
    <3> QED BY <1>1, <1>9, <2>2, <3>1, <3>2
  <2>3. CASE st.dentry[i].list = Nil /\ Collided(st, s, j, Stepfather)
    BY <1>1, <2>3 DEF Collided
  <2> QED BY <1>8, <2>1, <2>2, <2>3 DEF f
<1>12. CASE s.dentry[j].size # Length[i] /\ s.dentry[j].size = 0 /\ s.dentry[j].contents # Nil
  <2>1. r = s
    BY <1>7, <1>12
  <2>2. ASSUME ~ s.clashed
        PROVE  pass > 1 /\ st.dentry[i].list # Nil /\ s.dentry[i] = st.dentry[i]
    <3>1. ~ st.clashed /\ j = i /\ st.dentry[i].list # Nil /\ s.dentry[i] = st.dentry[i]
      BY <1>11, <1>12, <2>2
    <3>2. Brought(st, i, seen)
      BY <3>1
    <3>3. Stated[i] \in Nat
      BY ObjectTreeAssumption
    <3> QED BY <1>12, <3>1, <3>2, <3>3 DEF Brought, Sent, Unwritten
  <2> QED BY <1>8, <1>11, <2>1, <2>2 DEF Fills
<1>13. CASE ~ (s.dentry[j].size # Length[i] /\ s.dentry[j].size = 0 /\ s.dentry[j].contents # Nil)
  <2>1. PICK z, o : z = Length[i] /\ o = i
    OBVIOUS
  <2>2. r = Overwritten(s, j, o, z) /\ z \in Nat /\ o \in Files \cup {Raw, Nil}
    BY <1>2, <1>7, <1>13, <2>1
  <2>3. Wrote(s, r, j, o, z)
    BY <1>8, <1>11, <2>2, OverwrittenIs
  <2>4. Sound(r) /\ Changed(s, r, j, r.dentry[j])
    BY <2>3 DEF Wrote
  <2>5. PICK x : r.dentry[j] = [s.dentry[j] EXCEPT !.contents = x, !.size = z] /\ (z > 0 => x = o)
    BY <2>3 DEF Wrote
  <2>6. /\ r.dentry[j].list = s.dentry[j].list /\ r.dentry[j].name = s.dentry[j].name
        /\ r.dentry[j].owed = s.dentry[j].owed /\ r.dentry[j].size = z /\ r.dentry[j].contents = x
    <3>1. s.dentry[j] \in Dentry
      BY <1>2, <1>10, <1>11
    <3> QED BY <2>5, <3>1 DEF Dentry
  <2>7. r.clashed = s.clashed /\ \A k \in Others \ {j} : r.dentry[k] = s.dentry[k]
    BY <1>2, <1>10, <2>4 DEF Changed
  <2>8. \A k \in Others : r.dentry[k].list = s.dentry[k].list
    BY <2>6, <2>7
  <2>9. ASSUME ~ r.clashed
        PROVE  /\ \A k \in Others \ {i} : r.dentry[k] = st.dentry[k]
               /\ r.dentry[i].list # Nil /\ Sent(i, r.dentry[i])
               /\ IF st.dentry[i].list = Nil THEN r.dentry[i].owed = Nil
                  ELSE r.dentry[i].owed = st.dentry[i].owed /\ r.dentry[i].name = st.dentry[i].name
    <3>1. ~ s.clashed /\ j = i
      BY <1>11, <2>7, <2>9
    <3> QED BY <1>11, <2>1, <2>5, <2>6, <2>7, <3>1 DEF Sent
  <2> QED BY <1>11, <2>4, <2>7, <2>8, <2>9 DEF Fills
<1> QED BY <1>12, <1>13

-----------------------------------------------------------------------------
(* What the messages led to was placed before, or a directory they led to  *)
(* has bound it.                                                           *)
LEMMA LedToIs ==
  ASSUME placed \subseteq Objects, NEW i \in Others
  PROVE  /\ i \in placed => LedTo(i)
         /\ HomeOf(i) \in handled /\ LedTo(HomeOf(i)) => LedTo(i)
         /\ LedTo(i) => i \in placed \/ (HomeOf(i) \in handled /\ LedTo(HomeOf(i)))
<1>1. i \in placed => LedTo(i)
  BY DEF LedTo
<1>2. i \in Objects /\ HomeOf(i) \in Directories /\ i \in ToSet(Bindings[HomeOf(i)])
  BY HomeIs DEF Others
<1>3. ASSUME HomeOf(i) \in handled, LedTo(HomeOf(i)) PROVE LedTo(i)
  <2> SUFFICES ASSUME NEW S \in SUBSET Objects, placed \subseteq S, Closed(S, handled \cap Directories)
               PROVE  i \in S
    BY DEF LedTo
  <2>1. HomeOf(i) \in S
    BY <1>3 DEF LedTo
  <2> QED BY <1>2, <1>3, <2>1 DEF Closed
<1>4. ASSUME LedTo(i), i \notin placed, ~ (HomeOf(i) \in handled /\ LedTo(HomeOf(i))) PROVE FALSE
  <2>1. PICK T \in SUBSET Objects : /\ placed \subseteq T /\ Closed(T, handled \cap Directories)
                                    /\ ~ (HomeOf(i) \in handled /\ HomeOf(i) \in T)
    <3>1. CASE HomeOf(i) \in handled
      BY <1>4, <3>1 DEF LedTo
    <3>2. CASE HomeOf(i) \notin handled
      <4>1. Closed(Objects, handled \cap Directories)
        BY ObjectTreeAssumption DEF Closed, ToSet
      <4> QED BY <3>2, <4>1
    <3> QED BY <3>1, <3>2
  <2>2. PICK S : S = T \ {i}
    OBVIOUS
  <2>3. S \in SUBSET Objects /\ placed \subseteq S /\ i \notin S
    BY <1>4, <2>1, <2>2
  <2>4. Closed(S, handled \cap Directories)
    <3> SUFFICES ASSUME NEW d \in S \cap (handled \cap Directories), NEW k \in ToSet(Bindings[d]) PROVE k \in S
      BY DEF Closed
    <3>1. k \in T /\ d \in T /\ d \in handled
      BY <2>1, <2>2 DEF Closed
    <3>2. k # i
      BY <2>1, <3>1, HomeIs
    <3> QED BY <2>2, <3>1, <3>2
  <2> QED BY <1>4, <2>3, <2>4 DEF LedTo
<1> QED BY <1>1, <1>3, <1>4

(* While it is placed, what has a dentry can be found.                     *)
LEMMA FoundSomewhere ==
  ASSUME NEW st, Sound(st), NEW bound, Leaving(st, bound), NEW i \in Others, st.dentry[i].list # Nil
  PROVE  Under(st, i, Root) \/ Under(st, i, Stepfather)
<1>1. PICK S : S = {k \in Objects : k # Root /\ st.dentry[k].list # Nil =>
                                      Under(st, k, Root) \/ Under(st, k, Stepfather)}
  OBVIOUS
<1>2. S \in SUBSET Objects /\ Root \in S
  BY <1>1, NilIs
<1>3. ASSUME NEW k \in Others, HomeOf(k) \in S PROVE k \in S
  <2>1. k \in Objects /\ k # Root
    BY DEF Others
  <2> SUFFICES ASSUME st.dentry[k].list # Nil PROVE Under(st, k, Root) \/ Under(st, k, Stepfather)
    BY <1>1, <2>1
  <2>2. st.dentry[k].list \in {Stepfather, HomeOf(k)} /\ HomeOf(k) \in Objects
    BY HomeIs DEF Leaving, Homes
  <2>3. CASE st.dentry[k].list = Stepfather
    BY <2>1, <2>3, UnderChild
  <2>4. CASE st.dentry[k].list = HomeOf(k) /\ HomeOf(k) = Root
    BY <2>1, <2>4, UnderChild
  <2>5. CASE st.dentry[k].list = HomeOf(k) /\ HomeOf(k) # Root
    <3>1. st.dentry[HomeOf(k)].list # Nil
      BY <2>5 DEF Leaving, AtHome
    <3>2. Under(st, HomeOf(k), Root) \/ Under(st, HomeOf(k), Stepfather)
      BY <1>1, <1>3, <2>5, <3>1
    <3> QED BY <2>1, <2>2, <2>5, <3>2, UnderChild
  <2> QED BY <2>2, <2>3, <2>4, <2>5
<1>4. S = Objects
  BY <1>2, <1>3, FromRoot
<1>5. i \in S /\ i # Root
  BY <1>4 DEF Others
<1> QED BY <1>1, <1>5

-----------------------------------------------------------------------------
LEMMA FileIs == ASSUME NEW i \in Files PROVE i \in Others /\ i \notin Directories
BY ObjectTreeAssumption DEF Others, Directories

LEMMA TreeInitRight == TreeInit => TreeInv
<1> SUFFICES ASSUME TreeInit PROVE TreeInv
  OBVIOUS
<1>1. /\ tree = [dentry |-> [i \in Objects |-> Absent], kids |-> [p \in Lists |-> <<>>], clashed |-> FALSE]
      /\ handled = {} /\ placed = {Root} /\ phase = "messages" /\ pass = 1
  BY DEF TreeInit, Lists
<1>2. /\ tree.dentry = [i \in Objects |-> Absent] /\ tree.kids = [p \in Lists |-> <<>>]
      /\ tree.clashed = FALSE
      /\ tree = [dentry |-> tree.dentry, kids |-> tree.kids, clashed |-> tree.clashed]
  BY <1>1
<1>3. Absent \in Dentry /\ Absent.list = Nil
  BY DEF Absent, Dentry
<1>4. Root \in Objects /\ Nil \notin Lists /\ Stepfather # Nil /\ \A i \in Others : i \in Objects /\ i # Root
  BY NilIs DEF Others, Lists
<1>5. <<>> \in Seq(Others) /\ IsInjective(<<>>) /\ ToSet(<<>>) = {}
  BY DEF IsInjective, ToSet
<1>6. Sound(tree)
  <2>1. tree.dentry \in [Objects -> Dentry] /\ tree.kids \in [Lists -> Seq(Others)]
    BY <1>2, <1>3, <1>5
  <2>2. \A p \in Lists : tree.kids[p] = <<>>
    BY <1>2
  <2>3. \A i \in Others : tree.dentry[i] = Absent
    BY <1>2, <1>4
  <2>4. tree.dentry[Root] = Absent
    BY <1>2, <1>4
  <2>5. \A i \in Others, p \in Lists : i \in ToSet(tree.kids[p]) <=> tree.dentry[i].list = p
    BY <1>3, <1>4, <1>5, <2>2, <2>3
  <2>6. \A p \in Lists : IsInjective(tree.kids[p])
    BY <1>5, <2>2
  <2> QED BY <1>2, <2>1, <2>3, <2>4, <2>5, <2>6 DEF Sound
<1>7. \A i \in Others : tree.dentry[i].list = Nil /\ HomeOf(i) # Nil /\ ~ AtHome(tree, i)
  BY <1>2, <1>3, <1>4, HomeIs, NilIs DEF AtHome
<1>8. BoundBy(handled) = {}
  BY <1>1 DEF BoundBy
<1>9. Coming(tree, {})
  BY <1>1, <1>4, <1>7 DEF Coming, Homes, AtHome
<1>10. Heard(tree, {}, {}) /\ Named(tree, {}) /\ \A i \in Files : Brought(tree, i, {})
  BY <1>4, <1>7, FileIs DEF Heard, Named, Brought
<1>11. Coming(tree, BoundBy(handled)) /\ Heard(tree, BoundBy(handled), handled)
       /\ Named(tree, BoundBy(handled)) /\ \A i \in Files : Brought(tree, i, handled)
  BY <1>1, <1>8, <1>9, <1>10, Zenon
<1>12. /\ handled \subseteq Objects /\ Root \in placed /\ placed \subseteq Objects /\ Root \notin handled
       /\ pass \in Nat \ {0}
  BY <1>1, <1>4
<1>13. phase = "messages" /\ placed = {Root}
  BY <1>1
<1> HIDE DEF TreeInit
<1> QED BY <1>6, <1>11, <1>12, <1>13 DEF TreeInv

LEMMA DirMessageKeeps ==
  ASSUME TreeInv, NEW d \in Objects, DirMessage(d)
  PROVE  TreeInv'
<1>1. PICK found \in BOOLEAN : found = (d = Root \/ Under(tree, d, Root))
  OBVIOUS
<1>2. PICK r : r = Bound(tree, d, found)
  OBVIOUS
<1>3. /\ phase = "messages" /\ d \in Directories /\ d \notin handled
      /\ tree' = r /\ rootKnown' = (rootKnown \/ d = Root) /\ handled' = handled \cup {d}
      /\ placed' = placed /\ phase' = phase /\ pass' = pass
  BY <1>1, <1>2 DEF DirMessage, Handle
<1>4. /\ Sound(tree) /\ Coming(tree, BoundBy(handled)) /\ placed \subseteq Objects /\ pass \in Nat \ {0}
      /\ pass = 1 => placed = {Root}
      /\ ~ tree.clashed => /\ Heard(tree, BoundBy(handled), handled) /\ Named(tree, BoundBy(handled))
                           /\ \A i \in Files : Brought(tree, i, handled)
  BY <1>3 DEF TreeInv
<1>5. found <=> AtHome(tree, d)
  <2>1. CASE d = Root
    BY <1>1, <2>1 DEF AtHome
  <2>2. CASE d # Root
    <3>1. d \in Others
      BY <2>2 DEF Others
    <3> QED BY <1>1, <1>4, <2>2, <3>1, Places
  <2> QED BY <2>1, <2>2
<1>6. Binding(tree, BoundBy(handled), d, found, handled)
  BY <1>4, <1>5 DEF Binding
<1>7. \A i \in Others : i \in placed => pass > 1
  <2> TAKE i \in Others
  <2> HAVE i \in placed
  <2>1. pass # 1
    BY <1>4 DEF Others
  <2> QED BY <1>4, <2>1
<1>8. Binding(r, BoundBy(handled \cup {d}), d, found, handled)
  BY <1>2, <1>3, <1>4, <1>6, <1>7, BoundKeeps
<1>9. PICK b : b = BoundBy(handled \cup {d})
  OBVIOUS
<1>10. /\ Sound(r) /\ Coming(r, b)
       /\ ~ r.clashed => Named(r, b) /\ Heard(r, b, handled) /\ \A j \in Files : Brought(r, j, handled)
  BY <1>8, <1>9 DEF Binding
<1>11. Coming(tree, BoundBy(handled))'
  BY <1>3, <1>9, <1>10 DEF Coming, Homes, AtHome, BoundBy
<1>12. ASSUME ~ tree'.clashed
       PROVE  /\ Heard(tree, BoundBy(handled), handled)' /\ Named(tree, BoundBy(handled))'
              /\ \A i \in Files : Brought(tree, i, handled)'
  <2>1. Named(tree, BoundBy(handled))'
    BY <1>3, <1>9, <1>10, <1>12 DEF Named, AtHome, BoundBy
  <2>2. \A i \in Files : i # d
    BY <1>3, FileIs
  <2>3. Heard(tree, BoundBy(handled), handled)'
    BY <1>3, <1>9, <1>10, <1>12, <2>2 DEF Heard, BoundBy
  <2>4. \A i \in Files : Brought(tree, i, handled)'
    BY <1>3, <1>10, <1>12, <2>2 DEF Brought
  <2> QED BY <2>1, <2>3, <2>4
<1>13. Sound(tree)'
  BY <1>3, <1>10 DEF Sound
<1> QED BY <1>3, <1>11, <1>12, <1>13 DEF TreeInv

LEMMA FileMessageKeeps ==
  ASSUME TreeInv, NEW i \in Objects, FileMessage(i)
  PROVE  TreeInv'
<1>1. PICK r : r = Filled(tree, i)
  OBVIOUS
<1>2. PICK b : b = BoundBy(handled)
  OBVIOUS
<1>3. /\ phase = "messages" /\ i \in Files /\ i \in Others /\ i \notin Directories /\ i \notin handled
      /\ tree' = r /\ rootKnown' = rootKnown /\ handled' = handled \cup {i}
      /\ placed' = placed /\ phase' = phase /\ pass' = pass
  BY <1>1, FileIs DEF FileMessage, Handle
<1>4. /\ Sound(tree) /\ Coming(tree, b) /\ placed \subseteq Objects
      /\ ~ tree.clashed => /\ Heard(tree, b, handled) /\ Named(tree, b)
                           /\ \A k \in Files : Brought(tree, k, handled)
  BY <1>2, <1>3 DEF TreeInv
<1>5. BoundBy(handled)' = b
  BY <1>2, <1>3, HomeIs DEF BoundBy
<1>6. Fills(tree, r, i)
  <2>1. ~ tree.clashed => Brought(tree, i, handled)
    BY <1>3, <1>4
  <2> QED BY <1>1, <1>3, <1>4, <2>1, FilledIs
<1>7. /\ Sound(r) /\ (tree.clashed => r.clashed)
      /\ \A k \in Others \ {i} : r.dentry[k].list = tree.dentry[k].list
      /\ \/ r.dentry[i].list = tree.dentry[i].list
         \/ tree.dentry[i].list = Nil /\ r.dentry[i].list = Stepfather
      /\ ~ r.clashed =>
           /\ \A k \in Others \ {i} : r.dentry[k] = tree.dentry[k]
           /\ r.dentry[i].list # Nil
           /\ \/ Sent(i, r.dentry[i])
              \/ pass > 1 /\ tree.dentry[i].list # Nil /\ r.dentry[i] = tree.dentry[i]
           /\ IF tree.dentry[i].list = Nil THEN r.dentry[i].owed = Nil
              ELSE r.dentry[i].owed = tree.dentry[i].owed /\ r.dentry[i].name = tree.dentry[i].name
  BY <1>6 DEF Fills
<1>8. /\ Nil # Stepfather /\ Root \in Objects
      /\ \A k \in Others : HomeOf(k) # Nil /\ HomeOf(k) # Stepfather /\ HomeOf(k) \in Objects /\ k # Root
      /\ \A k \in Objects : k = Root \/ k \in Others
  BY HomeIs, NilIs DEF Lists, Others
<1>9. \A k \in Objects : AtHome(r, k) <=> AtHome(tree, k)
  BY <1>7, <1>8 DEF AtHome
<1>10. Homes(r, b)
  <2>1. \A k \in Others : r.dentry[k].list \in {Nil, Stepfather, HomeOf(k)}
    BY <1>4, <1>7 DEF Coming, Homes
  <2>2. \A k \in Others : AtHome(r, k) => k \in placed \cup b
    BY <1>4, <1>9 DEF Coming, Homes, Others
  <2>3. \A k \in placed : AtHome(r, k) /\ (k # Root => HomeOf(k) \in placed)
    BY <1>4, <1>9 DEF Coming, Homes
  <2> QED BY <2>1, <2>2, <2>3 DEF Homes
<1>11. Coming(r, b)
  <2>1. \A k \in Others : AtHome(r, k) => AtHome(r, HomeOf(k))
    BY <1>4, <1>8, <1>9 DEF Coming, Others
  <2>2. \A k \in Others : k \in Directories /\ r.dentry[k].list # Nil => k \in placed \cup b
    BY <1>3, <1>4, <1>7 DEF Coming
  <2> QED BY <1>10, <2>1, <2>2 DEF Coming
<1>12. Coming(tree, BoundBy(handled))'
  BY <1>3, <1>5, <1>11 DEF Coming, Homes, AtHome
<1>13. ASSUME ~ r.clashed
       PROVE  /\ Heard(r, b, handled \cup {i}) /\ Named(r, b)
              /\ \A k \in Files : Brought(r, k, handled \cup {i})
  <2>1. ~ tree.clashed /\ Heard(tree, b, handled) /\ Named(tree, b)
        /\ \A k \in Files : Brought(tree, k, handled)
    BY <1>4, <1>7, <1>13
  <2>2. /\ \A k \in Others \ {i} : r.dentry[k] = tree.dentry[k]
        /\ r.dentry[i].list # Nil
        /\ \/ Sent(i, r.dentry[i])
           \/ pass > 1 /\ tree.dentry[i].list # Nil /\ r.dentry[i] = tree.dentry[i]
        /\ IF tree.dentry[i].list = Nil THEN r.dentry[i].owed = Nil
           ELSE r.dentry[i].owed = tree.dentry[i].owed /\ r.dentry[i].name = tree.dentry[i].name
    BY <1>7, <1>13
  <2>3. Heard(r, b, handled \cup {i})
    BY <2>1, <2>2 DEF Heard
  <2>4. Named(r, b)
    <3> SUFFICES ASSUME NEW k \in Others
                 PROVE  /\ AtHome(r, k) => r.dentry[k].name = Name[k]
                        /\ r.dentry[k].list = Stepfather =>
                             IF k \in b THEN r.dentry[k].owed = HomeOf(k) /\ r.dentry[k].name = Name[k]
                             ELSE r.dentry[k].owed = Nil
      BY DEF Named
    <3>1. CASE k # i
      BY <2>1, <2>2, <3>1 DEF Named, AtHome
    <3>2. CASE k = i /\ tree.dentry[i].list = Nil
      <4>1. i \notin b
        BY <1>3, <2>1, <3>2 DEF Heard
      <4>2. ~ AtHome(r, i)
        BY <1>3, <1>7, <1>8, <3>2 DEF AtHome
      <4> QED BY <2>2, <3>2, <4>1, <4>2
    <3>3. CASE k = i /\ tree.dentry[i].list # Nil
      <4>1. r.dentry[i].list = tree.dentry[i].list
        BY <1>7, <3>3
      <4> QED BY <2>1, <2>2, <3>3, <4>1 DEF Named, AtHome
    <3> QED BY <3>1, <3>2, <3>3
  <2>5. \A k \in Files : Brought(r, k, handled \cup {i})
    <3> TAKE k \in Files
    <3>1. CASE k = i
      BY <2>1, <2>2, <3>1 DEF Brought
    <3>2. CASE k # i
      BY <2>1, <2>2, <3>2, FileIs DEF Brought
    <3> QED BY <3>1, <3>2
  <2> QED BY <2>3, <2>4, <2>5
<1>14. ASSUME ~ tree'.clashed
       PROVE  /\ Heard(tree, BoundBy(handled), handled)' /\ Named(tree, BoundBy(handled))'
              /\ \A k \in Files : Brought(tree, k, handled)'
  BY <1>3, <1>5, <1>13, <1>14 DEF Heard, Named, AtHome, Brought
<1>15. Sound(tree)' /\ (Root \in handled' => rootKnown')
  BY <1>3, <1>7 DEF Sound, TreeInv, Others
<1> QED BY <1>3, <1>12, <1>14, <1>15 DEF TreeInv

LEMMA ModulesEndKeeps ==
  ASSUME TreeInv, ModulesEnd
  PROVE  TreeInv'
<1>1. /\ phase = "messages" /\ phase' = "reparent"
      /\ tree' = tree /\ rootKnown' = rootKnown /\ handled' = handled /\ placed' = placed /\ pass' = pass
  BY DEF ModulesEnd
<1>2. Leaving(tree, BoundBy(handled)) \/ tree.clashed
  <2> SUFFICES ASSUME ~ tree.clashed PROVE Leaving(tree, BoundBy(handled))
    OBVIOUS
  <2>1. Coming(tree, BoundBy(handled)) /\ Heard(tree, BoundBy(handled), handled) /\ placed \subseteq Objects
    BY <1>1 DEF TreeInv
  <2>2. \A i \in Others : HomeOf(i) \in Objects /\ HomeOf(i) # Nil
    BY HomeIs, NilIs
  <2>3. \A i \in Others : AtHome(tree, i) => HomeOf(i) = Root \/ tree.dentry[HomeOf(i)].list # Nil
    <3> TAKE i \in Others
    <3> HAVE AtHome(tree, i)
    <3>1. AtHome(tree, HomeOf(i)) /\ (HomeOf(i) = Root \/ HomeOf(i) \in Others)
      BY <2>1, <2>2 DEF Coming, Others
    <3> QED BY <2>2, <3>1 DEF AtHome
  <2>4. PICK S : S = {k \in Objects : k = Root \/ tree.dentry[k].list # Nil}
    OBVIOUS
  <2>5. placed \subseteq S
    <3> SUFFICES ASSUME NEW k \in placed PROVE k \in S
      OBVIOUS
    <3>1. AtHome(tree, k) /\ (k = Root \/ k \in Others)
      BY <2>1 DEF Coming, Homes, Others
    <3> QED BY <2>1, <2>2, <2>4, <3>1 DEF AtHome
  <2>6. Closed(S, handled \cap Directories)
    <3> SUFFICES ASSUME NEW d \in handled \cap Directories, NEW k \in ToSet(Bindings[d]) PROVE k \in S
      BY DEF Closed
    <3>1. k \in Others
      BY ObjectTreeAssumption DEF ToSet, Others
    <3>2. k \in BoundBy(handled)
      BY <3>1, HomeIs DEF BoundBy
    <3> QED BY <2>1, <2>4, <3>1, <3>2 DEF Heard, Others
  <2>7. \A i \in Others : LedTo(i) => tree.dentry[i].list # Nil
    <3> TAKE i \in Others
    <3> HAVE LedTo(i)
    <3>1. i \in S
      BY <2>4, <2>5, <2>6 DEF LedTo
    <3> QED BY <2>4, <3>1 DEF Others
  <2> QED BY <2>1, <2>3, <2>7 DEF Leaving, Coming
<1>3. (Leaving(tree, BoundBy(handled)) \/ tree.clashed)'
  BY <1>1, <1>2 DEF Leaving, Homes, AtHome, BoundBy, LedTo
<1>4. ASSUME ~ tree'.clashed
      PROVE  Named(tree, BoundBy(handled))' /\ \A i \in Files : Brought(tree, i, handled)'
  BY <1>1, <1>4 DEF TreeInv, Named, AtHome, BoundBy, Brought
<1>5. Sound(tree)'
  BY <1>1 DEF TreeInv, Sound
<1> QED BY <1>1, <1>3, <1>4, <1>5 DEF TreeInv

-----------------------------------------------------------------------------
(* What reparenting frees is nothing that a message led to.                *)
LEMMA NotLedTo ==
  ASSUME TreeInv, ~ tree.clashed, phase = "reparent", NEW i \in Others, tree.dentry[i].list = Stepfather,
         tree.dentry[i].owed = Nil \/ ~ ParentKnown(tree.dentry[i].owed), NEW k \in Gone(tree, i)
  PROVE  ~ LedTo(k)
<1>1. /\ Sound(tree) /\ Leaving(tree, BoundBy(handled)) /\ Named(tree, BoundBy(handled))
      /\ placed \subseteq Objects /\ (Root \in handled => rootKnown)
  BY DEF TreeInv
<1>2. /\ \A m \in Others : /\ tree.dentry[m].list \in {Nil, Stepfather, HomeOf(m)}
                           /\ HomeOf(m) \in Directories /\ HomeOf(m) \in Objects
                           /\ HomeOf(m) # Nil /\ HomeOf(m) # Stepfather /\ m \in Objects /\ m # Root
      /\ \A m \in placed : AtHome(tree, m) /\ (m # Root => HomeOf(m) \in placed)
      /\ \A m \in Objects : m = Root \/ m \in Others
      /\ Nil # Stepfather /\ Stepfather \notin Objects /\ Nil \notin Objects /\ Root \in Objects
  BY <1>1, HomeIs, NilIs DEF Leaving, Homes, Others, Lists
<1>3. ~ LedTo(i)
  <2> SUFFICES ASSUME LedTo(i) PROVE FALSE
    OBVIOUS
  <2>1. i \notin placed
    BY <1>2 DEF AtHome
  <2>2. HomeOf(i) \in handled /\ LedTo(HomeOf(i))
    BY <1>1, <2>1, LedToIs
  <2>3. tree.dentry[i].owed = HomeOf(i)
    BY <1>1, <2>2 DEF BoundBy, Named
  <2>4. ParentKnown(HomeOf(i))
    <3>1. CASE HomeOf(i) = Root
      BY <1>1, <2>2, <3>1 DEF ParentKnown
    <3>2. CASE HomeOf(i) # Root
      <4>1. HomeOf(i) \in Others
        BY <1>2, <3>2
      <4>2. tree.dentry[HomeOf(i)].list # Nil
        BY <1>1, <2>2, <4>1 DEF Leaving
      <4> QED BY <1>1, <3>2, <4>1, <4>2, FoundSomewhere DEF ParentKnown
    <3> QED BY <3>1, <3>2
  <2> QED BY <1>2, <2>3, <2>4
<1>4. CASE k = i
  BY <1>3, <1>4
<1>5. CASE k # i
  <2>1. k \in Others /\ Under(tree, k, i)
    BY <1>5 DEF Gone
  <2>2. PICK S : S = {m \in Others : ~ LedTo(m)}
    OBVIOUS
  <2>3. S \in SUBSET Objects
    BY <2>2 DEF Others
  <2>4. ASSUME NEW m \in Objects, tree.dentry[m].list \in S \cup {i} PROVE m \in S
    <3>1. tree.dentry[m].list \in Others /\ ~ LedTo(tree.dentry[m].list)
      BY <1>3, <2>2, <2>4
    <3>2. m \in Others
      <4>1. tree.dentry[Root].list = Nil
        BY <1>1 DEF Sound, Absent
      <4> QED BY <1>2, <3>1, <4>1 DEF Others
    <3>3. tree.dentry[m].list = HomeOf(m) /\ HomeOf(m) \in Others /\ ~ LedTo(HomeOf(m))
      BY <1>2, <3>1, <3>2
    <3>4. m \notin placed
      <4>1. HomeOf(m) \notin placed
        BY <1>1, <3>3, LedToIs
      <4> QED BY <1>2, <3>2, <4>1
    <3>5. ~ LedTo(m)
      BY <1>1, <3>2, <3>3, <3>4, LedToIs
    <3> QED BY <2>2, <3>2, <3>5
  <2>5. k \in S
    BY <1>2, <2>1, <2>3, <2>4, UnderIn
  <2> QED BY <2>2, <2>5
<1> QED BY <1>4, <1>5

LEMMA ReparentKeeps ==
  ASSUME TreeInv, Reparent
  PROVE  TreeInv'
<1>1. PICK i : i = Head(tree.kids[Stepfather])
  OBVIOUS
<1>2. PICK d : d = tree.dentry[i].owed
  OBVIOUS
<1>3. PICK b : b = BoundBy(handled)
  OBVIOUS
<1>4. /\ phase = "reparent" /\ tree.kids[Stepfather] # <<>>
      /\ tree' = IF d = Nil \/ ~ ParentKnown(d) THEN Disposed(tree, i)
                 ELSE Hung(Unlinked(tree, i), d, i, [tree.dentry[i] EXCEPT !.owed = Nil])
      /\ rootKnown' = rootKnown /\ handled' = handled /\ placed' = placed /\ phase' = phase /\ pass' = pass
  BY <1>1, <1>2 DEF Reparent
<1>5. /\ Sound(tree) /\ placed \subseteq Objects
      /\ ~ tree.clashed => /\ Leaving(tree, b) /\ Named(tree, b)
                           /\ \A k \in Files : Brought(tree, k, handled)
  BY <1>3, <1>4 DEF TreeInv
<1>6. /\ tree.dentry \in [Objects -> Dentry] /\ Stepfather \in Lists
      /\ tree.kids \in [Lists -> Seq(Others)]
      /\ \A k \in Others, p \in Lists : k \in ToSet(tree.kids[p]) <=> tree.dentry[k].list = p
  BY <1>5 DEF Sound, Lists
<1>7. i \in Others /\ tree.dentry[i].list = Stepfather /\ i \in Objects
  <2>1. PICK s : s = tree.kids[Stepfather]
    OBVIOUS
  <2>2. s \in Seq(Others) /\ s # <<>> /\ i = Head(s)
    BY <1>1, <1>4, <1>6, <2>1
  <2>3. i = s[1] /\ 1 \in DOMAIN s /\ i \in Others
    BY <2>2
  <2>4. i \in ToSet(s)
    BY <2>3 DEF ToSet
  <2> QED BY <1>6, <2>1, <2>3, <2>4 DEF Others
<1>8. /\ \A m \in Others : /\ HomeOf(m) \in Directories /\ HomeOf(m) \in Objects /\ HomeOf(m) # m
                           /\ HomeOf(m) # Nil /\ HomeOf(m) # Stepfather /\ m \in Objects /\ m # Root
      /\ \A m \in Objects : m = Root \/ m \in Others
      /\ Nil # Stepfather /\ Stepfather \notin Objects /\ Nil \notin Objects /\ Root \in Objects
      /\ Nil \notin Lists
  BY HomeIs, NilIs, NotOwnHome DEF Others, Lists
<1>9. CASE d = Nil \/ ~ ParentKnown(d)
  <2>1. PICK r : r = Disposed(tree, i)
    OBVIOUS
  <2>2. /\ Sound(r) /\ r.clashed = tree.clashed
        /\ r.dentry = [k \in Objects |-> IF k \in Gone(tree, i) THEN Absent ELSE tree.dentry[k]]
    BY <1>5, <1>7, <2>1, DisposedIs
  <2>3. tree' = r
    BY <1>4, <1>9, <2>1
  <2>4. \A k \in Objects : r.dentry[k] = IF k \in Gone(tree, i) THEN Absent ELSE tree.dentry[k]
    BY <2>2
  <2>5. Absent.list = Nil
    BY DEF Absent
  <2>6. ASSUME ~ tree.clashed
        PROVE  Leaving(r, b) /\ Named(r, b) /\ \A k \in Files : Brought(r, k, handled)
    <3>1. Leaving(tree, b) /\ Named(tree, b) /\ \A k \in Files : Brought(tree, k, handled)
      BY <1>5, <2>6
    <3>2. \A k \in Gone(tree, i) : ~ LedTo(k)
      BY <1>2, <1>4, <1>7, <1>9, <2>6, NotLedTo
    <3>3. \A k \in Others : AtHome(r, k) <=> AtHome(tree, k) /\ k \notin Gone(tree, i)
      BY <1>8, <2>4, <2>5 DEF AtHome
    <3>4. \A k \in Others : /\ r.dentry[k].list \in {Nil, Stepfather, HomeOf(k)}
                            /\ AtHome(r, k) => k \in placed \cup b
      BY <1>8, <2>4, <2>5, <3>1, <3>3 DEF Leaving, Homes
    <3>5. ASSUME NEW k \in placed PROVE AtHome(r, k) /\ (k # Root => HomeOf(k) \in placed)
      <4>1. AtHome(tree, k) /\ (k # Root => HomeOf(k) \in placed)
        BY <3>1 DEF Leaving, Homes
      <4>2. k \in Others => LedTo(k)
        BY <1>5, LedToIs
      <4> QED BY <1>5, <1>8, <3>2, <3>3, <4>1, <4>2 DEF AtHome
    <3>6. ASSUME NEW k \in Others, AtHome(r, k)
          PROVE  HomeOf(k) = Root \/ r.dentry[HomeOf(k)].list # Nil
      <4>1. HomeOf(k) = Root \/ tree.dentry[HomeOf(k)].list # Nil
        BY <3>1, <3>3, <3>6 DEF Leaving
      <4>2. tree.dentry[k].list = HomeOf(k) /\ k \notin Gone(tree, i)
        BY <1>8, <3>3, <3>6 DEF AtHome
      <4>3. HomeOf(k) \notin Gone(tree, i)
        <5> SUFFICES ASSUME HomeOf(k) \in Gone(tree, i) PROVE Under(tree, k, i)
          BY <4>2 DEF Gone
        <5>1. HomeOf(k) = i \/ Under(tree, HomeOf(k), i)
          BY DEF Gone
        <5> QED BY <1>8, <4>2, <5>1, UnderChild
      <4> QED BY <1>8, <2>4, <4>1, <4>3
    <3>7. ASSUME NEW k \in Others, LedTo(k) PROVE r.dentry[k].list # Nil
      BY <1>8, <2>4, <3>1, <3>2, <3>7 DEF Leaving
    <3>8. Leaving(r, b)
      BY <3>4, <3>5, <3>6, <3>7 DEF Leaving, Homes
    <3>9. Named(r, b)
      BY <1>8, <2>4, <2>5, <3>1, <3>3 DEF Named
    <3>10. \A k \in Files : Brought(r, k, handled)
      <4> TAKE k \in Files
      <4>1. k \in Objects /\ Brought(tree, k, handled)
        BY <1>8, <3>1, FileIs
      <4> QED BY <2>4, <2>5, <4>1 DEF Brought
    <3> QED BY <3>8, <3>9, <3>10
  <2>7. ASSUME ~ tree'.clashed
        PROVE  /\ Leaving(tree, BoundBy(handled))' /\ Named(tree, BoundBy(handled))'
               /\ \A k \in Files : Brought(tree, k, handled)'
    <3>1. Leaving(r, b) /\ Named(r, b) /\ \A k \in Files : Brought(r, k, handled)
      BY <2>2, <2>3, <2>6, <2>7
    <3>2. Leaving(tree, BoundBy(handled))'
      BY <1>3, <1>4, <2>3, <3>1 DEF Leaving, Homes, AtHome, BoundBy, LedTo
    <3>3. Named(tree, BoundBy(handled))'
      BY <1>3, <1>4, <2>3, <3>1 DEF Named, AtHome, BoundBy
    <3>4. \A k \in Files : Brought(tree, k, handled)'
      BY <1>4, <2>3, <3>1 DEF Brought
    <3> QED BY <3>2, <3>3, <3>4
  <2>8. Sound(tree)'
    BY <2>2, <2>3 DEF Sound
  <2> QED BY <1>4, <2>7, <2>8 DEF TreeInv
<1>10. CASE ~ (d = Nil \/ ~ ParentKnown(d))
  <2> DEFINE e == [tree.dentry[i] EXCEPT !.owed = Nil]
             f == [e EXCEPT !.list = d]
  <2>1. PICK r : r = Hung(Unlinked(tree, i), d, i, e)
    OBVIOUS
  <2>2. tree' = r
    BY <1>4, <1>10, <2>1
  <2>3. d \in Directories /\ d \in Lists /\ d \in Objects /\ tree.dentry[i] \in Dentry
    BY <1>2, <1>6, <1>7, <1>10 DEF Dentry, Directories, Lists
  <2>4. /\ e \in Dentry /\ f.list = d /\ f.owed = Nil /\ f.name = tree.dentry[i].name
        /\ f.size = tree.dentry[i].size /\ f.contents = tree.dentry[i].contents
    BY <2>3 DEF Dentry
  <2> HIDE DEF e
  <2>5. Sound(r) /\ Changed(tree, r, i, f)
    BY <1>5, <1>7, <2>1, <2>3, <2>4, MovedIs
  <2> HIDE DEF f
  <2>6. r.clashed = tree.clashed /\ r.dentry[i] = f /\ \A k \in Objects \ {i} : r.dentry[k] = tree.dentry[k]
    BY <1>6, <1>7, <2>5 DEF Changed
  <2>7. ASSUME ~ tree.clashed
        PROVE  Leaving(r, b) /\ Named(r, b) /\ \A k \in Files : Brought(r, k, handled)
    <3>1. Leaving(tree, b) /\ Named(tree, b) /\ \A k \in Files : Brought(tree, k, handled)
      BY <1>5, <2>7
    <3>2. d = HomeOf(i) /\ i \in b /\ f.name = Name[i]
      BY <1>2, <1>7, <1>10, <2>4, <3>1 DEF Named
    <3>3. d = Root \/ tree.dentry[d].list # Nil
      <4> SUFFICES ASSUME d # Root PROVE tree.dentry[d].list # Nil
        OBVIOUS
      <4>1. Under(tree, d, Root) \/ Under(tree, d, Stepfather)
        BY <1>10 DEF ParentKnown
      <4> QED BY <1>8, <2>3, <4>1, UnderIs
    <3>4. \A k \in Others \ {i} : AtHome(r, k) <=> AtHome(tree, k)
      BY <1>8, <2>6 DEF AtHome
    <3>5. AtHome(r, i) /\ i \notin placed
      <4>1. ~ AtHome(tree, i)
        BY <1>7, <1>8 DEF AtHome
      <4>2. i \notin placed
        BY <3>1, <4>1 DEF Leaving, Homes
      <4> QED BY <2>4, <2>6, <3>2, <4>2 DEF AtHome
    <3>6. \A k \in Others : /\ r.dentry[k].list \in {Nil, Stepfather, HomeOf(k)}
                            /\ AtHome(r, k) => k \in placed \cup b
      BY <1>8, <2>4, <2>6, <3>1, <3>2, <3>4 DEF Leaving, Homes
    <3>7. ASSUME NEW k \in placed PROVE AtHome(r, k) /\ (k # Root => HomeOf(k) \in placed)
      <4>1. AtHome(tree, k) /\ (k # Root => HomeOf(k) \in placed)
        BY <3>1 DEF Leaving, Homes
      <4> QED BY <1>5, <1>8, <3>4, <3>5, <4>1 DEF AtHome
    <3>8. \A k \in Objects : tree.dentry[k].list # Nil => r.dentry[k].list # Nil
      BY <1>8, <2>3, <2>4, <2>6
    <3>9. ASSUME NEW k \in Others, AtHome(r, k)
          PROVE  HomeOf(k) = Root \/ r.dentry[HomeOf(k)].list # Nil
      <4>1. CASE k = i
        BY <2>3, <3>2, <3>3, <3>8, <4>1
      <4>2. CASE k # i
        <5>1. HomeOf(k) = Root \/ tree.dentry[HomeOf(k)].list # Nil
          BY <3>1, <3>4, <3>9, <4>2 DEF Leaving
        <5> QED BY <1>8, <3>8, <5>1
      <4> QED BY <4>1, <4>2
    <3>10. ASSUME NEW k \in Others, LedTo(k) PROVE r.dentry[k].list # Nil
      BY <1>8, <3>1, <3>8, <3>10 DEF Leaving
    <3>11. Leaving(r, b)
      BY <3>6, <3>7, <3>9, <3>10 DEF Leaving, Homes
    <3>12. Named(r, b)
      <4> SUFFICES ASSUME NEW k \in Others
                   PROVE  /\ AtHome(r, k) => r.dentry[k].name = Name[k]
                          /\ r.dentry[k].list = Stepfather =>
                               IF k \in b THEN r.dentry[k].owed = HomeOf(k) /\ r.dentry[k].name = Name[k]
                               ELSE r.dentry[k].owed = Nil
        BY DEF Named
      <4>1. CASE k = i
        BY <1>8, <2>4, <2>6, <3>2, <4>1
      <4>2. CASE k # i
        BY <1>8, <2>6, <3>1, <3>4, <4>2 DEF Named
      <4> QED BY <4>1, <4>2
    <3>13. \A k \in Files : Brought(r, k, handled)
      <4> TAKE k \in Files
      <4>1. k \in Objects /\ Brought(tree, k, handled)
        BY <1>8, <3>1, FileIs
      <4>2. CASE k = i
        BY <1>7, <1>8, <2>4, <2>6, <4>1, <4>2 DEF Brought, Sent, Unwritten
      <4>3. CASE k # i
        BY <2>6, <4>1, <4>3 DEF Brought
      <4> QED BY <4>2, <4>3
    <3> QED BY <3>11, <3>12, <3>13
  <2>8. ASSUME ~ tree'.clashed
        PROVE  /\ Leaving(tree, BoundBy(handled))' /\ Named(tree, BoundBy(handled))'
               /\ \A k \in Files : Brought(tree, k, handled)'
    <3>1. Leaving(r, b) /\ Named(r, b) /\ \A k \in Files : Brought(r, k, handled)
      BY <2>2, <2>6, <2>7, <2>8
    <3>2. Leaving(tree, BoundBy(handled))'
      BY <1>3, <1>4, <2>2, <3>1 DEF Leaving, Homes, AtHome, BoundBy, LedTo
    <3>3. Named(tree, BoundBy(handled))'
      BY <1>3, <1>4, <2>2, <3>1 DEF Named, AtHome, BoundBy
    <3>4. \A k \in Files : Brought(tree, k, handled)'
      BY <1>4, <2>2, <3>1 DEF Brought
    <3> QED BY <3>2, <3>3, <3>4
  <2>9. Sound(tree)'
    BY <2>2, <2>5 DEF Sound
  <2> QED BY <1>4, <2>8, <2>9 DEF TreeInv
<1> QED BY <1>9, <1>10

LEMMA OverKeeps ==
  ASSUME TreeInv, Over
  PROVE  TreeInv'
<1>1. /\ phase = "reparent" /\ tree.kids[Stepfather] = <<>> /\ phase' = "over"
      /\ placed' = {i \in Objects : LedTo(i)}
      /\ tree' = tree /\ rootKnown' = rootKnown /\ handled' = handled /\ pass' = pass
  BY DEF Over
<1>2. Sound(tree) /\ Root \in placed /\ placed \subseteq Objects
  BY DEF TreeInv
<1>3. Root \in placed' /\ placed' \subseteq Objects
  BY <1>1, <1>2, NilIs DEF LedTo
<1>4. ASSUME ~ tree.clashed PROVE Homes(tree, {})'
  <2>1. Leaving(tree, BoundBy(handled))
    BY <1>1, <1>4 DEF TreeInv
  <2>2. /\ \A m \in Others : /\ tree.dentry[m].list \in {Nil, Stepfather, HomeOf(m)}
                             /\ HomeOf(m) \in Objects /\ HomeOf(m) # Nil /\ HomeOf(m) # Stepfather
                             /\ m \in Objects /\ m # Root
        /\ \A m \in Objects : m = Root \/ m \in Others
    BY <2>1, HomeIs, NilIs DEF Leaving, Homes, Others
  <2>3. \A m \in Others : tree.dentry[m].list # Stepfather
    <3> SUFFICES ASSUME NEW m \in Others, tree.dentry[m].list = Stepfather PROVE FALSE
      OBVIOUS
    <3>1. m \in ToSet(tree.kids[Stepfather])
      BY <1>2 DEF Sound, Lists
    <3> QED BY <1>1, <3>1 DEF ToSet
  <2>4. \A m \in Objects : LedTo(m) => AtHome(tree, m)
    BY <2>1, <2>2, <2>3 DEF Leaving, AtHome
  <2>5. \A m \in Objects : AtHome(tree, m) => LedTo(m)
    <3>1. PICK S : S = {m \in Objects : AtHome(tree, m) => LedTo(m)}
      OBVIOUS
    <3>2. S \in SUBSET Objects /\ Root \in S
      BY <1>2, <3>1, NilIs DEF LedTo
    <3>3. ASSUME NEW m \in Others, HomeOf(m) \in S PROVE m \in S
      <4> SUFFICES ASSUME AtHome(tree, m) PROVE LedTo(m)
        BY <2>2, <3>1
      <4>1. AtHome(tree, HomeOf(m))
        <5>1. HomeOf(m) = Root \/ tree.dentry[HomeOf(m)].list # Nil
          BY <2>1 DEF Leaving
        <5> QED BY <2>2, <2>3, <5>1 DEF AtHome
      <4>2. LedTo(HomeOf(m))
        BY <3>1, <3>3, <4>1
      <4>3. m \in placed \/ HomeOf(m) \in handled
        BY <2>1 DEF Leaving, Homes, BoundBy
      <4> QED BY <1>2, <4>2, <4>3, LedToIs
    <3>4. S = Objects
      BY <3>2, <3>3, FromRoot
    <3> QED BY <3>1, <3>4
  <2>6. ASSUME NEW m \in placed' PROVE AtHome(tree, m) /\ (m # Root => HomeOf(m) \in placed')
    <3>1. m \in Objects /\ LedTo(m) /\ AtHome(tree, m)
      BY <1>1, <2>4
    <3>2. ASSUME m # Root PROVE LedTo(HomeOf(m)) /\ HomeOf(m) \in Objects
      <4>1. m \in Others /\ HomeOf(m) \in Objects
        BY <2>2, <3>1, <3>2
      <4>2. AtHome(tree, HomeOf(m))
        <5>1. HomeOf(m) = Root \/ tree.dentry[HomeOf(m)].list # Nil
          BY <2>1, <3>1, <4>1 DEF Leaving
        <5> QED BY <2>2, <2>3, <4>1, <5>1 DEF AtHome
      <4> QED BY <2>5, <4>1, <4>2
    <3> QED BY <1>1, <3>1, <3>2
  <2>7. \A m \in Others : AtHome(tree, m) => m \in placed'
    BY <1>1, <2>2, <2>5
  <2> QED BY <1>1, <2>2, <2>6, <2>7 DEF Homes, AtHome
<1>5. ASSUME ~ tree'.clashed
      PROVE  Named(tree, BoundBy(handled))' /\ \A i \in Files : Brought(tree, i, handled)'
  BY <1>1, <1>5 DEF TreeInv, Named, AtHome, BoundBy, Brought
<1>6. Sound(tree)'
  BY <1>1, <1>2 DEF Sound
<1> QED BY <1>1, <1>3, <1>4, <1>5, <1>6 DEF TreeInv

(* When it is done, everything is at home, and what was placed is there.   *)
LEMMA WhenOver ==
  ASSUME TreeInv, phase = "over", ~ tree.clashed
  PROVE  /\ Coming(tree, {}) /\ Homes(tree, {})
         /\ \A i \in Others : tree.dentry[i].list \in {Nil, HomeOf(i)} /\ (tree.dentry[i].list # Nil <=> i \in placed)
<1>1. Sound(tree) /\ tree.kids[Stepfather] = <<>> /\ Homes(tree, {}) /\ placed \subseteq Objects
  BY DEF TreeInv
<1>2. /\ \A m \in Others : /\ tree.dentry[m].list \in {Nil, Stepfather, HomeOf(m)}
                           /\ AtHome(tree, m) => m \in placed
                           /\ HomeOf(m) \in Objects /\ HomeOf(m) # Nil /\ m \in Objects /\ m # Root
      /\ \A m \in placed : AtHome(tree, m) /\ (m # Root => HomeOf(m) \in placed)
  BY <1>1, HomeIs, NilIs DEF Homes, Others
<1>3. \A m \in Others : tree.dentry[m].list # Stepfather
  <2> SUFFICES ASSUME NEW m \in Others, tree.dentry[m].list = Stepfather PROVE FALSE
    OBVIOUS
  <2>1. m \in ToSet(tree.kids[Stepfather])
    BY <1>1 DEF Sound, Lists
  <2> QED BY <1>1, <2>1 DEF ToSet
<1>4. \A i \in Others : tree.dentry[i].list \in {Nil, HomeOf(i)} /\ (tree.dentry[i].list # Nil <=> i \in placed)
  BY <1>2, <1>3 DEF AtHome
<1>5. \A i \in Others : AtHome(tree, i) => AtHome(tree, HomeOf(i))
  BY <1>2
<1>6. \A i \in Others : i \in Directories /\ tree.dentry[i].list # Nil => i \in placed \cup {}
  BY <1>4
<1> QED BY <1>1, <1>4, <1>5, <1>6 DEF Coming

LEMMA AgainKeeps ==
  ASSUME TreeInv, Again
  PROVE  TreeInv'
<1>1. /\ phase = "over" /\ ~ tree.clashed /\ phase' = "messages" /\ pass' = pass + 1 /\ handled' = {}
      /\ tree' = tree /\ rootKnown' = rootKnown /\ placed' = placed
  BY DEF Again
<1>2. /\ Sound(tree) /\ placed \subseteq Objects /\ Root \in placed /\ pass \in Nat \ {0}
      /\ Named(tree, BoundBy(handled)) /\ \A i \in Files : Brought(tree, i, handled)
  BY <1>1 DEF TreeInv
<1>3. /\ Coming(tree, {})
      /\ \A i \in Others : tree.dentry[i].list \in {Nil, HomeOf(i)} /\ (tree.dentry[i].list # Nil <=> i \in placed)
  BY <1>1, WhenOver
<1>4. BoundBy(handled)' = {}
  BY <1>1 DEF BoundBy
<1>5. Coming(tree, BoundBy(handled))'
  BY <1>1, <1>3, <1>4 DEF Coming, Homes, AtHome
<1>6. Heard(tree, BoundBy(handled), handled)'
  BY <1>1, <1>4 DEF Heard
<1>7. Named(tree, BoundBy(handled))'
  <2>1. \A i \in Others : tree.dentry[i].list # Stepfather
    BY <1>3, NilIs, HomeIs DEF Lists
  <2> QED BY <1>1, <1>2, <2>1 DEF Named, AtHome
<1>8. pass' \in Nat \ {0} /\ pass' > 1 /\ pass' # 1
  BY <1>1, <1>2
<1>9. \A i \in Files : Brought(tree, i, handled)'
  <2> TAKE i \in Files
  <2>1. Brought(tree, i, handled)
    BY <1>2
  <2> QED BY <1>1, <1>8, <2>1 DEF Brought
<1>10. Sound(tree)'
  BY <1>1, <1>2 DEF Sound
<1> QED BY <1>1, <1>2, <1>5, <1>6, <1>7, <1>8, <1>9, <1>10 DEF TreeInv

LEMMA TreeInvIs == TreeSpec => []TreeInv
<1>1. TreeInv /\ [TreeNext]_objects => TreeInv'
  <2> SUFFICES ASSUME TreeInv, [TreeNext]_objects PROVE TreeInv'
    OBVIOUS
  <2>1. ASSUME NEW i \in Objects, DirMessage(i) \/ FileMessage(i) PROVE TreeInv'
    BY <2>1, DirMessageKeeps, FileMessageKeeps
  <2>2. CASE UNCHANGED objects
    <3>1. /\ tree' = tree /\ rootKnown' = rootKnown /\ handled' = handled /\ placed' = placed
          /\ phase' = phase /\ pass' = pass
      BY <2>2 DEF objects
    <3>2. Sound(tree)' <=> Sound(tree)
      BY <3>1 DEF Sound
    <3>3. /\ Coming(tree, BoundBy(handled))' <=> Coming(tree, BoundBy(handled))
          /\ Homes(tree, {})' <=> Homes(tree, {})
      BY <3>1 DEF Coming, Homes, AtHome, BoundBy
    <3>4. Leaving(tree, BoundBy(handled))' <=> Leaving(tree, BoundBy(handled))
      BY <3>1 DEF Leaving, Homes, AtHome, BoundBy, LedTo
    <3>5. /\ Heard(tree, BoundBy(handled), handled)' <=> Heard(tree, BoundBy(handled), handled)
          /\ Named(tree, BoundBy(handled))' <=> Named(tree, BoundBy(handled))
      BY <3>1 DEF Heard, Named, AtHome, BoundBy
    <3>6. \A i \in Files : Brought(tree, i, handled)' <=> Brought(tree, i, handled)
      BY <3>1 DEF Brought
    <3> QED BY <3>1, <3>2, <3>3, <3>4, <3>5, <3>6 DEF TreeInv
  <2> QED BY <2>1, <2>2, ModulesEndKeeps, ReparentKeeps, OverKeeps, AgainKeeps DEF TreeNext
<1> QED BY TreeInitRight, <1>1, PTL DEF TreeSpec

-----------------------------------------------------------------------------
(* The tree that the messages describe, in every order of them: TreeRight  *)
(* of biop_create_filesystem_dentries() and                                *)
(* biop_reparent_orphaned_dentries().                                      *)
THEOREM TreeIsRight == TreeSpec => []TreeRight
<1>1. TreeInv => TreeRight
  <2> SUFFICES ASSUME TreeInv PROVE HangsOnce /\ BoundAsSent
    BY DEF TreeRight
  <2>1. Sound(tree)
    BY DEF TreeInv
  <2>2. DOMAIN tree.kids = Lists /\ Nil \notin Lists /\ Absent.list = Nil
    BY <2>1, NilIs DEF Sound, Absent
  <2>3. \A i \in Others : /\ Exists(tree, i) <=> tree.dentry[i].list # Nil
                          /\ i \in Objects /\ i # Root /\ HomeOf(i) # Nil
    BY <2>1, <2>2, HomeIs, NilIs DEF Sound, Exists, Others
  <2>4. \A p \in DOMAIN tree.kids : IsInjective(tree.kids[p])
    BY <2>1, <2>2 DEF Sound
  <2>5. \A i \in Objects \ {Root}, p \in DOMAIN tree.kids :
          i \in ToSet(tree.kids[p]) <=> Exists(tree, i) /\ tree.dentry[i].list = p
    BY <2>1, <2>2, <2>3 DEF Sound, Others
  <2>6. ASSUME phase = "over", ~ tree.clashed, NEW i \in Others
        PROVE  /\ Exists(tree, i) => Under(tree, i, Root)
               /\ Exists(tree, i) <=> i \in placed
               /\ i \in placed => tree.dentry[i].list = HomeOf(i) /\ tree.dentry[i].name = Name[i]
    <3>1. /\ Coming(tree, {})
          /\ tree.dentry[i].list \in {Nil, HomeOf(i)} /\ (tree.dentry[i].list # Nil <=> i \in placed)
      BY <2>6, WhenOver
    <3>2. tree.dentry[i].list # Nil => AtHome(tree, i)
      BY <3>1 DEF AtHome
    <3>3. AtHome(tree, i) => Under(tree, i, Root) /\ tree.dentry[i].name = Name[i]
      BY <2>1, <2>6, <3>1, Places DEF TreeInv, Named
    <3> QED BY <2>3, <3>1, <3>2, <3>3
  <2>7. HangsOnce
    BY <2>4, <2>5, <2>6 DEF HangsOnce, Others
  <2>8. BoundAsSent
    BY <2>6 DEF BoundAsSent, Others
  <2> QED BY <2>7, <2>8
<1> QED BY <1>1, TreeInvIs, PTL

(* The contents of a file, whatever came first, its name or its message,   *)
(* and whatever size its binding states: ContentsRight of                  *)
(* biop_update_file_dentry().                                              *)
THEOREM ContentsAreRight == TreeSpec => []ContentsRight
<1>1. TreeInv => ContentsRight
  <2> SUFFICES ASSUME TreeInv, phase = "over", ~ tree.clashed, NEW i \in Files, Exists(tree, i)
               PROVE  \/ Sent(i, tree.dentry[i])
                      \/ Unwritten(i, tree.dentry[i]) /\ (i \notin handled \/ pass > 1)
    BY DEF ContentsRight
  <2>1. i \in Others /\ Sound(tree) /\ Brought(tree, i, handled)
    BY FileIs DEF TreeInv
  <2>2. tree.dentry[i].list # Nil
    BY <2>1 DEF Exists, Sound, Others
  <2> QED BY <2>1, <2>2 DEF Brought
<1> QED BY <1>1, TreeInvIs, PTL
=============================================================================
