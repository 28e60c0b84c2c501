-------------------------- MODULE PesAssemblyProofs --------------------------
(***************************************************************************)
(* What PesAssembly promises for every payload size, unit size, counter    *)
(* modulus and number of packets lost.                                     *)
(***************************************************************************)
EXTENDS PesAssembly, TLAPS

(* The counters of the packet on the wire and of the last one taken are as *)
(* far apart as there were packets sent between them.                      *)
CountersTied ==
  /\ ~fresh => lost = 0
  /\ fresh /\ copies = 0 => lost > 0
  /\ buf.size > 0 => buf.exists
  /\ behind < Turn => buf.exists /\ packet.cc = CcAfter(buf.cc, behind)

(* What the packet on the wire says of the multiplexer that sent it.       *)
PacketFromMux ==
  /\ mux.unit.bounded => mux.unit.size > 7
  /\ copies > 0 =>
       /\ packet.len > 0
       /\ packet.unit = mux.unit
       /\ packet.off + packet.len = mux.off
       /\ packet.pusi => packet.off = 0

Untouched == buf.size > 0 /\ ~buf.zero

(* A buffer no packet out of step got into holds a run of bytes of one     *)
(* unit, up to where the last packet taken ended.                          *)
BufferFollowsMux ==
  /\ buf.size = 0 => buf.pure /\ ~buf.zero
  /\ Untouched => buf.pure
  /\ Untouched /\ behind = 0 =>
       buf.unit = mux.unit /\ buf.off + buf.size = mux.off
  /\ Untouched /\ behind = 1 /\ copies > 0 /\ ~packet.pusi =>
       buf.unit = packet.unit /\ buf.off + buf.size = packet.off
  /\ buf.size > 0 /\ ~buf.unbounded => buf.off = 0

Arriving == fresh /\ copies > 0

(* Up to here the receiver has been sent the unit in transmission.         *)
SentSoFar == IF Arriving THEN packet.off ELSE mux.off

(* A bounded unit that nothing of was lost is held as far as it was sent,  *)
(* if it has not been handed over yet.                                     *)
WholeIsHeld ==
  (/\ whole.bounded /\ lost = 0 /\ ~buf.unbounded
   /\ Arriving => ~packet.pusi)
  => /\ whole = mux.unit
     /\ \/ SentSoFar >= whole.size - 1
        \/ /\ buf.unit = whole /\ buf.off = 0 /\ buf.pure
           /\ buf.size = SentSoFar /\ buf.size > 0
           /\ behind = IF Arriving THEN 1 ELSE 0

IInv == TypeOK /\ CountersTied /\ PacketFromMux /\ BufferFollowsMux
        /\ WholeIsHeld /\ SplicedOnlyAtZero /\ CompleteButLastByte

-----------------------------------------------------------------------------
(* Types and numbers.                                                      *)

LEMMA ConstantNumbers ==
  /\ CcModulus \in Nat /\ CcModulus > 2 /\ PayloadSize \in Nat /\ MaxLoss \in Nat
  /\ MaxUnits \in Nat
  /\ \A n \in Lengths : n \in Nat /\ n > 0 /\ n <= PayloadSize
  /\ \A n \in UnitSizes : n \in Nat /\ n > 7
  /\ \A n \in UnitSizes \cup {0} : n \in Nat
  /\ Turn = CcModulus + 1 /\ Turn \in Nat
  BY PesAssumption, CcModulusAssumption DEF Turn

LEMMA UnitNumbers ==
  ASSUME NEW u \in Units
  PROVE  u.size \in Nat /\ u.bounded \in BOOLEAN /\ u.id \in Nat
  BY ConstantNumbers DEF Units

LEMMA NoUnitType == NoUnit \in Units /\ ~NoUnit.bounded /\ NoUnit.size = 0
  BY ConstantNumbers DEF NoUnit, Units

LEMMA BufferNumbers ==
  ASSUME NEW b \in Buffers
  PROVE  /\ b.exists \in BOOLEAN /\ b.unbounded \in BOOLEAN
         /\ b.cc \in Counters /\ b.cc \in Int
         /\ b.size \in Nat /\ b.off \in Nat /\ b.unit \in Units
         /\ b.pure \in BOOLEAN /\ b.zero \in BOOLEAN
         /\ b.unit.size \in Nat /\ b.unit.bounded \in BOOLEAN
         /\ Announced(b) \in Nat
  <1>1. /\ b.exists \in BOOLEAN /\ b.unbounded \in BOOLEAN
        /\ b.cc \in Counters /\ b.size \in Nat /\ b.off \in Nat
        /\ b.unit \in Units /\ b.pure \in BOOLEAN /\ b.zero \in BOOLEAN
    BY DEF Buffers
  <1>2. b.cc \in Int
    BY <1>1, ConstantNumbers DEF Counters
  <1> QED
    BY <1>1, <1>2, UnitNumbers DEF Announced, PesHeader

LEMMA Numbers ==
  ASSUME TypeOK
  PROVE  /\ packet.cc \in Counters /\ packet.cc \in Int
         /\ packet.pusi \in BOOLEAN /\ packet.unit \in Units
         /\ packet.off \in Nat /\ packet.len \in Nat
         /\ packet.unit.size \in Nat /\ packet.unit.bounded \in BOOLEAN
         /\ mux.unit \in Units /\ mux.off \in Nat /\ mux.unit.size \in Nat
         /\ copies \in Nat /\ lost \in Nat /\ behind \in Nat /\ behind <= Turn
         /\ fresh \in BOOLEAN /\ buf \in Buffers
         /\ whole \in Units /\ whole.size \in Nat
  <1>1. /\ packet.cc \in Counters /\ packet.pusi \in BOOLEAN
        /\ packet.unit \in Units /\ packet.off \in Nat
        /\ packet.len \in 0 .. PayloadSize
    BY DEF TypeOK, Packets
  <1>2. mux.unit \in Units /\ mux.off \in Nat
    BY DEF TypeOK
  <1>3. /\ copies \in 0 .. 2 /\ lost \in 0 .. MaxLoss /\ behind \in 0 .. Turn
        /\ fresh \in BOOLEAN /\ buf \in Buffers /\ whole \in Units
    BY DEF TypeOK
  <1>4. packet.cc \in Int /\ packet.len \in Nat
    BY <1>1, ConstantNumbers DEF Counters
  <1> QED
    BY <1>1, <1>2, <1>3, <1>4, UnitNumbers, ConstantNumbers

(* The fields of the buffers the operators return.                         *)
LEMMA ResetFields ==
  ASSUME NEW b \in Buffers
  PROVE  /\ Reset(b) \in Buffers
         /\ Reset(b).size = 0 /\ Reset(b).pure /\ ~Reset(b).zero
         /\ Reset(b).exists = b.exists /\ Reset(b).unbounded = b.unbounded
         /\ Reset(b).cc = b.cc
  <1>1. Reset(b) \in Buffers
    BY NoUnitType DEF Reset, Buffers
  <1> QED
    BY <1>1 DEF Reset, Buffers

LEMMA CreatedFields ==
  ASSUME TypeOK
  PROVE  Created \in Buffers /\ Created.exists
  <1>1. NoBuffer \in Buffers
    BY ConstantNumbers, NoUnitType DEF NoBuffer, Buffers, Counters
  <1> QED
    BY <1>1, Numbers DEF Created, NoBuffer, Buffers

LEMMA TookFields ==
  ASSUME TypeOK, NEW b \in Buffers
  PROVE  /\ Took(b) \in Buffers /\ Took(b).cc = packet.cc
         /\ Took(b).exists = b.exists /\ Took(b).unbounded = b.unbounded
         /\ Took(b).size = b.size /\ Took(b).unit = b.unit
         /\ Took(b).off = b.off /\ Took(b).pure = b.pure
         /\ Took(b).zero = b.zero
  <1>1. Took(b) \in Buffers
    BY Numbers DEF Took, Buffers
  <1> QED
    BY <1>1 DEF Took, Buffers

LEMMA FirstAppended ==
  ASSUME TypeOK, NEW b \in Buffers, b.size = 0
  PROVE  /\ Append(b) \in Buffers
         /\ Append(b).exists = b.exists /\ Append(b).unbounded = b.unbounded
         /\ Append(b).size = packet.len /\ Append(b).unit = packet.unit
         /\ Append(b).off = packet.off
         /\ Append(b).pure = b.pure /\ Append(b).zero = b.zero
  <1>1. Append(b) =
          [b EXCEPT !.size = packet.len, !.unit = packet.unit, !.off = packet.off]
    BY DEF Append
  <1>2. Append(b) \in Buffers
    BY <1>1, Numbers DEF Buffers
  <1> QED
    BY <1>1, <1>2 DEF Buffers

LEMMA MoreAppended ==
  ASSUME TypeOK, NEW b \in Buffers, b.size > 0
  PROVE  /\ Append(b) \in Buffers
         /\ Append(b).exists = b.exists /\ Append(b).unbounded = b.unbounded
         /\ Append(b).size = b.size + packet.len
         /\ Append(b).unit = b.unit /\ Append(b).off = b.off
         /\ Append(b).pure <=> (/\ b.pure /\ b.unit = packet.unit
                                /\ b.off + b.size = packet.off)
         /\ Append(b).zero <=> (\/ b.zero \/ behind >= Turn
                                \/ behind > 1 /\ packet.cc = 0)
  <1> DEFINE joins == b.pure /\ b.unit = packet.unit
                             /\ b.off + b.size = packet.off
             spoilt == b.zero \/ behind >= Turn \/ (behind > 1 /\ packet.cc = 0)
  <1>1. Append(b) = [b EXCEPT !.size = b.size + packet.len,
                              !.pure = joins, !.zero = spoilt]
    BY BufferNumbers DEF Append
  <1>2. joins \in BOOLEAN /\ spoilt \in BOOLEAN /\ b.size + packet.len \in Nat
    BY BufferNumbers, Numbers
  <1> HIDE DEF joins, spoilt
  <1>3. Append(b) \in Buffers
    BY <1>1, <1>2 DEF Buffers
  <1>4. /\ Append(b).exists = b.exists /\ Append(b).unbounded = b.unbounded
        /\ Append(b).size = b.size + packet.len
        /\ Append(b).unit = b.unit /\ Append(b).off = b.off
        /\ Append(b).pure = joins /\ Append(b).zero = spoilt
    BY <1>1, <1>2 DEF Buffers
  <1> QED
    BY <1>3, <1>4 DEF joins, spoilt

-----------------------------------------------------------------------------
(* Counters.                                                               *)

LEMMA CcSucc ==
  ASSUME NEW c \in Counters, NEW n \in Nat, n + 1 < Turn
  PROVE  NextCc(CcAfter(c, n)) = CcAfter(c, n + 1)
  BY CcModulusAssumption DEF NextCc, CcAfter, Counters, Turn

(* Within a turn of the counter a packet that passes the test is the next  *)
(* one, or its counter is 0; the next one always passes.                   *)
LEMMA CcDistinguishes ==
  ASSUME NEW c \in Counters, NEW n \in Nat, n < Turn
  PROVE  LET cc == CcAfter(c, n)
         IN  /\ n = 0 => cc = c
             /\ n = 1 => cc # c /\ ~IsGap(c, cc)
             /\ n > 1 /\ cc # 0 /\ cc # c => IsGap(c, cc)
  BY CcModulusAssumption DEF IsGap, CcAfter, Counters, Turn

LEMMA CheckTells ==
  ASSUME TypeOK, CountersTied
  PROVE  /\ Check \in {"repeat", "gap", "ok"}
         /\ behind = 0 => Check = "repeat"
         /\ behind = 1 => Check = "ok"
         /\ Check = "ok" /\ buf.size > 0 =>
              behind = 1 \/ behind >= Turn \/ (behind > 1 /\ packet.cc = 0)
  <1> USE Numbers, BufferNumbers, ConstantNumbers
  <1> DEFINE gap == buf.size # 0 /\ IsGap(buf.cc, packet.cc)
  <1>1. /\ Check = "repeat" <=> buf.cc = packet.cc
        /\ Check = "gap" <=> buf.cc # packet.cc /\ gap
        /\ Check = "ok" <=> buf.cc # packet.cc /\ ~gap
        /\ Check \in {"repeat", "gap", "ok"}
    BY DEF Check, Verdict
  <1>2. ASSUME behind < Turn
        PROVE  /\ behind = 0 => packet.cc = buf.cc
               /\ behind = 1 => packet.cc # buf.cc /\ ~IsGap(buf.cc, packet.cc)
               /\ behind > 1 /\ packet.cc # 0 /\ packet.cc # buf.cc
                    => IsGap(buf.cc, packet.cc)
    <2>1. packet.cc = CcAfter(buf.cc, behind)
      BY <1>2 DEF CountersTied
    <2> QED
      BY <2>1, <1>2, CcDistinguishes
  <1>3. behind = 0 => Check = "repeat"
    BY <1>1, <1>2
  <1>4. behind = 1 => Check = "ok"
    BY <1>1, <1>2
  <1>5. ASSUME Check = "ok", buf.size > 0, behind < Turn
        PROVE  behind = 1 \/ (behind > 1 /\ packet.cc = 0)
    BY <1>1, <1>2, <1>3, <1>5
  <1> QED
    BY <1>1, <1>3, <1>4, <1>5

-----------------------------------------------------------------------------
(* Sending.                                                                *)

LEMMA SendSends ==
  ASSUME TypeOK, Send
  PROVE  \E pusi \in BOOLEAN, unit \in Units, off \in Nat, n \in Lengths :
           /\ Emit(pusi, unit, off, n)
           /\ off + n <= unit.size
           /\ pusi => off = 0 /\ unit.size > 7
           /\ ~pusi => unit = mux.unit /\ off = mux.off
  <1> USE Numbers, ConstantNumbers
  <1>1. PICK n \in Lengths :
          \/ SendContinue(n)
          \/ \E size \in UnitSizes, bounded \in Bounding :
               /\ mux.unit.id < MaxUnits
               /\ SendStart([id |-> mux.unit.id + 1, size |-> size,
                             bounded |-> bounded], n)
    BY DEF Send
  <1>2. CASE SendContinue(n)
    <2>1. Emit(FALSE, mux.unit, mux.off, n) /\ mux.off + n <= mux.unit.size
      <3>1. Emit(FALSE, mux.unit, mux.off, n) /\ n <= mux.unit.size - mux.off
        BY <1>2 DEF SendContinue
      <3>2. mux.off + n <= mux.unit.size
        BY <3>1
      <3> QED
        BY <3>1, <3>2
    <2> QED
      BY <2>1
  <1>3. ASSUME NEW size \in UnitSizes, NEW bounded \in Bounding,
               mux.unit.id < MaxUnits,
               SendStart([id |-> mux.unit.id + 1, size |-> size,
                          bounded |-> bounded], n)
        PROVE  \E unit \in Units :
                 Emit(TRUE, unit, 0, n) /\ n <= unit.size /\ unit.size > 7
    <2> DEFINE u == [id |-> mux.unit.id + 1, size |-> size, bounded |-> bounded]
    <2>1. mux.unit.id \in 0 .. MaxUnits
      BY DEF Units
    <2>2. u \in Units
      BY <1>3, <2>1, PesAssumption DEF Units
    <2>3. Emit(TRUE, u, 0, n) /\ n <= u.size /\ u.size > 7
      BY <1>3 DEF SendStart
    <2> HIDE DEF u
    <2> QED
      BY <2>2, <2>3
  <1>4. ASSUME NEW unit \in Units, Emit(TRUE, unit, 0, n), n <= unit.size,
               unit.size > 7
        PROVE  \E pusi \in BOOLEAN, u \in Units, off \in Nat, m \in Lengths :
                 /\ Emit(pusi, u, off, m)
                 /\ off + m <= u.size
                 /\ pusi => off = 0 /\ u.size > 7
                 /\ ~pusi => u = mux.unit /\ off = mux.off
    <2>1. 0 + n <= unit.size
      BY <1>4
    <2> QED
      BY <1>4, <2>1
  <1> QED
    BY <1>1, <1>2, <1>3, <1>4

LEMMA SendKeeps == IInv /\ Send => IInv'
  <1> SUFFICES ASSUME IInv, Send PROVE IInv'
    OBVIOUS
  <1> USE Numbers, ConstantNumbers
  <1>0. TypeOK /\ CountersTied /\ PacketFromMux /\ BufferFollowsMux /\ WholeIsHeld
    BY DEF IInv
  <1>1. PICK pusi \in BOOLEAN, unit \in Units, off \in Nat, n \in Lengths :
           /\ Emit(pusi, unit, off, n)
           /\ off + n <= unit.size
           /\ pusi => off = 0 /\ unit.size > 7
           /\ ~pusi => unit = mux.unit /\ off = mux.off
    BY <1>0, SendSends
  <1>2. /\ copies = 0 /\ fresh' = TRUE
        /\ packet' = [cc |-> NextCc(packet.cc), pusi |-> pusi, unit |-> unit,
                      off |-> off, len |-> n]
        /\ mux' = [unit |-> unit, off |-> off + n]
        /\ behind' = least(behind + 1, Turn)
        /\ copies' \in 0 .. 2
        /\ copies' = 0 => lost' = lost + 1 /\ lost < MaxLoss
        /\ copies' # 0 => lost' = lost
        /\ handed' = NoFragment /\ toEs' = NoOutput
        /\ whole' = whole /\ buf' = buf /\ es' = es /\ last' = last
    BY <1>1 DEF Emit
  <1>3. /\ packet'.cc = NextCc(packet.cc) /\ packet'.pusi = pusi
        /\ packet'.unit = unit /\ packet'.off = off /\ packet'.len = n
        /\ mux'.unit = unit /\ mux'.off = off + n
        /\ n > 0 /\ n \in Nat
        /\ behind < Turn => behind' = behind + 1
        /\ ~(behind < Turn) => behind' = behind
        /\ behind' > 0
    BY <1>0, <1>2 DEF least
  <1>4. TypeOK'
    <2>1. packet' \in Packets
      <3>1. NextCc(packet.cc) \in Counters
        BY <1>0 DEF NextCc, Counters
      <3> QED
        BY <1>2, <3>1 DEF Packets
    <2>2. mux' \in [unit : Units, off : Nat] /\ mux'.off <= mux'.unit.size
      BY <1>1, <1>2, <1>3
    <2>3. lost' \in 0 .. MaxLoss /\ copies' \in 0 .. 2 /\ fresh' \in BOOLEAN
      <3>1. lost \in 0 .. MaxLoss
        BY <1>0 DEF TypeOK
      <3>2. CASE copies' = 0
        BY <1>2, <3>1, <3>2
      <3>3. CASE copies' # 0
        BY <1>2, <3>1, <3>3
      <3> QED
        BY <3>2, <3>3
    <2>4. behind' \in 0 .. Turn
      BY <1>0, <1>3
    <2>5. NoFragment \in Fragments /\ NoOutput \in EsOutputs
      BY NoUnitType DEF NoFragment, Fragments, NoOutput, EsOutputs
    <2> QED
      BY <1>0, <1>2, <2>1, <2>2, <2>3, <2>4, <2>5 DEF TypeOK, Announced
  <1>5. CountersTied'
    <2>1. behind' < Turn => packet'.cc = CcAfter(buf.cc, behind')
      <3>1. SUFFICES ASSUME behind' < Turn PROVE packet'.cc = CcAfter(buf.cc, behind')
        OBVIOUS
      <3>2. behind < Turn /\ behind + 1 < Turn /\ behind' = behind + 1
        BY <3>1, <1>0, <1>3
      <3>3. packet.cc = CcAfter(buf.cc, behind) /\ buf.cc \in Counters
        BY <3>2, <1>0, BufferNumbers DEF CountersTied
      <3> QED
        BY <3>2, <3>3, <1>0, <1>3, CcSucc
    <2>2. behind' < Turn => buf.exists
      BY <1>0, <1>3 DEF CountersTied
    <2>3. fresh' /\ copies' = 0 => lost' > 0
      BY <1>0, <1>2
    <2> QED
      BY <1>0, <1>2, <2>1, <2>2, <2>3 DEF CountersTied
  <1>6. PacketFromMux'
    BY <1>0, <1>1, <1>3 DEF PacketFromMux
  <1>7. BufferFollowsMux'
    <2>1. (Untouched /\ behind' = 1 /\ ~pusi) =>
             buf.unit = unit /\ buf.off + buf.size = off
      BY <1>0, <1>1, <1>3 DEF BufferFollowsMux, Untouched
    <2> QED
      BY <1>0, <1>2, <1>3, <2>1 DEF BufferFollowsMux, Untouched
  <1>8. WholeIsHeld'
    <2>1. SUFFICES ASSUME whole.bounded, lost' = 0, ~buf.unbounded,
                          Arriving' => ~pusi
                   PROVE  /\ whole = unit
                          /\ \/ SentSoFar' >= whole.size - 1
                             \/ /\ buf.unit = whole /\ buf.off = 0 /\ buf.pure
                                /\ buf.size = SentSoFar' /\ buf.size > 0
                                /\ behind' = IF Arriving' THEN 1 ELSE 0
      BY <1>2, <1>3 DEF WholeIsHeld
    <2>2. copies' > 0 /\ lost = 0 /\ Arriving' /\ ~pusi
      BY <1>0, <1>2, <2>1 DEF Arriving
    <2>3. ~fresh /\ ~Arriving /\ SentSoFar = mux.off
      BY <1>0, <1>2, <2>2 DEF CountersTied, Arriving, SentSoFar
    <2>4. unit = mux.unit /\ SentSoFar' = mux.off
      BY <1>1, <1>3, <2>2 DEF SentSoFar
    <2> QED
      BY <1>0, <1>3, <2>1, <2>2, <2>3, <2>4 DEF WholeIsHeld
  <1>9. SplicedOnlyAtZero' /\ CompleteButLastByte'
    BY <1>2 DEF SplicedOnlyAtZero, CompleteButLastByte, Handing
  <1> QED
    BY <1>4, <1>5, <1>6, <1>7, <1>8, <1>9 DEF IInv

-----------------------------------------------------------------------------
(* Receiving.  Every way through ts_parse_packet() takes the packet, the   *)
(* buffer with it being b, or drops it and leaves the buffer c.            *)

LEMMA StillWholeIs ==
  ASSUME TypeOK
  PROVE  /\ packet.pusi /\ StartUsable => StillWhole = packet.unit
         /\ packet.pusi /\ ~StartUsable => StillWhole = NoUnit
         /\ ~packet.pusi /\ lost > 0 => StillWhole = NoUnit
         /\ ~packet.pusi /\ lost = 0 => StillWhole = whole
         /\ StillWhole \in Units
  BY Numbers, NoUnitType DEF StillWhole

(* Up to here the receiver had been sent the unit before this packet.      *)
SentBefore == IF fresh THEN packet.off ELSE packet.off + packet.len

Fits(b) ==
  /\ b \in Buffers /\ b.exists /\ b.size > 0
  /\ ~b.zero => /\ b.pure /\ b.unit = packet.unit
                /\ b.off + b.size = packet.off + packet.len
  /\ ~b.unbounded => b.off = 0
  /\ buf.exists => b.unbounded = buf.unbounded
  /\ ~packet.pusi => MayJoin /\ b = Append(buf)
  /\ StillWhole.bounded /\ ~b.unbounded =>
       /\ StillWhole = packet.unit
       /\ \/ SentBefore >= packet.unit.size - 1
          \/ /\ b.unit = packet.unit /\ b.off = 0 /\ b.pure
             /\ b.size = packet.off + packet.len

Lasts(c) ==
  /\ c = buf \/ (c = Reset(buf) /\ behind > 1)
  /\ packet.pusi \/ behind # 1 \/ ~MayJoin
  /\ StillWhole.bounded /\ ~buf.unbounded =>
       /\ StillWhole = packet.unit
       /\ \/ SentBefore >= packet.unit.size - 1
          \/ /\ ~fresh /\ c = buf /\ behind = 0
             /\ buf.unit = packet.unit /\ buf.off = 0 /\ buf.pure
             /\ buf.size = packet.off + packet.len

(* What WholeIsHeld says when a packet that starts no unit arrives.        *)
LEMMA WholeOnArrival ==
  ASSUME IInv, copies > 0, ~packet.pusi, StillWhole.bounded, ~buf.unbounded
  PROVE  /\ StillWhole = packet.unit
         /\ \/ SentBefore >= packet.unit.size - 1
            \/ /\ buf.unit = packet.unit /\ buf.off = 0 /\ buf.pure
               /\ buf.size = SentBefore /\ buf.size > 0
               /\ behind = IF fresh THEN 1 ELSE 0
  <1> USE Numbers
  <1>0. TypeOK /\ PacketFromMux /\ WholeIsHeld
    BY DEF IInv
  <1>1. lost = 0 /\ StillWhole = whole
    BY <1>0, StillWholeIs, NoUnitType
  <1>2. packet.unit = mux.unit /\ packet.off + packet.len = mux.off
    BY <1>0 DEF PacketFromMux
  <1>3. Arriving = fresh /\ SentSoFar = SentBefore
    BY <1>0, <1>2 DEF Arriving, SentSoFar, SentBefore
  <1> QED
    BY <1>0, <1>1, <1>2, <1>3 DEF WholeIsHeld

LEMMA StartFits ==
  ASSUME IInv, copies > 0, packet.pusi, StartUsable
  PROVE  Fits(Append(Reset(IF buf.exists THEN buf ELSE Created)))
  <1> DEFINE a == IF buf.exists THEN buf ELSE Created
  <1> USE Numbers
  <1>0. TypeOK /\ PacketFromMux
    BY DEF IInv
  <1>1. a \in Buffers /\ a.exists /\ (buf.exists => a.unbounded = buf.unbounded)
    BY <1>0, CreatedFields
  <1> HIDE DEF a
  <1> DEFINE b == Append(Reset(a))
  <1>2. /\ b \in Buffers /\ b.exists /\ b.unbounded = a.unbounded
        /\ b.size = packet.len /\ b.unit = packet.unit /\ b.off = packet.off
        /\ b.pure /\ ~b.zero
    BY <1>0, <1>1, ResetFields, FirstAppended
  <1> HIDE DEF b
  <1>3. packet.off = 0 /\ packet.len > 0
    BY <1>0 DEF PacketFromMux
  <1>4. Fits(b)
    BY <1>0, <1>1, <1>2, <1>3, StillWholeIs DEF Fits
  <1> QED
    BY <1>4 DEF a, b

LEMMA ContinueFits ==
  ASSUME IInv, copies > 0, ~packet.pusi, buf.exists, Check = "ok", MayJoin
  PROVE  Fits(Append(buf))
  <1> DEFINE b == Append(buf)
  <1> USE Numbers, BufferNumbers
  <1>0. TypeOK /\ CountersTied /\ PacketFromMux /\ BufferFollowsMux
    BY DEF IInv
  <1>1. packet.len > 0 /\ behind # 0
    BY <1>0, CheckTells DEF PacketFromMux
  <1>2. CASE buf.size = 0
    <2>1. /\ b \in Buffers /\ b.exists /\ b.unbounded = buf.unbounded
          /\ b.size = packet.len /\ b.unit = packet.unit /\ b.off = packet.off
          /\ b.pure /\ ~b.zero
      BY <1>0, <1>2, FirstAppended DEF BufferFollowsMux
    <2>2. buf.unbounded
      BY <1>2, <1>0 DEF MayJoin
    <2> HIDE DEF b
    <2>3. Fits(b)
      BY <1>0, <1>1, <2>1, <2>2 DEF Fits, b
    <2> QED
      BY <2>3 DEF b
  <1>3. CASE buf.size > 0
    <2>1. /\ b \in Buffers /\ b.exists /\ b.unbounded = buf.unbounded
          /\ b.size = buf.size + packet.len
          /\ b.unit = buf.unit /\ b.off = buf.off
          /\ b.pure <=> (/\ buf.pure /\ buf.unit = packet.unit
                         /\ buf.off + buf.size = packet.off)
          /\ b.zero <=> (\/ buf.zero \/ behind >= Turn
                         \/ behind > 1 /\ packet.cc = 0)
      BY <1>0, <1>3, MoreAppended
    <2> HIDE DEF b
    <2>2. ~b.zero => behind = 1 /\ Untouched
      BY <1>0, <1>3, <2>1, CheckTells DEF Untouched
    <2>3. ~b.zero => /\ b.pure /\ b.unit = packet.unit
                     /\ b.off + b.size = packet.off + packet.len
      BY <1>0, <2>1, <2>2 DEF BufferFollowsMux
    <2>4. ~b.unbounded => b.off = 0
      BY <1>0, <1>3, <2>1 DEF BufferFollowsMux
    <2>5. ASSUME StillWhole.bounded, ~b.unbounded
          PROVE  /\ StillWhole = packet.unit
                 /\ \/ SentBefore >= packet.unit.size - 1
                    \/ /\ b.unit = packet.unit /\ b.off = 0 /\ b.pure
                       /\ b.size = packet.off + packet.len
      <3>1. /\ StillWhole = packet.unit
            /\ \/ SentBefore >= packet.unit.size - 1
               \/ /\ buf.unit = packet.unit /\ buf.off = 0 /\ buf.pure
                  /\ buf.size = SentBefore /\ fresh
        BY <1>1, <2>1, <2>5, WholeOnArrival
      <3> QED
        BY <1>0, <2>1, <3>1 DEF SentBefore
    <2>6. Fits(b)
      BY <1>0, <1>1, <1>3, <2>1, <2>3, <2>4, <2>5 DEF Fits, b
    <2> QED
      BY <2>6 DEF b
  <1> QED
    BY <1>0, <1>2, <1>3

LEMMA EveryReceive ==
  ASSUME IInv, TsParsePacket
  PROVE  /\ copies > 0
         /\ \/ \E b : Fits(b) /\ Taken(b)
            \/ \E c : Lasts(c) /\ Dropped(c)
  <1> USE Numbers
  <1>0. TypeOK /\ CountersTied /\ BufferFollowsMux
    BY DEF IInv
  <1>1. copies > 0
    BY DEF TsParsePacket, ReceiveShortStart, ReceiveStart, ReceiveNoBuffer,
           ReceiveRepeat, ReceiveGap, ReceiveIdle, ReceiveContinue,
           Dropped, Taken, Received
  <1>2. CASE ReceiveShortStart
    <2>1. Lasts(buf)
      BY <1>0, <1>2, StillWholeIs, NoUnitType DEF ReceiveShortStart, Lasts
    <2> QED
      BY <1>1, <1>2, <2>1 DEF ReceiveShortStart
  <1>3. CASE ReceiveStart
    BY <1>1, <1>3, StartFits DEF ReceiveStart
  <1>4. CASE ReceiveContinue
    BY <1>0, <1>1, <1>4, ContinueFits DEF ReceiveContinue
  <1>5. ASSUME ~packet.pusi, NEW c, Dropped(c),
               c = buf \/ (c = Reset(buf) /\ behind > 1),
               c = buf => behind # 1 \/ ~MayJoin
        PROVE  Lasts(c)
    <2>1. ASSUME StillWhole.bounded, ~buf.unbounded
          PROVE  /\ StillWhole = packet.unit
                 /\ \/ SentBefore >= packet.unit.size - 1
                    \/ /\ ~fresh /\ c = buf /\ behind = 0
                       /\ buf.unit = packet.unit /\ buf.off = 0 /\ buf.pure
                       /\ buf.size = packet.off + packet.len
      <3>1. /\ StillWhole = packet.unit
            /\ \/ SentBefore >= packet.unit.size - 1
               \/ /\ buf.unit = packet.unit /\ buf.off = 0 /\ buf.pure
                  /\ buf.size = SentBefore /\ buf.size > 0
                  /\ behind = IF fresh THEN 1 ELSE 0
        BY <1>1, <1>5, <2>1, WholeOnArrival
      <3>2. CASE fresh /\ buf.size > 0 /\ behind = 1
        BY <1>0, <1>5, <3>2 DEF MayJoin
      <3> QED
        BY <1>0, <1>5, <3>1, <3>2 DEF SentBefore
    <2> QED
      BY <1>0, <1>5, <2>1 DEF Lasts
  <1>6. CASE ReceiveNoBuffer
    <2>1. behind # 1
      BY <1>0, <1>6, ConstantNumbers DEF ReceiveNoBuffer, CountersTied
    <2> QED
      BY <1>1, <1>5, <1>6, <2>1 DEF ReceiveNoBuffer
  <1>7. CASE ReceiveRepeat
    <2>1. behind # 1
      BY <1>0, <1>7, CheckTells DEF ReceiveRepeat
    <2> QED
      BY <1>1, <1>5, <1>7, <2>1 DEF ReceiveRepeat
  <1>8. CASE ReceiveGap
    <2>1. behind > 1
      BY <1>0, <1>8, CheckTells DEF ReceiveGap
    <2> QED
      BY <1>0, <1>1, <1>5, <1>8, <2>1 DEF ReceiveGap
  <1>9. CASE ReceiveIdle
    BY <1>1, <1>5, <1>9 DEF ReceiveIdle
  <1> QED
    BY <1>2, <1>3, <1>4, <1>6, <1>7, <1>8, <1>9 DEF TsParsePacket

(* What a received packet leaves alone.                                    *)
LEMMA ReceivedKeeps ==
  ASSUME IInv, NEW b \in Buffers, Received(b)
  PROVE  /\ copies > 0 /\ fresh' = FALSE /\ lost' = 0 /\ buf' = b
         /\ mux' = mux /\ packet' = packet /\ whole' = StillWhole
         /\ copies' = copies - 1 /\ copies' \in 0 .. 2
         /\ ~Arriving' /\ SentSoFar' = mux.off
         /\ mux.off = packet.off + packet.len
         /\ PacketFromMux'
         /\ /\ mux' \in [unit : Units, off : Nat] /\ mux'.off <= mux'.unit.size
            /\ packet' \in Packets /\ fresh' \in BOOLEAN
            /\ lost' \in 0 .. MaxLoss /\ whole' \in Units
  <1> USE Numbers, ConstantNumbers
  <1>0. TypeOK /\ PacketFromMux
    BY DEF IInv
  <1>1. /\ copies > 0 /\ fresh' = FALSE /\ lost' = 0 /\ buf' = b
        /\ mux' = mux /\ packet' = packet /\ whole' = StillWhole
        /\ copies' = copies - 1
    BY DEF Received
  <1>2. copies' \in 0 .. 2
    BY <1>1 DEF IInv, TypeOK
  <1>3. ~Arriving' /\ SentSoFar' = mux.off
    BY <1>1 DEF Arriving, SentSoFar
  <1>4. mux.off = packet.off + packet.len /\ PacketFromMux'
    BY <1>0, <1>1 DEF PacketFromMux
  <1>5. /\ mux' \in [unit : Units, off : Nat] /\ mux'.off <= mux'.unit.size
        /\ packet' \in Packets /\ fresh' \in BOOLEAN
        /\ lost' \in 0 .. MaxLoss /\ whole' \in Units
    <2>1. lost' \in 0 .. MaxLoss
      BY <1>1
    <2>2. fresh' \in BOOLEAN
      BY <1>1
    <2> QED
      BY <1>0, <1>1, <2>1, <2>2, StillWholeIs DEF TypeOK
  <1> QED
    BY <1>1, <1>2, <1>3, <1>4, <1>5

LEMMA NothingHanded == NoFragment \in Fragments /\ NoOutput \in EsOutputs
  BY NoUnitType DEF NoFragment, Fragments, NoOutput, EsOutputs

LEMMA DroppedKeeps ==
  ASSUME IInv, NEW c, Lasts(c), Dropped(c)
  PROVE  IInv'
  <1> USE Numbers, ConstantNumbers
  <1>0. TypeOK /\ CountersTied /\ PacketFromMux /\ BufferFollowsMux
    BY DEF IInv
  <1>1. /\ c \in Buffers /\ c.exists = buf.exists /\ c.cc = buf.cc
        /\ c.unbounded = buf.unbounded
        /\ c = buf \/ (c.size = 0 /\ c.pure /\ ~c.zero /\ behind > 1)
    BY <1>0, ResetFields DEF Lasts
  <1>2. Received(c) /\ handed' = NoFragment /\ toEs' = NoOutput
        /\ behind' = behind /\ es' = es /\ last' = last
    BY DEF Dropped
  <1>3. /\ copies > 0 /\ fresh' = FALSE /\ lost' = 0 /\ buf' = c
        /\ mux' = mux /\ packet' = packet /\ whole' = StillWhole
        /\ copies' \in 0 .. 2 /\ copies' = copies - 1
        /\ ~Arriving' /\ SentSoFar' = mux.off
        /\ mux.off = packet.off + packet.len
        /\ PacketFromMux'
        /\ /\ mux' \in [unit : Units, off : Nat] /\ mux'.off <= mux'.unit.size
           /\ packet' \in Packets /\ fresh' \in BOOLEAN
           /\ lost' \in 0 .. MaxLoss /\ whole' \in Units
    BY <1>1, <1>2, ReceivedKeeps
  <1>4. TypeOK'
    <2>1. \/ c.size < PesHeader
          \/ ~c.unbounded /\ c.size < Announced(c) - 1
      BY <1>0, <1>1 DEF TypeOK, PesHeader
    <2> QED
      BY <1>0, <1>1, <1>2, <1>3, <2>1, NothingHanded DEF TypeOK, Announced
  <1>5. CountersTied'
    BY <1>0, <1>1, <1>2, <1>3 DEF CountersTied
  <1>6. BufferFollowsMux'
    BY <1>0, <1>1, <1>2, <1>3 DEF BufferFollowsMux, Untouched
  <1>7. WholeIsHeld'
    <2>1. SUFFICES ASSUME StillWhole.bounded, ~buf.unbounded
                   PROVE  /\ StillWhole = mux.unit
                          /\ \/ mux.off >= StillWhole.size - 1
                             \/ /\ c.unit = StillWhole /\ c.off = 0 /\ c.pure
                                /\ c.size = mux.off /\ c.size > 0
                                /\ behind = 0
      BY <1>1, <1>2, <1>3 DEF WholeIsHeld
    <2>2. /\ StillWhole = packet.unit
          /\ \/ SentBefore >= packet.unit.size - 1
             \/ /\ c = buf /\ behind = 0
                /\ buf.unit = packet.unit /\ buf.off = 0 /\ buf.pure
                /\ buf.size = packet.off + packet.len
      BY <2>1 DEF Lasts
    <2>3. packet.unit = mux.unit /\ packet.len > 0
      BY <1>0, <1>3 DEF PacketFromMux
    <2> QED
      BY <1>0, <1>3, <2>2, <2>3 DEF SentBefore
  <1>8. SplicedOnlyAtZero' /\ CompleteButLastByte'
    BY <1>2 DEF SplicedOnlyAtZero, CompleteButLastByte, Handing
  <1> QED
    BY <1>3, <1>4, <1>5, <1>6, <1>7, <1>8 DEF IInv

LEMMA TakenKeeps ==
  ASSUME IInv, NEW b, Fits(b), Taken(b)
  PROVE  IInv'
  <1> USE Numbers, ConstantNumbers
  <1>0. TypeOK /\ CountersTied /\ PacketFromMux
    BY DEF IInv
  <1>1. /\ b \in Buffers /\ b.exists /\ b.size > 0
        /\ ~b.zero => /\ b.pure /\ b.unit = packet.unit
                      /\ b.off + b.size = packet.off + packet.len
        /\ ~b.unbounded => b.off = 0
    BY DEF Fits
  <1> DEFINE r == IF Full(b) THEN Took(Reset(b)) ELSE Took(b)
  <1>2. /\ Received(r) /\ behind' = 0
        /\ Full(b) => /\ handed' = Fragment(b) /\ last' = handed'
                      /\ es' = EsState(b.unit)
                      /\ toEs' = [form |-> EsForm, off |-> b.off]
        /\ ~Full(b) => /\ handed' = NoFragment /\ toEs' = NoOutput
                       /\ es' = es /\ last' = last
    BY DEF Taken
  <1>3. /\ r \in Buffers /\ r.exists /\ r.cc = packet.cc
        /\ r.unbounded = b.unbounded
        /\ Full(b) => r.size = 0 /\ r.pure /\ ~r.zero
        /\ ~Full(b) => /\ r.size = b.size /\ r.unit = b.unit /\ r.off = b.off
                       /\ r.pure = b.pure /\ r.zero = b.zero
    BY <1>0, <1>1, ResetFields, TookFields
  <1> HIDE DEF r
  <1>4. /\ copies > 0 /\ fresh' = FALSE /\ lost' = 0 /\ buf' = r
        /\ mux' = mux /\ packet' = packet /\ whole' = StillWhole
        /\ copies' \in 0 .. 2 /\ copies' = copies - 1
        /\ ~Arriving' /\ SentSoFar' = mux.off
        /\ mux.off = packet.off + packet.len
        /\ PacketFromMux'
        /\ /\ mux' \in [unit : Units, off : Nat] /\ mux'.off <= mux'.unit.size
           /\ packet' \in Packets /\ fresh' \in BOOLEAN
           /\ lost' \in 0 .. MaxLoss /\ whole' \in Units
    BY <1>2, <1>3, ReceivedKeeps
  <1>5. packet.unit = mux.unit /\ packet.len > 0
    BY <1>0, <1>4 DEF PacketFromMux
  <1>n. /\ b.size \in Nat /\ b.off \in Nat /\ b.unit \in Units
        /\ b.pure \in BOOLEAN /\ b.zero \in BOOLEAN /\ b.unbounded \in BOOLEAN
        /\ Announced(b) \in Nat /\ b.unit.size \in Nat
        /\ b.unit.bounded \in BOOLEAN
    BY <1>1, BufferNumbers
  <1>6. TypeOK'
    <2>1. \/ r.size < PesHeader
          \/ ~r.unbounded /\ r.size < Announced(r) - 1
      <3>1. CASE Full(b)
        BY <1>3, <3>1 DEF PesHeader
      <3>2. CASE ~Full(b)
        <4>1. Announced(r) = Announced(b)
          BY <1>3, <3>2 DEF Announced
        <4> QED
          BY <1>1, <1>3, <1>n, <3>2, <4>1 DEF Full, PesHeader
      <3> QED
        BY <3>1, <3>2
    <2>2. handed' \in Fragments /\ last' \in Fragments
      <3>1. Fragment(b) \in Fragments
        BY <1>n DEF Fragment, Fragments
      <3> QED
        BY <1>0, <1>2, <3>1, NothingHanded DEF TypeOK
    <2>3. es' \in [init : BOOLEAN, bounded : BOOLEAN]
      <3>1. EsState(b.unit) \in [init : BOOLEAN, bounded : BOOLEAN]
        BY <1>0, <1>n DEF EsState, TypeOK
      <3> QED
        BY <1>0, <1>2, <3>1 DEF TypeOK
    <2>4. toEs' \in EsOutputs
      <3>1. es.init \in BOOLEAN /\ es.bounded \in BOOLEAN
        BY <1>0 DEF TypeOK
      <3>2. EsForm \in {"body", "raw", "cut", "none"}
        BY <1>0, <3>1 DEF EsForm
      <3> QED
        BY <1>2, <1>n, <3>2, NothingHanded DEF EsOutputs
    <2>5. behind' \in 0 .. Turn
      BY <1>2
    <2> QED
      BY <1>3, <1>4, <2>1, <2>2, <2>3, <2>4, <2>5 DEF TypeOK, Announced
  <1>7. CountersTied'
    <2>1. packet.cc = CcAfter(packet.cc, 0)
      BY <1>0, CcDistinguishes
    <2> QED
      BY <1>2, <1>3, <1>4, <2>1 DEF CountersTied
  <1>8. BufferFollowsMux'
    BY <1>1, <1>2, <1>3, <1>4, <1>5 DEF BufferFollowsMux, Untouched
  <1>9. WholeIsHeld'
    <2>1. SUFFICES ASSUME StillWhole.bounded, ~b.unbounded
                   PROVE  /\ StillWhole = mux.unit
                          /\ \/ mux.off >= StillWhole.size - 1
                             \/ /\ r.unit = StillWhole /\ r.off = 0 /\ r.pure
                                /\ r.size = mux.off /\ r.size > 0
      BY <1>2, <1>3, <1>4 DEF WholeIsHeld
    <2>2. /\ StillWhole = packet.unit
          /\ \/ SentBefore >= packet.unit.size - 1
             \/ /\ b.unit = packet.unit /\ b.off = 0 /\ b.pure
                /\ b.size = packet.off + packet.len
      BY <2>1 DEF Fits
    <2>3. CASE SentBefore >= packet.unit.size - 1
      BY <1>0, <1>4, <1>5, <2>2, <2>3 DEF SentBefore
    <2>4. CASE /\ b.unit = packet.unit /\ b.off = 0 /\ b.pure
               /\ b.size = packet.off + packet.len
      <3>1. CASE Full(b)
        BY <1>0, <1>4, <1>5, <2>1, <2>2, <2>4, <3>1 DEF Full, Announced
      <3>2. CASE ~Full(b)
        BY <1>1, <1>3, <1>4, <1>5, <2>2, <2>4, <3>2
      <3> QED
        BY <3>1, <3>2
    <2> QED
      BY <2>2, <2>3, <2>4
  <1>10. SplicedOnlyAtZero' /\ CompleteButLastByte'
    <2>1. CASE Full(b)
      <3>1. /\ handed'.zero = b.zero /\ handed'.pure = b.pure
            /\ handed'.off = b.off /\ handed'.unit = b.unit
            /\ handed'.got = b.size
            /\ ~b.unbounded => handed'.len = Announced(b)
            /\ buf'.unbounded = b.unbounded
        BY <1>2, <1>3, <1>4, <2>1 DEF Fragment
      <3>2. SplicedOnlyAtZero'
        BY <1>1, <3>1 DEF SplicedOnlyAtZero
      <3>3. CompleteButLastByte'
        BY <1>n, <2>1, <3>1 DEF CompleteButLastByte, Full, Announced
      <3> QED
        BY <3>2, <3>3
    <2>2. CASE ~Full(b)
      BY <1>2, <2>2 DEF SplicedOnlyAtZero, CompleteButLastByte, Handing
    <2> QED
      BY <2>1, <2>2
  <1> QED
    BY <1>4, <1>6, <1>7, <1>8, <1>9, <1>10 DEF IInv

-----------------------------------------------------------------------------
(* The invariant, and what follows from it.                                *)

LEMMA InvariantInitially == Init => IInv
  <1> SUFFICES ASSUME Init PROVE IInv
    OBVIOUS
  <1> USE ConstantNumbers, NoUnitType
  <1>1. TypeOK
    <2>1. packet \in Packets
      <3>1. PICK c \in Counters :
              packet = [cc |-> c, pusi |-> FALSE, unit |-> NoUnit, off |-> 0,
                        len |-> 0]
        BY DEF Init
      <3> QED
        BY <3>1 DEF Packets
    <2>2. buf \in Buffers /\ buf.size < PesHeader
      BY DEF Init, NoBuffer, Buffers, Counters, PesHeader
    <2>3. mux \in [unit : Units, off : Nat] /\ mux.off <= mux.unit.size
      BY DEF Init
    <2>4. lost \in 0 .. MaxLoss /\ behind \in 0 .. Turn /\ copies \in 0 .. 2
      BY DEF Init
    <2> QED
      BY <2>1, <2>2, <2>3, <2>4, NothingHanded DEF Init, TypeOK
  <1>2. CountersTied
    BY DEF Init, CountersTied, NoBuffer
  <1>3. PacketFromMux /\ WholeIsHeld
    BY DEF Init, PacketFromMux, WholeIsHeld
  <1>4. BufferFollowsMux
    BY DEF Init, BufferFollowsMux, Untouched, NoBuffer
  <1>5. SplicedOnlyAtZero /\ CompleteButLastByte
    BY DEF Init, SplicedOnlyAtZero, CompleteButLastByte, Handing
  <1> QED
    BY <1>1, <1>2, <1>3, <1>4, <1>5 DEF IInv

LEMMA InvariantPreserved == IInv /\ [Next]_vars => IInv'
  <1> SUFFICES ASSUME IInv, [Next]_vars PROVE IInv'
    OBVIOUS
  <1>1. CASE Send
    BY <1>1, SendKeeps
  <1>2. CASE TsParsePacket
    BY <1>2, EveryReceive, TakenKeeps, DroppedKeeps
  <1>3. CASE UNCHANGED vars
    BY <1>3 DEF vars, IInv, TypeOK, Announced, CountersTied, PacketFromMux,
       BufferFollowsMux, Untouched, WholeIsHeld, Arriving, SentSoFar,
       SplicedOnlyAtZero, CompleteButLastByte, Handing
  <1> QED
    BY <1>1, <1>2, <1>3 DEF Next

(* What pes_parse_audio() and pes_parse_video() get is a run of bytes of   *)
(* one unit, from its beginning if the PID is bounded, unless a packet out *)
(* of step passed continuity_counter_is_ok() (ts.c:178).                   *)
THEOREM UnitsUnspliced == Spec => []SplicedOnlyAtZero
  <1>1. IInv => SplicedOnlyAtZero
    BY DEF IInv
  <1> QED
    BY <1>1, InvariantInitially, InvariantPreserved, PTL DEF Spec

(* buffer_contains_full_pes_section() hands a bounded unit over at its     *)
(* announced size, with at most its last byte missing.                     *)
THEOREM AllButLastByte == Spec => []CompleteButLastByte
  <1>1. IInv => CompleteButLastByte
    BY DEF IInv
  <1> QED
    BY <1>1, InvariantInitially, InvariantPreserved, PTL DEF Spec

(* Only a packet that is received lowers the number of copies.             *)
LEMMA OnlyReceived ==
  ASSUME IInv, [Next]_vars, copies' < copies
  PROVE  TsParsePacket
  <1>1. CASE Send
    <2>1. copies = 0 /\ copies' \in 0 .. 2
      BY <1>1 DEF Send, SendContinue, SendStart, Emit
    <2> QED
      BY <2>1
  <1>2. CASE UNCHANGED vars
    BY <1>2, Numbers DEF vars, IInv
  <1> QED
    BY <1>1, <1>2 DEF Next

(* A full buffer is handed over, any other is kept.                        *)
LEMMA TakenHands ==
  ASSUME NEW b, Taken(b)
  PROVE  /\ Full(b) => handed' = Fragment(b) /\ buf' = Took(Reset(b))
         /\ ~Full(b) => buf' = Took(b)
         /\ whole' = StillWhole
  BY DEF Taken, Received

(* A bounded unit nothing of was lost reaches the parser whole, by the     *)
(* packet that brings its last byte or the one before it.                  *)
THEOREM WholeUnitsArrive == Spec => UnitDelivered
  <1>1. IInv /\ [Next]_vars => [Completes => UnitHanded]_vars
    <2> SUFFICES ASSUME IInv, [Next]_vars, Completes PROVE UnitHanded
      OBVIOUS
    <2> USE Numbers DEF Completes, UnitHanded
    <2>0. TypeOK /\ PacketFromMux
      BY DEF IInv
    <2>1. TsParsePacket
      BY OnlyReceived
    <2>2. copies > 0 /\ SentBefore = packet.off
      BY <2>1 DEF SentBefore
    <2>3. ASSUME NEW c, Lasts(c), Dropped(c) PROVE FALSE
      <3>1. whole' = StillWhole /\ buf' = c
        BY <2>3 DEF Dropped, Received
      <3>2. c.unbounded = buf.unbounded
        BY <2>0, <2>3, ResetFields DEF Lasts
      <3> QED
        BY <2>0, <2>2, <2>3, <3>1, <3>2 DEF Lasts
    <2>4. ASSUME NEW b, Fits(b), Taken(b) PROVE UnitHanded
      <3>1. b \in Buffers /\ b.unit \in Units /\ b.size \in Nat
        BY <2>4, BufferNumbers DEF Fits
      <3>2. ~b.unbounded
        BY <2>0, <2>4, <3>1, TakenHands, ResetFields, TookFields
      <3>3. /\ b.unit = packet.unit /\ b.off = 0 /\ b.pure
            /\ b.size = packet.off + packet.len
        BY <2>0, <2>2, <2>4, <3>2, TakenHands DEF Fits
      <3>4. packet.unit.size > 7
        BY <2>0, <2>2 DEF PacketFromMux
      <3>5. Full(b)
        BY <2>0, <3>3, <3>4 DEF Full, Announced, PesHeader
      <3> QED
        BY <2>4, <3>3, <3>5, TakenHands DEF Fragment
    <2> QED
      BY <2>1, <2>3, <2>4, EveryReceive
  <1> QED
    BY <1>1, InvariantInitially, InvariantPreserved, PTL DEF Spec, UnitDelivered

(* On a PID taken for unbounded nothing is left out between a fragment and *)
(* the next, as long as no packet is lost.                                 *)
THEOREM StreamInOrder == Spec => UnboundedInOrder
  <1>1. IInv /\ [Next]_vars => [GoesOn => NothingLeftOut]_vars
    <2> SUFFICES ASSUME IInv, [Next]_vars, GoesOn PROVE NothingLeftOut
      OBVIOUS
    <2> USE Numbers, BufferNumbers, ConstantNumbers
    <2>0. TypeOK /\ CountersTied /\ BufferFollowsMux
      BY DEF IInv
    <2>1. TsParsePacket
      BY OnlyReceived DEF GoesOn, NextAfterTaken
    <2>2. behind = 1 /\ copies > 0 /\ buf.exists /\ buf.unbounded /\ ~packet.pusi
      BY <2>0 DEF GoesOn, NextAfterTaken, CountersTied
    <2>3. ~(\E c : Lasts(c) /\ Dropped(c))
      <3>1. MayJoin
        BY <2>2 DEF MayJoin
      <3> QED
        BY <2>2, <3>1 DEF Lasts
    <2>4. ASSUME NEW b, Fits(b), Taken(b) PROVE NothingLeftOut
      <3>1. b = Append(buf) /\ b \in Buffers /\ b.size > 0
        BY <2>2, <2>4 DEF Fits
      <3>2. /\ b.unit = packet.unit /\ b.pure /\ b.size = buf.size + packet.len
            /\ b.off + buf.size = packet.off
        <4>1. CASE buf.size = 0
          BY <2>0, <3>1, <4>1, FirstAppended DEF BufferFollowsMux
        <4>2. CASE buf.size > 0
          <5>1. Untouched
            BY <4>2 DEF GoesOn, Untouched
          <5> QED
            BY <2>0, <2>2, <3>1, <4>2, <5>1, MoreAppended DEF BufferFollowsMux
        <4> QED
          BY <2>0, <4>1, <4>2
      <3>3. last.unit = packet.unit /\ last.off + last.len + buf.size = packet.off
        BY DEF GoesOn
      <3>4. last.off \in Nat /\ last.len \in Nat
        BY <2>0 DEF TypeOK, Fragments
      <3>5. b.off = last.off + last.len /\ b.off \in Nat
        BY <2>0, <3>1, <3>2, <3>3, <3>4
      <3>6. CASE Full(b)
        <4>1. /\ handed'.unit = b.unit /\ handed'.pure = b.pure
              /\ handed'.off = b.off /\ handed'.got = b.size
          BY <2>4, <3>6, TakenHands DEF Fragment
        <4>2. handed' # NoFragment
          BY <3>1, <4>1 DEF NoFragment
        <4> QED
          BY <3>2, <3>3, <3>5, <4>1, <4>2 DEF NothingLeftOut
      <3>7. CASE ~Full(b)
        BY <2>0, <2>4, <3>1, <3>2, <3>3, <3>5, <3>7, TakenHands, TookFields
           DEF NothingLeftOut
      <3> QED
        BY <3>6, <3>7
    <2> QED
      BY <2>1, <2>3, <2>4, EveryReceive
  <1> QED
    BY <1>1, InvariantInitially, InvariantPreserved, PTL
       DEF Spec, UnboundedInOrder
=============================================================================
