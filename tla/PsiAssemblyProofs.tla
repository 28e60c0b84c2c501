-------------------------- MODULE PsiAssemblyProofs --------------------------
(***************************************************************************)
(* What PsiAssembly promises for every payload size, section size, counter *)
(* modulus and (shorter than a turn of the counter) run of losses.         *)
(***************************************************************************)
EXTENDS PsiAssembly, TLAPS

(* Packets sent since the last one received, the one on the wire included. *)
Ahead == IF ~fresh THEN 0 ELSE IF copies > 0 THEN lost + 1 ELSE lost

(* The counters of the multiplexer, of the last packet received and of a   *)
(* buffer that holds something are tied to the number of packets lost.     *)
CountersTied ==
  /\ ~fresh => lost = 0
  /\ heard # NoCounter => packet.cc = CcAfter(heard, Ahead)
  /\ Holding => buf.exists /\ buf.cc = heard

(* What the packet on the wire says of the multiplexer that sent it.       *)
PacketFromMux ==
  copies > 0 =>
    /\ ~packet.pusi =>
         /\ packet.tail.len > 0
         /\ packet.tail.id = mux.id
         /\ packet.tail.off + packet.tail.len = mux.off
         /\ packet.tail.len < PayloadSize => mux.off = mux.size
         /\ packet.head.len = 0
    /\ packet.tail.len > 0 => packet.tail.id <= mux.id
    /\ packet.head.len > 0 =>
         /\ packet.head.id <= mux.id
         /\ \/ /\ mux.id = packet.head.id
               /\ mux.off = packet.head.len
               /\ mux.size = packet.head.size
            \/ /\ packet.head.len = packet.head.size
               /\ packet.head.id < mux.id
    /\ packet.head.len <= packet.head.size
    /\ packet.pusi /\ packet.tail.len = 0 => packet.head.len > 2

Untouched == Holding /\ ~buf.zero

(* Without a loss behind it, a buffer no counter 0 got into is exactly     *)
(* where the multiplexer is, or where the packet on the wire goes on.      *)
BufferFollowsMux ==
  /\ ~Holding => buf.pure /\ ~buf.zero
  /\ Untouched => buf.pure
  /\ Untouched /\ lost = 0 =>
       /\ buf.size < buf.total
       /\ IF copies > 0 /\ fresh
          THEN /\ packet.tail.id = buf.id
               /\ packet.tail.off = buf.size
               /\ packet.tail.len > 0
               /\ packet.pusi => packet.tail.off + packet.tail.len = buf.total
               /\ ~packet.pusi => mux.size = buf.total
          ELSE mux.id = buf.id /\ mux.off = buf.size /\ mux.size = buf.total

(* Sections reach the parser in the order of transmission.                 *)
DoneBehind ==
  /\ \A d \in done : d <= mux.id
  /\ Holding => buf.id <= mux.id /\ (\A d \in done : d < buf.id)
  /\ copies > 0 /\ packet.head.len > 0 =>
       /\ fresh => /\ Holding => buf.id < packet.head.id
                   /\ \A d \in done : d < packet.head.id
       /\ ~fresh => \/ buf.exists /\ buf.cc = packet.cc
                    \/ \A d \in done : d < packet.head.id

IInv == TypeOK /\ CountersTied /\ PacketFromMux /\ BufferFollowsMux
        /\ DoneBehind /\ SplicedOnlyAtZero

-----------------------------------------------------------------------------
(* Types.                                                                  *)

SectionsSeen == [id : Nat, intact : BOOLEAN, zero : BOOLEAN]

LEMMA SizesAreNumbers ==
  /\ \A n \in SectionSizes : n \in Nat /\ n > 3
  /\ \A n \in SectionSizes \cup {0} : n \in Nat
  BY PsiAssumption

LEMMA EmptySizes == 0 \in 0 .. MaxSection
  BY PsiAssumption

LEMMA MuxNumbers ==
  ASSUME TypeOK
  PROVE  /\ mux.id \in Nat /\ mux.off \in Nat /\ mux.size \in Nat
         /\ mux.size \in SectionSizes \cup {0}
         /\ mux.off <= mux.size
         /\ mux \in [id : Nat, off : Nat, size : SectionSizes \cup {0}]
  <1>1. mux.size \in SectionSizes \cup {0} /\ mux.id \in Nat /\ mux.off \in Nat
        /\ mux.off <= mux.size
        /\ mux \in [id : Nat, off : Nat, size : SectionSizes \cup {0}]
    BY DEF TypeOK
  <1> QED
    BY <1>1, SizesAreNumbers

(* The operators on the buffer return buffers, and leave its counter alone.*)
LEMMA BufferOperators ==
  ASSUME NEW b \in Buffers, NEW c \in Counters, NEW h \in Heads
  PROVE  /\ Reset(b) \in Buffers
         /\ Left(b) \in Buffers
         /\ Created(h, c) \in Buffers
         /\ AppendHead(b, h) \in Buffers
         /\ [b EXCEPT !.cc = c] \in Buffers
         /\ Handed(b) \subseteq SectionsSeen
  <1> USE PsiAssumption
  <1>1. Reset(b) \in Buffers
    BY EmptySizes DEF Reset, Buffers
  <1>2. Left(b) \in Buffers
    BY <1>1 DEF Left
  <1>3. NoBuffer \in Buffers
    BY CcModulusAssumption, EmptySizes DEF NoBuffer, Buffers, Counters
  <1>4. Created(h, c) \in Buffers
    BY <1>3 DEF Created, NoBuffer, Buffers
  <1>h. h.len \in 0 .. MaxSection /\ h.id \in Nat /\ h.size \in SectionSizes \cup {0}
    BY DEF Heads
  <1>5. AppendHead(b, h) \in Buffers
    BY <1>h DEF AppendHead, Buffers
  <1>6. [b EXCEPT !.cc = c] \in Buffers
    BY DEF Buffers
  <1>7. Section(b) \in SectionsSeen
    BY DEF Section, Buffers, SectionsSeen
  <1>8. Handed(b) \subseteq SectionsSeen
    BY <1>7 DEF Handed
  <1> QED
    BY <1>1, <1>2, <1>4, <1>5, <1>6, <1>8

LEMMA AppendMoreType ==
  ASSUME NEW b \in Buffers, NEW id \in Nat, NEW off \in Nat, NEW n \in Nat
  PROVE  AppendMore(b, id, off, n) \in Buffers
  <1>1. b.size \in Nat /\ b.pure \in BOOLEAN /\ b.zero \in BOOLEAN
    BY DEF Buffers
  <1>2. least(b.size + n, MaxSection) \in 0 .. MaxSection
    BY <1>1, PsiAssumption DEF least
  <1> DEFINE pure == b.pure /\ id = b.id /\ off = b.size
             zero == b.zero \/ (lost > 0 /\ packet.cc = 0)
  <1>3. pure \in BOOLEAN /\ zero \in BOOLEAN
    BY <1>1
  <1>4. AppendMore(b, id, off, n) =
          [b EXCEPT !.size = least(b.size + n, MaxSection),
                    !.pure = pure, !.zero = zero]
    BY DEF AppendMore
  <1> HIDE DEF pure, zero
  <1> QED
    BY <1>2, <1>3, <1>4 DEF Buffers

LEMMA NoPartTypes == NoTail \in Tails /\ NoHead \in Heads
  BY PsiAssumption DEF NoTail, NoHead, Tails, Heads

LEMMA EmitType ==
  ASSUME TypeOK, NEW pusi \in BOOLEAN, NEW tail \in Tails, NEW head \in Heads,
         Emit(pusi, tail, head)
  PROVE  /\ packet' \in Packets /\ copies' \in 0 .. 2 /\ fresh' \in BOOLEAN
         /\ lost' \in 0 .. MaxLoss
         /\ heard' \in Counters \cup {NoCounter} /\ whole' \in Nat
         /\ buf' \in Buffers /\ Unfinished(buf')
         /\ parsed' \subseteq SectionsSeen /\ done' \subseteq Nat
  BY PsiAssumption, CcModulusAssumption
     DEF TypeOK, Emit, Packets, NextCc, Counters

(* A buffer comes to rest only on the beginning of a section.              *)
LEMMA ComesToRest ==
  ASSUME NEW b \in Buffers, NEW c \in Counters
  PROVE  /\ Unfinished(Reset(b)) /\ Unfinished([Reset(b) EXCEPT !.cc = c])
         /\ Unfinished([Left(b) EXCEPT !.cc = c])
  <1>0. b.total \in SectionSizes \cup {0} /\ b.size \in Nat
    BY DEF Buffers
  <1>1. /\ b.size \in Nat /\ b.total \in Nat /\ MaxSection \in Nat
        /\ Reset(b) \in Buffers /\ Reset(b).size = 0
    BY <1>0, BufferOperators, NoPartTypes, SizesAreNumbers, PsiAssumption
       DEF Buffers, Reset
  <1>2. Unfinished(Reset(b)) /\ Unfinished([Reset(b) EXCEPT !.cc = c])
    BY <1>1 DEF Unfinished, Buffers
  <1>3. ~Full(b) /\ ~Hopeless(b) => Unfinished([b EXCEPT !.cc = c])
    BY <1>1 DEF Full, Hopeless, Unfinished, Buffers
  <1> QED
    BY <1>2, <1>3 DEF Left

LEMMA ReceiveType ==
  ASSUME TypeOK, NEW b \in Buffers, Unfinished(b),
         NEW handed \in SUBSET SectionsSeen, Receive(b, handed)
  PROVE  TypeOK'
  <1>1. {s.id : s \in handed} \subseteq Nat
    BY DEF SectionsSeen
  <1>2. packet.cc \in Counters
    BY DEF TypeOK, Packets
  <1>3. copies' \in 0 .. 2 /\ lost' \in 0 .. MaxLoss
    BY PsiAssumption DEF TypeOK, Receive
  <1>4. done' \subseteq Nat
    BY <1>1 DEF TypeOK, Receive
  <1>5. whole' \in Nat
    BY DEF TypeOK, Receive, StillWhole, Packets, Heads
  <1>6. buf' \in Buffers /\ Unfinished(buf')
    BY DEF Receive
  <1> QED
    BY <1>2, <1>3, <1>4, <1>5, <1>6 DEF TypeOK, Receive, SectionsSeen

LEMMA CurrentTailType ==
  ASSUME TypeOK, Sending, mux.size - mux.off <= PayloadSize
  PROVE  Pending \in Tails
  <1>1. mux.size - mux.off \in 0 .. PayloadSize
    BY MuxNumbers, PsiAssumption DEF Sending
  <1> QED
    BY <1>1, MuxNumbers DEF Pending, Tails

LEMMA TypePreserved == TypeOK /\ [Next]_vars => TypeOK'
  <1> SUFFICES ASSUME TypeOK, [Next]_vars PROVE TypeOK'
    OBVIOUS
  <1> USE PsiAssumption
  <1>b. /\ buf \in Buffers /\ Unfinished(buf) /\ packet.cc \in Counters /\ packet.head \in Heads
        /\ packet.tail.id \in Nat /\ packet.tail.off \in Nat
        /\ packet.tail.len \in Nat /\ packet.head.id \in Nat
        /\ packet.head.len \in Nat /\ PayloadSize \in Nat /\ 0 \in Nat
    BY DEF TypeOK, Packets, Tails, Heads
  <1>e. {} \in SUBSET SectionsSeen
    OBVIOUS
  <1>1. CASE SendContinue
    <2> DEFINE n == least(mux.size - mux.off, PayloadSize)
               t == [Pending EXCEPT !.len = n]
    <2>1. n \in 0 .. PayloadSize /\ n \in Nat /\ mux.off + n <= mux.size
      BY <1>1, MuxNumbers DEF SendContinue, Sending, least
    <2>4. t \in Tails
      BY <2>1, MuxNumbers DEF Pending, Tails
    <2>5. mux' \in [id : Nat, off : Nat, size : SectionSizes \cup {0}]
          /\ mux'.off <= mux'.size
      BY <1>1, <2>1, MuxNumbers DEF SendContinue
    <2>2. Emit(FALSE, t, NoHead)
      BY <1>1 DEF SendContinue
    <2> HIDE DEF n, t
    <2> QED
      BY <2>2, <2>4, <2>5, EmitType, NoPartTypes DEF TypeOK, SectionsSeen
  <1>2. ASSUME NEW size \in SectionSizes, NEW third \in SectionSizes \cup {0},
               SendStart(size, third)
        PROVE  TypeOK'
    <2> DEFINE room == PayloadSize - 1 - CurrentTail.len
               n    == least(size, room)
               h    == [id |-> mux.id + 1, len |-> n, size |-> size]
    <2>1. CurrentTail \in Tails
      <3>1. CASE Sending
        <4>1. mux.size - mux.off <= PayloadSize
          BY <1>2, <3>1, MuxNumbers DEF SendStart, CurrentTail, Pending
        <4> QED
          BY <3>1, <4>1, CurrentTailType DEF CurrentTail
      <3>2. CASE ~Sending
        BY <3>2, NoPartTypes DEF CurrentTail
      <3> QED
        BY <3>1, <3>2
    <2>5. CurrentTail.len \in 0 .. PayloadSize /\ room > 0
      BY <1>2, <2>1 DEF SendStart, Tails
    <2>6. size \in Nat /\ size > 3 /\ third \in Nat
      BY SizesAreNumbers
    <2>7. n \in 0 .. PayloadSize /\ n \in Nat /\ n <= size
      BY <2>5, <2>6 DEF least
    <2>2. h \in Heads
      BY <2>7, MuxNumbers DEF Heads
    <2>3. Emit(TRUE, CurrentTail, h)
      BY <1>2 DEF SendStart
    <2>4. mux' \in [id : Nat, off : Nat, size : SectionSizes \cup {0}]
          /\ mux'.off <= mux'.size
      <3>1. CASE mux' = [id |-> mux.id + 1, off |-> n, size |-> size]
        BY <3>1, <2>7, MuxNumbers
      <3>2. CASE mux' = [id |-> mux.id + 2, off |-> least(third, room - n),
                         size |-> third] /\ room - n > 0
        <4>1. least(third, room - n) \in Nat /\ least(third, room - n) <= third
          BY <3>2, <2>5, <2>6, <2>7 DEF least
        <4> QED
          BY <3>2, <4>1, MuxNumbers
      <3> QED
        BY <1>2, <3>1, <3>2 DEF SendStart
    <2> HIDE DEF h, n, room
    <2> QED
      BY <2>1, <2>2, <2>3, <2>4, EmitType DEF TypeOK, SectionsSeen
  <1>3. CASE SendPadded
    <2>3. Sending /\ mux.size - mux.off <= PayloadSize
      BY <1>3, MuxNumbers DEF SendPadded, Pending
    <2>1. Emit(TRUE, Pending, NoHead) /\ Pending \in Tails
      BY <1>3, <2>3, CurrentTailType DEF SendPadded
    <2>2. mux' \in [id : Nat, off : Nat, size : SectionSizes \cup {0}]
          /\ mux'.off <= mux'.size
      BY <1>3, MuxNumbers DEF SendPadded
    <2> QED
      BY <2>1, <2>2, EmitType, NoPartTypes DEF TypeOK, SectionsSeen
  <1>4. CASE ReceiveNoBuffer
    BY <1>4, <1>b, <1>e, ReceiveType DEF ReceiveNoBuffer
  <1>5. CASE ReceiveFirst
    <2> DEFINE b == AppendHead(Created(packet.head, packet.cc), packet.head)
    <2>1. b \in Buffers
      BY <1>b, BufferOperators
    <2>2. Receive(Took(Left(b)), Handed(b))
      BY <1>5 DEF ReceiveFirst
    <2> HIDE DEF b
    <2> QED
      BY <2>1, <2>2, <1>b, BufferOperators, ComesToRest, ReceiveType DEF Took
  <1>6. CASE ReceiveRepeat
    BY <1>6, <1>b, <1>e, ReceiveType DEF ReceiveRepeat
  <1>7. CASE ReceiveGap
    BY <1>7, <1>b, <1>e, ReceiveType, BufferOperators, ComesToRest
       DEF ReceiveGap
  <1>8. CASE ReceiveIdle
    BY <1>8, <1>b, <1>e, ReceiveType DEF ReceiveIdle
  <1>9. CASE ReceiveContinue
    <2> DEFINE b == AppendMore(buf, packet.tail.id, packet.tail.off, PayloadSize)
    <2>1. b \in Buffers
      BY <1>b, AppendMoreType
    <2>2. Receive(Took(Left(b)), Handed(b))
      BY <1>9 DEF ReceiveContinue
    <2> HIDE DEF b
    <2> QED
      BY <2>1, <2>2, <1>b, BufferOperators, ComesToRest, ReceiveType DEF Took
  <1>10. CASE ReceiveStart
    <2> DEFINE b == IF Holding
                    THEN AppendMore(buf, packet.head.id, 0, packet.head.len)
                    ELSE AppendHead(buf, packet.head)
    <2>1. b \in Buffers
      BY <1>b, AppendMoreType, BufferOperators
    <2>2. Receive(Took(Left(b)), Handed(b))
      BY <1>10 DEF ReceiveStart
    <2> HIDE DEF b
    <2> QED
      BY <2>1, <2>2, <1>b, BufferOperators, ComesToRest, ReceiveType DEF Took
  <1>11. CASE ReceiveBoth
    <2> DEFINE joined == AppendMore(buf, packet.tail.id, packet.tail.off,
                                    packet.tail.len)
               first  == IF Holding THEN Handed(joined) ELSE {}
               b      == AppendHead(Reset(buf), packet.head)
    <2>1. joined \in Buffers /\ b \in Buffers
      BY <1>b, AppendMoreType, BufferOperators
    <2>2. first \in SUBSET SectionsSeen
      BY <2>1, <1>b, BufferOperators
    <2>3. \/ Receive(Took(Left(b)), first \cup Handed(b))
          \/ Receive(IF Holding THEN Took(Reset(buf)) ELSE buf, first)
      BY <1>11 DEF ReceiveBoth
    <2> HIDE DEF b, first, joined
    <2>4. /\ Took(Left(b)) \in Buffers
          /\ (IF Holding THEN Took(Reset(buf)) ELSE buf) \in Buffers
          /\ first \cup Handed(b) \in SUBSET SectionsSeen
      BY <2>1, <2>2, <1>b, BufferOperators DEF Took
    <2>5. /\ Unfinished(Took(Left(b)))
          /\ Unfinished(IF Holding THEN Took(Reset(buf)) ELSE buf)
      BY <2>1, <1>b, ComesToRest DEF Took
    <2> QED
      BY <2>2, <2>3, <2>4, <2>5, ReceiveType
  <1>12. CASE UNCHANGED vars
    BY <1>12 DEF TypeOK, Unfinished, vars
  <1> QED
    BY <1>1, <1>2, <1>3, <1>4, <1>5, <1>6, <1>7, <1>8, <1>9, <1>10, <1>11,
       <1>12 DEF Next, Send, TsParsePacket

LEMMA TypeInitially == Init => TypeOK
  <1> SUFFICES ASSUME Init PROVE TypeOK
    OBVIOUS
  <1>1. packet \in Packets
    <2>1. PICK c \in Counters :
            packet = [cc |-> c, pusi |-> FALSE, tail |-> NoTail, head |-> NoHead]
      BY DEF Init
    <2> QED
      BY <2>1, NoPartTypes DEF Packets
  <1>2. buf \in Buffers
    BY CcModulusAssumption, EmptySizes DEF Init, NoBuffer, Buffers, Counters
  <1>3. mux \in [id : Nat, off : Nat, size : SectionSizes \cup {0}]
        /\ mux.off <= mux.size
    BY DEF Init
  <1>4. lost \in 0 .. MaxLoss
    BY PsiAssumption DEF Init
  <1>5. copies \in 0 .. 2
    BY DEF Init
  <1>7. fresh \in BOOLEAN /\ heard \in Counters \cup {NoCounter} /\ whole \in Nat
    BY DEF Init
  <1>8. Unfinished(buf)
    BY DEF Init, NoBuffer, Unfinished
  <1>6. /\ parsed \subseteq [id : Nat, intact : BOOLEAN, zero : BOOLEAN]
        /\ done \subseteq Nat
    BY DEF Init
  <1> QED
    BY <1>1, <1>2, <1>3, <1>4, <1>5, <1>6, <1>7, <1>8 DEF TypeOK

(* The state of the multiplexer, of the channel and of the reassembly      *)
(* buffer keeps its type in every behaviour.                               *)
THEOREM TypeCorrect == Spec => []TypeOK
  BY TypeInitially, TypePreserved, PTL DEF Spec

-----------------------------------------------------------------------------
(* Invariance.  A step that receives leaves a buffer b and hands over some *)
(* sections; these are the six things each way through ts_parse_packet()   *)
(* guarantees of them, and all that the invariant needs.                   *)

Ids(handed) == {s.id : s \in handed}

Leaves(b, handed) ==
  /\ b.size > 0 => b.exists /\ b.cc = packet.cc
  /\ ~(b.size > 0) => b.pure /\ ~b.zero
  /\ b.size > 0 /\ ~b.zero =>
       /\ b.pure
       /\ b.size < b.total
       /\ mux.id = b.id /\ mux.off = b.size /\ mux.size = b.total
  /\ \A s \in handed :
       (s.intact \/ s.zero) /\ s.id <= mux.id /\ s.id \notin done
  /\ b.size > 0 =>
       b.id <= mux.id /\ (\A d \in done \cup Ids(handed) : d < b.id)
  /\ packet.head.len > 0 =>
       \/ b.exists /\ b.cc = packet.cc
       \/ \A d \in done \cup Ids(handed) : d < packet.head.id

LEMMA Numbers ==
  ASSUME TypeOK
  PROVE  /\ packet.cc \in Counters /\ packet.cc \in Int
         /\ packet.tail.id \in Nat /\ packet.tail.off \in Nat
         /\ packet.tail.len \in Nat /\ packet.tail.len <= PayloadSize
         /\ packet.head.id \in Nat /\ packet.head.len \in Nat
         /\ packet.head.size \in SectionSizes \cup {0}
         /\ packet.head.size \in Nat
         /\ packet.head \in Heads /\ packet.pusi \in BOOLEAN
         /\ buf \in Buffers
         /\ buf.exists \in BOOLEAN /\ buf.pure \in BOOLEAN
         /\ buf.zero \in BOOLEAN
         /\ buf.cc \in Counters /\ buf.cc \in Int /\ buf.size \in Nat
         /\ buf.id \in Nat /\ buf.total \in Nat
         /\ buf.total \in SectionSizes \cup {0}
         /\ lost \in Nat /\ lost <= MaxLoss /\ copies \in Nat
         /\ PayloadSize \in Nat /\ MaxSection \in Nat /\ MaxLoss \in Nat
         /\ CcModulus \in Nat
  <1>1. packet \in Packets /\ buf \in Buffers /\ lost \in 0 .. MaxLoss
        /\ copies \in 0 .. 2
    BY DEF TypeOK
  <1>2. packet.tail \in Tails /\ packet.head \in Heads
        /\ packet.cc \in Counters /\ packet.pusi \in BOOLEAN
    BY <1>1 DEF Packets
  <1>3. packet.tail.len \in 0 .. PayloadSize /\ packet.head.len \in 0 .. PayloadSize
        /\ packet.tail.id \in Nat /\ packet.tail.off \in Nat
        /\ packet.head.id \in Nat /\ packet.head.size \in SectionSizes \cup {0}
    BY <1>2 DEF Tails, Heads
  <1>4. /\ buf.exists \in BOOLEAN /\ buf.pure \in BOOLEAN /\ buf.zero \in BOOLEAN
        /\ buf.cc \in Counters /\ buf.size \in Nat /\ buf.id \in Nat
        /\ buf.total \in SectionSizes \cup {0}
    BY <1>1 DEF Buffers
  <1>5. /\ PayloadSize \in Nat /\ MaxSection \in Nat /\ MaxLoss \in Nat
        /\ CcModulus \in Nat
    BY PsiAssumption, CcModulusAssumption
  <1>6. packet.cc \in Int /\ buf.cc \in Int
    BY <1>2, <1>4, <1>5 DEF Counters
  <1>7. packet.head.size \in Nat /\ buf.total \in Nat
    BY <1>3, <1>4, SizesAreNumbers
  <1>8. /\ packet.tail.len \in Nat /\ packet.tail.len <= PayloadSize
        /\ packet.head.len \in Nat
        /\ lost \in Nat /\ lost <= MaxLoss /\ copies \in Nat
    BY <1>1, <1>3, <1>5
  <1> QED
    BY <1>1, <1>2, <1>3, <1>4, <1>5, <1>6, <1>7, <1>8

(* The counter one packet later.                                           *)
LEMMA CcSucc ==
  ASSUME NEW c \in Counters, NEW n \in Nat, n < CcModulus - 1
  PROVE  NextCc(CcAfter(c, n)) = CcAfter(c, n + 1)
  BY CcModulusAssumption DEF NextCc, CcAfter, Counters

(* Fewer losses than a turn: the counter tells a repeat from a new packet, *)
(* and, unless it is 0, a gap from the next packet.                        *)
LEMMA CcDistinguishes ==
  ASSUME NEW c \in Counters, NEW n \in Nat, n < CcModulus - 1
  PROVE  /\ CcAfter(c, n + 1) # c
         /\ n > 0 /\ CcAfter(c, n + 1) # 0 => IsGap(c, CcAfter(c, n + 1))
         /\ ~IsGap(c, CcAfter(c, 1))
         /\ CcAfter(c, 0) = c
  BY CcModulusAssumption DEF IsGap, CcAfter, Counters

(* The packet that follows the one a buffer took last is let through.      *)
LEMMA NextIsOk ==
  ASSUME NEW c \in Counters
  PROVE  CcAfter(c, 1) # c /\ ~IsGap(c, CcAfter(c, 1))
  BY CcModulusAssumption DEF IsGap, CcAfter, Counters

LEMMA CheckTells ==
  ASSUME IInv, copies > 0
  PROVE  /\ Holding => (Check = "repeat" <=> ~fresh)
         /\ Holding /\ Check # "gap" /\ fresh => lost = 0 \/ packet.cc = 0
         /\ Check = "repeat" <=> buf.cc = packet.cc
         /\ Check = "gap" => Holding /\ fresh
  <1> USE Numbers, PsiAssumption, CcModulusAssumption
  <1>0. TypeOK /\ CountersTied
    BY DEF IInv
  <1>1. Check = "repeat" <=> buf.cc = packet.cc
    BY DEF Check, Verdict
  <1>2. Check = "gap" => Holding
    BY <1>0 DEF Check, Verdict, Holding
  <1>3. ASSUME Holding, ~fresh PROVE buf.cc = packet.cc
    <2>1. heard # NoCounter /\ buf.cc = heard
      BY <1>0, <1>3 DEF CountersTied, NoCounter, Counters
    <2>2. packet.cc = CcAfter(heard, 0)
      BY <1>0, <1>3, <2>1 DEF CountersTied, Ahead
    <2> QED
      BY <1>0, <2>1, <2>2, CcDistinguishes
  <1>4. ASSUME Holding, fresh
        PROVE  buf.cc # packet.cc /\ (lost > 0 /\ packet.cc # 0 => IsGap(buf.cc, packet.cc))
    <2>1. heard # NoCounter /\ buf.cc = heard
      BY <1>0, <1>4 DEF CountersTied, NoCounter, Counters
    <2>2. packet.cc = CcAfter(buf.cc, lost + 1)
      BY <1>0, <1>4, <2>1 DEF CountersTied, Ahead
    <2>3. lost < CcModulus - 1
      BY <1>0
    <2> QED
      BY <1>0, <2>2, <2>3, CcDistinguishes
  <1>5. ASSUME Holding, fresh, Check # "gap" PROVE lost = 0 \/ packet.cc = 0
    BY <1>0, <1>4, <1>5 DEF Check, Verdict, Holding
  <1> QED
    BY <1>1, <1>2, <1>3, <1>4, <1>5

(* The fields of the buffers the operators return.                         *)
LEMMA ResetFields ==
  ASSUME NEW b \in Buffers
  PROVE  /\ Reset(b) \in Buffers
         /\ Reset(b).size = 0 /\ Reset(b).pure /\ ~Reset(b).zero
         /\ Reset(b).exists = b.exists /\ Reset(b).cc = b.cc
  <1>1. Reset(b) \in Buffers
    BY EmptySizes DEF Reset, Buffers
  <1> QED
    BY <1>1 DEF Reset, Buffers

LEMMA TookFields ==
  ASSUME TypeOK, NEW b \in Buffers
  PROVE  /\ Took(b) \in Buffers
         /\ Took(b).cc = packet.cc
         /\ Took(b).size = b.size /\ Took(b).id = b.id
         /\ Took(b).total = b.total /\ Took(b).pure = b.pure
         /\ Took(b).zero = b.zero /\ Took(b).exists = b.exists
  <1>1. Took(b) \in Buffers
    BY Numbers DEF Took, Buffers
  <1> QED
    BY <1>1 DEF Took, Buffers

LEMMA AppendHeadFields ==
  ASSUME NEW b \in Buffers, NEW h \in Heads
  PROVE  LET a == AppendHead(b, h)
         IN  /\ a \in Buffers
             /\ a.size = h.len /\ a.id = h.id /\ a.total = h.size
             /\ a.pure = b.pure /\ a.zero = b.zero /\ a.exists = b.exists
  <1>1. AppendHead(b, h) \in Buffers
    BY BufferOperators, CcModulusAssumption DEF Counters, Buffers
  <1> QED
    BY <1>1 DEF AppendHead, Buffers

LEMMA AppendMoreFields ==
  ASSUME NEW b \in Buffers, NEW id \in Nat, NEW off \in Nat, NEW n \in Nat
  PROVE  LET a == AppendMore(b, id, off, n)
         IN  /\ a \in Buffers
             /\ a.size = least(b.size + n, MaxSection)
             /\ a.id = b.id /\ a.total = b.total /\ a.exists = b.exists
             /\ a.pure <=> (b.pure /\ id = b.id /\ off = b.size)
             /\ a.zero <=> (b.zero \/ (lost > 0 /\ packet.cc = 0))
  <1>1. AppendMore(b, id, off, n) \in Buffers
    BY AppendMoreType
  <1> QED
    BY <1>1 DEF AppendMore, Buffers

(* A section that begins on an empty buffer, behind the sections `first':  *)
(* it is handed over at once or held where the multiplexer is.             *)
LEMMA HeadLeaves ==
  ASSUME IInv, copies > 0, packet.head.len > 2,
         NEW c \in Buffers, c.pure, ~c.zero, c.exists,
         NEW first \in SUBSET SectionsSeen,
         \A s \in first : /\ s.intact \/ s.zero
                          /\ s.id < packet.head.id /\ s.id \notin done,
         \A d \in done : d < packet.head.id
  PROVE  LET b == AppendHead(c, packet.head)
         IN  Leaves(Took(Left(b)), first \cup Handed(b))
  <1> DEFINE b == AppendHead(c, packet.head)
             all == first \cup Handed(b)
  <1> USE Numbers, SizesAreNumbers
  <1>0. TypeOK /\ PacketFromMux /\ DoneBehind
    BY DEF IInv
  <1>1. /\ b \in Buffers
        /\ b.size = packet.head.len /\ b.id = packet.head.id
        /\ b.total = packet.head.size /\ b.pure /\ ~b.zero /\ b.exists
    BY <1>0, AppendHeadFields
  <1>2. packet.head.len <= packet.head.size /\ packet.head.size > 3
        /\ packet.head.id <= mux.id
        /\ \/ /\ mux.id = packet.head.id
              /\ mux.off = packet.head.len
              /\ mux.size = packet.head.size
           \/ packet.head.len = packet.head.size
    BY <1>0 DEF PacketFromMux
  <1> HIDE DEF b
  <1>3. \A s \in Handed(b) : s.intact /\ s.id = packet.head.id
    BY <1>1 DEF Handed, Section
  <1>4. \A s \in all : (s.intact \/ s.zero) /\ s.id <= mux.id /\ s.id \notin done
    <2>1. TAKE s \in all
    <2>2. CASE s \in first
      BY <2>2, <1>0, <1>2, MuxNumbers DEF SectionsSeen
    <2>3. CASE s \in Handed(b)
      BY <2>3, <1>0, <1>2, <1>3
    <2> QED
      BY <2>2, <2>3
  <1>5. CASE Full(b) \/ Hopeless(b)
    <2>1. Left(b) = Reset(b)
      BY <1>5 DEF Left
    <2>2. LET a == Took(Left(b))
          IN  a.size = 0 /\ a.pure /\ ~a.zero /\ a.exists /\ a.cc = packet.cc
      BY <1>0, <1>1, <2>1, ResetFields, TookFields
    <2> QED
      BY <2>2, <1>4, <1>1 DEF Leaves, b
  <1>6. CASE ~(Full(b) \/ Hopeless(b))
    <2>1. Left(b) = b /\ Handed(b) = {}
      BY <1>6 DEF Left, Handed
    <2>2. b.size < b.total
      BY <1>0, <1>1, <1>2, <1>6 DEF Full
    <2>3. LET a == Took(Left(b))
          IN  /\ a.size = packet.head.len /\ a.id = packet.head.id
              /\ a.total = packet.head.size
              /\ a.pure /\ ~a.zero /\ a.exists /\ a.cc = packet.cc
      BY <1>0, <1>1, <2>1, TookFields
    <2>4. \A d \in done \cup Ids(all) : d < packet.head.id
      BY <2>1 DEF Ids
    <2> QED
      BY <2>1, <2>2, <2>3, <2>4, <1>0, <1>1, <1>2, <1>4 DEF Leaves, b
  <1> QED
    BY <1>5, <1>6

(* The bytes that join what is held: they complete the section, or leave   *)
(* the buffer where the multiplexer is, or a counter 0 let them in.        *)
LEMMA MoreLeaves ==
  ASSUME IInv, copies > 0, buf.exists, Holding, Check = "ok", ~packet.pusi
  PROVE  LET b == AppendMore(buf, packet.tail.id, packet.tail.off, PayloadSize)
         IN  Leaves(Took(Left(b)), Handed(b))
  <1> DEFINE b == AppendMore(buf, packet.tail.id, packet.tail.off, PayloadSize)
  <1> USE Numbers, SizesAreNumbers, MuxNumbers, PsiAssumption
  <1>0. TypeOK /\ PacketFromMux /\ DoneBehind /\ BufferFollowsMux
    BY DEF IInv
  <1>1. /\ b \in Buffers
        /\ b.size = least(buf.size + PayloadSize, MaxSection)
        /\ b.id = buf.id /\ b.total = buf.total /\ b.exists
        /\ b.pure <=> (buf.pure /\ packet.tail.id = buf.id
                              /\ packet.tail.off = buf.size)
        /\ b.zero <=> (buf.zero \/ (lost > 0 /\ packet.cc = 0))
    BY <1>0, AppendMoreFields
  <1> HIDE DEF b
  <1>2. fresh /\ (lost = 0 \/ packet.cc = 0)
    BY CheckTells
  <1>3. ~b.zero => Untouched /\ lost = 0
    BY <1>0, <1>1, <1>2 DEF Untouched
  <1>4. ~b.zero => /\ b.pure /\ packet.tail.id = buf.id
                   /\ packet.tail.off = buf.size /\ mux.size = buf.total
                   /\ mux.id = buf.id
                   /\ buf.size + packet.tail.len = mux.off
                   /\ (packet.tail.len < PayloadSize => mux.off = mux.size)
    BY <1>0, <1>1, <1>2, <1>3 DEF BufferFollowsMux, PacketFromMux
  <1>5. \A t \in Handed(b) :
           (t.intact \/ t.zero) /\ t.id = buf.id /\ t.id <= mux.id /\ t.id \notin done
    BY <1>0, <1>1, <1>4 DEF Handed, Section, DoneBehind
  <1>6. CASE Full(b) \/ Hopeless(b)
    <2>1. Left(b) = Reset(b)
      BY <1>6 DEF Left
    <2>2. LET a == Took(Left(b))
          IN  a.size = 0 /\ a.pure /\ ~a.zero /\ a.exists /\ a.cc = packet.cc
      BY <1>0, <1>1, <2>1, ResetFields, TookFields
    <2> QED
      BY <2>2, <1>5 DEF Leaves, b
  <1>7. CASE ~(Full(b) \/ Hopeless(b))
    <2>1. Left(b) = b /\ Handed(b) = {}
      BY <1>7 DEF Left, Handed
    <2>2. b.size > 3 /\ b.size < b.total /\ b.total <= MaxSection
      BY <1>0, <1>1, <1>7 DEF Full, Hopeless, least
    <2>3. ~b.zero => b.size = mux.off
      BY <2>2, <1>0, <1>1, <1>4 DEF least
    <2>4. LET a == Took(Left(b))
          IN  /\ a.size = b.size /\ a.id = buf.id /\ a.total = buf.total
              /\ a.pure = b.pure /\ a.zero = b.zero
              /\ a.exists /\ a.cc = packet.cc
      BY <1>0, <1>1, <2>1, TookFields
    <2>5. buf.id <= mux.id /\ \A d \in done \cup Ids(Handed(b)) : d < buf.id
      BY <1>0, <2>1 DEF DoneBehind, Ids
    <2>6. b.size > 0
      BY <1>0, <1>1, <2>2 DEF least
    <2> HIDE DEF Leaves
    <2>7. LET a == Took(Left(b))
          IN  a.size > 0 /\ ~a.zero =>
                 /\ a.pure /\ a.size < a.total /\ mux.id = a.id
                 /\ mux.off = a.size /\ mux.size = a.total
      BY <1>1, <1>4, <2>2, <2>3, <2>4
    <2> QED
      BY <2>4, <2>5, <2>6, <2>7, <1>5 DEF Leaves, b
  <1> QED
    BY <1>6, <1>7

LEMMA KeptLeaves ==
  ASSUME IInv, copies > 0,
         \/ ~buf.exists
         \/ buf.exists /\ Check = "repeat"
         \/ buf.exists /\ Check = "ok" /\ ~Holding
  PROVE  Leaves(buf, {})
  <1> USE Numbers
  <1>0. TypeOK /\ CountersTied /\ PacketFromMux /\ DoneBehind /\ BufferFollowsMux
    BY DEF IInv
  <1>1. Ids({}) = {}
    BY DEF Ids
  <1>2. Holding => buf.exists /\ buf.cc = packet.cc /\ ~fresh /\ lost = 0
    BY <1>0, CheckTells DEF CountersTied
  <1>3. Untouched => /\ buf.pure /\ buf.size < buf.total
                     /\ mux.id = buf.id /\ mux.off = buf.size
                     /\ mux.size = buf.total
    BY <1>0, <1>2 DEF BufferFollowsMux, Untouched
  <1>4. packet.head.len > 0 =>
          \/ buf.exists /\ buf.cc = packet.cc
          \/ \A d \in done : d < packet.head.id
    BY <1>0 DEF DoneBehind
  <1> QED
    BY <1>0, <1>1, <1>2, <1>3, <1>4
       DEF Leaves, Holding, Untouched, BufferFollowsMux, DoneBehind

LEMMA GapLeaves ==
  ASSUME IInv, copies > 0, buf.exists, Check = "gap"
  PROVE  Leaves(Reset(buf), {})
  <1> USE Numbers
  <1>0. TypeOK /\ DoneBehind
    BY DEF IInv
  <1>1. Ids({}) = {}
    BY DEF Ids
  <1>2. fresh
    BY CheckTells
  <1>3. Reset(buf).size = 0 /\ Reset(buf).pure /\ ~Reset(buf).zero
    BY <1>0, ResetFields
  <1> QED
    BY <1>0, <1>1, <1>2, <1>3 DEF Leaves, DoneBehind

(* A section that begins at once while another is held: only a loss that   *)
(* ended on counter 0 leads here.                                          *)
LEMMA StartOnHeldLeaves ==
  ASSUME IInv, copies > 0, buf.exists, Holding, Check = "ok", StartsAtOnce
  PROVE  LET b == AppendMore(buf, packet.head.id, 0, packet.head.len)
         IN  Leaves(Took(Left(b)), Handed(b))
  <1> DEFINE b == AppendMore(buf, packet.head.id, 0, packet.head.len)
  <1>0. TypeOK /\ DoneBehind /\ BufferFollowsMux
    BY DEF IInv
  <1>a. /\ buf \in Buffers /\ packet.head.id \in Nat /\ 0 \in Nat
        /\ packet.head.len \in Nat
    BY <1>0, Numbers
  <1>1. /\ b \in Buffers
        /\ b.size = least(buf.size + packet.head.len, MaxSection)
        /\ b.id = buf.id /\ b.total = buf.total /\ b.exists = buf.exists
        /\ b.pure <=> (buf.pure /\ packet.head.id = buf.id /\ 0 = buf.size)
        /\ b.zero <=> (buf.zero \/ (lost > 0 /\ packet.cc = 0))
    BY <1>a, AppendMoreFields
  <1> USE Numbers
  <1> HIDE DEF b
  <1>2. fresh /\ (lost = 0 \/ packet.cc = 0)
    BY CheckTells
  <1>b. b.exists
    BY <1>1
  <1>3. b.zero
    BY <1>0, <1>1, <1>2 DEF BufferFollowsMux, Untouched, StartsAtOnce
  <1>4. \A t \in Handed(b) : t.zero /\ t.id = buf.id /\ t.id <= mux.id /\ t.id \notin done
    BY <1>0, <1>1, <1>3 DEF Handed, Section, DoneBehind
  <1>5. CASE Full(b) \/ Hopeless(b)
    <2>1. Left(b) = Reset(b)
      BY <1>5 DEF Left
    <2>2. LET a == Took(Left(b))
          IN  a.size = 0 /\ a.pure /\ ~a.zero /\ a.exists /\ a.cc = packet.cc
      BY <1>0, <1>1, <1>b, <2>1, ResetFields, TookFields
    <2> QED
      BY <2>2, <1>4 DEF Leaves, b
  <1>6. CASE ~(Full(b) \/ Hopeless(b))
    <2>1. Left(b) = b /\ Handed(b) = {}
      BY <1>6 DEF Left, Handed
    <2>2. b.size > 0
      BY <1>0, <1>1, PsiAssumption DEF least, Holding
    <2>3. LET a == Took(Left(b))
          IN  /\ a.size = b.size /\ a.id = buf.id /\ a.zero
              /\ a.exists /\ a.cc = packet.cc
      BY <1>0, <1>1, <1>b, <1>3, <2>1, TookFields
    <2>4. buf.id <= mux.id /\ \A d \in done \cup Ids(Handed(b)) : d < buf.id
      BY <1>0, <2>1 DEF DoneBehind, Ids
    <2> QED
      BY <2>2, <2>3, <2>4, <1>4 DEF Leaves, b
  <1> QED
    BY <1>5, <1>6

(* A packet not taken yet carries a section no parser has seen.            *)
LEMMA HeadIsNew ==
  ASSUME IInv, copies > 0, packet.head.len > 0, Check = "ok" \/ ~buf.exists
  PROVE  /\ \A d \in done : d < packet.head.id
         /\ Holding => buf.id < packet.head.id
  <1>1. Check # "repeat" \/ ~buf.exists
    OBVIOUS
  <1>2. ~(buf.exists /\ buf.cc = packet.cc)
    BY <1>1, CheckTells
  <1>3. Holding => fresh
    BY <1>2, CheckTells DEF IInv, CountersTied
  <1> QED
    BY <1>2, <1>3 DEF IInv, DoneBehind

(* What the tail of a packet completes.                                    *)
LEMMA TailHands ==
  ASSUME IInv, copies > 0, buf.exists, Check = "ok", Holding, StartsBehindTail
  PROVE  LET j == AppendMore(buf, packet.tail.id, packet.tail.off, packet.tail.len)
         IN  /\ Handed(j) \in SUBSET SectionsSeen
             /\ \A t \in Handed(j) : /\ t.intact \/ t.zero
                                     /\ t.id = buf.id
                                     /\ t.id <= mux.id /\ t.id \notin done
  <1> DEFINE j == AppendMore(buf, packet.tail.id, packet.tail.off, packet.tail.len)
  <1>0. TypeOK /\ DoneBehind /\ BufferFollowsMux
    BY DEF IInv
  <1>a. /\ buf \in Buffers /\ packet.tail.id \in Nat
        /\ packet.tail.off \in Nat /\ packet.tail.len \in Nat
    BY <1>0, Numbers
  <1>1. /\ j \in Buffers
        /\ j.size = least(buf.size + packet.tail.len, MaxSection)
        /\ j.id = buf.id /\ j.total = buf.total /\ j.exists = buf.exists
        /\ j.pure <=> (buf.pure /\ packet.tail.id = buf.id
                              /\ packet.tail.off = buf.size)
        /\ j.zero <=> (buf.zero \/ (lost > 0 /\ packet.cc = 0))
    BY <1>a, AppendMoreFields
  <1> USE Numbers
  <1> HIDE DEF j
  <1>2. fresh /\ (lost = 0 \/ packet.cc = 0)
    BY CheckTells
  <1>3. j.pure \/ j.zero
    BY <1>0, <1>1, <1>2 DEF BufferFollowsMux, Untouched
  <1>4. Handed(j) \subseteq SectionsSeen
    BY <1>0, <1>1, BufferOperators
  <1>5. \A t \in Handed(j) : /\ t.intact \/ t.zero
                            /\ t.id = buf.id
                            /\ t.id <= mux.id /\ t.id \notin done
    BY <1>0, <1>1, <1>3 DEF Handed, Section, DoneBehind
  <1> QED
    BY <1>4, <1>5 DEF j

-----------------------------------------------------------------------------
(* Every step that receives is one that leaves and hands over what it may. *)
LEMMA EveryReceive ==
  ASSUME IInv, TsParsePacket
  PROVE  \E b \in Buffers, handed \in SUBSET SectionsSeen :
            Receive(b, handed) /\ Leaves(b, handed)
  <1>0. TypeOK /\ CountersTied /\ PacketFromMux
    BY DEF IInv
  <1>n. /\ buf \in Buffers /\ packet.head \in Heads /\ packet.cc \in Counters
        /\ packet.tail.id \in Nat /\ packet.tail.off \in Nat
        /\ packet.tail.len \in Nat /\ packet.head.id \in Nat
        /\ packet.head.len \in Nat /\ PayloadSize \in Nat /\ 0 \in Nat
        /\ packet.head.size \in Nat /\ MaxSection \in Nat
    BY <1>0, Numbers
  <1>c. copies > 0
    BY DEF TsParsePacket, ReceiveNoBuffer, ReceiveFirst, ReceiveRepeat,
           ReceiveGap, ReceiveIdle, ReceiveContinue, ReceiveStart, ReceiveBoth,
           Receive
  <1>e. {} \in SUBSET SectionsSeen
    OBVIOUS
  <1>1. CASE ReceiveNoBuffer
    BY <1>1, <1>n, <1>c, <1>e, KeptLeaves DEF ReceiveNoBuffer
  <1>2. CASE ReceiveFirst
    <2> DEFINE c == Created(packet.head, packet.cc)
               b == AppendHead(c, packet.head)
    <2>1. c \in Buffers /\ c.pure /\ ~c.zero /\ c.exists
      <3>1. c \in Buffers
        BY <1>n, BufferOperators
      <3>2. c = [NoBuffer EXCEPT !.exists = TRUE, !.cc = packet.cc]
        BY <1>2, <1>n DEF ReceiveFirst, Created
      <3> HIDE DEF c
      <3> QED
        BY <3>1, <3>2 DEF NoBuffer
    <2>2. \A d \in done : d < packet.head.id
      BY <1>2, <1>n, <1>c, HeadIsNew DEF ReceiveFirst, HeadUsable
    <2>3. packet.head.len > 2 /\ Receive(Took(Left(b)), Handed(b))
      BY <1>2 DEF ReceiveFirst, HeadUsable
    <2> HIDE DEF c
    <2>4. Leaves(Took(Left(b)), {} \cup Handed(b))
      BY <2>1, <2>2, <2>3, <1>c, <1>e, HeadLeaves
    <2>5. b \in Buffers
      BY <2>1, <1>n, BufferOperators
    <2> HIDE DEF b
    <2>6. {} \cup Handed(b) = Handed(b)
      OBVIOUS
    <2>7. Took(Left(b)) \in Buffers /\ Handed(b) \in SUBSET SectionsSeen
      BY <2>5, <1>0, <1>n, BufferOperators, TookFields
    <2> QED
      BY <2>3, <2>4, <2>6, <2>7
  <1>3. CASE ReceiveRepeat
    BY <1>3, <1>n, <1>c, <1>e, KeptLeaves DEF ReceiveRepeat
  <1>4. CASE ReceiveGap
    <2>1. Reset(buf) \in Buffers
      BY <1>n, ResetFields
    <2> QED
      BY <2>1, <1>4, <1>c, <1>e, GapLeaves DEF ReceiveGap
  <1>5. CASE ReceiveIdle
    BY <1>5, <1>n, <1>c, <1>e, KeptLeaves DEF ReceiveIdle
  <1>6. CASE ReceiveContinue
    <2> DEFINE b == AppendMore(buf, packet.tail.id, packet.tail.off, PayloadSize)
    <2>1. b \in Buffers
      BY <1>n, AppendMoreType
    <2>2. Receive(Took(Left(b)), Handed(b)) /\ Leaves(Took(Left(b)), Handed(b))
      BY <1>6, <1>c, MoreLeaves DEF ReceiveContinue
    <2> HIDE DEF b
    <2>3. Took(Left(b)) \in Buffers /\ Handed(b) \in SUBSET SectionsSeen
      BY <2>1, <1>0, <1>n, BufferOperators, TookFields
    <2> QED
      BY <2>2, <2>3
  <1>7. CASE ReceiveStart
    <2>1. CASE Holding
      <3> DEFINE b == AppendMore(buf, packet.head.id, 0, packet.head.len)
      <3>1. b \in Buffers
        BY <1>n, AppendMoreType
      <3>2. Receive(Took(Left(b)), Handed(b)) /\ Leaves(Took(Left(b)), Handed(b))
        BY <1>7, <2>1, <1>c, StartOnHeldLeaves DEF ReceiveStart
      <3> HIDE DEF b
      <3>3. Took(Left(b)) \in Buffers /\ Handed(b) \in SUBSET SectionsSeen
        BY <3>1, <1>0, <1>n, BufferOperators, TookFields
      <3> QED
        BY <3>2, <3>3
    <2>2. CASE ~Holding
      <3> DEFINE b == AppendHead(buf, packet.head)
      <3>1. buf.pure /\ ~buf.zero /\ buf.exists
        BY <1>7, <2>2 DEF IInv, BufferFollowsMux, ReceiveStart
      <3>2. packet.head.len > 2
        BY <1>7, <1>0, <1>c DEF PacketFromMux, ReceiveStart, StartsAtOnce
      <3>3. \A d \in done : d < packet.head.id
        BY <1>7, <1>n, <1>c, <3>2, HeadIsNew DEF ReceiveStart
      <3>4. Receive(Took(Left(b)), Handed(b))
        BY <1>7, <2>2 DEF ReceiveStart
      <3>5. Leaves(Took(Left(b)), {} \cup Handed(b))
        BY <3>1, <3>2, <3>3, <1>n, <1>c, <1>e, HeadLeaves
      <3>6. b \in Buffers
        BY <1>n, BufferOperators
      <3> HIDE DEF b
      <3>7. {} \cup Handed(b) = Handed(b)
        OBVIOUS
      <3>8. Took(Left(b)) \in Buffers /\ Handed(b) \in SUBSET SectionsSeen
        BY <3>6, <1>0, <1>n, BufferOperators, TookFields
      <3> QED
        BY <3>4, <3>5, <3>7, <3>8
    <2> QED
      BY <2>1, <2>2
  <1>8. CASE ReceiveBoth
    <2> DEFINE joined == AppendMore(buf, packet.tail.id, packet.tail.off,
                                    packet.tail.len)
               first  == IF Holding THEN Handed(joined) ELSE {}
               c      == Reset(buf)
               b      == AppendHead(c, packet.head)
               kept   == IF Holding THEN Took(c) ELSE buf
    <2>1. buf.exists /\ Check = "ok" /\ StartsBehindTail
          /\ \/ HeadUsable /\ Receive(Took(Left(b)), first \cup Handed(b))
             \/ ~HeadUsable /\ Receive(kept, first)
      BY <1>8 DEF ReceiveBoth
    <2>2. /\ first \in SUBSET SectionsSeen
          /\ \A t \in first : /\ t.intact \/ t.zero
                              /\ t.id = buf.id /\ Holding
                              /\ t.id <= mux.id /\ t.id \notin done
      BY <2>1, <1>c, TailHands
    <2>3. c \in Buffers /\ c.pure /\ ~c.zero /\ c.exists /\ c.size = 0
      BY <2>1, <1>n, ResetFields
    <2>4. b \in Buffers
      BY <2>3, <1>n, BufferOperators
    <2>5. packet.head.len > 0 =>
             /\ \A d \in done : d < packet.head.id
             /\ Holding => buf.id < packet.head.id
      BY <2>1, <1>c, HeadIsNew
    <2> HIDE DEF first, c, joined
    <2>6. CASE HeadUsable /\ Receive(Took(Left(b)), first \cup Handed(b))
      <3>1. packet.head.len > 2 /\ packet.head.len > 0
        BY <2>6, <1>n DEF HeadUsable
      <3>2. Leaves(Took(Left(b)), first \cup Handed(b))
        BY <3>1, <2>2, <2>3, <2>5, <1>c, HeadLeaves
      <3> HIDE DEF b
      <3>3. Took(Left(b)) \in Buffers /\ first \cup Handed(b) \in SUBSET SectionsSeen
        BY <2>2, <2>4, <1>0, <1>n, BufferOperators, TookFields
      <3> QED
        BY <2>6, <3>2, <3>3
    <2>7. CASE ~HeadUsable /\ Receive(kept, first)
      <3>1. kept \in Buffers /\ ~(kept.size > 0) /\ kept.pure /\ ~kept.zero
            /\ kept.exists
        <4>1. CASE Holding
          BY <4>1, <2>3, <1>0, TookFields
        <4>2. CASE ~Holding
          BY <4>2, <2>1, <1>n DEF IInv, BufferFollowsMux, Holding
        <4> QED
          BY <4>1, <4>2
      <3>2. Holding => kept.cc = packet.cc
        BY <2>3, <1>0, TookFields
      <3>3. ~Holding => first = {}
        BY <2>2
      <3>4. ~Holding /\ packet.head.len > 0 =>
              \A d \in done \cup Ids(first) : d < packet.head.id
        BY <3>3, <2>5 DEF Ids
      <3> HIDE DEF kept
      <3>5. Leaves(kept, first)
        BY <3>1, <3>2, <3>4, <2>2 DEF Leaves
      <3> QED
        BY <2>2, <2>7, <3>1, <3>5
    <2> QED
      BY <2>1, <2>6, <2>7
  <1> QED
    BY <1>1, <1>2, <1>3, <1>4, <1>5, <1>6, <1>7, <1>8 DEF TsParsePacket

LEMMA ReceivePreserves ==
  ASSUME IInv, NEW b \in Buffers, NEW handed \in SUBSET SectionsSeen,
         Receive(b, handed), Leaves(b, handed), TypeOK'
  PROVE  IInv' /\ \A s \in parsed' : s.id \notin done
  <1>0. TypeOK /\ CountersTied /\ PacketFromMux /\ DoneBehind
    BY DEF IInv
  <1>1. TypeOK'
    OBVIOUS
  <1>2. /\ copies > 0 /\ copies' = copies - 1 /\ copies' \in Nat /\ copies \in Nat
        /\ fresh' = FALSE /\ lost' = 0 /\ heard' = packet.cc
        /\ buf' = b /\ parsed' = handed /\ done' = done \cup Ids(handed)
        /\ mux' = mux /\ packet' = packet
    BY <1>0, <1>1, Numbers DEF Receive, Ids, TypeOK
  <1>3. CountersTied'
    <2>1. packet.cc = CcAfter(packet.cc, 0)
      BY <1>0, Numbers, CcDistinguishes, CcModulusAssumption
    <2> QED
      BY <1>2, <2>1 DEF CountersTied, Ahead, Leaves, Holding
  <1>4. PacketFromMux'
    BY <1>0, <1>2 DEF PacketFromMux
  <1>5. BufferFollowsMux'
    BY <1>2 DEF BufferFollowsMux, Leaves, Holding, Untouched
  <1>6. DoneBehind'
    <2>1. \A d \in done' : d <= mux.id
      BY <1>0, <1>2 DEF DoneBehind, Leaves, Ids
    <2> QED
      BY <2>1, <1>2 DEF DoneBehind, Leaves, Holding
  <1>7. SplicedOnlyAtZero' /\ \A s \in parsed' : s.id \notin done
    BY <1>2 DEF SplicedOnlyAtZero, Leaves
  <1> QED
    BY <1>1, <1>3, <1>4, <1>5, <1>6, <1>7 DEF IInv

(* A packet that leaves, whatever the channel does to it.                  *)
LEMMA EmitCounters ==
  ASSUME TypeOK, CountersTied, NEW pusi, NEW tail, NEW head,
         Emit(pusi, tail, head)
  PROVE  CountersTied'
  <1> USE Numbers, PsiAssumption, CcModulusAssumption
  <1>1. /\ copies = 0 /\ fresh' = TRUE /\ heard' = heard /\ buf' = buf
        /\ packet'.cc = NextCc(packet.cc)
        /\ \/ copies' > 0 /\ lost' = lost
           \/ copies' = 0 /\ lost' = lost + 1 /\ lost < MaxLoss
    BY DEF Emit
  <1>2. Ahead = lost /\ Ahead' = lost + 1
    BY <1>1 DEF Ahead, CountersTied
  <1>3. heard # NoCounter => packet'.cc = CcAfter(heard, lost + 1)
    <2>1. SUFFICES ASSUME heard # NoCounter PROVE packet'.cc = CcAfter(heard, lost + 1)
      OBVIOUS
    <2>2. heard \in Counters /\ lost < CcModulus - 1
      BY <2>1 DEF TypeOK
    <2> QED
      BY <2>1, <2>2, <1>1, <1>2, CcSucc DEF CountersTied
  <1> QED
    BY <1>1, <1>2, <1>3 DEF CountersTied, Holding

LEMMA SendPreserves == IInv /\ Send => IInv'
  <1> SUFFICES ASSUME IInv, Send PROVE IInv'
    OBVIOUS
  <1> USE Numbers, MuxNumbers
  <1>0. TypeOK /\ CountersTied /\ PacketFromMux /\ DoneBehind /\ BufferFollowsMux
    BY DEF IInv
  <1>1. TypeOK'
    BY <1>0, TypePreserved DEF Next
  <1>2. PICK pusi, tail, head : Emit(pusi, tail, head)
    BY DEF Send, SendContinue, SendStart, SendPadded
  <1>3. /\ copies = 0 /\ fresh' = TRUE /\ buf' = buf /\ done' = done
        /\ parsed' = {}
        /\ \/ copies' > 0 /\ lost' = lost
           \/ copies' = 0 /\ lost' > 0
    <2>1. /\ copies = 0 /\ fresh' = TRUE /\ buf' = buf /\ done' = done
          /\ parsed' = {}
          /\ \/ copies' > 0 /\ lost' = lost
             \/ copies' = 0 /\ lost' = lost + 1
      BY <1>2 DEF Emit
    <2> QED
      BY <1>0, <2>1
  <1>4. CountersTied'
    BY <1>0, <1>2, EmitCounters
  <1>5. SplicedOnlyAtZero'
    BY <1>3 DEF SplicedOnlyAtZero
  <1>6. Untouched' <=> Untouched
    BY <1>3 DEF Untouched, Holding
  <1>7. Untouched /\ lost = 0 =>
          /\ buf.pure /\ buf.size < buf.total
          /\ mux.id = buf.id /\ mux.off = buf.size /\ mux.size = buf.total
          /\ Sending
    BY <1>0, <1>3 DEF BufferFollowsMux, Sending
  <1>8. \A d \in done : d <= mux.id /\ d \in Nat
    BY <1>0 DEF DoneBehind, TypeOK
  <1>9. Holding => buf.id <= mux.id
    BY <1>0 DEF DoneBehind
  <1>10. CASE SendContinue
    <2> DEFINE n == least(mux.size - mux.off, PayloadSize)
    <2>1. packet'.pusi = FALSE /\ packet'.head.len = 0 /\ packet'.tail.id = mux.id
          /\ packet'.tail.off = mux.off /\ packet'.tail.len = n
          /\ packet'.head.size = 0
      BY <1>10 DEF SendContinue, Emit, Pending, NoHead
    <2>2. n > 0 /\ n \in Nat /\ n <= PayloadSize /\ mux.off + n <= mux.size
          /\ (n < PayloadSize => mux.off + n = mux.size)
      BY <1>0, <1>10, PsiAssumption DEF SendContinue, Sending, least
    <2>3. mux'.id = mux.id /\ mux'.off = mux.off + n /\ mux'.size = mux.size
      BY <1>0, <1>10, <2>2 DEF SendContinue
    <2> HIDE DEF n
    <2>4. PacketFromMux'
      BY <1>0, <2>1, <2>2, <2>3 DEF PacketFromMux
    <2>5. BufferFollowsMux'
      BY <1>0, <1>3, <1>6, <1>7, <2>1, <2>2, <2>3
         DEF BufferFollowsMux, Untouched, Holding
    <2>6. DoneBehind'
      BY <1>0, <1>3, <2>1, <2>3 DEF DoneBehind, Holding
    <2> QED
      BY <1>1, <1>4, <1>5, <2>4, <2>5, <2>6 DEF IInv
  <1>11. ASSUME NEW size \in SectionSizes, NEW third \in SectionSizes \cup {0},
                SendStart(size, third)
         PROVE  IInv'
    <2> DEFINE room == PayloadSize - 1 - CurrentTail.len
               n    == least(size, room)
    <2>1. /\ packet'.pusi = TRUE /\ packet'.tail = CurrentTail
          /\ packet'.head.id = mux.id + 1
          /\ packet'.head.len = n /\ packet'.head.size = size
      BY <1>11 DEF SendStart, Emit
    <2>2. CurrentTail.id <= mux.id /\ CurrentTail.len \in Nat
          /\ (Sending => CurrentTail = Pending /\ Pending.len > 0)
      BY <1>0 DEF CurrentTail, NoTail, Pending, Sending
    <2>3. size \in Nat /\ size > 3 /\ room > 0 /\ room \in Int
          /\ (CurrentTail.len = 0 => room > 3)
      BY <1>0, <1>11, <2>2, SizesAreNumbers, PsiAssumption DEF SendStart
    <2>4. n > 0 /\ n \in Nat /\ n <= size /\ (CurrentTail.len = 0 => n > 2)
          /\ (room - n > 0 => n = size)
      BY <2>3 DEF least
    <2>5. \/ mux'.id = mux.id + 1 /\ mux'.off = n /\ mux'.size = size
          \/ mux'.id = mux.id + 2 /\ n = size
      BY <1>11, <2>4 DEF SendStart
    <2> HIDE DEF n
    <2>9. CurrentTail.id \in Nat /\ mux'.id \in Nat
          /\ mux.id <= mux'.id /\ mux.id + 1 <= mux'.id
      BY <1>0, <2>5 DEF CurrentTail, NoTail, Pending
    <2>10. /\ packet'.pusi
           /\ packet'.tail.id <= mux'.id
           /\ packet'.head.id <= mux'.id
           /\ packet'.head.len <= packet'.head.size
           /\ packet'.tail.len = 0 => packet'.head.len > 2
      BY <1>0, <2>1, <2>2, <2>4, <2>9
    <2>11. \/ mux'.id = packet'.head.id /\ mux'.off = packet'.head.len
              /\ mux'.size = packet'.head.size
           \/ packet'.head.len = packet'.head.size /\ packet'.head.id < mux'.id
      BY <1>0, <2>1, <2>5
    <2>6. PacketFromMux'
      BY <2>10, <2>11 DEF PacketFromMux
    <2>7. BufferFollowsMux'
      <3>1. Untouched /\ lost = 0 =>
              /\ packet'.tail.id = buf.id /\ packet'.tail.off = buf.size
              /\ packet'.tail.len > 0
              /\ packet'.tail.off + packet'.tail.len = buf.total
        BY <1>0, <1>7, <2>1, <2>2 DEF Pending
      <3> QED
        BY <1>0, <1>3, <1>6, <1>7, <2>1, <3>1
           DEF BufferFollowsMux, Untouched, Holding
    <2>8. DoneBehind'
      BY <1>0, <1>3, <1>8, <1>9, <2>1, <2>5 DEF DoneBehind, Holding
    <2> QED
      BY <1>1, <1>4, <1>5, <2>6, <2>7, <2>8 DEF IInv
  <1>12. CASE SendPadded
    <2>1. packet'.pusi = TRUE /\ packet'.head.len = 0 /\ packet'.tail = Pending
          /\ packet'.head.size = 0
      BY <1>12 DEF SendPadded, Emit, NoHead
    <2>2. Pending.id = mux.id /\ Pending.len > 0 /\ Pending.off = mux.off
          /\ Pending.off + Pending.len = mux.size
      BY <1>0, <1>12 DEF SendPadded, Pending, Sending
    <2>3. mux'.id = mux.id /\ mux'.size = mux.size
      BY <1>0, <1>12 DEF SendPadded
    <2>7. packet'.tail.id <= mux'.id /\ packet'.tail.len > 0
      BY <1>0, <2>1, <2>2, <2>3
    <2>8. /\ packet'.pusi /\ ~(packet'.head.len > 0)
          /\ packet'.head.len <= packet'.head.size
          /\ ~(packet'.tail.len = 0)
      BY <2>1, <2>7
    <2>4. PacketFromMux'
      BY <2>7, <2>8 DEF PacketFromMux
    <2>5. BufferFollowsMux'
      BY <1>0, <1>3, <1>6, <1>7, <2>1, <2>2, <2>3
         DEF BufferFollowsMux, Untouched, Holding
    <2>6. DoneBehind'
      BY <1>0, <1>3, <2>1, <2>3 DEF DoneBehind, Holding
    <2> QED
      BY <1>1, <1>4, <1>5, <2>4, <2>5, <2>6 DEF IInv
  <1> QED
    BY <1>10, <1>11, <1>12 DEF Send

LEMMA InvariantInitially == Init => IInv
  <1> SUFFICES ASSUME Init PROVE IInv
    OBVIOUS
  <1>1. TypeOK
    BY TypeInitially
  <1>2. CountersTied /\ PacketFromMux
    BY DEF Init, CountersTied, PacketFromMux, Holding, NoBuffer
  <1>3. BufferFollowsMux
    BY DEF Init, BufferFollowsMux, Untouched, Holding, NoBuffer
  <1>4. DoneBehind /\ SplicedOnlyAtZero
    BY DEF Init, DoneBehind, Holding, NoBuffer, SplicedOnlyAtZero
  <1> QED
    BY <1>1, <1>2, <1>3, <1>4 DEF IInv

LEMMA InvariantPreserved == IInv /\ [Next]_vars => IInv'
  <1> SUFFICES ASSUME IInv, [Next]_vars PROVE IInv'
    OBVIOUS
  <1>0. TypeOK'
    BY TypePreserved DEF IInv
  <1>1. CASE Send
    BY <1>1, SendPreserves
  <1>2. CASE TsParsePacket
    BY <1>2, <1>0, EveryReceive, ReceivePreserves
  <1>3. CASE UNCHANGED vars
    BY <1>3 DEF vars, IInv, TypeOK, Unfinished, CountersTied, Ahead, PacketFromMux,
       BufferFollowsMux, Untouched, Holding, DoneBehind, SplicedOnlyAtZero
  <1> QED
    BY <1>1, <1>2, <1>3 DEF Next

(* No parser is ever given bytes of two transmissions as one section,      *)
(* unless a packet with counter 0 followed a loss (ts.c:178).              *)
THEOREM NoSplice == Spec => []SplicedOnlyAtZero
  <1>1. IInv => SplicedOnlyAtZero
    BY DEF IInv
  <1> QED
    BY <1>1, InvariantInitially, InvariantPreserved, PTL DEF Spec

(* No transmission of a section is handed to a parser twice, however the   *)
(* channel repeats packets.                                                *)
THEOREM HandedOnce == Spec => ParsedOnce
  <1>1. IInv /\ [Next]_vars => [\A s \in parsed' : s.id \notin done]_vars
    <2> SUFFICES ASSUME IInv, Next PROVE \A s \in parsed' : s.id \notin done
      OBVIOUS
    <2>0. TypeOK'
      BY TypePreserved DEF IInv
    <2>1. CASE Send
      BY <2>1 DEF Send, SendContinue, SendStart, SendPadded, Emit
    <2>2. CASE TsParsePacket
      BY <2>2, <2>0, EveryReceive, ReceivePreserves
    <2> QED
      BY <2>1, <2>2 DEF Next
  <1> QED
    BY <1>1, InvariantInitially, InvariantPreserved, PTL DEF Spec, ParsedOnce
-----------------------------------------------------------------------------
(* A section received in step from its beginning on.                       *)

WholeGoesOn ==
  IF copies > 0 /\ fresh THEN packet.tail.len > 0 /\ packet.tail.id = whole
  ELSE Sending /\ mux.id = whole

(* While it is in transmission and nothing is lost the buffer holds it: no *)
(* counter 0 got into it, and it is no section above the hard limit.       *)
WholeIsHeld ==
  /\ Sending => mux.id > 0
  /\ packet.tail.len > 0 => packet.tail.id > 0
  /\ copies > 0 /\ packet.pusi /\ packet.head.len = 0 => ~Sending
  /\ whole # 0 => ~buf.zero
  /\ whole # 0 /\ lost = 0 /\ WholeGoesOn =>
       Holding /\ buf.id = whole /\ buf.total <= MaxSection

LEMMA WholeSend == IInv /\ WholeIsHeld /\ Send => WholeIsHeld'
  <1> SUFFICES ASSUME IInv, WholeIsHeld, Send PROVE WholeIsHeld'
    OBVIOUS
  <1> USE Numbers, MuxNumbers
  <1>0. TypeOK
    BY DEF IInv
  <1>1. PICK pusi, tail, head : Emit(pusi, tail, head)
    BY DEF Send, SendContinue, SendStart, SendPadded
  <1>2. /\ copies = 0 /\ fresh' = TRUE /\ buf' = buf /\ whole' = whole
        /\ lost' = 0 => lost = 0 /\ copies' > 0
    BY <1>0, <1>1 DEF Emit
  <1>3. /\ packet'.tail.len > 0 => /\ packet'.tail.id = mux.id
                                   /\ packet'.tail.id > 0 /\ Sending
        /\ packet'.pusi /\ packet'.head.len = 0 => ~Sending'
        /\ Sending' => mux'.id > 0
    <2>1. CASE SendContinue
      <3>1. /\ packet'.tail.id = mux.id /\ packet'.pusi = FALSE /\ Sending
            /\ mux'.id = mux.id
        BY <1>0, <2>1 DEF SendContinue, Emit, Pending
      <3> QED
        BY <3>1 DEF WholeIsHeld
    <2>2. ASSUME NEW size \in SectionSizes, NEW third \in SectionSizes \cup {0},
                 SendStart(size, third)
          PROVE  /\ packet'.tail.len > 0 => /\ packet'.tail.id = mux.id
                                            /\ packet'.tail.id > 0 /\ Sending
                 /\ packet'.pusi /\ packet'.head.len = 0 => ~Sending'
                 /\ Sending' => mux'.id > 0
      <3> DEFINE room == PayloadSize - 1 - CurrentTail.len
                 n    == least(size, room)
      <3>1. packet'.tail = CurrentTail /\ packet'.head.len = n
        BY <2>2 DEF SendStart, Emit
      <3>2. CurrentTail.len \in Int
        BY <1>0 DEF CurrentTail, Pending, NoTail
      <3>3. n > 0
        BY <2>2, <3>2, SizesAreNumbers, PsiAssumption DEF SendStart, least
      <3>4. mux'.id > 0
        BY <1>0, <2>2 DEF SendStart
      <3>5. packet'.tail.len > 0 => packet'.tail.id = mux.id /\ Sending
        BY <3>1 DEF CurrentTail, Pending, NoTail
      <3> HIDE DEF n
      <3> QED
        BY <3>1, <3>3, <3>4, <3>5 DEF WholeIsHeld
    <2>3. CASE SendPadded
      <3>1. /\ packet'.tail.id = mux.id /\ Sending
            /\ mux'.off = mux'.size /\ mux'.size = mux.size
        BY <1>0, <2>3 DEF SendPadded, Emit, Pending
      <3>2. ~Sending'
        BY <1>0, <3>1 DEF Sending
      <3> QED
        BY <3>1, <3>2 DEF WholeIsHeld
    <2> QED
      BY <2>1, <2>2, <2>3 DEF Send
  <1>4. whole' # 0 /\ lost' = 0 /\ WholeGoesOn' => WholeGoesOn /\ lost = 0
    BY <1>2, <1>3 DEF WholeGoesOn
  <1> QED
    BY <1>2, <1>3, <1>4 DEF WholeIsHeld, Holding

(* What a packet that is received does to that section, as far as it goes  *)
(* on: b is the buffer afterwards.                                         *)
Holds(b) ==
  /\ StillWhole # 0 => ~b.zero
  /\ StillWhole # 0 /\ Sending /\ mux.id = StillWhole =>
       b.size > 0 /\ b.id = StillWhole /\ b.total <= MaxSection

LEMMA WholeReceive ==
  ASSUME IInv, WholeIsHeld, NEW b, NEW handed, Receive(b, handed), Holds(b)
  PROVE  WholeIsHeld'
  <1>1. /\ copies > 0 /\ fresh' = FALSE /\ buf' = b /\ whole' = StillWhole
        /\ mux' = mux /\ packet' = packet
    BY DEF Receive
  <1> QED
    BY <1>1 DEF WholeIsHeld, WholeGoesOn, Holds, Holding, Sending

(* The section goes on, and was received so far.                           *)
LEMMA WholeOnArrival ==
  ASSUME IInv, WholeIsHeld, copies > 0, ~BeginsInStep, StillWhole # 0
  PROVE  /\ lost = 0 /\ whole = StillWhole /\ whole # 0 /\ ~buf.zero
         /\ Sending /\ mux.id = whole =>
              /\ Untouched /\ buf.exists /\ buf.id = whole
              /\ buf.total <= MaxSection
              /\ fresh => /\ ~packet.pusi
                          /\ packet.tail.len = PayloadSize
                          /\ buf.size + PayloadSize = mux.off
                          /\ mux.size = buf.total
  <1> USE Numbers, MuxNumbers
  <1>0. TypeOK /\ PacketFromMux /\ BufferFollowsMux /\ CountersTied
    BY DEF IInv
  <1>1. /\ lost = 0 /\ whole = StillWhole /\ whole # 0
        /\ ~(fresh /\ packet.head.len > 0)
    BY <1>0 DEF StillWhole
  <1>2. ~buf.zero
    BY <1>1 DEF WholeIsHeld
  <1>3. ASSUME Sending, mux.id = whole
        PROVE  /\ Untouched /\ buf.exists /\ buf.id = whole
               /\ buf.total <= MaxSection
               /\ fresh => /\ ~packet.pusi
                           /\ packet.tail.len = PayloadSize
                           /\ buf.size + PayloadSize = mux.off
                           /\ mux.size = buf.total
    <2>1. fresh => ~packet.pusi
      BY <1>0, <1>1, <1>3 DEF WholeIsHeld
    <2>2. fresh => /\ packet.tail.len > 0 /\ packet.tail.id = whole
                   /\ packet.tail.off + packet.tail.len = mux.off
                   /\ ~(packet.tail.len < PayloadSize)
      BY <1>0, <1>3, <2>1 DEF PacketFromMux, Sending
    <2>3. WholeGoesOn
      BY <1>3, <2>2 DEF WholeGoesOn
    <2>4. Holding /\ buf.id = whole /\ buf.total <= MaxSection
      BY <1>1, <2>3 DEF WholeIsHeld
    <2>5. Untouched /\ buf.exists
      BY <1>0, <1>2, <2>4 DEF Untouched, CountersTied
    <2>6. fresh => packet.tail.off = buf.size /\ mux.size = buf.total
      BY <1>0, <1>1, <2>1, <2>5 DEF BufferFollowsMux
    <2> QED
      BY <1>0, <2>1, <2>2, <2>4, <2>5, <2>6
  <1> QED
    BY <1>1, <1>2, <1>3

(* A section that begins in step finds the buffer empty, or is behind the  *)
(* end of the one it holds; its counter is the one expected.               *)
LEMMA BeginsWhere ==
  ASSUME IInv, copies > 0, BeginsInStep
  PROVE  /\ packet.pusi /\ HeadUsable /\ StillWhole = packet.head.id
         /\ packet.head.size <= MaxSection
         /\ buf.exists => /\ Check = "ok" /\ lost = 0 /\ ~buf.zero
                          /\ StartsAtOnce => ~Holding
  <1> USE Numbers, CcModulusAssumption, PsiAssumption
  <1>0. TypeOK /\ PacketFromMux /\ BufferFollowsMux /\ CountersTied
    BY DEF IInv
  <1>1. /\ packet.head.len > 2 /\ packet.head.size <= MaxSection /\ fresh
        /\ buf.exists => lost = 0 /\ buf.cc = heard /\ ~buf.zero
    BY DEF BeginsInStep, InStep
  <1>2. packet.pusi
    BY <1>0, <1>1 DEF PacketFromMux
  <1>3. ASSUME buf.exists PROVE Check = "ok"
    <2>1. heard # NoCounter /\ packet.cc = CcAfter(buf.cc, 1)
      BY <1>0, <1>1, <1>3 DEF CountersTied, Ahead, NoCounter, Counters
    <2>2. CcAfter(buf.cc, 1) # buf.cc /\ ~IsGap(buf.cc, CcAfter(buf.cc, 1))
      BY <1>0, NextIsOk
    <2> QED
      BY <2>1, <2>2 DEF Check, Verdict
  <1>4. buf.exists /\ StartsAtOnce => ~Holding
    BY <1>0, <1>1 DEF BufferFollowsMux, Untouched, StartsAtOnce
  <1> QED
    BY <1>1, <1>2, <1>3, <1>4 DEF HeadUsable, StillWhole

(* It is then handed over at once or held.                                 *)
LEMMA BeginsHolds ==
  ASSUME IInv, copies > 0, BeginsInStep, NEW c \in Buffers, ~c.zero
  PROVE  Holds(Took(Left(AppendHead(c, packet.head))))
  <1> DEFINE b == AppendHead(c, packet.head)
  <1> USE Numbers, MuxNumbers
  <1>0. TypeOK /\ PacketFromMux
    BY DEF IInv
  <1>1. /\ b \in Buffers /\ b.size = packet.head.len
        /\ b.id = packet.head.id /\ b.total = packet.head.size /\ ~b.zero
    BY <1>0, AppendHeadFields
  <1> HIDE DEF b
  <1>2. /\ StillWhole = packet.head.id /\ packet.head.len > 2
        /\ packet.head.size <= MaxSection
    BY BeginsWhere DEF HeadUsable
  <1>3. Left(b) \in Buffers /\ ~Left(b).zero
    BY <1>1, ResetFields DEF Left
  <1>4. ASSUME Sending, mux.id = packet.head.id PROVE Left(b) = b
    <2>1. packet.head.len < packet.head.size
      BY <1>0, <1>2, <1>4 DEF PacketFromMux, Sending
    <2> QED
      BY <1>0, <1>1, <1>2, <2>1 DEF Left, Full, Hopeless
  <1>5. LET a == Took(Left(b))
        IN  /\ ~a.zero /\ a.size = Left(b).size /\ a.id = Left(b).id
            /\ a.total = Left(b).total
    BY <1>0, <1>3, TookFields
  <1>6. Holds(Took(Left(b)))
    BY <1>0, <1>1, <1>2, <1>4, <1>5 DEF Holds
  <1> QED
    BY <1>6 DEF b
(* What is neither touched nor joined.                                     *)
LEMMA KeptHolds ==
  ASSUME IInv, WholeIsHeld, copies > 0,
         \/ ReceiveNoBuffer
         \/ ReceiveRepeat
         \/ ReceiveIdle
  PROVE  Holds(buf)
  <1>0. TypeOK /\ BufferFollowsMux /\ PacketFromMux
    BY DEF IInv
  <1>1. ~BeginsInStep
    BY <1>0, BeginsWhere, Numbers
       DEF ReceiveNoBuffer, ReceiveRepeat, ReceiveIdle
  <1> QED
    BY <1>1, WholeOnArrival DEF Holds, Untouched, Holding

LEMMA GapHolds ==
  ASSUME IInv, WholeIsHeld, ReceiveGap
  PROVE  Holds(Reset(buf))
  <1>0. TypeOK /\ copies > 0 /\ Check = "gap" /\ buf.exists
    BY DEF IInv, ReceiveGap, Receive
  <1>1. ~BeginsInStep
    BY <1>0, BeginsWhere
  <1>2. Holding /\ fresh
    BY <1>0, CheckTells
  <1>3. ~Reset(buf).zero
    BY <1>0, Numbers, ResetFields
  <1>4. ASSUME StillWhole # 0, Sending, mux.id = StillWhole PROVE FALSE
    <2>1. lost = 0
      BY <1>0, <1>1, <1>4, WholeOnArrival
    <2>2. packet.cc = CcAfter(buf.cc, 1)
      BY <1>0, <1>2, <2>1, Numbers DEF IInv, CountersTied, Ahead, NoCounter, Counters
    <2>3. ~IsGap(buf.cc, packet.cc)
      BY <1>0, <2>2, Numbers, NextIsOk
    <2> QED
      BY <1>0, <2>3 DEF Check, Verdict
  <1> QED
    BY <1>3, <1>4 DEF Holds

(* The next bytes of it complete it, or the buffer goes on to hold it.     *)
LEMMA ContinueHolds ==
  ASSUME IInv, WholeIsHeld, ReceiveContinue
  PROVE  LET b == AppendMore(buf, packet.tail.id, packet.tail.off, PayloadSize)
         IN  Holds(Took(Left(b)))
  <1> DEFINE b == AppendMore(buf, packet.tail.id, packet.tail.off, PayloadSize)
  <1> USE Numbers, MuxNumbers, PsiAssumption
  <1>0. /\ TypeOK /\ copies > 0 /\ buf.exists /\ Check = "ok" /\ Holding
        /\ ~packet.pusi
    BY DEF IInv, ReceiveContinue, Receive
  <1>1. /\ b \in Buffers /\ b.id = buf.id /\ b.total = buf.total
        /\ b.size = least(buf.size + PayloadSize, MaxSection)
        /\ b.zero <=> (buf.zero \/ (lost > 0 /\ packet.cc = 0))
    BY <1>0, AppendMoreFields
  <1> HIDE DEF b
  <1>2. ~BeginsInStep /\ fresh
    BY <1>0, BeginsWhere, CheckTells
  <1>3. LET a == Took(Left(b))
        IN  /\ a.zero = Left(b).zero /\ a.size = Left(b).size
            /\ a.id = Left(b).id /\ a.total = Left(b).total
    BY <1>0, <1>1, BufferOperators, TookFields
  <1>4. StillWhole # 0 => ~Left(b).zero
    BY <1>0, <1>1, <1>2, WholeOnArrival, ResetFields DEF Left
  <1>5. ASSUME StillWhole # 0, Sending, mux.id = StillWhole
        PROVE  /\ Left(b) = b /\ b.size > 0 /\ b.id = StillWhole
               /\ b.total <= MaxSection
    <2>1. /\ whole = StillWhole /\ buf.id = whole /\ buf.total <= MaxSection
          /\ buf.size + PayloadSize = mux.off /\ mux.size = buf.total
      BY <1>0, <1>2, <1>5, WholeOnArrival
    <2>2. mux.off < mux.size
      BY <1>5 DEF Sending
    <2>3. b.size = mux.off /\ b.size > 0 /\ b.size < b.total
      BY <1>0, <1>1, <2>1, <2>2 DEF least
    <2>4. Left(b) = b
      BY <1>0, <1>1, <2>1, <2>3 DEF Left, Full, Hopeless
    <2> QED
      BY <1>1, <2>1, <2>3, <2>4
  <1>6. Holds(Took(Left(b)))
    BY <1>3, <1>4, <1>5 DEF Holds
  <1> QED
    BY <1>6 DEF b

(* A section that begins where another is held: a loss brought it there.   *)
LEMMA StartHolds ==
  ASSUME IInv, WholeIsHeld, ReceiveStart
  PROVE  LET b == IF Holding
                  THEN AppendMore(buf, packet.head.id, 0, packet.head.len)
                  ELSE AppendHead(buf, packet.head)
         IN  Holds(Took(Left(b)))
  <1> USE Numbers, MuxNumbers
  <1>0. /\ TypeOK /\ copies > 0 /\ buf.exists /\ Check = "ok"
        /\ packet.pusi /\ packet.tail.len = 0 /\ PacketFromMux
    BY DEF IInv, ReceiveStart, Receive, StartsAtOnce
  <1>1. packet.head.len > 2
    BY <1>0 DEF PacketFromMux
  <1>2. CASE Holding
    <2> DEFINE b == AppendMore(buf, packet.head.id, 0, packet.head.len)
    <2>1. fresh /\ ~BeginsInStep
      BY <1>0, <1>2, BeginsWhere, CheckTells DEF StartsAtOnce
    <2>2. StillWhole = 0
      BY <1>0, <1>1, <2>1 DEF StillWhole
    <2> QED
      BY <1>2, <2>2 DEF Holds
  <1>3. CASE ~Holding
    <2>1. ~buf.zero
      BY <1>3 DEF IInv, BufferFollowsMux
    <2>2. CASE BeginsInStep
      BY <1>0, <1>3, <2>1, <2>2, BeginsHolds
    <2>3. CASE ~BeginsInStep
      <3> DEFINE b == AppendHead(buf, packet.head)
      <3>1. b \in Buffers /\ ~b.zero
        BY <1>0, <2>1, AppendHeadFields
      <3> HIDE DEF b
      <3>2. ~Took(Left(b)).zero
        BY <1>0, <3>1, BufferOperators, ResetFields, TookFields DEF Left
      <3>3. ~(StillWhole # 0 /\ Sending /\ mux.id = StillWhole)
        BY <1>0, <1>3, <2>3, WholeOnArrival DEF Untouched
      <3>4. Holds(Took(Left(b)))
        BY <3>2, <3>3 DEF Holds
      <3> QED
        BY <1>3, <3>4 DEF b
    <2> QED
      BY <2>2, <2>3
  <1> QED
    BY <1>2, <1>3

(* The tail was the end of what was held; a section may begin behind it.   *)
LEMMA BothHolds ==
  ASSUME IInv, WholeIsHeld, ReceiveBoth
  PROVE  Holds(buf')
  <1> DEFINE b == AppendHead(Reset(buf), packet.head)
  <1> USE Numbers, MuxNumbers
  <1>0. /\ TypeOK /\ copies > 0 /\ buf.exists /\ Check = "ok"
        /\ packet.pusi /\ PacketFromMux
        /\ \/ HeadUsable /\ buf' = Took(Left(b))
           \/ ~HeadUsable /\ buf' = IF Holding THEN Took(Reset(buf)) ELSE buf
    BY DEF IInv, ReceiveBoth, Receive, StartsBehindTail
  <1>1. Reset(buf) \in Buffers /\ ~Reset(buf).zero
    BY <1>0, ResetFields
  <1>2. CASE BeginsInStep
    <2>1. HeadUsable
      BY <1>0, <1>2, BeginsWhere
    <2> QED
      BY <1>0, <1>1, <1>2, <2>1, BeginsHolds
  <1>3. CASE ~BeginsInStep
    <2>1. ~(StillWhole # 0 /\ Sending /\ mux.id = StillWhole)
      <3>1. SUFFICES ASSUME StillWhole # 0, Sending, mux.id = StillWhole
                     PROVE  FALSE
        OBVIOUS
      <3>2. Untouched /\ ~fresh
        BY <1>0, <1>3, <3>1, WholeOnArrival
      <3> QED
        BY <1>0, <3>2, CheckTells DEF Untouched
    <2>2. ~buf'.zero
      <3>1. b \in Buffers /\ ~b.zero
        BY <1>0, <1>1, AppendHeadFields
      <3> HIDE DEF b
      <3>2. ~Took(Left(b)).zero
        BY <1>0, <3>1, BufferOperators, ResetFields, TookFields DEF Left
      <3>3. ~Took(Reset(buf)).zero
        BY <1>0, <1>1, TookFields
      <3>4. ~Holding => ~buf.zero
        BY DEF IInv, BufferFollowsMux
      <3> QED
        BY <1>0, <3>2, <3>3, <3>4
    <2> QED
      BY <2>1, <2>2 DEF Holds
  <1> QED
    BY <1>2, <1>3

LEMMA FirstHolds ==
  ASSUME IInv, WholeIsHeld, ReceiveFirst
  PROVE  Holds(buf')
  <1> DEFINE c == Created(packet.head, packet.cc)
  <1> USE Numbers, MuxNumbers
  <1>0. /\ TypeOK /\ copies > 0 /\ ~buf.exists /\ HeadUsable
        /\ packet.head.size <= MaxSection
        /\ buf' = Took(Left(AppendHead(c, packet.head)))
    BY DEF IInv, ReceiveFirst, Receive
  <1>1. c \in Buffers /\ ~c.zero
    <2>1. c \in Buffers
      BY <1>0, BufferOperators
    <2>2. c = [NoBuffer EXCEPT !.exists = TRUE, !.cc = packet.cc]
      BY <1>0 DEF Created
    <2> HIDE DEF c
    <2> QED
      BY <2>1, <2>2 DEF NoBuffer
  <1> HIDE DEF c
  <1>2. CASE BeginsInStep
    BY <1>0, <1>1, <1>2, BeginsHolds
  <1>3. CASE ~BeginsInStep
    <2> DEFINE b == AppendHead(c, packet.head)
    <2>1. b \in Buffers /\ ~b.zero
      BY <1>0, <1>1, AppendHeadFields
    <2>2. buf' = Took(Left(b))
      BY <1>0
    <2> HIDE DEF b
    <2>3. ~buf'.zero
      BY <1>0, <2>1, <2>2, BufferOperators, ResetFields, TookFields DEF Left
    <2>4. ~(StillWhole # 0 /\ Sending /\ mux.id = StillWhole)
      BY <1>0, <1>3, WholeOnArrival
    <2> QED
      BY <2>3, <2>4 DEF Holds
  <1> QED
    BY <1>2, <1>3

LEMMA WholePreserved == IInv /\ WholeIsHeld /\ [Next]_vars => WholeIsHeld'
  <1> SUFFICES ASSUME IInv, WholeIsHeld, [Next]_vars PROVE WholeIsHeld'
    OBVIOUS
  <1>1. CASE Send
    BY <1>1, WholeSend
  <1>2. CASE TsParsePacket
    <2>0. PICK b, handed : Receive(b, handed)
      BY <1>2 DEF TsParsePacket, ReceiveNoBuffer, ReceiveFirst, ReceiveRepeat,
                  ReceiveGap, ReceiveIdle, ReceiveContinue, ReceiveStart,
                  ReceiveBoth
    <2>1. copies > 0 /\ buf' = b
      BY <2>0 DEF Receive
    <2>2. Holds(buf')
      <3>1. CASE ReceiveNoBuffer \/ ReceiveRepeat \/ ReceiveIdle
        <4>1. buf' = buf
          BY <3>1 DEF ReceiveNoBuffer, ReceiveRepeat, ReceiveIdle, Receive
        <4> QED
          BY <2>1, <3>1, <4>1, KeptHolds
      <3>2. CASE ReceiveFirst
        BY <3>2, FirstHolds
      <3>3. CASE ReceiveGap
        BY <3>3, GapHolds DEF ReceiveGap, Receive
      <3>4. CASE ReceiveContinue
        BY <3>4, ContinueHolds DEF ReceiveContinue, Receive
      <3>5. CASE ReceiveStart
        BY <3>5, StartHolds DEF ReceiveStart, Receive
      <3>6. CASE ReceiveBoth
        BY <3>6, BothHolds
      <3> QED
        BY <1>2, <3>1, <3>2, <3>3, <3>4, <3>5, <3>6 DEF TsParsePacket
    <2> QED
      BY <2>0, <2>1, <2>2, WholeReceive
  <1>3. CASE UNCHANGED vars
    BY <1>3 DEF vars, WholeIsHeld, WholeGoesOn, Sending, Holding
  <1> QED
    BY <1>1, <1>2, <1>3 DEF Next

LEMMA WholeInitially == Init => WholeIsHeld
  BY DEF Init, WholeIsHeld, WholeGoesOn, Sending, NoTail, NoBuffer

(* The packet with the end of it makes the buffer complete.                *)
LEMMA EndCompletes ==
  ASSUME IInv, WholeIsHeld, copies > 0, fresh, lost = 0, TailEnds,
         packet.tail.id = whole
  PROVE  /\ Holding /\ buf.exists /\ Check = "ok"
         /\ ~packet.pusi \/ StartsBehindTail
         /\ \A n \in {packet.tail.len, PayloadSize} :
              LET b == AppendMore(buf, packet.tail.id, packet.tail.off, n)
              IN  Handed(b) = {[id |-> whole, intact |-> TRUE, zero |-> FALSE]}
  <1> USE Numbers, MuxNumbers, SizesAreNumbers, PsiAssumption
  <1>0. /\ TypeOK /\ PacketFromMux /\ BufferFollowsMux /\ CountersTied
        /\ packet.tail.len > 0
    BY DEF IInv, TailEnds
  <1>1. whole # 0 /\ ~buf.zero /\ WholeGoesOn
    BY <1>0 DEF WholeIsHeld, WholeGoesOn
  <1>2. Holding /\ buf.id = whole /\ buf.total <= MaxSection /\ buf.exists
    BY <1>0, <1>1 DEF WholeIsHeld, CountersTied
  <1>3. buf.pure /\ buf.size < buf.total /\ packet.tail.off = buf.size
    BY <1>0, <1>1, <1>2 DEF BufferFollowsMux, Untouched
  <1>4. buf.size + packet.tail.len = buf.total
    <2>1. CASE packet.pusi
      BY <1>0, <1>1, <1>2, <1>3, <2>1 DEF BufferFollowsMux, Untouched
    <2>2. CASE ~packet.pusi
      <3>1. mux.size = buf.total /\ packet.tail.off + packet.tail.len = mux.off
            /\ ~Sending
        BY <1>0, <1>1, <1>2, <2>2
           DEF BufferFollowsMux, Untouched, PacketFromMux, TailEnds
      <3> QED
        BY <1>0, <1>3, <3>1 DEF Sending
    <2> QED
      BY <2>1, <2>2
  <1>5. buf.total > 3
    BY <1>0, <1>3
  <1>6. Check = "ok"
    <2>1. heard # NoCounter /\ buf.cc = heard
      BY <1>0, <1>2, CcModulusAssumption DEF CountersTied, NoCounter, Counters
    <2>2. packet.cc = CcAfter(buf.cc, 1)
      BY <1>0, <2>1 DEF CountersTied, Ahead
    <2>3. CcAfter(buf.cc, 1) # buf.cc /\ ~IsGap(buf.cc, CcAfter(buf.cc, 1))
      BY <1>0, NextIsOk
    <2> QED
      BY <2>2, <2>3 DEF Check, Verdict
  <1>7. ASSUME NEW n \in {packet.tail.len, PayloadSize}
        PROVE  LET b == AppendMore(buf, packet.tail.id, packet.tail.off, n)
               IN  Handed(b) = {[id |-> whole, intact |-> TRUE, zero |-> FALSE]}
    <2> DEFINE b == AppendMore(buf, packet.tail.id, packet.tail.off, n)
    <2>0. n \in Nat /\ n >= packet.tail.len
      BY <1>0, <1>7
    <2>1. /\ b \in Buffers /\ b.id = buf.id /\ b.total = buf.total
          /\ b.size = least(buf.size + n, MaxSection)
          /\ b.pure <=> (buf.pure /\ packet.tail.id = buf.id
                                  /\ packet.tail.off = buf.size)
          /\ b.zero <=> (buf.zero \/ (lost > 0 /\ packet.cc = 0))
      BY <1>0, <2>0, AppendMoreFields
    <2> HIDE DEF b
    <2>2. b.pure = TRUE /\ b.zero = FALSE /\ b.id = whole
      BY <1>1, <1>2, <1>3, <2>1 DEF Buffers
    <2>3. Full(b)
      BY <1>0, <1>2, <1>4, <1>5, <2>0, <2>1 DEF Full, least
    <2>4. Handed(b) = {[id |-> whole, intact |-> TRUE, zero |-> FALSE]}
      BY <2>2, <2>3 DEF Handed, CrcRejects, Section
    <2> QED
      BY <2>4 DEF b
  <1> QED
    BY <1>0, <1>2, <1>6, <1>7 DEF StartsBehindTail

(* Without a loss the section that was received in step is handed over by  *)
(* the packet that carries its end, whatever shares its packets with it    *)
(* and however they are repeated (ts.c:283).                               *)
THEOREM EndIsDelivered == Spec => EndDelivers
  <1> DEFINE I == IInv /\ WholeIsHeld
             Ending == /\ copies' < copies /\ copies > 0 /\ fresh /\ lost = 0
                       /\ TailEnds /\ packet.tail.id = whole
             it == [id |-> whole, intact |-> TRUE, zero |-> FALSE]
  <1>1. I /\ [Next]_vars => [Ending => it \in parsed']_vars
    <2> SUFFICES ASSUME IInv, WholeIsHeld, Next, Ending PROVE it \in parsed'
      OBVIOUS
    <2>0. TypeOK
      BY DEF IInv
    <2>1. /\ Holding /\ buf.exists /\ Check = "ok"
          /\ ~packet.pusi \/ StartsBehindTail
          /\ \A n \in {packet.tail.len, PayloadSize} :
               Handed(AppendMore(buf, packet.tail.id, packet.tail.off, n)) = {it}
      BY EndCompletes
    <2>2. ~Send
      BY <2>0, Numbers DEF Send, SendContinue, SendStart, SendPadded, Emit
    <2>3. ~packet.pusi \/ ~StartsAtOnce
      BY <2>0, <2>1, Numbers DEF StartsAtOnce, StartsBehindTail
    <2>4. ReceiveContinue \/ ReceiveBoth
      BY <2>1, <2>2, <2>3
         DEF Next, TsParsePacket, ReceiveNoBuffer, ReceiveFirst, ReceiveRepeat,
             ReceiveGap, ReceiveIdle, ReceiveStart, StartsAtOnce
    <2> QED
      BY <2>1, <2>4 DEF ReceiveContinue, ReceiveBoth, Receive
  <1>2. Init => I
    BY InvariantInitially, WholeInitially
  <1>3. I /\ [Next]_vars => I'
    BY InvariantPreserved, WholePreserved
  <1> QED
    BY <1>1, <1>2, <1>3, PTL DEF Spec, EndDelivers
=============================================================================
