----------------------------- MODULE PesAssembly -----------------------------
(***************************************************************************)
(* Reassembly of PES packets ("units" here, to tell them from TS packets)  *)
(* from the TS packets of one PID, and what pes_parse_audio() and          *)
(* pes_parse_video() make of them: the PES half of ts_parse_packet() in    *)
(* src/src/ts.c, src/src/buffer.c and src/src/tables/pes.c.                *)
(*                                                                         *)
(* A unit is a number and a size in bytes, its six header bytes included;  *)
(* a bounded one announces its size, an unbounded one announces 0.  A TS   *)
(* packet carries a run of consecutive bytes of one unit, of any length up *)
(* to PayloadSize since the adaptation field takes up what is left.        *)
(* The multiplexer and the channel are the environment, as in PsiAssembly. *)
(***************************************************************************)
EXTENDS ContinuityCounter

CONSTANTS
  PayloadSize,   \* payload bytes of a packet: 184 in the code
  Lengths,       \* the payload lengths in use, adaptation fields taking the rest
  UnitSizes,     \* the sizes of the units that are sent
  Bounding,      \* {TRUE}, {FALSE} or both: whether units announce their size
  Audio,         \* the PID is parsed by pes_parse_audio(), else by ..._video()
  MaxUnits,      \* bound: units sent in a behaviour
  MaxLoss        \* bound: packets lost in a row

ASSUME PesAssumption ==
  /\ PayloadSize \in Nat /\ PayloadSize > 7
  /\ Lengths \subseteq 1 .. PayloadSize
  /\ UnitSizes \subseteq {n \in Nat : n > 7}
  /\ Bounding \subseteq BOOLEAN
  /\ Audio \in BOOLEAN
  /\ MaxUnits \in Nat
  /\ MaxLoss \in Nat /\ MaxLoss < CcModulus - 1

VARIABLES
  mux,      \* the multiplexer: unit being sent, bytes of it already sent
  packet,   \* the packet on the wire
  copies,   \* how many times it is still to be received
  fresh,    \* history: it has not been received yet
  lost,     \* history: packets lost since the last one received
  behind,   \* history: packets sent since the last one taken
  whole,    \* history: the unit received without a loss since its beginning
  buf,      \* the reassembly buffer of the PID
  es,       \* struct av_fifo_priv: pes_packet_initialized, pes_packet_length # 0
  handed,   \* the fragment given to the parser by the last step, if any
  toEs,     \* what the last step wrote to the ES fifo, if anything
  last      \* history: the last fragment given to the parser

vars == <<mux, packet, copies, fresh, lost, behind, whole, buf, es,
          handed, toEs, last>>

(* More packets than the counter can tell apart.                           *)
Turn == CcModulus + 1

(* buffer_contains_full_pes_section() and the parsers want 6 header bytes. *)
PesHeader == 6

-----------------------------------------------------------------------------
(* Data.                                                                   *)

Units == [id : 0 .. MaxUnits, size : UnitSizes \cup {0}, bounded : BOOLEAN]

NoUnit == [id |-> 0, size |-> 0, bounded |-> FALSE]

Packets == [cc : Counters, pusi : BOOLEAN, unit : Units, off : Nat,
            len : 0 .. PayloadSize]

(***************************************************************************)
(* struct buffer: exists, pes_unbounded_data, continuity_counter,          *)
(* current_size; and of its content, the unit and offset of its first      *)
(* byte and, as history, whether the rest follows without a hole (pure)    *)
(* and whether a packet out of step came in, because its counter was 0 or  *)
(* because the counter had gone all the way round (zero).                  *)
(***************************************************************************)
NoBuffer == [exists |-> FALSE, unbounded |-> FALSE, cc |-> 0, size |-> 0,
             unit |-> NoUnit, off |-> 0, pure |-> TRUE, zero |-> FALSE]

Buffers == [exists : BOOLEAN, unbounded : BOOLEAN, cc : Counters, size : Nat,
            unit : Units, off : Nat, pure : BOOLEAN, zero : BOOLEAN]

(* buffer_create(): the announced length of the first unit decides, for    *)
(* the life of the buffer, whether the PID is taken for an unbounded one.  *)
Created == [NoBuffer EXCEPT !.exists = TRUE,
                            !.unbounded = ~packet.unit.bounded]

(* buffer_reset_size()                                                     *)
Reset(b) == [b EXCEPT !.size = 0, !.unit = NoUnit, !.off = 0,
                      !.pure = TRUE, !.zero = FALSE]

(* Mutant of Append: the bytes always land at the front of the buffer.     *)
Append_AtFront(b) ==
  [b EXCEPT !.size = packet.len, !.unit = packet.unit, !.off = packet.off]

(* buffer_append() of the payload: a PES buffer grows as needed.           *)
Append(b) ==
  LET late == behind >= Turn \/ (behind > 1 /\ packet.cc = 0) IN
  IF b.size = 0
  THEN [b EXCEPT !.size = packet.len, !.unit = packet.unit, !.off = packet.off]
  ELSE [b EXCEPT !.size = b.size + packet.len,
                 !.pure = b.pure /\ b.unit = packet.unit
                                 /\ b.off + b.size = packet.off,
                 !.zero = b.zero \/ late]

(* The size the buffered unit announces: its length field plus 6.          *)
Announced(b) == IF b.unit.bounded THEN b.unit.size ELSE PesHeader

(* Mutant: the header's announced size is not waited for.                  *)
Full_Early(b) == b.size >= PesHeader

(* buffer_contains_full_pes_section(): a bounded unit counts as complete   *)
(* one byte early (packet_length + 6 - 1).                                 *)
Full(b) == /\ b.size >= PesHeader
           /\ b.unbounded \/ b.size >= Announced(b) - 1

(* What the parser gets; current_size is set to the announced size.        *)
Fragment(b) ==
  [unit |-> b.unit, off |-> b.off, got |-> b.size, pure |-> b.pure, zero |-> b.zero,
   len |-> IF b.unbounded THEN b.size ELSE Announced(b)]

Fragments == [unit : Units, off : Nat, got : Nat, pure : BOOLEAN,
              zero : BOOLEAN, len : Nat]

NoFragment == [unit |-> NoUnit, off |-> 0, got |-> 0, pure |-> TRUE,
               zero |-> FALSE, len |-> 0]

-----------------------------------------------------------------------------
(* pes_parse_audio() and pes_parse_video() with -o parse_pes=1.            *)
(* The header of the last TS packet tells them whether a unit begins, not  *)
(* the fragment itself.                                                    *)

EsState(unit) ==
  IF packet.pusi THEN [init |-> TRUE, bounded |-> unit.bounded] ELSE es

(* What reaches the ES fifo: the fragment without its PES header ("body"), *)
(* as it came ("raw"), as it came but for the last 4 bytes ("cut").        *)
EsForm ==
  CASE packet.pusi                           -> "body"
    [] ~packet.pusi /\ es.init /\ ~es.bounded -> "raw"
    [] ~packet.pusi /\ es.init /\ es.bounded  -> "cut"
    [] ~packet.pusi /\ ~es.init               -> IF Audio THEN "raw" ELSE "none"

EsOutputs == [form : {"body", "raw", "cut", "none"}, off : Nat]

NoOutput == [form |-> "none", off |-> 0]

-----------------------------------------------------------------------------
(* The multiplexer and the channel.                                        *)

least(a, b) == IF a < b THEN a ELSE b

(* n bytes of the unit leave in the next packet; the channel loses it or   *)
(* delivers it k times.                                                    *)
Emit(pusi, unit, off, n) ==
  /\ copies = 0
  /\ packet' = [cc |-> NextCc(packet.cc), pusi |-> pusi, unit |-> unit,
                off |-> off, len |-> n]
  /\ mux' = [unit |-> unit, off |-> off + n]
  /\ \E k \in 0 .. 2 :
        /\ copies' = k
        /\ k = 0 => lost < MaxLoss
        /\ lost' = IF k = 0 THEN lost + 1 ELSE lost
  /\ fresh' = TRUE
  /\ behind' = least(behind + 1, Turn)
  /\ handed' = NoFragment /\ toEs' = NoOutput
  /\ UNCHANGED <<whole, buf, es, last>>

SendStart(unit, n) ==
  /\ mux.off = mux.unit.size
  /\ unit.id = mux.unit.id + 1
  /\ n <= unit.size
  /\ Emit(TRUE, unit, 0, n)

SendContinue(n) ==
  /\ n <= mux.unit.size - mux.off
  /\ Emit(FALSE, mux.unit, mux.off, n)

-----------------------------------------------------------------------------
(* ts_parse_packet(), one action per way through its PES half.             *)

(* `payload_end - payload_start <= 6': a unit may not begin in so short a  *)
(* payload.  What the buffer holds stays.                                  *)
StartUsable == packet.len > PesHeader + 1

(* History: a usable beginning starts a unit, a loss ends it.              *)
StillWhole ==
  CASE packet.pusi /\ StartUsable              -> packet.unit
    [] packet.pusi /\ ~StartUsable             -> NoUnit
    [] ~packet.pusi /\ lost > 0                -> NoUnit
    [] ~packet.pusi /\ lost = 0                -> whole

(* A packet is received and the buffer becomes b.                          *)
Received(b) ==
  /\ copies > 0
  /\ copies' = copies - 1
  /\ fresh' = FALSE
  /\ lost' = 0
  /\ whole' = StillWhole
  /\ buf' = b
  /\ UNCHANGED <<mux, packet>>

Dropped(b) ==
  /\ Received(b)
  /\ handed' = NoFragment /\ toEs' = NoOutput
  /\ UNCHANGED <<behind, es, last>>

(* The payload was appended, giving b: parse and empty the buffer if it is *)
(* complete, and remember the counter.                                     *)
Took(b) == [b EXCEPT !.cc = packet.cc]

Taken(b) ==
  /\ behind' = 0
  /\ \/ /\ Full(b)
        /\ Received(Took(Reset(b)))
        /\ handed' = Fragment(b)
        /\ last' = handed'
        /\ es' = EsState(b.unit)
        /\ toEs' = [form |-> EsForm, off |-> b.off]
     \/ /\ ~Full(b)
        /\ Received(Took(b))
        /\ handed' = NoFragment /\ toEs' = NoOutput
        /\ UNCHANGED <<es, last>>

Check == Verdict(buf.cc, packet.cc, buf.size = 0)

ReceiveShortStart ==
  /\ packet.pusi /\ ~StartUsable
  /\ Dropped(buf)

(* The first TS packet of a unit: taken without looking at the counter.    *)
ReceiveStart ==
  /\ packet.pusi /\ StartUsable
  /\ Taken(Append(Reset(IF buf.exists THEN buf ELSE Created)))

ReceiveNoBuffer ==
  /\ ~packet.pusi /\ ~buf.exists
  /\ Dropped(buf)

ReceiveRepeat ==
  /\ ~packet.pusi /\ buf.exists /\ Check = "repeat"
  /\ Dropped(buf)

ReceiveGap ==
  /\ ~packet.pusi /\ buf.exists /\ Check = "gap"
  /\ Dropped(Reset(buf))

(* Mutant of MayJoin: a unit may be joined in the middle.                  *)
MayJoin_Anytime == TRUE

(* Nothing held of a bounded unit: wait for the next beginning.  (On an    *)
(* empty buffer buffer_is_unbounded() is pes_unbounded_data alone.)        *)
MayJoin == buf.size > 0 \/ buf.unbounded

ReceiveIdle ==
  /\ ~packet.pusi /\ buf.exists /\ Check = "ok"
  /\ ~MayJoin
  /\ Dropped(buf)

ReceiveContinue ==
  /\ ~packet.pusi /\ buf.exists /\ Check = "ok"
  /\ MayJoin
  /\ Taken(Append(buf))

-----------------------------------------------------------------------------
Init ==
  /\ mux = [unit |-> NoUnit, off |-> 0]
  /\ packet \in [cc : Counters, pusi : {FALSE}, unit : {NoUnit}, off : {0},
                 len : {0}]
  /\ copies = 0
  /\ fresh = FALSE
  /\ lost = 0
  /\ behind = Turn
  /\ whole = NoUnit
  /\ buf = NoBuffer
  /\ es = [init |-> FALSE, bounded |-> FALSE]
  /\ handed = NoFragment
  /\ toEs = NoOutput
  /\ last = NoFragment

Send ==
  \E n \in Lengths :
     \/ SendContinue(n)
     \/ \E size \in UnitSizes, bounded \in Bounding :
           /\ mux.unit.id < MaxUnits
           /\ SendStart([id |-> mux.unit.id + 1, size |-> size,
                         bounded |-> bounded], n)

TsParsePacket ==
  \/ ReceiveShortStart
  \/ ReceiveStart
  \/ ReceiveNoBuffer
  \/ ReceiveRepeat
  \/ ReceiveGap
  \/ ReceiveIdle
  \/ ReceiveContinue

Next == Send \/ TsParsePacket

Spec == Init /\ [][Next]_vars

-----------------------------------------------------------------------------
(* Properties.                                                             *)

TypeOK ==
  /\ mux \in [unit : Units, off : Nat]
  /\ mux.off <= mux.unit.size
  /\ packet \in Packets
  /\ copies \in 0 .. 2
  /\ fresh \in BOOLEAN
  /\ lost \in 0 .. MaxLoss
  /\ behind \in 0 .. Turn
  /\ whole \in Units
  /\ buf \in Buffers
  /\ \/ buf.size < PesHeader
     \/ ~buf.unbounded /\ buf.size < Announced(buf) - 1
  /\ es \in [init : BOOLEAN, bounded : BOOLEAN]
  /\ handed \in Fragments /\ last \in Fragments
  /\ toEs \in EsOutputs

Handing == handed # NoFragment

(* A fragment given to the parser is a run of consecutive bytes of one     *)
(* unit, and on a PID taken for bounded it is the unit from its first      *)
(* byte; except where a packet out of step was let in by its counter 0, or *)
(* after a turn of the counter in which nothing was taken.                 *)
SplicedOnlyAtZero ==
  Handing => \/ handed.zero
             \/ /\ handed.pure
                /\ ~buf.unbounded => handed.off = 0

(* On a PID taken for bounded, a bounded unit is handed over with all of   *)
(* its bytes; the last one may be missing (and an old byte of the buffer   *)
(* stand in for it) when it travels alone in a packet.                     *)
CompleteButLastByte ==
  (Handing /\ ~buf.unbounded /\ handed.unit.bounded)
     => handed.len = handed.unit.size /\ handed.len - handed.got <= 1

(* A packet is received, and the one sent before it was taken.             *)
NextAfterTaken == copies' < copies /\ copies > 0 /\ behind = 1

(* A packet brings the last byte, or the one before it, of a bounded unit  *)
(* received without a loss.                                                *)
Completes ==
  /\ copies' < copies /\ copies > 0 /\ fresh
  /\ packet.unit.bounded /\ packet.unit = whole' /\ ~buf'.unbounded
  /\ packet.off < packet.unit.size - 1
  /\ packet.unit.size - 1 <= packet.off + packet.len

UnitHanded ==
  handed'.unit = packet.unit /\ handed'.off = 0 /\ handed'.pure

(* A bounded unit received without a loss since its beginning is handed    *)
(* over, whole, by the packet that brings its last byte or the one before  *)
(* it: repeated packets and the counter's turns do not lose it.            *)
UnitDelivered == [][Completes => UnitHanded]_vars

(* The packet goes on where what was handed over last, and what is held    *)
(* since, ended.                                                           *)
GoesOn ==
  /\ NextAfterTaken /\ buf.unbounded /\ ~packet.pusi /\ ~buf.zero
  /\ last # NoFragment /\ last.unit = packet.unit /\ last.pure
  /\ last.off + last.len + buf.size = packet.off

NothingLeftOut ==
  \/ /\ handed' # NoFragment
     /\ handed'.unit = last.unit /\ handed'.pure
     /\ handed'.off = last.off + last.len
  \/ /\ buf'.unit = last.unit /\ buf'.pure
     /\ buf'.off = last.off + last.len
     /\ buf'.size = buf.size + packet.len

(* On a PID taken for unbounded, what reaches the PES fifo without loss is *)
(* the stream in order and without holes: a fragment that does not begin   *)
(* a unit begins where the one before it ended.                            *)
UnboundedInOrder == [][GoesOn => NothingLeftOut]_vars
==================================================
