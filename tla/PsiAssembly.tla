----------------------------- MODULE PsiAssembly -----------------------------
(***************************************************************************)
(* Reassembly of PSI sections from the TS packets of one PID:              *)
(* ts_parse_packet() of src/src/ts.c (its PSI half) over the reassembly    *)
(* buffer of src/src/buffer.c.                                             *)
(*                                                                         *)
(* A section is a number (its order of transmission) and a length in       *)
(* bytes, section_length + 3.  A packet carries the end of the section in  *)
(* transmission (its tail) and, when payload_unit_start_indicator is set,  *)
(* the beginning of a new one (its head).  The bytes themselves are left   *)
(* out: the buffer records which section it began with, how many bytes it  *)
(* holds, and, as history, whether they are exactly the first bytes of     *)
(* that section.                                                           *)
(*                                                                         *)
(* The multiplexer and the channel, which may lose packets and repeat      *)
(* them, are the environment (ISO/IEC 13818-1, 2.4.3 and 2.4.4).           *)
(***************************************************************************)
EXTENDS ContinuityCounter

CONSTANTS
  PayloadSize,     \* payload bytes of a packet: 184 in the code
  MaxSection,      \* MAX_SECTION_SIZE: 4096 in the code
  SectionSizes,    \* the section sizes the multiplexer sends, header included
  MaxSections,     \* bound: sections sent in a behaviour
  MaxLoss,         \* bound: packets lost in a row
  CrcReport        \* the CRC_ERROR bit of verbose_mask (-o report=CRC)

ASSUME PsiAssumption ==
  /\ PayloadSize \in Nat /\ PayloadSize > 4
  /\ MaxSection \in Nat /\ MaxSection > PayloadSize
  /\ SectionSizes \subseteq {n \in Nat : n > 3}
  /\ MaxSections \in Nat
  /\ MaxLoss \in Nat /\ MaxLoss < CcModulus - 1
  /\ CrcReport \in BOOLEAN

VARIABLES
  mux,      \* the multiplexer: section being sent, bytes of it already sent
  packet,   \* the packet on the wire
  copies,   \* how many times it is still to be received
  fresh,    \* history: it has not been received yet
  lost,     \* history: packets lost since the last one received
  heard,    \* history: counter of the last packet received, NoCounter at first
  whole,    \* history: the section received in step from its beginning on
  buf,      \* the reassembly buffer of the PID
  parsed,   \* sections handed to their parser by the last step
  done      \* history: the sections handed to their parser so far

vars == <<mux, packet, copies, fresh, lost, heard, whole, buf,
          parsed, done>>

NoCounter == -1

least(a, b) == IF a < b THEN a ELSE b

-----------------------------------------------------------------------------
(* Data.                                                                   *)

NoTail == [id |-> 0, off |-> 0, len |-> 0]
NoHead == [id |-> 0, len |-> 0, size |-> 0]

Tails == [id : Nat, off : Nat, len : 0 .. PayloadSize]
Heads == [id : Nat, len : 0 .. PayloadSize, size : SectionSizes \cup {0}]

Packets == [cc : Counters, pusi : BOOLEAN, tail : Tails, head : Heads]

(***************************************************************************)
(* struct buffer: exists (it is in priv->packet_buffer), its               *)
(* continuity_counter, current_size and, when it is not empty, the section *)
(* its first byte belongs to and the size its header announces.  pure and  *)
(* zero are history: the content is a prefix of that section; a packet     *)
(* that followed a loss was taken because its counter was 0.               *)
(***************************************************************************)
Buffers == [exists : BOOLEAN, cc : Counters, size : 0 .. MaxSection, id : Nat,
            total : SectionSizes \cup {0}, pure : BOOLEAN, zero : BOOLEAN]

NoBuffer == [exists |-> FALSE, cc |-> 0, size |-> 0, id |-> 0, total |-> 0,
             pure |-> TRUE, zero |-> FALSE]

(* buffer_reset_size()                                                     *)
Reset(b) == [b EXCEPT !.size = 0, !.id = 0, !.total = 0,
                      !.pure = TRUE, !.zero = FALSE]

(* buffer_create(): refuses a section above the hard limit.                *)
Created(head, cc) ==
  IF head.size > MaxSection THEN NoBuffer
  ELSE [NoBuffer EXCEPT !.exists = TRUE, !.cc = cc]

(* buffer_append() of the first bytes of a section to an empty buffer.     *)
AppendHead(b, head) ==
  [b EXCEPT !.size = head.len, !.id = head.id, !.total = head.size]

(* buffer_append() of n bytes, the first of them at offset off of section  *)
(* id, to a buffer that is not empty: what exceeds the hard limit is cut.  *)
AppendMore(b, id, off, n) ==
  [b EXCEPT !.size = least(b.size + n, MaxSection),
            !.pure = b.pure /\ id = b.id /\ off = b.size,
            !.zero = b.zero \/ (lost > 0 /\ packet.cc = 0)]

(* buffer_contains_full_psi_section(): its result, and its reset of a      *)
(* section that announces more than the hard limit.                        *)
Full(b)     == b.size > 3 /\ b.size >= b.total
Hopeless(b) == b.size > 3 /\ b.size < b.total /\ b.total > MaxSection

(* What the parser receives.                                               *)
Section(b) == [id |-> b.id, intact |-> b.pure, zero |-> b.zero]

(* The CRC of a section put together from two is wrong; it is only acted   *)
(* upon when CRC errors are reported.                                      *)
CrcRejects(b) == CrcReport /\ ~b.pure

(* The rest of the loop body once bytes were appended: parse and empty the *)
(* buffer if the section is complete.                                      *)
Handed(b) == IF Full(b) /\ ~CrcRejects(b) THEN {Section(b)} ELSE {}

(* Mutant of Left: a section that was handed over stays in the buffer.     *)
Left_Keeps(b) == IF Hopeless(b) THEN Reset(b) ELSE b

Left(b) == IF Full(b) \/ Hopeless(b) THEN Reset(b) ELSE b

-----------------------------------------------------------------------------
(* The multiplexer and the channel.                                        *)

Sending == mux.off < mux.size
Pending == [id |-> mux.id, off |-> mux.off, len |-> mux.size - mux.off]
CurrentTail == IF Sending THEN Pending ELSE NoTail

(* The next packet leaves; the channel loses it or delivers it k times.    *)
Emit(pusi, tail, head) ==
  /\ copies = 0
  /\ packet' = [cc |-> NextCc(packet.cc), pusi |-> pusi,
                tail |-> tail, head |-> head]
  /\ \E k \in 0 .. 2 :
        /\ copies' = k
        /\ k = 0 => lost < MaxLoss
        /\ lost' = IF k = 0 THEN lost + 1 ELSE lost
  /\ fresh' = TRUE
  /\ parsed' = {}
  /\ UNCHANGED <<heard, whole, buf, done>>

(* A packet in the middle, or at the end, of a section.                    *)
SendContinue ==
  /\ Sending
  /\ LET n == least(mux.size - mux.off, PayloadSize) IN
       /\ Emit(FALSE, [Pending EXCEPT !.len = n], NoHead)
       /\ mux' = [mux EXCEPT !.off = mux.off + n]

(* A packet in which a section of the given size begins, after the end of  *)
(* the one being sent if there is one.  Where both end before the packet   *)
(* does, one more section (of size third) may begin behind them.           *)
SendStart(size, third) ==
  LET room  == PayloadSize - 1 - CurrentTail.len
      n     == least(size, room)
      spare == room - n
  IN  /\ room > 0
      /\ mux.id < MaxSections
      /\ Emit(TRUE, CurrentTail, [id |-> mux.id + 1, len |-> n, size |-> size])
      /\ \/ /\ third = 0
            /\ mux' = [id |-> mux.id + 1, off |-> n, size |-> size]
         \/ /\ third # 0 /\ spare > 0 /\ mux.id + 1 < MaxSections
            /\ mux' = [id |-> mux.id + 2, off |-> least(third, spare),
                       size |-> third]

(* The end of a section, then stuffing where a new one could have begun.   *)
SendPadded ==
  /\ Sending
  /\ Pending.len < PayloadSize
  /\ Emit(TRUE, Pending, NoHead)
  /\ mux' = [mux EXCEPT !.off = mux.size]

-----------------------------------------------------------------------------
(* ts_parse_packet(), one action per way through it.                       *)

Check == Verdict(buf.cc, packet.cc, buf.size = 0)
Holding == buf.size > 0

(* History.  In step with the stream: the last packet received was taken.  *)
InStep == buf.exists /\ buf.cc = heard

(* A section begins in a packet that is received in step, or is the first. *)
BeginsInStep ==
  /\ packet.head.len > 2 /\ packet.head.size <= MaxSection
  /\ fresh
  /\ ~buf.exists \/ (lost = 0 /\ InStep /\ ~buf.zero)

(* A repeat leaves it, a loss ends it; a section that follows takes over.  *)
StillWhole ==
  IF BeginsInStep THEN packet.head.id
  ELSE IF lost > 0 \/ (fresh /\ packet.head.len > 0) THEN 0 ELSE whole

(* A packet is received and the buffer becomes b; the sections in handed   *)
(* went to their parser.                                                   *)
Receive(b, handed) ==
  /\ copies > 0
  /\ copies' = copies - 1
  /\ fresh' = FALSE
  /\ lost' = 0
  /\ heard' = packet.cc
  /\ whole' = StillWhole
  /\ buf' = b
  /\ parsed' = handed
  /\ done' = done \cup {s.id : s \in handed}
  /\ UNCHANGED <<mux, packet>>

(* The last statements: the counter is remembered when a buffer was used.  *)
Took(b) == [b EXCEPT !.cc = packet.cc]

(* Mutant of HeadUsable: one byte more is asked for.                       *)
HeadUsable_OneMore == packet.head.len > 3

(* The second round of the loop looks for a section behind the tail unless *)
(* less than three bytes, or stuffing, are left.                           *)
HeadUsable == packet.head.len > 2
(* pointer_field = 0: a section begins right at the start of the payload.  *)
StartsAtOnce == packet.pusi /\ packet.tail.len = 0
StartsBehindTail == packet.pusi /\ packet.tail.len > 0

(* `return 0' with nothing changed: no buffer yet and no section begins,   *)
(* or buffer_create() refuses the one that does.                           *)
ReceiveNoBuffer ==
  /\ ~buf.exists
  /\ \/ ~packet.pusi
     \/ ~HeadUsable
     \/ packet.head.size > MaxSection
  /\ Receive(buf, {})

(* The first section of the PID: its buffer is created.                    *)
ReceiveFirst ==
  /\ ~buf.exists
  /\ packet.pusi /\ HeadUsable
  /\ LET b == AppendHead(Created(packet.head, packet.cc), packet.head) IN
       /\ packet.head.size <= MaxSection
       /\ Receive(Took(Left(b)), Handed(b))

ReceiveRepeat ==
  /\ buf.exists /\ Check = "repeat"
  /\ Receive(buf, {})

ReceiveGap ==
  /\ buf.exists /\ Check = "gap"
  /\ Receive(Reset(buf), {})

(* Nothing held, no section begins: `if (! pusi) return 0'.                *)
ReceiveIdle ==
  /\ buf.exists /\ Check = "ok"
  /\ ~Holding /\ ~packet.pusi
  /\ Receive(buf, {})

(* The rest of the payload, stuffing included, joins what is held.         *)
ReceiveContinue ==
  /\ buf.exists /\ Check = "ok"
  /\ Holding /\ ~packet.pusi
  /\ LET b == AppendMore(buf, packet.tail.id, packet.tail.off, PayloadSize) IN
       Receive(Took(Left(b)), Handed(b))

(* A section at the start of the payload.  What is held is not dropped:    *)
(* the new section is appended to it.                                      *)
ReceiveStart ==
  /\ buf.exists /\ Check = "ok"
  /\ StartsAtOnce
  /\ LET b == IF Holding
              THEN AppendMore(buf, packet.head.id, 0, packet.head.len)
              ELSE AppendHead(buf, packet.head)
     IN Receive(Took(Left(b)), Handed(b))

(* The tail joins what is held and the buffer is emptied whether or not    *)
(* that completed a section; then the new section begins.  If neither      *)
(* round uses the buffer its counter is not remembered.                    *)
ReceiveBoth ==
  /\ buf.exists /\ Check = "ok"
  /\ StartsBehindTail
  /\ LET joined == AppendMore(buf, packet.tail.id, packet.tail.off,
                              packet.tail.len)
         first  == IF Holding THEN Handed(joined) ELSE {}
         b      == AppendHead(Reset(buf), packet.head)
     IN \/ /\ HeadUsable
           /\ Receive(Took(Left(b)), first \cup Handed(b))
        \/ /\ ~HeadUsable
           /\ Receive(IF Holding THEN Took(Reset(buf)) ELSE buf, first)

-----------------------------------------------------------------------------
Init ==
  /\ mux = [id |-> 0, off |-> 0, size |-> 0]
  /\ packet \in {[cc |-> c, pusi |-> FALSE, tail |-> NoTail, head |-> NoHead] :
                   c \in Counters}
  /\ copies = 0
  /\ fresh = FALSE
  /\ lost = 0
  /\ heard = NoCounter
  /\ whole = 0
  /\ buf = NoBuffer
  /\ parsed = {}
  /\ done = {}

Send ==
  \/ SendContinue
  \/ \E size \in SectionSizes, third \in SectionSizes \cup {0} :
        SendStart(size, third)
  \/ SendPadded

TsParsePacket ==
  \/ ReceiveNoBuffer
  \/ ReceiveFirst
  \/ ReceiveRepeat
  \/ ReceiveGap
  \/ ReceiveIdle
  \/ ReceiveContinue
  \/ ReceiveStart
  \/ ReceiveBoth

Next == Send \/ TsParsePacket

Spec == Init /\ [][Next]_vars

-----------------------------------------------------------------------------
(* Properties.                                                             *)

(* What is left in the buffer is neither complete nor to be given up.      *)
Unfinished(b) == b.size > 3 => b.size < b.total /\ b.total <= MaxSection

(* Type invariant: variables have their types, and the buffer never comes  *)
(* to rest on a section that ts_parse_packet() should have disposed of.    *)
TypeOK ==
  /\ mux \in [id : Nat, off : Nat, size : SectionSizes \cup {0}]
  /\ mux.off <= mux.size
  /\ packet \in Packets
  /\ copies \in 0 .. 2
  /\ fresh \in BOOLEAN
  /\ lost \in 0 .. MaxLoss
  /\ heard \in Counters \cup {NoCounter}
  /\ whole \in Nat
  /\ buf \in Buffers
  /\ Unfinished(buf)
  /\ parsed \subseteq [id : Nat, intact : BOOLEAN, zero : BOOLEAN]
  /\ done \subseteq Nat

(* A section handed to its parser holds the bytes of one transmission and  *)
(* nothing else, however packets are lost (fewer in a row than a turn of   *)
(* the counter) and repeated; except when the first packet after a loss    *)
(* carried counter 0, which continuity_counter_is_ok() lets through.       *)
SplicedOnlyAtZero ==
  \A s \in parsed : s.intact \/ s.zero

(* No transmission of a section reaches its parser twice, although packets *)
(* are repeated by the channel and one packet can complete two sections.   *)
ParsedOnce ==
  [][\A s \in parsed' : s.id \notin done]_vars

(* A section received in step from its beginning on, without a loss since, *)
(* is handed over, whole, by the packet that carries its end: neither      *)
(* repeats nor the way sections share packets can lose it.                 *)
TailEnds == packet.tail.len > 0 /\ (mux.id # packet.tail.id \/ ~Sending)
EndDelivers ==
  [][ (/\ copies' < copies /\ copies > 0 /\ fresh /\ lost = 0
       /\ TailEnds /\ packet.tail.id = whole)
      => [id |-> whole, intact |-> TRUE, zero |-> FALSE] \in parsed' ]_vars
=============================================================================
