---------------------------- MODULE Descriptors -----------------------------
(***************************************************************************)
(* The walk over a loop of descriptors (tables/descriptors/descriptors.c,  *)
(* dsm-cc/descriptors/descriptors.c), with the parsers it calls.           *)
(*                                                                         *)
(* The tables walk in two ways. The NIT, the SDTT, the TOT and the         *)
(* programme loop of the PMT count the descriptors first and parse that    *)
(* many; the count goes into a uint8_t, and descriptors_count() reads      *)
(* lengths as signed chars. The SDT, the EIT, the streams of the PMT and   *)
(* the AIT parse one at a time until the length of the loop is used up.    *)
(***************************************************************************)
EXTENDS DescriptorBodies

CONSTANTS
  Loops,    \* loops sent: their family, how they are walked, their descriptors, for which standard
  Trailer   \* the bytes behind a loop

VARIABLES
  loop,     \* the loop being walked, and its bytes
  phase,    \* "count", "parse", "done"
  at,       \* offset of the descriptor to be looked at
  left,     \* bytes still to count
  num,      \* the count
  nth,      \* descriptors parsed
  offsets,  \* their offsets
  files     \* per tag, the files made

dvars == <<loop, phase, at, left, num, nth, offsets, files>>

(* What a descriptor says (as the multiplexer writes it), and a loop.      *)
Wire(d) == LET body == Bytes(d.layout) IN <<d.tag, Len(body)>> \o body
Sent(l) == Concat([k \in DOMAIN l.sent |-> Wire(l.sent[k])])
BodyLength(d) == Len(Bytes(d.layout))

(* Tags and lengths are bytes.                                             *)
IsLoop(l) ==
  /\ l.counted \in BOOLEAN /\ l.standard \in Standards
  /\ Len(l.sent) \in Nat /\ DOMAIN l.sent = 1 .. Len(l.sent)
  /\ \A k \in DOMAIN l.sent :
       /\ l.sent[k].tag \in Byte
       /\ IsLayout(l.sent[k].layout) /\ BodyLength(l.sent[k]) \in Byte
ASSUME LoopsAssumption ==
  Trailer \in Seq(Byte) /\ \A l \in Loops : IsLoop(l)

Length == Len(loop.bytes) - Len(Trailer)

(* Mutant of Pointed: every parser is pointed at the tag.                  *)
Pointed_AtTag(family, from) == SubSeq(loop.bytes, 1 + from, Len(loop.bytes))

(* The bytes a parser is pointed at: a descriptor's tag, or its body.      *)
Pointed(family, from) ==
  SubSeq(loop.bytes, 1 + (IF family = Ts THEN from ELSE from + 2), Len(loop.bytes))
-----------------------------------------------------------------------------
Begin(l) ==
  /\ loop = [family |-> l.family, counted |-> l.counted, sent |-> l.sent, standard |-> l.standard,
             bytes |-> Sent(l) \o Trailer]
  /\ phase = IF loop.counted THEN "count" ELSE "parse"
  /\ left = Length
  /\ at = 0 /\ num = 0 /\ nth = 0 /\ offsets = <<>> /\ files = [tag \in {} |-> NoFiles]
DInit == \E l \in Loops : Begin(l)

(* One round of descriptors_count().                                       *)
Count ==
  /\ phase = "count" /\ left > 0
  /\ IF left >= 2 /\ S8(loop.bytes, at + 1) + 2 >= 0
     THEN LET count == S8(loop.bytes, at + 1) + 2
          IN /\ left' = left - count /\ at' = at + count
             /\ num' = (num + 1) % 256
             /\ UNCHANGED phase
     ELSE num' = 0 /\ phase' = "parse" /\ at' = 0 /\ UNCHANGED left
  /\ UNCHANGED <<loop, nth, offsets, files>>

Counted ==
  /\ phase = "count" /\ left <= 0
  /\ phase' = "parse" /\ at' = 0
  /\ UNCHANGED <<loop, left, num, nth, offsets, files>>

(* Mutant of MoreToParse: one more than were counted.                      *)
MoreToParse_OneMore == IF loop.counted THEN nth <= num ELSE at < Length

MoreToParse == IF loop.counted THEN nth < num ELSE at < Length

(* One round of descriptors_parse(), or a call for one descriptor.         *)
Parse ==
  /\ phase = "parse" /\ MoreToParse
  /\ LET tag == U8(loop.bytes, at)
         len == U8(loop.bytes, at + 1)
         made == Parser(loop.family, tag, Pointed(loop.family, at), len, loop.standard)
     IN /\ files' = [t \in DOMAIN files \cup {tag} |->
                       IF t # tag THEN files[t]
                       ELSE IF t \in DOMAIN files THEN Files(<<files[t], made>>) ELSE made]
        /\ offsets' = Append(offsets, at)
        /\ at' = at + 2 + len
  /\ nth' = nth + 1
  /\ UNCHANGED <<loop, phase, left, num>>

Finish ==
  /\ phase = "parse" /\ ~MoreToParse
  /\ phase' = "done"
  /\ UNCHANGED <<loop, at, left, num, nth, offsets, files>>

DNext == Count \/ Counted \/ Parse \/ Finish
DSpec == DInit /\ [][DNext]_dvars /\ WF_dvars(DNext)
-----------------------------------------------------------------------------
(* What descriptors_count() can count: lengths are read as signed chars,   *)
(* and the count has eight bits.                                           *)
Countable(l) ==
  \/ ~l.counted
  \/ Len(l.sent) < 256 /\ \A k \in DOMAIN l.sent : BodyLength(l.sent[k]) <= 127

(* A length of 254 takes the counter nowhere, if it comes to it.           *)
Stuck(l) ==
  l.counted /\ \E k \in DOMAIN l.sent :
    BodyLength(l.sent[k]) = 254 /\ \A m \in 1..(k-1) : BodyLength(l.sent[m]) <= 127

(* Each descriptor is parsed once, in order and from its first byte, and   *)
(* the parser stops behind the loop.                                       *)
WalkedRight ==
  Countable(loop) =>
    /\ Len(offsets) = Len(loop.sent) /\ at = Length
    /\ \A k \in DOMAIN offsets :
         offsets[k] = IF k = 1 THEN 0 ELSE offsets[k-1] + 2 + BodyLength(loop.sent[k-1])

(* Property: once a loop that can be counted has been parsed, each of its  *)
(* descriptors has been parsed once, in order, from its first byte, and the*)
(* table goes on behind the loop (descriptors_count() and                  *)
(* descriptors_parse() agree on how many there are, and pmt.c:271).        *)
Walked == phase = "done" => WalkedRight

(* Property: unless it is stuck, the walk over a loop of descriptors ends, *)
(* and has parsed what was sent (descriptors_count() and                   *)
(* descriptors_parse() against each other).                                *)
WalkRight == Stuck(loop) \/ <>(phase = "done" /\ WalkedRight)

(* The descriptors whose files are known not to show what they tell, by    *)
(* what the comments at their parsers say.                                 *)
Deviates(family, standard, d) ==
  LET told == Told(d.layout)
      Has(name) == \E key \in DOMAIN told : key[1] = name
      Of(name) == {told[key] : key \in {k \in DOMAIN told : k[1] = name}}
      Above(name, limit) == \E v \in Of(name) : \E k \in DOMAIN v : v[k] >= limit
  IN IF family = DsmCc
     THEN d.tag = 0 \/ (d.tag = 3 /\ Has("ISO_639_language_code")) \/ d.tag = 194
     ELSE CASE d.tag = 16 -> TRUE
            [] d.tag = 19 -> Has("private_data")
            [] d.tag = 20 -> Has("private_data_byte")
            [] d.tag = 78 -> \E key \in DOMAIN told : Len(key[2]) > 1
            [] d.tag = 80 -> \/ Has("text")
                             \/ NoResolution(told[<<"stream_content", <<>>>>][1],
                                             told[<<"component_type", <<>>>>][1])
            [] d.tag = 85 -> Has("rating")
            [] d.tag = 88 -> told[<<"local_time_offset_polarity", <<>>>>][1]
                               # told[<<"country_region_id", <<>>>>][1] \div 32
            [] d.tag = 124 -> Has("aac_type") \/ Has("additional_info")
            [] d.tag = 193 -> \/ \E v \in Of("copy_control_type") : v = <<0>>
                              \/ \E key \in DOMAIN told : key[1] = "maximum_bitrate" /\ key[2] # <<>>
                              \/ Has("maximum_bitrate") /\ BodyLength(d) < 4
            [] d.tag = 205 -> Above("num_of_service", 2) \/ Above("length_of_ts_name", 32)
            [] d.tag = 207 -> BodyLength(d) < 2
            [] d.tag = 208 -> \/ Has("start_time_extension") /\ BodyLength(d) < 14
                              \/ Above("segmentation_mode", 6)
            [] d.tag = 250 -> \/ Above("frequency", 2^8) \/ Above("area_code", 2^11)
                              \/ \E v \in Of("area_code") : v[1] % 2^4 >= 8
            [] d.tag = 251 -> Has("service_id")
            [] d.tag = 253 -> Has("dmf") /\ BodyLength(d) <= 4
            [] d.tag = 254 -> Above("broadcasting_flag", 2) \/ ~HasIdentifiers(standard)
            [] OTHER -> FALSE

(* Descriptors of one tag share a directory.                               *)
Alone(k) == \A m \in DOMAIN loop.sent \ {k} : loop.sent[m].tag # loop.sent[k].tag
Shows(k) ==
  /\ loop.sent[k].tag \in DOMAIN files
  /\ Filled(files[loop.sent[k].tag]) = Told(loop.sent[k].layout)

(* Property: once a loop has been parsed, the files of a descriptor that is*)
(* the only one of its tag show all that it tells and nothing else, except *)
(* for those of Deviates.                                                  *)
AsSent ==
  (phase = "done" /\ Countable(loop)) =>
    \A k \in DOMAIN loop.sent :
      Alone(k) => (Shows(k) <=> ~Deviates(loop.family, loop.standard, loop.sent[k]))

(* What a field holds: a number, the two halves of one, bytes, a text      *)
(* without NULs, a code of three letters, or the length of the text behind *)
(* it.                                                                     *)
Holds(layout, k, width, what) ==
  LET value == layout[k].value
  IN /\ layout[k].width = width
     /\ \A u \in DOMAIN value : value[u] < Limit(width)
     /\ what = "number" => Len(value) = 1
     /\ what = "halves" => Len(value) = 2
     /\ what = "code"   => Len(value) = 3
     /\ what \in {"text", "code"} => \A u \in DOMAIN value : value[u] > 0
     /\ what = "length" => value = <<Len(layout[k+1].value)>>
(* A descriptor of that tag: of each field the name, the width and what it *)
(* holds.                                                                  *)
Shaped(d, tag, shape) ==
  /\ d.tag = tag /\ Len(d.layout) = Len(shape)
  /\ \A k \in DOMAIN shape :
       /\ d.layout[k].name = shape[k][1] /\ d.layout[k].nrs = <<>>
       /\ Holds(d.layout, k, shape[k][2], shape[k][3])
Nr(name, width) == <<name, width, "number">>
Spare(width) == Nr("reserved", width)

(* The descriptors of a fixed sequence of fields that the parsers show, as *)
(* far as their numbers and the standard lead no parser astray.            *)
IsPlain(family, standard, d) ==
  IF family = Ts
  THEN \/ Shaped(d, 6, <<Nr("alignment_type", 8)>>)
       \/ Shaped(d, 11, <<Nr("external_clock_reference_indicator", 1), Spare(1),
                         Nr("clock_accuracy_integer", 6), Nr("clock_accuracy_exponent", 3), Spare(5)>>)
       \/ Shaped(d, 14, <<Nr("max_bitrate", 24)>>)
       \/ Shaped(d, 19, <<<<"carousel_id", 16, "halves">>>>)
       \/ /\ Shaped(d, 20, <<Nr("association_tag", 16), Nr("use", 16), Nr("selector_length", 8),
                            <<"transaction_id", 16, "halves">>, <<"timeout", 16, "halves">>>>)
          /\ d.layout[2].value[1] = 0
       \/ /\ Shaped(d, 20, <<Nr("association_tag", 16), Nr("use", 16), Nr("selector_length", 8)>>)
          /\ d.layout[2].value[1] = 1
       \/ /\ Shaped(d, 20, <<Nr("association_tag", 16), Nr("use", 16),
                            <<"selector_length", 8, "length">>, <<"selector_byte", 8, "text">>>>)
          /\ d.layout[2].value[1] > 1
       \/ Shaped(d, 64, <<<<"network_name", 8, "text">>>>)
       \/ Shaped(d, 72, <<Nr("service_type", 8), <<"service_provider_name_length", 8, "length">>,
                         <<"service_provider_name", 8, "text">>,
                         <<"service_name_length", 8, "length">>, <<"service_name", 8, "text">>>>)
       \/ Shaped(d, 77, <<<<"language_code", 8, "code">>,
                         <<"event_name_length", 8, "length">>, <<"event_name", 8, "text">>,
                         <<"text_length", 8, "length">>, <<"text", 8, "text">>>>)
       \/ /\ Shaped(d, 80, <<Spare(4), Nr("stream_content", 4), Nr("component_type", 8),
                            Nr("component_tag", 8), <<"ISO_639_language_code", 8, "code">>>>)
          /\ ~NoResolution(d.layout[2].value[1], d.layout[3].value[1])
       \/ Shaped(d, 82, <<Nr("component_tag", 8)>>)
       \/ /\ Shaped(d, 124, <<Nr("profile_and_level", 8), Nr("aac_type_flag", 1), Spare(7)>>)
          /\ d.layout[2].value[1] = 0
       \/ Shaped(d, 160, <<Nr("reference_level", 8), <<"free_text", 8, "text">>>>)
       \/ /\ Shaped(d, 193, <<Nr("digital_recording_control_data", 2), Nr("maximum_bitrate_flag", 1),
                             Nr("component_control_flag", 1), Nr("copy_control_type", 2),
                             Nr("APS_control_data", 2)>>)
          /\ d.layout[2].value[1] = 0 /\ d.layout[3].value[1] = 0
       \/ Shaped(d, 200, <<Nr("still_picture_flag", 1), Nr("sequence_end_code_flag", 1),
                          Nr("video_encode_format", 4), Spare(2)>>)
       \/ /\ Shaped(d, 207, <<Nr("logo_transmission_type", 8), Spare(7), Nr("logo_id", 9),
                             Spare(4), Nr("logo_version", 12), Nr("download_data_id", 16)>>)
          /\ d.layout[1].value[1] = 1
       \/ /\ Shaped(d, 207, <<Nr("logo_transmission_type", 8), Spare(7), Nr("logo_id", 9)>>)
          /\ d.layout[1].value[1] = 2
       \/ /\ Shaped(d, 207, <<Nr("logo_transmission_type", 8), <<"logo_char", 8, "bytes">>>>)
          /\ d.layout[1].value[1] = 3 /\ BodyLength(d) > 1
       \/ /\ Shaped(d, 208, <<Spare(4), Nr("segmentation_mode", 4), Nr("segmentation_info_length", 8)>>)
          /\ d.layout[2].value[1] = 0
       \/ /\ Shaped(d, 208, <<Spare(4), Nr("segmentation_mode", 4), Nr("segmentation_info_length", 8),
                             Nr("start_time", 24), Nr("duration", 24)>>)
          /\ d.layout[2].value[1] \in 2..5
       \/ Shaped(d, 253, <<Nr("data_component_id", 16)>>)
       \/ /\ Shaped(d, 253, <<Nr("data_component_id", 16), Nr("dmf", 4), Spare(2), Nr("timing", 2),
                             <<"reserved", 8, "bytes">>>>)
          /\ BodyLength(d) > 4
       \/ /\ Shaped(d, 254, <<Nr("broadcasting_flag", 2), Nr("broadcasting_identifier", 6),
                             Nr("additional_broadcasting_identification", 8),
                             <<"additional_identification_information", 8, "text">>>>)
          /\ d.layout[1].value[1] < 2 /\ HasIdentifiers(standard)
  ELSE \/ \E tag \in 1..3 : Shaped(d, tag, <<<<"text_char", 8, "text">>>>)
       \/ Shaped(d, 4, <<Nr("position", 8), Nr("module_id", 16)>>)
       \/ Shaped(d, 5, <<<<"crc_32", 16, "halves">>>>)
       \/ Shaped(d, 6, <<Nr("location_tag", 8)>>)
       \/ Shaped(d, 7, <<<<"est_download_time", 16, "halves">>>>)

(* Property: once a loop has been parsed, the files of a descriptor of one *)
(* of these sequences of fields that is the only one of its tag show all   *)
(* that it tells and nothing else.                                         *)
PlainAsSent ==
  (phase = "done" /\ Countable(loop)) =>
    \A k \in DOMAIN loop.sent :
      Alone(k) /\ IsPlain(loop.family, loop.standard, loop.sent[k]) => Shows(k)
=============================================================================
