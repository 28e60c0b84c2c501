----------------------------- MODULE Structures ------------------------------
(***************************************************************************)
(* One structure is taken out of the bytes it is sent as: the messages of  *)
(* a module one by one (biop_create_filesystem_dentries()), everything else*)
(* (a section of a table, a PES packet, an IOR) in a step.                 *)
(***************************************************************************)
EXTENDS TableBodies

CONSTANTS Inputs   \* what is parsed: what it is, what is sent, as which bytes

VARIABLES
  input,    \* what is parsed
  j,        \* offset of the next message
  taken,    \* the messages parsed, or the files made
  over

bvars == <<input, j, taken, over>>

-----------------------------------------------------------------------------
Handed(i) == input = i /\ j = 0 /\ taken = <<>> /\ over = FALSE
BInit == \E i \in Inputs : Handed(i)

(* A round of biop_create_filesystem_dentries().                           *)
MessageAt(b, i, kind) ==
  IF kind = Fil THEN biop_parse_file_message(b, i) ELSE biop_parse_directory_message(b, i, kind)
Message ==
  /\ input.what = "module" /\ ~over /\ j < Len(input.bytes) - 1
  /\ LET b == input.bytes
         at == biop_parse_message_header(b, j)
     IN IF at < Len(b) /\ Lookahead(b, at) \in {Srg, Dirc, Fil}
        THEN \E message \in {MessageAt(b, at, Lookahead(b, at))} :
               j' = message.next /\ taken' = Append(taken, message.said) /\ UNCHANGED over
        ELSE over' = TRUE /\ UNCHANGED <<j, taken>>
  /\ UNCHANGED input

EndOfModule ==
  /\ input.what = "module" /\ ~over /\ j >= Len(input.bytes) - 1
  /\ over' = TRUE
  /\ UNCHANGED <<input, j, taken>>

(* The parsers of everything else, by what it is. Data of a DII's table_id *)
(* may also be a DSI; a TOT may come behind another.                       *)
FilesOf(what, b, standard, before) ==
  CASE what = "ior" -> iop_create_ior_dentries(b, 0)
    [] what = "module info" -> biop_parse_module_info(b, 0)
    [] what \in {"dii", "dsi"} -> dii_parse(b)
    [] what = "ddb" -> ddb_parse(b)
    [] what = "ait" -> ait_parse(b, standard)
    [] what = "pes" -> pes_parse_audio_video_payload(b)
    [] what = "pat" -> pat_parse(b)
    [] what = "pmt" -> pmt_parse(b)
    [] what = "nit" -> nit_parse(b)
    [] what = "sdt" -> sdt_parse(b)
    [] what = "sdtt" -> sdtt_parse(b)
    [] what = "eit" -> eit_parse(b)
    [] what = "tot" -> tot_parse(b, IF before = <<>> THEN NoFiles
                                     ELSE Described(Bytes(before), tot_parse(Bytes(before), NoFiles), standard))
Structure ==
  /\ input.what # "module" /\ ~over
  /\ taken' = Described(input.bytes, FilesOf(input.what, input.bytes, input.standard, input.before),
                        input.standard)
  /\ over' = TRUE
  /\ UNCHANGED <<input, j>>

BNext == Message \/ EndOfModule \/ Structure
BSpec == BInit /\ [][BNext]_bvars
-----------------------------------------------------------------------------
(* What is sent says this: a key is the number its bytes (at most four)    *)
(* make.                                                                   *)
Number(key) == U32(SubSeq(<<0, 0, 0, 0>> \o key, Len(key) + 1, Len(key) + 4), 0)
Bound(binding) == [name |-> binding.name, kind |-> binding.kind, key |-> Number(binding.key),
                   size |-> binding.size]
Says(sent) ==
  CASE input.what = "module" ->
         [m \in DOMAIN sent |->
            [kind |-> sent[m].kind, key |-> Number(sent[m].key), contents |-> sent[m].contents,
             bindings |-> [k \in DOMAIN sent[m].bindings |-> Bound(sent[m].bindings[k])]]]
    [] input.what \in {"ddb", "pes"} ->   \* only what is carried is shown
         LET told == Told(sent)
         IN [key \in {t \in DOMAIN told : t[1] \in {"block_data_byte", "PES_packet_data_byte"}} |-> told[key]]
    [] OTHER -> Told(sent)
-----------------------------------------------------------------------------
(* What the parsers read right, of what is sent.                           *)

(* In a module: keys of four bytes that begin with a 0 (see Lookahead), and*)
(* descriptors, if any, only behind the last binding of a directory, where *)
(* its stated length gets one on.                                          *)
PlainModule(sent) ==
  \A m \in DOMAIN sent :
    /\ Len(sent[m].key) = 4 /\ sent[m].key[1] = 0
    /\ \A k \in DOMAIN sent[m].bindings :
         sent[m].bindings[k].described => k = Len(sent[m].bindings)

(* What is told under a name: all of it, in one directory, and in the last *)
(* of the directories that are numbered through.                           *)
ValuesOf(told, name) == {told[key] : key \in {k \in DOMAIN told : k[1] = name}}
ValueAt(told, nrs, name) == told[<<name, nrs>>][1]
LastValues(told, name) ==
  {told[key][1] : key \in {k \in DOMAIN told :
     k[1] = name /\ <<name, Append(Front(k[2]), Last(k[2]) + 1)>> \notin DOMAIN told}}

(* In an IOR: one profile, a gap of as many bytes as the type is beyond a  *)
(* multiple of four. In a module info: taps without selectors.             *)
PlainIor(told) ==
  /\ told[<<"tagged_profiles_count", <<>>>>] = <<0, 1>>
  /\ told[<<"type_id_length", <<>>>>][2] % 4 \in {0, 2}
PlainModuleInfo(told) == ValuesOf(told, "selector_length") \subseteq {<<0>>}

(* In a DSI, a DII and a DDB: one that is current, without an adaptation.  *)
PlainMessage(told) ==
  ValueAt(told, <<>>, "current_next_indicator") = 1 /\ ValueAt(told, <<>>, "adaptation_length") = 0

(* In a DSI of an object carousel: an IOR that is read right, no taps and  *)
(* no service contexts. Of a data carousel: groups without compatibility   *)
(* descriptors, more than 44 bytes from the last one to the end.           *)
PlainDsi(told) ==
  /\ PlainMessage(told)
  /\ IF ValuesOf(told, "type_id_length") # {}
     THEN /\ PlainIor(told)
          /\ ValueAt(told, <<>>, "download_taps_count") = 0
          /\ ValueAt(told, <<>>, "service_context_list_count") = 0
     ELSE LET number == ValueAt(told, <<>>, "number_of_groups")
              OfLast(name) == ValueAt(told, <<number>>, name)
          IN number > 0 =>
               /\ ValuesOf(told, "descriptor_count") = {<<0>>}
               /\ 8 + 2 + OfLast("compatibility_descriptor_length") + 2 + OfLast("group_info_length")
                    + 2 + 4 > 44

(* In a DII: blocks of a size, private data, no compatibility descriptors, *)
(* and module infos that are read right.                                   *)
PlainDii(told) ==
  /\ PlainMessage(told)
  /\ ValueAt(told, <<>>, "block_size") > 0
  /\ ValueAt(told, <<>>, "private_data_length") > 0
  /\ ValueAt(told, <<>>, "descriptor_count") = 0
  /\ PlainModuleInfo(told)

(* In an AIT: a last application longer than what precedes the loop; no    *)
(* labels of protocols in application descriptors; connections that are    *)
(* remote, aligned, with a last URL of two bytes or more; one parameter, of*)
(* two bytes or more; a last label of a DII that is not empty; and what    *)
(* only SBTVD has in SBTVD only.                                           *)
PlainAit(told) ==
  /\ ValueAt(told, <<>>, "current_next_indicator") = 1
  /\ LET common == ValueAt(told, <<>>, "common_descriptors_length")
     IN /\ common < ValueAt(told, <<>>, "section_length")
        /\ \A length \in LastValues(told, "application_descriptors_loop_length") :
             9 + length > 12 + common
  /\ \A key \in DOMAIN told : key[1] = "transport_protocol_label" => key[2][2] # 0
  /\ ValuesOf(told, "remote_connection") \cup ValuesOf(told, "alignment_indicator") \subseteq {<<1>>}
  /\ \A length \in LastValues(told, "URL_length") : length >= 2
  /\ \A key \in DOMAIN told : key[1] = "parameter_length" => Last(key[2]) = 1 /\ told[key][1] >= 2
  /\ \A length \in LastValues(told, "label_length") : length >= 1
  /\ input.standard = "SBTVD" \/ \A key \in DOMAIN told : Len(key[2]) < 2 \/ key[2][2] \notin {3, 4, 17}

(* In a PES packet: no pack header, no stuffing, and no extension without  *)
(* its last field.                                                         *)
PlainPes(told) ==
  /\ ValuesOf(told, "pack_field_length") \cup ValuesOf(told, "stuffing_byte") = {}
  /\ ValuesOf(told, "PES_extension_flag_2") \subseteq {<<1>>}

(* In an NIT: no transport stream that begins behind offset 255. In an EIT:*)
(* no running status of 4 or more. In an SDTT: no schedules, and seven     *)
(* bytes of descriptors in every content but the last. Other sections only *)
(* have to be current.                                                     *)
PlainNit(told) ==
  \A length \in LastValues(told, "transport_descriptors_length") :
    ValueAt(told, <<>>, "section_length") - 1 - (6 + length) <= 255
PlainEit(told) == \A status \in ValuesOf(told, "running_status") : status[1] < 4
PlainSdtt(told) ==
  /\ ValuesOf(told, "schedule_descriptor_length") \subseteq {<<0>>}
  /\ \A k \in 1..(ValueAt(told, <<>>, "num_of_contents") - 1) :
       ValueAt(told, <<k>>, "content_descriptor_length") = 7

(* In a TOT: no date before 1901. Behind another, of the same lengths; with*)
(* a time, if the other had one, and with its descriptors.                 *)
PlainTot(told, before) ==
  /\ \A time \in ValuesOf(told, "utc3_time") : time[1] > 1900
  /\ before # NoFiles =>
       /\ \A name \in {"section_length", "descriptors_loop_length"} :
            ValueAt(told, <<>>, name) = ValueAt(before, <<>>, name)
       /\ DOMAIN before \subseteq DOMAIN told

Current(told) == ValueAt(told, <<>>, "current_next_indicator") = 1
Plain(sent) ==
  CASE input.what = "module" -> PlainModule(sent)
    [] input.what = "ior" -> PlainIor(Told(sent))
    [] input.what = "module info" -> PlainModuleInfo(Told(sent))
    [] input.what = "dsi" -> PlainDsi(Told(sent))
    [] input.what = "dii" -> PlainDii(Told(sent))
    [] input.what = "ddb" -> PlainMessage(Told(sent))
    [] input.what = "ait" -> PlainAit(Told(sent))
    [] input.what = "pes" -> PlainPes(Told(sent))
    [] input.what \in {"pat", "pmt", "sdt"} -> Current(Told(sent))
    [] input.what = "nit" -> Current(Told(sent)) /\ PlainNit(Told(sent))
    [] input.what = "sdtt" -> Current(Told(sent)) /\ PlainSdtt(Told(sent))
    [] input.what = "eit" -> Current(Told(sent)) /\ PlainEit(Told(sent))
    [] input.what = "tot" -> PlainTot(Told(sent), Told(input.before))

(* Property: a structure's files show what it says, and the messages of a  *)
(* module are taken one by one, each with what it says, an object having   *)
(* the same number wherever it is named -- just where Plain says so (the   *)
(* parsers of dsm-cc/ and tables/, and pes_parse_audio_video_payload()).   *)
StructuresAsSent ==
  over => LET shown == IF input.what = "module" THEN taken ELSE Filled(taken)
          IN (shown = Says(input.sent)) <=> Plain(input.sent)
=============================================================================
