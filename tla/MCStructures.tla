---------------------------- MODULE MCStructures -----------------------------
(***************************************************************************)
(* Structures of an object carousel: modules of up to three messages with  *)
(* keys, bindings, descriptors and paddings of each kind, IORs, module     *)
(* infos; sections of DSIs, DIIs, DDBs, AITs and the other tables; TOTs; PES*)
(* packets.                                                                *)
(***************************************************************************)
EXTENDS Structures

Two == <<65, 66>>
Four == <<65, 66, 67, 68>>

(* What is sent: an IOR with its profiles, each with an object's key.      *)
Tap(k, use) ==
  In(k, Num("tap_id", 16, k) \o Num("tap_use", 16, use) \o Num("association_tag", 16, 128 + k)
        \o (CASE use = DeliveryParaUse -> Num("selector_length", 8, 10) \o Num("selector_type", 16, 1)
                   \o Long("transaction_id", 32768, k) \o Long("timeout", 65535, 65535)
              [] use = ObjectUse -> Num("reserved", 8, 0)
              [] OTHER -> <<>>))
Profile(key, uses) ==
  LET location == Long("carousel_id", 0, 4) \o Num("module_id", 16, 2)
                  \o Num("version_major", 8, 1) \o Num("version_minor", 8, 0)
                  \o Num("object_key_length", 8, 4) \o Long("object_key", key[1], key[2])
      taps == FlattenSeq([k \in DOMAIN uses |-> Tap(k, uses[k])])
      connbinder == Num("tap_count", 8, Len(uses)) \o taps
      body == Num("profile_data_byte_order", 8, 0) \o Num("component_count", 8, 2)
              \o Long("object_location_tag", 18771, 20304)
              \o Num("object_location_length", 8, 13) \o location
              \o Long("connbinder_tag", 18771, 20288)
              \o Num("connbinder_length", 8, Len(Bytes(connbinder))) \o connbinder
  IN Long("profile_id_tag", BiopProfile[1], BiopProfile[2])
     \o Long("profile_data_length", 0, Len(Bytes(body))) \o body
(* A profile of another kind, which no parser looks into.                  *)
OtherProfile == Long("lite_id_tag", 18771, 20229) \o Long("lite_data_length", 0, 2) \o Text("lite_data", Two)

(* The type is padded to a multiple of four bytes; a NUL ends its text.    *)
Gap(type) == Text("alignment_gap", [k \in 1..((4 - (Len(type) % 4)) % 4) |-> 255])
Ior(type, profiles) ==
  Long("type_id_length", 0, Len(type))
  \o (IF type # <<>> /\ Last(type) = 0 THEN Text("type_id", Front(type)) \o Num("reserved", 8, 0)
      ELSE Text("type_id", type))
  \o Gap(type)
  \o Long("tagged_profiles_count", 0, Len(profiles)) \o FlattenSeq(profiles)

ModuleInfo(selectors, info) ==
  Long("module_timeout", 0, 1) \o Long("block_timeout", 1, 0) \o Long("min_block_time", 65535, 65535)
  \o Num("taps_count", 8, Len(selectors))
  \o FlattenSeq([k \in DOMAIN selectors |->
       In(k, Num("tap_id", 16, k) \o Num("tap_use", 16, ObjectUse) \o Num("association_tag", 16, 129)
             \o Num("selector_length", 8, Len(selectors[k])) \o Text("selector", selectors[k]))])
  \o Num("user_info_length", 8, Len(info)) \o Text("user_info", info)

(* Messages, with a header and a sub-header.                               *)
Kind(kind) == Text("kind", Append(kind, 0))
Size(size) == Long("size", 0, 0) \o Long("size", 0, size)
ContentType == Num("tag", 8, 114) \o Num("length", 8, 1) \o Text("type", <<84>>)
BindingOf(binding) ==
  LET info == (IF binding.kind = Fil THEN Size(binding.size) ELSE <<>>)
              \o (IF binding.described THEN ContentType ELSE <<>>)
  IN Num("name_component_count", 8, 1)
     \o Num("id_length", 8, Len(binding.name)) \o Text("id", binding.name)
     \o Num("kind_length", 8, 4) \o Kind(binding.kind)
     \o Num("binding_type", 8, IF binding.kind = Fil THEN 1 ELSE 2)
     \o Ior(Append(binding.kind, 0),
            (IF binding.kind = Fil THEN <<>> ELSE <<OtherProfile>>)
            \o <<Profile(U32(binding.key, 0), <<DeliveryParaUse>>)>>)
     \o Num("child_object_info_length", 16, Len(Bytes(info))) \o info
MessageOf(message) ==
  LET body == IF message.kind = Fil
              THEN Long("content_length", 0, Len(message.contents)) \o Text("contents", message.contents)
              ELSE Num("bindings_count", 16, Len(message.bindings))
                   \o FlattenSeq([k \in DOMAIN message.bindings |-> BindingOf(message.bindings[k])])
      rest == Num("object_key_length", 8, Len(message.key)) \o Text("object_key", message.key)
              \o Long("kind_length", 0, 4) \o Kind(message.kind)
              \o (IF message.kind = Fil
                  THEN Num("info_length", 16, 8) \o Size(Len(message.contents))
                  ELSE Num("info_length", 16, 0))
              \o FlattenSeq([k \in 1..1 |-> Num("service_context_list_count", 8, Len(message.contexts))
                   \o FlattenSeq([c \in DOMAIN message.contexts |->
                        Long("context_id", 0, c) \o Num("length", 16, Len(message.contexts[c]))
                        \o Text("context", message.contexts[c])])])
              \o Long("message_body_length", 0, Len(Bytes(body))) \o body
  IN Text("magic", <<66, 73, 79, 80, 1, 0, 0, 0>>) \o Long("message_size", 0, Len(Bytes(rest))) \o rest

Zeros(k) == [z \in 1..k |-> 0]
Key(first, last) == <<first, 0, 1, last>>
ABinding(name, kind, key, size, described) ==
  [name |-> name, kind |-> kind, key |-> key, size |-> size, described |-> described]
Directory(kind, key, bindings, contexts) ==
  [kind |-> kind, key |-> key, bindings |-> bindings, contents |-> <<>>, contexts |-> contexts]
FileOf(key, contents) ==
  [kind |-> Fil, key |-> key, bindings |-> <<>>, contents |-> contents, contexts |-> <<>>]

Module(messages, padding) ==
  [what |-> "module", sent |-> messages,
   bytes |-> FlattenSeq([m \in DOMAIN messages |-> Bytes(MessageOf(messages[m]))]) \o padding]
Structured(what, layout) == [what |-> what, sent |-> layout, bytes |-> Bytes(layout), standard |-> "SBTVD",
   before |-> <<>>]

Gateway(described, key) ==
  Directory(Srg, Key(0, 1), <<ABinding(Two, Fil, key, 200, described), ABinding(<<67>>, Dirc, Key(0, 3), 0, FALSE)>>, <<>>)
Folder(described) == Directory(Dirc, Key(0, 3), <<ABinding(Four, Fil, Key(0, 2), 200, described)>>, <<Two>>)
Hello(key) == FileOf(key, Zeros(200))

-----------------------------------------------------------------------------
(* Sections, with a CRC; of DIIs, DSIs and DDBs with the header of a       *)
(* message, and an adaptation if it has bytes.                             *)
Section(table, current, body) ==
  Num("table_id", 8, table) \o Num("section_syntax_indicator", 1, 1) \o Reserved(3)
  \o Num("section_length", 12, Len(Bytes(body)) + 9) \o Num("identifier", 16, 40961)
  \o Reserved(2) \o Num("version_number", 5, 21) \o Num("current_next_indicator", 1, current)
  \o Num("section_number", 8, 1) \o Num("last_section_number", 8, 254)
  \o body \o Text("reserved", Zeros(4))
Carried(message, id, adaptation, body) ==
  LET head == IF adaptation = <<>> THEN <<>>
              ELSE Num("adaptation_type", 8, 1) \o Text("adaptation_data_bytes", adaptation)
      adapted == Len(Bytes(head))
  IN Num("protocol_discriminator", 8, 17) \o Num("dsmcc_type", 8, 3) \o Num("message_id", 16, message)
     \o Long(id, 32768, 2) \o Reserved(8) \o Num("adaptation_length", 8, adapted)
     \o Num("message_length", 16, adapted + Len(Bytes(body))) \o head \o body

(* Compatibility descriptors: without a length, or one with a count.       *)
Incompatible == Num("compatibility_descriptor_length", 16, 0) \o Num("descriptor_count", 0, 0)
Compatible(subs) ==
  LET Sub(k, bytes) == In(k, Num("sub_descriptor_type", 8, 1) \o Num("sub_descriptor_length", 8, Len(bytes))
                                \o Text("additional_information", bytes))
      Descriptor1(k) ==
        LET rest == Num("specifier_type", 8, 1) \o Text("specifier_data", <<1, 2, 255>>)
                    \o Num("model", 16, 32768 + k) \o Num("version", 16, 2)
                    \o Num("sub_descriptor_count", 8, Len(subs[k]))
                    \o FlattenSeq([m \in DOMAIN subs[k] |-> Sub(m, subs[k][m])])
        IN In(k, Num("descriptor_type", 8, 2) \o Num("descriptor_length", 8, Len(Bytes(rest))) \o rest)
      all == FlattenSeq([k \in DOMAIN subs |-> Descriptor1(k)])
  IN Num("compatibility_descriptor_length", 16, 2 + Len(Bytes(all))) \o Num("descriptor_count", 16, Len(subs))
     \o all

Dsi(current, adaptation, data) ==
  Section(59, current, Carried(4102, "transaction_id", adaptation,
    Text("server_id", [k \in 1..20 |-> 255]) \o Num("compatibility_descriptor_length", 16, 0)
    \o Num("private_data_length", 16, Len(Bytes(data))) \o data))
Groups(infos, compatibility) ==
  Num("number_of_groups", 16, Len(infos))
  \o FlattenSeq([k \in DOMAIN infos |->
       In(k, Long("group_id", 0, k) \o Long("group_size", 1, 32768) \o compatibility
             \o Num("group_info_length", 16, Len(infos[k])) \o Text("group_info_bytes", infos[k]))])
  \o Num("reserved", 16, 0)
DownloadTap == In(1, Num("id", 16, 256) \o Num("use", 16, 0) \o Num("association", 16, 1) \o Num("selector", 8, 0))
GatewayOf(profiles, taps, contexts, info) ==
  Ior(Append(Srg, 0), profiles)
  \o Num("download_taps_count", 8, taps) \o (IF taps = 0 THEN <<>> ELSE DownloadTap)
  \o Num("service_context_list_count", 8, Len(contexts))
  \o FlattenSeq([c \in DOMAIN contexts |->
       Long("reserved", 0, c) \o Num("reserved", 16, Len(contexts[c])) \o Text("reserved", contexts[c])])
  \o Num("user_info_length", 16, Len(info)) \o Text("user_info", info)

Dii(current, adaptation, block, compatibility, infos, private) ==
  Section(59, current, Carried(4098, "transaction_id", adaptation,
    Long("download_id", 1, 2) \o Num("block_size", 16, block) \o Num("window_size", 8, 0)
    \o Num("ack_period", 8, 0) \o Long("t_c_download_window", 0, 0) \o Long("t_c_download_scenario", 32768, 9)
    \o compatibility \o Num("number_of_modules", 16, Len(infos))
    \o FlattenSeq([k \in DOMAIN infos |->
         In(k, Num("module_id", 16, 255 + k) \o Long("module_size", 1, 1) \o Num("module_version", 8, 129)
               \o Num("module_info_length", 8, Len(Bytes(infos[k]))) \o infos[k])])
    \o Num("private_data_length", 16, Len(private)) \o Text("private_data_bytes", private)))
Ddb(current, adaptation, block) ==
  Section(60, current, Carried(4099, "download_id", adaptation,
    Num("module_id", 16, 258) \o Num("module_version", 8, 1) \o Num("reserved", 8, 255)
    \o Num("block_number", 16, 3) \o In(258, In(3, Text("block_data_byte", block)))))

(* An AIT; descriptors of an application, in the directory of their tag.   *)
Tagged(tag, layout) ==
  Num("reserved", 8, tag) \o Num("reserved", 8, Len(Bytes(layout))) \o In(tag, layout)
Ait(current, commons, applications) ==
  LET common == FlattenSeq(commons)
      loop == FlattenSeq([k \in DOMAIN applications |->
                LET descriptors == FlattenSeq(applications[k])
                IN In(k, Long("organization_id", 0, 11) \o Num("application_id", 16, 16384 + k)
                         \o Num("application_control_code", 8, 2) \o Reserved(4)
                         \o Num("application_descriptors_loop_length", 12, Len(Bytes(descriptors)))
                         \o descriptors)])
  IN Section(116, current,
       Reserved(4) \o Num("common_descriptors_length", 12, Len(Bytes(common))) \o common
       \o Reserved(4) \o Num("application_loop_length", 12, Len(Bytes(loop))) \o loop)
Other == Tagged(128, Field("reserved", 8, Zeros(4)))
Named(k, name) == In(k, Num("iso_639_language_code", 24, 7368562)
                        \o Num("application_name_length", 8, Len(name)) \o Text("application_name", name))
Profile1(version) == In(32768 + version, Num("version_major", 8, version) \o Num("version_minor", 8, 0)
                                         \o Num("version_micro", 8, 200))
Applied(versions, label) ==
  Num("reserved", 8, 5 * Len(versions))
  \o FlattenSeq([k \in DOMAIN versions |-> Num("reserved", 16, 32768 + versions[k]) \o Profile1(versions[k])])
  \o Num("service_bound_flag", 1, 1) \o Num("visibility", 2, 1) \o Reserved(5)
  \o Num("application_priority", 8, 255) \o Text("transport_protocol_label", label)
Transport(protocol, selector) ==
  Num("protocol_id", 16, protocol) \o Num("transport_protocol_label", 8, 4) \o selector
Remote(remote) ==
  Num("remote_connection", 1, remote) \o Reserved(7)
  \o (IF remote = 0 THEN <<>>
      ELSE Num("original_network_id", 16, 1) \o Num("transport_stream_id", 16, 65535) \o Num("service_id", 16, 258))
Urls(urls) == FlattenSeq([k \in DOMAIN urls |->
                In(k, Num("URL_length", 8, Len(urls[k])) \o Text("URL_byte", urls[k]))])
Ip(remote, aligned, urls) ==
  Transport(2, Remote(remote) \o Num("alignment_indicator", 1, aligned) \o Reserved(7) \o Urls(urls))
Parameters(bytes) == FlattenSeq([k \in DOMAIN bytes |->
                       In(k, Num("parameter_length", 8, Len(bytes[k])) \o Text("parameter", bytes[k]))])
Location(base, path, class) ==
  Num("base_directory_length", 8, Len(base)) \o Text("base_directory", base)
  \o Num("classpath_extension_length", 8, Len(path)) \o Text("classpath_extension", path)
  \o Text("initial_class", class)
Authorized(k) == In(k, Long("organization_id", 1, 40000) \o Num("application_id", 16, k)
                       \o Num("application_priority", 8, 128))
Icons(locator) == Num("icon_locator_length", 8, Len(locator)) \o Text("icon_locator", locator)
                  \o Num("icon_flags", 16, 257) \o Text("reserved", Two)
Labels(labels) == Num("transport_protocol_label", 8, 7) \o FlattenSeq([k \in DOMAIN labels |->
                    In(k, Num("label_length", 8, Len(labels[k])) \o Text("label", labels[k])
                          \o Num("prefetch_priority", 8, 100))])

ApplicationDescriptors ==
  {Tagged(0, Applied(versions, label)) : versions \in {<<>>, <<1>>, <<1, 2>>}, label \in {<<>>, <<4>>}}
  \cup {Tagged(1, Named(1, Two)), Tagged(1, Named(1, Two) \o Named(2, <<>>))}
  \cup {Tagged(2, Transport(protocol, Remote(remote) \o Num("component_tag", 8, 129))) :
          protocol \in {1, 4}, remote \in {0, 1}}
  \cup {Tagged(2, Transport(3, Text("selector_byte", selector))) : selector \in {<<>>, Two}}
  \cup {Tagged(2, Ip(1, aligned, urls)) :
          aligned \in {0, 1}, urls \in {<<>>, <<<<65>>, Two>>, <<Two, <<65>>>>, <<Four, <<>>>>}}
  \cup {Tagged(2, Ip(0, 1, <<Two>>))}
  \cup {Tagged(3, Parameters(bytes)) : bytes \in {<<>>, <<Two>>, <<<<65>>>>, <<<<>>>>, <<Two, <<1, 1>>>>}}
  \cup {Tagged(4, Location(base, Two, class)) : base \in {<<>>, Four}, class \in {<<>>, Two}}
  \cup {Tagged(5, Authorized(1) \o Authorized(2)), Tagged(11, Icons(Two)), Tagged(11, Icons(<<>>)),
        Tagged(17, Num("platform_id", 24, 8388609)), Tagged(18, Field("reserved", 8, Two))}
  \cup {Tagged(13, Labels(labels)) : labels \in {<<>>, <<Two>>, <<Two, <<>>>>, <<<<>>, Two>>}}

(* A PES packet of video; the fields it has besides.                       *)
Pes(stamps, optional, extension, stuffing, data) ==
  LET fields ==
        Text("time_stamps", Zeros(CASE stamps = 2 -> 5 [] stamps = 3 -> 10 [] OTHER -> 0))
        \o (IF ~optional THEN <<>>
            ELSE Text("ESCR", Zeros(6)) \o Text("ES_rate", Zeros(3)) \o Text("trick_mode", <<7>>)
                 \o Text("additional_copy_info", <<129>>) \o Text("previous_PES_packet_CRC", Two))
        \o extension \o Text("stuffing_byte", [k \in 1..stuffing |-> 255])
      flag == IF optional THEN 1 ELSE 0
  IN Text("packet_start_code_prefix", <<0, 0, 1>>) \o Num("stream_id", 8, 224) \o Num("PES_packet_length", 16, 0)
     \o Num("flags", 8, 128) \o Num("PTS_DTS_flags", 2, stamps) \o Num("ESCR_flag", 1, flag)
     \o Num("ES_rate_flag", 1, flag) \o Num("DSM_trick_mode_flag", 1, flag)
     \o Num("additional_copy_info_flag", 1, flag) \o Num("PES_CRC_flag", 1, flag)
     \o Num("PES_extension_flag", 1, IF extension = <<>> THEN 0 ELSE 1)
     \o Num("PES_header_data_length", 8, Len(Bytes(fields))) \o fields \o Text("PES_packet_data_byte", data)
PesExtension(private, pack, counter, buffer, last) ==
  Num("PES_private_data_flag", 1, private) \o Num("pack_header_field_flag", 1, pack)
  \o Num("program_packet_sequence_counter_flag", 1, counter) \o Num("P_STD_buffer_flag", 1, buffer)
  \o Reserved(3) \o Num("PES_extension_flag_2", 1, last)
  \o Text("PES_private_data", Zeros(16 * private))
  \o (IF pack = 0 THEN <<>> ELSE Num("pack_field_length", 8, 2) \o Text("pack_header", <<9, 9>>))
  \o Text("program_packet_sequence_counter", Zeros(2 * counter)) \o Text("P_STD_buffer", Zeros(2 * buffer))
  \o (IF last = 0 THEN <<>>
      ELSE Num("marker_bit", 1, 1) \o Num("PES_extension_field_length", 7, 2) \o Text("PES_extension_field", Two))
-----------------------------------------------------------------------------
(* The other tables.                                                       *)
NetworkName(text) == Tagged(64, Text("network_name", text))
Pat(current, programs) ==
  Section(0, current, FlattenSeq([k \in DOMAIN programs |->
    Num("reserved", 16, programs[k][1]) \o Reserved(3)
    \o In(programs[k][1], IF programs[k][1] = 0 THEN Num("NIT", 0, 0) \o Num("reserved", 13, programs[k][2])
                          ELSE Num("PMT", 13, programs[k][2]))]))
Pmt(current, descriptors, streams) ==
  LET Stream(s) ==
        LET info == FlattenSeq(s.descriptors)
        IN In(s.pid, Num("stream_type_identifier", 8, s.type) \o Reserved(3) \o Num("elementary_stream_pid", 13, s.pid)
                     \o Reserved(4) \o Num("es_information_length", 12, Len(Bytes(info))) \o info)
      info == FlattenSeq(descriptors)
  IN Section(2, current,
       Reserved(3) \o Num("pcr_pid", 13, 8190) \o Reserved(4)
       \o Num("program_information_length", 12, Len(Bytes(info))) \o info
       \o FlattenSeq([k \in DOMAIN streams |-> Stream(streams[k])]))
Nit(current, names, infos) ==
  LET network == FlattenSeq(names)
      Info(k) ==
        LET info == FlattenSeq(infos[k])
        IN In(k, Num("transport_stream_id", 16, 256 + k) \o Num("original_network_id", 16, 513)
                 \o Reserved(4) \o Num("transport_descriptors_length", 12, Len(Bytes(info))) \o info)
      loop == FlattenSeq([k \in DOMAIN infos |-> Info(k)])
  IN Section(64, current,
       Reserved(4) \o Num("reserved", 12, Len(Bytes(network))) \o network
       \o Reserved(4) \o Num("reserved", 12, Len(Bytes(loop))) \o loop)
Sdt(current, services) ==
  LET Service(k) ==
        LET info == FlattenSeq(services[k])
        IN In(k, Num("service_id", 16, 256 + k) \o Reserved(6) \o Num("eit_schedule_flag", 1, k % 2)
                 \o Num("eit_present_following_flag", 1, 1) \o Num("running_status", 3, 4 + k)
                 \o Num("free_ca_mode", 1, k % 2) \o Num("descriptors_loop_length", 12, Len(Bytes(info))) \o info)
  IN Section(66, current, Num("original_network_id", 16, 513) \o Reserved(8)
                               \o FlattenSeq([k \in DOMAIN services |-> Service(k)]))
Eit(current, events) ==
  LET Event(k) ==
        LET info == FlattenSeq(events[k].descriptors)
        IN In(k, Num("event_id", 16, 256 + k) \o Text("start_time", <<216, 1, 18, 52, k>>)
                 \o Text("duration", <<1, 48, k>>) \o Num("running_status", 3, events[k].status)
                 \o Num("free_ca_mode", 1, k % 2) \o Num("descriptors_loop_length", 12, Len(Bytes(info))) \o info)
  IN Section(78, current,
       Num("transport_stream_id", 16, 1) \o Num("original_network_id", 16, 513)
       \o Num("segment_last_section_number", 8, 1) \o Num("last_table_id", 8, 79)
       \o FlattenSeq([k \in DOMAIN events |-> Event(k)]))
Sdtt(current, contents) ==
  LET Schedule(n) == In(n, Text("start_time", <<216, 1, 18, 52, n>>) \o Text("duration", <<1, 48, n>>))
      Content(k) ==
        LET info == FlattenSeq(contents[k].descriptors)
            schedules == FlattenSeq([n \in 1..contents[k].schedules |-> Schedule(n)])
        IN In(k, Num("group", 4, 9) \o Num("target_version", 12, 2049) \o Num("new_version", 12, 2050)
                 \o Num("download_level", 2, 1) \o Num("version_indicator", 2, 2)
                 \o Num("content_descriptor_length", 12, Len(Bytes(schedules \o info))) \o Reserved(4)
                 \o Num("schedule_descriptor_length", 12, Len(Bytes(schedules)))
                 \o Num("schedule_time_shift_information", 4, 15) \o schedules \o info)
      section == Section(195, current,
       Num("transport_stream_id", 16, 1) \o Num("original_network_id", 16, 513) \o Num("service_id", 16, 40000)
       \o Num("num_of_contents", 8, Len(contents)) \o FlattenSeq([k \in DOMAIN contents |-> Content(k)]))
      Halved(field) == IF field.name # "identifier" THEN <<field>>
                       ELSE Num("maker_id", 0, 160) \o Num("model_id", 0, 1) \o <<field>>
  IN FlattenSeq([f \in DOMAIN section |-> Halved(section[f])])

(* Dates, counted day by day from the first of January 1900, MJD 15020.    *)
Leap(year) == year % 4 = 0 /\ year # 1900     \* up to 2099
MonthLength(year, month) ==
  CASE month = 2 -> IF Leap(year) THEN 29 ELSE 28
    [] month \in {4, 6, 9, 11} -> 30
    [] OTHER -> 31
Mjd(year, month, day) ==
  LET Before(y) == 365 * (y - 1900) + Cardinality({l \in 1900..(y - 1) : Leap(l)})
      Passed[m \in Nat] == IF m = 0 THEN 0 ELSE Passed[m - 1] + MonthLength(year, m)
  IN 15020 + Before(year) + Passed[month - 1] + day - 1
Tot(date, clock, descriptors) ==
  LET info == FlattenSeq(descriptors)
      timed == date # <<>> /\ clock # <<>>
      body == (IF timed THEN Field("utc3_time", 0, date \o clock) ELSE <<>>)
              \o Num("reserved", 16, IF date = <<>> THEN 0 ELSE Mjd(date[1], date[2], date[3]))
              \o FlattenSeq([k \in 1..3 |-> IF clock = <<>> THEN Reserved(8)
                                            ELSE Num("reserved", 4, clock[k] \div 10) \o Num("reserved", 4, clock[k] % 10)])
              \o Reserved(4) \o Num("descriptors_loop_length", 12, Len(Bytes(info))) \o info
  IN Num("table_id", 8, 115) \o Num("section_syntax_indicator", 1, 0) \o Reserved(3)
     \o Num("section_length", 12, Len(Bytes(body)) + 4) \o body \o Text("reserved", Zeros(4))
Behind2(layout, before) == [Structured("tot", layout) EXCEPT !.before = before]

Alignment == Tagged(6, Num("alignment_type", 8, 2))
StreamTag(tag) == Tagged(82, Num("component_tag", 8, tag))
AStream(type, pid, descriptors) == [type |-> type, pid |-> pid, descriptors |-> descriptors]
AnEvent(status, descriptors) == [status |-> status, descriptors |-> descriptors]
AContent(schedules, descriptors) == [schedules |-> schedules, descriptors |-> descriptors]
-----------------------------------------------------------------------------
Carousels ==
  {Module(<<>>, <<>>)}
  \cup {Module(<<Gateway(FALSE, Key(0, 2)), Folder(described), Hello(Key(0, 2))>>, padding) :
          described \in BOOLEAN, padding \in {<<>>, <<255>>}}
  \cup {Module(<<Gateway(FALSE, Key(0, 2)), Hello(Key(0, 2))>>, Zeros(48)),
        Module(<<Gateway(TRUE, Key(0, 2)), Hello(Key(0, 2))>>, <<>>),
        Module(<<Gateway(FALSE, Key(1, 2)), Hello(Key(1, 2))>>, <<>>),
        Module(<<Hello(<<0, 1>>), Folder(FALSE)>>, <<>>),
        Module(<<FileOf(Key(0, 9), <<>>), Hello(Key(0, 2)), Directory(Dirc, Key(0, 4), <<>>, <<>>)>>, <<>>)}
  \cup {Structured("ior", Ior(type, profiles)) :
          type \in {<<>>, <<115, 114, 103, 0>>, Four \o Two, Four \o <<65>>},
          profiles \in {<<Profile(<<1, 2>>, <<DeliveryParaUse>>)>>,
                        <<Profile(<<40000, 2>>, <<DeliveryParaUse, 0, ObjectUse>>)>>,
                        <<Profile(<<1, 2>>, <<>>), OtherProfile>>,
                        <<OtherProfile, Profile(<<1, 2>>, <<DeliveryParaUse>>)>>}}
  \cup {Structured("module info", ModuleInfo(selectors, info)) :
          selectors \in {<<>>, <<<<>>>>, <<<<>>, <<>>>>, <<<<1, 66>>>>}, info \in {<<>>, Four}}

TheProfile == Profile(<<1, 2>>, <<DeliveryParaUse>>)
Sections ==
  {Structured("dsi", Dsi(current, adaptation, Groups(<<>>, Incompatible))) :
     current \in {0, 1}, adaptation \in {<<>>, <<9>>}}
  \cup {Structured("dsi", Dsi(1, <<>>, Groups(infos, compatibility))) :
          infos \in {<<Zeros(26)>>, <<Zeros(27)>>, <<<<>>, Zeros(26)>>, <<Zeros(30), Zeros(30)>>, <<Zeros(40), Two>>},
          compatibility \in {Incompatible, Compatible(<<>>), Compatible(<<<<>>>>),
                             Compatible(<<<<Two, <<>>>>, <<>>>>), Compatible(<<<<>>, <<>>, <<>>>>)}}
  \cup {Structured("dsi", Dsi(1, <<>>, GatewayOf(profiles, 0, contexts, info))) :
          profiles \in {<<TheProfile>>, <<TheProfile, OtherProfile>>}, contexts \in {<<>>, <<Two>>},
          info \in {<<>>, Four}}
  \cup {Structured("dsi", Dsi(1, <<>>, GatewayOf(<<TheProfile>>, 1, <<>>, <<>>)))}
  \cup {Structured("dii", Dii(1, <<>>, 4066, compatibility, infos, private)) :
          compatibility \in {Incompatible, Compatible(<<>>), Compatible(<<<<Two>>, <<Two, Four>>>>)},
          infos \in {<<>>, <<ModuleInfo(<<<<>>>>, Two), <<>>>>, <<ModuleInfo(<<<<1, 66>>>>, Two)>>},
          private \in {<<>>, Two}}
  \cup {Structured("dii", Dii(current, adaptation, block, Incompatible, <<>>, <<>>)) :
          current \in {0, 1}, adaptation \in {<<>>, <<9>>}, block \in {0, 4066}}
  \cup {Structured("dii", Dii(current, <<>>, block, Incompatible, <<>>, Two)) :
          current \in {0, 1}, block \in {0, 4066}}
  \cup {Structured("ddb", Ddb(current, adaptation, block)) :
          current \in {0, 1}, adaptation \in {<<>>, <<9, 9, 9>>}, block \in {Two, Four}}
  \cup {Structured("ddb", Ddb(1, <<>>, <<>>))}
  \cup {[Structured("ait", Ait(1, <<>>, <<<<d, Other>>>>)) EXCEPT !.standard = standard] :
          d \in ApplicationDescriptors, standard \in {"SBTVD", "DVB"}}
  \cup {Structured("ait", Ait(current, commons, applications)) :
          current \in {0, 1}, commons \in {<<>>, <<Tagged(4, Num("position", 8, 1) \o Num("module_id", 16, 2))>>},
          applications \in {<<>>, <<<<>>>>, <<<<Other>>>>, <<<<Other>>, <<Other>>>>,
                            <<<<Other>>, <<Other, Other>>>>, <<<<>>, <<Other, Tagged(1, Named(1, Four))>>>>}}
Packets ==
  {Structured("pes", Pes(stamps, optional, extension, stuffing, data)) :
     stamps \in {0, 2, 3}, optional \in BOOLEAN, stuffing \in {0, 2}, data \in {Two, Zeros(40)},
     extension \in {<<>>, PesExtension(0, 0, 0, 0, 0), PesExtension(1, 0, 1, 1, 1), PesExtension(0, 1, 0, 0, 1)}}

Tables ==
  {Structured("pat", Pat(current, programs)) :
     current \in {0, 1}, programs \in {<<>>, <<<<0, 16>>>>, <<<<57664, 8190>>, <<0, 16>>, <<1, 257>>>>}}
  \cup {Structured("pmt", Pmt(current, descriptors, streams)) :
          current \in {0, 1}, descriptors \in {<<>>, <<Alignment, StreamTag(9)>>},
          streams \in {<<>>, <<AStream(27, 257, <<>>)>>,
                       <<AStream(27, 257, <<StreamTag(0), Alignment>>), AStream(15, 4097, <<StreamTag(16)>>)>>,
                       <<AStream(6, 258, <<>>), AStream(13, 259, <<Alignment>>)>>}}
  \cup {Structured("nit", Nit(current, names, infos)) :
          current \in {0, 1}, names \in {<<>>, <<NetworkName(Four)>>, <<Tagged(64, Text("reserved", Zeros(110)))>>},
          infos \in {<<>>, <<<<Alignment>>>>, <<<<>>, <<NetworkName(Two), Alignment>>>>}}
  \cup {Structured("nit", Nit(1, <<Tagged(64, Text("reserved", Zeros(110))), Tagged(64, Text("reserved", Zeros(n)))>>, infos)) :
          n \in {109, 110, 111, 112, 119, 120}, infos \in {<<<<>>>>, <<<<Alignment>>>>, <<<<Alignment>>, <<>>>>}}
  \cup {Structured("sdt", Sdt(current, services)) :
          current \in {0, 1}, services \in {<<>>, <<<<>>>>, <<<<Alignment>>, <<>>, <<Alignment, StreamTag(255)>>>>}}
  \cup {Structured("eit", Eit(current, events)) :
          current \in {0, 1},
          events \in {<<>>, <<AnEvent(1, <<>>)>>, <<AnEvent(3, <<Alignment>>), AnEvent(2, <<StreamTag(1), Alignment>>)>>,
                      <<AnEvent(4, <<>>)>>, <<AnEvent(0, <<Alignment>>), AnEvent(7, <<>>)>>}}
  \cup {Structured("sdtt", Sdtt(current, contents)) :
          current \in {0, 1},
          contents \in {<<>>, <<AContent(0, <<>>)>>, <<AContent(0, <<Alignment, StreamTag(1)>>)>>,
                        <<AContent(1, <<>>)>>, <<AContent(2, <<Alignment>>)>>,
                        <<AContent(0, <<NetworkName(Two \o <<67>>)>>), AContent(0, <<>>)>>,
                        <<AContent(0, <<Tagged(64, Text("network_name", Two \o Two \o <<67>>))>>), AContent(0, <<Alignment>>)>>,
                        <<AContent(0, <<Tagged(64, Text("reserved", Zeros(14)))>>), AContent(0, <<Alignment>>)>>}}
Days ==
  {<<1900, 3, 1>>, <<1900, 12, 31>>, <<1901, 1, 1>>, <<2000, 2, 28>>, <<2000, 2, 29>>, <<2000, 3, 1>>}
  \cup {<<year, month, day>> : year \in {2023, 2024}, month \in 1..12, day \in {1, 28}}
  \cup {<<2023, 2, 28>>, <<2024, 2, 29>>, <<2023, 12, 31>>, <<2038, 4, 22>>}
  \cup {<<2023, month, 31>> : month \in {1, 3, 5, 7, 8, 10, 12}}
Clocks == {<<0, 0, 0>>, <<23, 59, 59>>, <<19, 8, 60>>}
Times3 ==
  {Structured("tot", Tot(day, clock, <<>>)) : day \in Days, clock \in Clocks}
  \cup {Structured("tot", Tot(date, clock, <<Alignment>>)) : date \in {<<>>, <<2024, 2, 29>>}, clock \in {<<>>, <<12, 30, 0>>}}
  \cup {Behind2(Tot(date, <<12, 30, 1>>, descriptors), Tot(<<2024, 2, 29>>, clock, <<Alignment>>)) :
          date \in {<<>>, <<2024, 3, 1>>}, clock \in {<<>>, <<12, 30, 0>>},
          descriptors \in {<<Alignment>>, <<StreamTag(7)>>, <<>>, <<Alignment, StreamTag(7)>>}}

MCInputs == Carousels \cup Sections \cup Packets \cup Tables \cup Times3
=============================================================================
