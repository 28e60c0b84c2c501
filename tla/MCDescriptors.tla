--------------------------- MODULE MCDescriptors ----------------------------
(***************************************************************************)
(* Loops of one or two descriptors with their standards' layouts, at the   *)
(* edges of fields and lengths: for each parser what it gets right and     *)
(* what it is known not to, and loops whose lengths or number the counter  *)
(* cannot hold.                                                            *)
(***************************************************************************)
EXTENDS Descriptors

Lang == Text("language_code", <<112, 111, 114>>)
AB == <<65, 66>>
ABCD == <<65, 66, 67, 68>>
Optional(name, bytes) == IF bytes = <<>> THEN <<>> ELSE Text(name, bytes)
Counter(name, bytes) == Num(name, 8, Len(bytes))

Service(k, id, type) == In(k, Num("service_id", 16, id) \o Num("service_type", 8, type))
ServiceName(provider, name) ==
  Num("service_type", 8, 161) \o Counter("service_provider_name_length", provider)
  \o Text("service_provider_name", provider)
  \o Counter("service_name_length", name) \o Text("service_name", name)
ShortEvent(event, text) ==
  Lang \o Counter("event_name_length", event) \o Text("event_name", event)
  \o Counter("text_length", text) \o Text("text", text)
ExtendedEvent(items, text) ==
  In(1, Num("descriptor_number", 4, 1) \o Num("last_descriptor_number", 4, 2) \o Lang
        \o Num("length_items", 8, 4 * items)
        \o FlattenSeq([k \in 1..items |->
             LET item == Counter("item_description_length", <<65>>) \o Text("item_description", <<65>>)
                         \o Counter("item_length", <<66>>) \o Text("item", <<66>>)
             IN IF k = 1 THEN item ELSE In(k, item)])
        \o Counter("text_length", text) \o Text("text", text))
Component(content, type, text) ==
  Reserved(4) \o Num("stream_content", 4, content) \o Num("component_type", 8, type)
  \o Num("component_tag", 8, 129) \o Text("ISO_639_language_code", <<112, 111, 114>>)
  \o Optional("text", text)
Content(k) == In(k, Num("content_nibble_level_1", 4, 15) \o Num("content_nibble_level_2", 4, k)
                    \o Num("user_nibble", 4, 14) \o Reserved(4))
Rating(k) == In(k, Text("country_code", <<66, 82, 65>>) \o Num("rating", 8, 16))
TimeOffset(region, polarity) ==
  Text("country_code", <<66, 82, 65>>) \o Num("country_region_id", 6, region) \o Reserved(1)
  \o Num("local_time_offset_polarity", 1, polarity) \o Num("local_time_offset", 16, 768)
  \o Text("time_of_change", <<219, 18, 0, 0, 1>>) \o Num("next_time_offset", 16, 512)
Association(use, bytes, private) ==
  Num("association_tag", 16, 65535) \o Num("use", 16, use)
  \o (CASE use = 0 -> Num("selector_length", 8, 8) \o Long("transaction_id", 32768, 1)
                      \o Long("timeout", 65535, 65535)
        [] use = 1 -> Num("selector_length", 8, 0)
        [] OTHER -> Counter("selector_length", bytes) \o Text("selector_byte", bytes))
  \o Optional("private_data_byte", private)
Aac(typed, info) ==
  Num("profile_and_level", 8, 82) \o Num("aac_type_flag", 1, typed) \o Reserved(7)
  \o (IF typed = 1 THEN Num("aac_type", 8, 3) ELSE <<>>) \o Optional("additional_info", info)
Copying(limited, controlled, type) ==
  Num("digital_recording_control_data", 2, 2) \o Num("maximum_bitrate_flag", 1, limited)
  \o (IF controlled = 2 THEN <<>> ELSE Num("component_control_flag", 1, controlled))
  \o Num("copy_control_type", 2, type)
  \o (IF type = 0 THEN Reserved(2) ELSE Num("APS_control_data", 2, 1))
CopyOf(limited, parts) ==
  Copying(limited, IF parts = <<>> THEN 0 ELSE 1, 3)
  \o (IF limited = 1 THEN Num("maximum_bitrate", 8, 200) ELSE <<>>)
  \o (IF parts = <<>> THEN <<>>
      ELSE Num("component_control_length", 8, Len(Bytes(FlattenSeq(parts)))) \o FlattenSeq(parts))
Part1(k, limited) ==
  In(k, Num("component_tag", 8, 255 - k) \o Num("digital_recording_control_data", 2, 3)
        \o Num("maximum_bitrate_flag", 1, limited) \o Reserved(1) \o Num("copy_control_type", 2, 1)
        \o Num("APS_control_data", 2, 2)
        \o (IF limited = 1 THEN Num("maximum_bitrate", 8, 7) ELSE <<>>))
Transmission(k, services) ==
  In(k, Num("transmission_type_info", 8, 15) \o Num("num_of_service", 8, services)
        \o FlattenSeq([s \in 1..services |-> In(s, Num("service_id", 16, 58 * 1024 + s))]))
TsInformation(name, parts) ==
  Num("remote_control_key_id", 8, 13) \o Num("length_of_ts_name", 6, Len(name))
  \o Num("transmission_type_count", 2, Len(parts)) \o Text("ts_name", name) \o FlattenSeq(parts)
Logo(type, rest) == Num("logo_transmission_type", 8, type) \o rest
Segment(mode, rest) ==
  Reserved(4) \o Num("segmentation_mode", 4, mode)
  \o Num("segmentation_info_length", 8, Len(Bytes(rest))) \o rest
Times == Num("start_time", 24, 1193046) \o Num("duration", 24, 9)
Extension == Num("start_time_extension", 12, 4095) \o Reserved(4)
             \o Num("duration_extension", 12, 1) \o Reserved(4)
Terrestrial(area, frequencies) ==
  Num("area_code", 12, area) \o Num("guard_interval", 2, 1) \o Num("transmission_mode", 2, 2)
  \o Field("frequency", 16, frequencies)
Application(profiles) ==
  Num("application_profiles_length", 8, 5 * profiles)
  \o FlattenSeq([k \in 1..profiles |->
       In(k, Num("application_profile", 16, 32769) \o Num("version_major", 8, 1)
             \o Num("version_minor", 8, k) \o Num("version_micro", 8, 255))])
  \o Num("service_bound_flag", 1, 1) \o Num("visibility", 2, 3) \o Reserved(5)
  \o Num("application_priority", 8, 254) \o Text("transport_protocol_label", <<1>>)

Descriptor(tag, layout) == [tag |-> tag, layout |-> layout]
Of(tag, layouts) == {Descriptor(tag, layout) : layout \in layouts}
Stuffing(length) == Descriptor(66, Field("reserved", 8, [k \in 1..length |-> 255]))
Unknown == Descriptor(22, Field("reserved", 8, <<128>>))

TsDescriptors == UNION {
  Of(6, {Num("alignment_type", 8, 3)}),
  Of(11, {Num("external_clock_reference_indicator", 1, 1) \o Reserved(1)
          \o Num("clock_accuracy_integer", 6, 63) \o Num("clock_accuracy_exponent", 3, 5) \o Reserved(5)}),
  Of(14, {Num("max_bitrate", 24, 2^22 + 1)}),
  Of(16, {Reserved(2) \o Num("sb_leak_rate", 22, 2^21 + 1) \o Reserved(2) \o Num("sb_size", 22, 3)}),
  Of(19, {Long("carousel_id", 40000, 4), Long("carousel_id", 0, 4) \o Text("private_data", AB)}),
  Of(20, {Association(0, <<>>, <<>>), Association(1, <<>>, <<>>), Association(2, AB, <<>>),
          Association(0, <<>>, ABCD), Association(1, <<>>, AB), Association(2, AB, ABCD)}),
  Of(64, {Text("network_name", ABCD)}),
  Of(65, {Service(1, 59424, 1), Service(1, 59424, 1) \o Service(2, 59448, 192)}),
  Of(72, {ServiceName(AB, ABCD), ServiceName(<<>>, AB)}),
  Of(77, {ShortEvent(AB, ABCD), ShortEvent(<<>>, AB), ShortEvent(AB, <<>>), ShortEvent(<<>>, <<>>)}),
  Of(78, {ExtendedEvent(1, AB), ExtendedEvent(1, <<>>), ExtendedEvent(2, AB)}),
  Of(80, {Component(5, 179, <<>>), Component(5, 179, AB), Component(5, 179, ABCD),
          Component(1, 4, <<>>), Component(1, 17, <<>>), Component(5, 146, <<>>),
          Component(1, 225, <<>>), Component(5, 241, <<>>), Component(5, 240, <<>>),
          Component(6, 241, <<>>)}),
  Of(82, {Num("component_tag", 8, 128)}),
  Of(84, {Content(0), Content(0) \o Content(1)}),
  Of(85, {Rating(1), Rating(1) \o Rating(2)}),
  Of(88, {TimeOffset(1, 0), TimeOffset(33, 1), TimeOffset(1, 1)}),
  Of(124, {Aac(0, <<>>), Aac(1, <<>>), Aac(0, ABCD), Aac(1, ABCD)}),
  Of(160, {Num("reference_level", 8, 9), Num("reference_level", 8, 9) \o Text("free_text", AB)}),
  Of(193, {CopyOf(0, <<>>), CopyOf(1, <<>>), CopyOf(0, <<Part1(0, 0)>>),
           CopyOf(1, <<Part1(0, 0), Part1(1, 0)>>), CopyOf(1, <<Part1(0, 1), Part1(1, 0)>>),
           CopyOf(0, <<Part1(0, 1)>>), Copying(0, 0, 0)}),
  Of(200, {Num("still_picture_flag", 1, 0) \o Num("sequence_end_code_flag", 1, 1)
           \o Num("video_encode_format", 4, 9) \o Reserved(2)}),
  Of(205, {TsInformation(AB, <<>>), TsInformation(AB, <<Transmission(1, 1), Transmission(2, 1)>>),
           TsInformation(AB, <<Transmission(1, 0), Transmission(2, 2)>>)}),
  Of(207, {Logo(1, Reserved(7) \o Num("logo_id", 9, 511) \o Reserved(4) \o Num("logo_version", 12, 2049)
                   \o Num("download_data_id", 16, 4)),
           Logo(2, Reserved(7) \o Num("logo_id", 9, 256)), Logo(3, Text("logo_char", ABCD)),
           Logo(3, <<>>),
           Logo(9, Text("reserved_future_use", AB))}),
  Of(208, {Segment(0, <<>>), Segment(1, Text("start_time_ntp", <<255, 0, 0, 0, 1>>)
                                        \o Text("end_time_ntp", <<254, 0, 0, 1, 0>>)),
           Segment(2, Times), Segment(2, Times \o Extension),
           Segment(5, Times \o Extension) \o Field("reserved", 8, AB),
           Segment(6, Text("reserved_bytes", ABCD))}),
  Of(250, {Terrestrial(2039, <<255>>), Terrestrial(7, <<255, 1>>), Terrestrial(7, <<256>>),
           Terrestrial(8, <<255>>), Terrestrial(2048, <<255>>)}),
  Of(251, {<<>>, In(1, Num("service_id", 16, 59448)),
           In(1, Num("service_id", 16, 1)) \o In(2, Num("service_id", 16, 2))}),
  Of(253, {Num("data_component_id", 16, 8),
           Num("data_component_id", 16, 8) \o Num("dmf", 4, 3) \o Reserved(2) \o Num("timing", 2, 1),
           Num("data_component_id", 16, 8) \o Num("dmf", 4, 3) \o Reserved(2) \o Num("timing", 2, 1)
             \o Field("reserved", 8, AB)}),
  Of(254, {Num("broadcasting_flag", 2, flag) \o Num("broadcasting_identifier", 6, 3)
           \o Num("additional_broadcasting_identification", 8, 1)
           \o Text("additional_identification_information", AB) : flag \in {1, 2}}),
  {Stuffing(0), Unknown}}

DsmCcDescriptors == UNION {
  Of(0, {Application(0), Application(2)}),
  Of(1, {Text("text_char", AB)}), Of(2, {Text("text_char", ABCD)}),
  Of(3, {Text("text_char", AB), Text("ISO_639_language_code", <<112, 111, 114>>) \o Text("text_char", AB)}),
  Of(4, {Num("position", 8, 255) \o Num("module_id", 16, 2)}),
  Of(5, {Long("crc_32", 65535, 1)}), Of(6, {Num("location_tag", 8, 4)}),
  Of(7, {Long("est_download_time", 1, 32768)}),
  Of(194, {Num("compression_type", 8, 1) \o Long("original_size", 1, 2)}),
  {Descriptor(128, Field("reserved", 8, AB))}}

Loop(family, counted, sent) ==
  [family |-> family, counted |-> counted, sent |-> sent, standard |-> "SBTVD"]
Name == Descriptor(64, Text("network_name", ABCD))

MCLoops ==
  {Loop(Ts, counted, <<d>>) : counted \in BOOLEAN, d \in TsDescriptors}
  \cup {Loop(Ts, FALSE, <<d, Name>>) : d \in TsDescriptors}
  \cup {[Loop(Ts, FALSE, <<d>>) EXCEPT !.standard = standard] : d \in TsDescriptors, standard \in Standards}
  \cup {Loop(Ts, TRUE, <<Unknown, d, Stuffing(length), Name>>) :
          d \in Of(72, {ServiceName(AB, ABCD)}), length \in {127, 128, 253, 254}}
  \cup {Loop(Ts, counted, [k \in 1..count |-> Stuffing(0)]) : counted \in BOOLEAN, count \in {0, 255, 256}}
  \cup {Loop(DsmCc, FALSE, s) :
          s \in {<<d>> : d \in DsmCcDescriptors} \cup {<<d, e>> : d, e \in DsmCcDescriptors}}
MCTrailer == <<1, 2, 3, 4>>
=============================================================================
