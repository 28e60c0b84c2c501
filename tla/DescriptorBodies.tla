-------------------------- MODULE DescriptorBodies --------------------------
(***************************************************************************)
(* The descriptor parsers: tables/descriptors/parser_0xNN.c and            *)
(* dsm-cc/descriptors/parser_0xNN.c, each as the files it makes of a       *)
(* descriptor's bytes.                                                     *)
(*                                                                         *)
(* p are the bytes from where the parser is pointed to the end of the      *)
(* buffer, len the length the descriptor states: p begins with the tag for *)
(* the first kind of parser, behind tag and length for the second. What a  *)
(* file shows of a number besides the number (its meaning in words) is     *)
(* left out, and so are directories without files. Parsers that only       *)
(* return -ENOSYS make no files.                                           *)
(***************************************************************************)
EXTENDS WireFormat

(* What is in memory nobody wrote to.                                      *)
Uninitialized == -1

(* The transmission standard demuxfs is started for.                       *)
Standards == {"SBTVD", "ISDB", "DVB", "ATSC"}

descriptor_is_parseable(expected, found) == found >= expected - 2
Checked(expected, found, files) ==
  IF descriptor_is_parseable(expected, found) THEN files ELSE NoFiles

Flag(p, i, bit) == Part(p, i, bit, 1)
Steps(first, limit, step) == IF first < limit THEN (limit - first + step - 1) \div step ELSE 0
-----------------------------------------------------------------------------
descriptor_0x06_parser(p, len) == Checked(3, len, File("alignment_type", U8(p, 2)))

descriptor_0x0b_parser(p, len) == Checked(4, len, Files(<<
  File("external_clock_reference_indicator", Flag(p, 2, 7)),
  File("clock_accuracy_integer", Part(p, 2, 0, 6)),
  File("clock_accuracy_exponent", Part(p, 3, 5, 3))>>))

descriptor_0x0e_parser(p, len) == Checked(5, len, File("max_bitrate", U24(p, 2)))

(* The size asked for is three bytes too many (parser_0x10.c:48).          *)
descriptor_0x10_parser(p, len) == Checked(9, len, Files(<<
  File("sb_leak_rate", U24(p, 2) % 2^22), File("sb_size", U24(p, 5) % 2^22)>>))

descriptor_0x13_parser(p, len) == Checked(6, len, Files(<<
  Bin("carousel_id", U32(p, 2)),
  IF len > 6 THEN Bin("private_data", Copy(p, 6, len - 6)) ELSE NoFiles>>))

descriptor_0x14_parser(p, len) ==
  LET use == U16(p, 4)
      selector_length == U8(p, 6)
      head == <<File("association_tag", U16(p, 2)), File("use", use)>>
      Behind(offset, files) ==
        Files(head \o files \o
              <<File("selector_length", selector_length),
                Str("private_data_byte", Copy(p, offset, len - offset))>>)
  IN Checked(5, len,
       CASE use = 0 /\ len >= 13 ->
              Behind(15, <<Bin("transaction_id", U32(p, 7)), Bin("timeout", U32(p, 11))>>)
         [] use = 1 -> Behind(7, <<>>)
         [] use > 1 /\ len >= 5 + selector_length ->
              Behind(6 + selector_length, <<Str("selector_byte", Copy(p, 7, selector_length))>>)
         [] OTHER -> Files(head))

descriptor_0x40_parser(p, len) == Str("network_name", Copy(p, 2, len))

descriptor_0x41_parser(p, len) ==
  LET Service(k) == Files(<<File("service_id", U16(p, 2 + 3 * k)),
                            File("service_type", U8(p, 4 + 3 * k))>>)
  IN Checked(3, len, Dirs(1, Steps(2, len, 3), Service))

(* Mutant of descriptor_0x48_parser: the name is looked for where its      *)
(* length is.                                                              *)
descriptor_0x48_parser_OffByOne(p, len) ==
  LET provider == U8(p, 3)
      name == U8(p, 4 + provider)
  IN Checked(4, len, Files(<<
       File("service_type", U8(p, 2)),
       File("service_provider_name_length", provider),
       Str("service_provider_name", Copy(p, 4, provider)),
       File("service_name_length", name),
       Str("service_name", Copy(p, 4 + provider, name))>>))

descriptor_0x48_parser(p, len) ==
  LET provider == U8(p, 3)
      name == U8(p, 4 + provider)
  IN Checked(4, len, Files(<<
       File("service_type", U8(p, 2)),
       File("service_provider_name_length", provider),
       Str("service_provider_name", Copy(p, 4, provider)),
       File("service_name_length", name),
       Str("service_name", Copy(p, 5 + provider, name))>>))

(* A text of a descriptor with texts in sequence: nothing is taken when    *)
(* nothing is left.                                                        *)
Given(name, p, i, n, left) == IF left > 0 THEN Str(name, Copy(p, i, n)) ELSE NoFiles

descriptor_0x4d_parser(p, len) ==
  LET event == U8(p, 5)
      at == 6 + (IF len > 4 THEN event ELSE 0)
      text == U8(p, at)
  IN Checked(4, len, Files(<<
       Str("language_code", Copy(p, 2, 3)),
       File("event_name_length", event), Given("event_name", p, 6, event, len - 4),
       File("text_length", text), Given("text", p, at + 1, text, len + 1 - at)>>))

(* One item, whatever length_items says.                                   *)
descriptor_0x4e_parser(p, len) ==
  LET description == U8(p, 7)
      at == 8 + description
      item == U8(p, at)
      after == at + 1 + (IF len + 2 - at > 0 THEN item ELSE 0)
      text == U8(p, after)
  IN Checked(4, len, Dir(Part(p, 2, 4, 4), Files(<<
       File("descriptor_number", Part(p, 2, 4, 4)),
       File("last_descriptor_number", Part(p, 2, 0, 4)),
       Str("language_code", Copy(p, 3, 3)),
       File("length_items", U8(p, 6)),
       File("item_description_length", description),
       Str("item_description", Copy(p, 8, description)),
       File("item_length", item), Given("item", p, at + 1, item, len + 2 - at),
       File("text_length", text), Given("text", p, after + 1, text, len + 2 - after)>>)))

(* Of a video component the upper half of its type (0, or 9 to 14) picks   *)
(* one of six names of resolutions for the description, without a look at  *)
(* their number (parser_0x50.c:85).                                        *)
DescribesResolution(content, type) == content \in {1, 5} /\ type % 16 \in 1..4
ResolutionIndex(type) == IF type \div 16 = 0 THEN 0 ELSE (type \div 16) - 9
NoResolution(content, type) ==
  DescribesResolution(content, type) /\ ResolutionIndex(type) \notin 0..5

(* Where there is no such name, whatever is there in memory is described,  *)
(* if that can be read at all. The text is looked for one byte too early,  *)
(* and only behind two bytes of it (parser_0x50.c:170).                    *)
descriptor_0x50_parser(p, len) == Checked(6, len, Files(<<
  File("stream_content", Part(p, 2, 0, 4)),
  File("component_type", U8(p, 3)),
  File("component_tag", U8(p, 4)),
  Str("ISO_639_language_code", Copy(p, 5, 3)),
  IF NoResolution(Part(p, 2, 0, 4), U8(p, 3)) THEN File("component_description", Uninitialized)
  ELSE NoFiles,
  IF len > 8 THEN Str("text", Copy(p, 7, len - 8)) ELSE NoFiles>>))

descriptor_0x52_parser(p, len) == Checked(3, len, File("component_tag", U8(p, 2)))

(* Of an odd number of bytes (not asked here) the loop never gets to the   *)
(* end.                                                                    *)
descriptor_0x54_parser(p, len) ==
  LET Content(k) == Files(<<File("content_nibble_level_1", Part(p, 2 + 2 * k, 4, 4)),
                            File("content_nibble_level_2", Part(p, 2 + 2 * k, 0, 4)),
                            File("user_nibble", Part(p, 3 + 2 * k, 4, 4))>>)
  IN Checked(4, len, Dirs(0, len \div 2, Content))

(* (len - 2) / 4 of them, though len does not count tag and length.        *)
descriptor_0x55_parser(p, len) ==
  LET Rating(k) == Files(<<Str("country_code", Copy(p, 2 + 4 * k, 3)),
                           File("rating", U8(p, 5 + 4 * k))>>)
  IN Dirs(1, (len - 2) \div 4, Rating)

(* The polarity is the lowest bit, not the highest.                        *)
descriptor_0x58_parser(p, len) == Checked(15, len, Files(<<
  Str("country_code", Copy(p, 2, 3)),
  File("country_region_id", Part(p, 5, 2, 6)),
  File("local_time_offset_polarity", Flag(p, 5, 7)),
  File("local_time_offset", U16(p, 6)),
  Bin("time_of_change", Copy(p, 8, 5)),
  File("next_time_offset", U16(p, 13))>>))

(* aac_type asks for two bytes too many, and the last two bytes of         *)
(* additional_info are not taken.                                          *)
descriptor_0x7c_parser(p, len) ==
  LET typed == Flag(p, 3, 7) = 1
      offset == IF typed THEN 5 ELSE 4
      head == <<File("profile_and_level", U8(p, 2)), File("aac_type_flag", Flag(p, 3, 7))>>
  IN Checked(4, len,
       IF typed /\ len < 5 THEN Files(head)
       ELSE Files(head \o <<
              IF typed THEN File("aac_type", U8(p, 4)) ELSE NoFiles,
              Bin("additional_info", Copy(p, offset, len - offset))>>))

descriptor_0xa0_parser(p, len) == Checked(3, len, Files(<<
  File("reference_level", U8(p, 2)),
  IF len > 1 THEN Str("free_text", Copy(p, 3, len - 1)) ELSE NoFiles>>))

(* What 0xc1 says of a programme or of a component. A string is never NULL,*)
(* so that APS_control_data is taken whatever copy_control_type says       *)
(* (parser_0xc1.c:141 and 186).                                            *)
CopyControl(p, i) == Files(<<
  File("digital_recording_control_data", Part(p, i, 6, 2)),
  File("maximum_bitrate_flag", Flag(p, i, 5)),
  File("copy_control_type", Part(p, i, 2, 2)),
  File("APS_control_data", Part(p, i, 0, 2))>>)

(* The components from offset i on, of left bytes; the file of a           *)
(* component's bitrate shows that of the programme.                        *)
Components(p, i, left, bitrate) ==
  LET At[k \in Nat] == IF k = 0 THEN i ELSE At[k-1] + 2 + Flag(p, At[k-1] + 1, 5)
      Component(k) == Files(<<
        File("component_tag", U8(p, At[k])), CopyControl(p, At[k] + 1),
        IF Flag(p, At[k] + 1, 5) = 1 THEN File("maximum_bitrate", bitrate) ELSE NoFiles>>)
      n == CHOOSE k \in 0..left : At[k] - i >= left /\ \A m \in 0..(k-1) : At[m] - i < left
  IN Dirs(0, n, Component)

descriptor_0xc1_parser(p, len) ==
  LET limited == Flag(p, 2, 5)
      bitrate == IF limited = 1 THEN U8(p, 3) ELSE Uninitialized
      head == <<CopyControl(p, 2), File("component_control_flag", Flag(p, 2, 4))>>
  IN Checked(3, len,
       IF limited = 1 /\ len < 4 THEN Files(head)
       ELSE Files(head \o <<
              IF limited = 1 THEN File("maximum_bitrate", bitrate) ELSE NoFiles,
              IF Flag(p, 2, 4) = 0 THEN NoFiles
              ELSE Files(<<File("component_control_length", U8(p, 3 + limited)),
                           Components(p, 4 + limited, U8(p, 3 + limited), bitrate)>>)>>))

descriptor_0xc8_parser(p, len) == Checked(3, len, Files(<<
  File("still_picture_flag", Flag(p, 2, 7)),
  File("sequence_end_code_flag", Flag(p, 2, 6)),
  File("video_encode_format", Part(p, 2, 2, 4))>>))

(* The services of a transmission two to a directory, the second in the    *)
(* files of the first (parser_0xcd.c:91). The length of the name is        *)
(* shifted as a signed char.                                               *)
descriptor_0xcd_parser(p, len) ==
  LET name == (S8(p, 3) \div 4) % 2^8
      At[k \in Nat] == IF k = 0 THEN 4 + name ELSE At[k-1] + 2 + 2 * U8(p, At[k-1] + 1)
      Transmission(k) ==
        LET Service(j) == Dir(j \div 2 + 1, File("service_id", U16(p, At[k] + 2 + 2 * j)))
        IN Files(<<File("transmission_type_info", U8(p, At[k])),
                   File("num_of_service", U8(p, At[k] + 1))>>
                 \o [j \in 1..U8(p, At[k] + 1) |-> Service(j - 1)])
  IN Checked(4, len, Files(<<
       File("remote_control_key_id", U8(p, 2)),
       File("length_of_ts_name", name),
       File("transmission_type_count", Part(p, 3, 0, 2)),
       Str("ts_name", Copy(p, 4, name)),
       Dirs(1, Part(p, 3, 0, 2), Transmission)>>))

(* A simple logo without characters is too short for it: no file tells     *)
(* its type (parser_0xcf.c:89).                                            *)
descriptor_0xcf_parser(p, len) ==
  LET type == U8(p, 2)
      logo_id == File("logo_id", U16(p, 3) % 2^9)
  IN Checked(4, len, Files(<<
       File("logo_transmission_type", type),
       CASE type = 1 -> Files(<<logo_id, File("logo_version", U16(p, 5) % 2^12),
                                File("download_data_id", U16(p, 7))>>)
         [] type = 2 -> logo_id
         [] type = 3 -> Bin("logo_char", Copy(p, 3, len - 1))
         [] OTHER -> Bin("reserved_future_use", Copy(p, 3, len - 1))>>))

(* Of a mode it does not know it takes all but the last three bytes; with  *)
(* fewer than five (not asked here) it takes 512.                          *)
descriptor_0xd0_parser(p, len) ==
  LET mode == Part(p, 2, 0, 4)
  IN Checked(4, len, Files(<<
       File("segmentation_mode", mode),
       File("segmentation_info_length", U8(p, 3)),
       CASE mode = 0 -> NoFiles
         [] mode = 1 -> Checked(14, len, Files(<<Bin("start_time_ntp", Copy(p, 4, 5)),
                                                 Bin("end_time_ntp", Copy(p, 9, 5))>>))
         [] mode \in 2..5 -> Checked(10, len, Files(<<
              File("start_time", U24(p, 4)), File("duration", U24(p, 7)),
              IF len < 14 THEN NoFiles
              ELSE Files(<<File("start_time_extension", U16(p, 10) \div 2^4),
                           File("duration_extension", U16(p, 12) \div 2^4)>>)>>))
         [] OTHER -> Bin("reserved_bytes", Copy(p, 4, len - 5))>>))

(* Signed bytes: a set highest bit of the second one hides the first, that *)
(* of the first one fills the bits above it; a frequency is kept in 8 bits.*)
descriptor_0xfa_parser(p, len) ==
  LET area == IF S8(p, 3) < 0 THEN S8(p, 3) ELSE S8(p, 2) * 2^8 + S8(p, 3)
  IN Checked(4, len, Files(<<
       File("area_code", (area \div 2^4) % 2^16),
       File("guard_interval", Part(p, 3, 2, 2)),
       File("transmission_mode", Part(p, 3, 0, 2)),
       Bin("frequency", [k \in 1..Steps(0, len - 2, 2) |-> U16(p, 2 + 2 * k) % 2^8])>>))

(* i starts at 2 and len does not count tag and length: the last service   *)
(* is left out.                                                            *)
descriptor_0xfb_parser(p, len) ==
  LET Service(k) == File("service_id", U16(p, 2 + 2 * k))
  IN Checked(2, len, Dirs(1, Steps(2, len, 2), Service))

(* Two bytes of additional_data_component_info are not looked at.          *)
descriptor_0xfd_parser(p, len) == Checked(4, len, Files(<<
  File("data_component_id", U16(p, 2)),
  IF len <= 4 THEN NoFiles
  ELSE Files(<<File("dmf", Part(p, 4, 4, 4)), File("timing", Part(p, 4, 0, 2))>>)>>))

(* Only two standards have words for an identifier, and without them the   *)
(* file is made of a text that was never written.                          *)
HasIdentifiers(standard) == standard \in {"SBTVD", "ISDB"}
descriptor_0xfe_parser(p, len, standard) == Checked(2, len, Files(<<
  File("broadcasting_flag", (S8(p, 2) \div 2^6) % 2^16),
  File("broadcasting_identifier",
       IF HasIdentifiers(standard) THEN Part(p, 2, 0, 6) ELSE Uninitialized),
  File("additional_broadcasting_identification", U8(p, 3)),
  Str("additional_identification_information", Copy(p, 4, len - 2))>>))
-----------------------------------------------------------------------------
(* The label takes three bytes more than it has.                           *)
dsmcc_descriptor_0x00_parser(p, len) ==
  LET profiles == U8(p, 0)
      i == profiles + 1
      Profile(k) == Files(<<
        File("application_profile", U16(p, 1 + 5 * k)),
        File("version_major", U8(p, 3 + 5 * k)),
        File("version_minor", U8(p, 4 + 5 * k)),
        File("version_micro", U8(p, 5 + 5 * k))>>)
  IN Files(<<File("application_profiles_length", profiles),
             Dirs(1, profiles \div 5, Profile),
             File("service_bound_flag", Flag(p, i, 7)),
             File("visibility", Part(p, i, 5, 2)),
             File("application_priority", U8(p, i + 1)),
             Str("transport_protocol_label", Copy(p, i + 2, len - i + 1))>>)

dsmcc_descriptor_0x01_parser(p, len) == Str("text_char", Copy(p, 0, len))
dsmcc_descriptor_0x02_parser(p, len) == Str("text_char", Copy(p, 0, len))
dsmcc_descriptor_0x03_parser(p, len) == Str("text_char", Copy(p, 0, len))
dsmcc_descriptor_0x04_parser(p, len) ==
  Files(<<File("position", U8(p, 0)), File("module_id", U16(p, 1))>>)
dsmcc_descriptor_0x05_parser(p, len) == Bin("crc_32", U32(p, 0))
dsmcc_descriptor_0x06_parser(p, len) == File("location_tag", U8(p, 0))
dsmcc_descriptor_0x07_parser(p, len) == Bin("est_download_time", U32(p, 0))
dsmcc_descriptor_0xc2_parser(p, len) ==
  Files(<<File("compression_type", U8(p, 0)), File("original_size", U16(p, 1))>>)
-----------------------------------------------------------------------------
Ts == "tables/descriptors"
DsmCc == "dsm-cc/descriptors"

(* The tables of parsers, as descriptors_init() and                        *)
(* dsmcc_descriptors_init() fill them; the tags whose parser returns       *)
(* -ENOSYS or is NULL make no files.                                       *)
Parser(family, tag, b, len, standard) ==
  IF family = Ts THEN
    CASE tag = 6   -> descriptor_0x06_parser(b, len) [] tag = 11  -> descriptor_0x0b_parser(b, len)
      [] tag = 14  -> descriptor_0x0e_parser(b, len) [] tag = 16  -> descriptor_0x10_parser(b, len)
      [] tag = 19  -> descriptor_0x13_parser(b, len) [] tag = 20  -> descriptor_0x14_parser(b, len)
      [] tag = 64  -> descriptor_0x40_parser(b, len) [] tag = 65  -> descriptor_0x41_parser(b, len)
      [] tag = 72  -> descriptor_0x48_parser(b, len) [] tag = 77  -> descriptor_0x4d_parser(b, len)
      [] tag = 78  -> descriptor_0x4e_parser(b, len) [] tag = 80  -> descriptor_0x50_parser(b, len)
      [] tag = 82  -> descriptor_0x52_parser(b, len) [] tag = 84  -> descriptor_0x54_parser(b, len)
      [] tag = 85  -> descriptor_0x55_parser(b, len) [] tag = 88  -> descriptor_0x58_parser(b, len)
      [] tag = 124 -> descriptor_0x7c_parser(b, len) [] tag = 160 -> descriptor_0xa0_parser(b, len)
      [] tag = 193 -> descriptor_0xc1_parser(b, len) [] tag = 200 -> descriptor_0xc8_parser(b, len)
      [] tag = 205 -> descriptor_0xcd_parser(b, len) [] tag = 207 -> descriptor_0xcf_parser(b, len)
      [] tag = 208 -> descriptor_0xd0_parser(b, len) [] tag = 250 -> descriptor_0xfa_parser(b, len)
      [] tag = 251 -> descriptor_0xfb_parser(b, len) [] tag = 253 -> descriptor_0xfd_parser(b, len)
      [] tag = 254 -> descriptor_0xfe_parser(b, len, standard) [] OTHER -> NoFiles
  ELSE
    CASE tag = 0 -> dsmcc_descriptor_0x00_parser(b, len) [] tag = 1 -> dsmcc_descriptor_0x01_parser(b, len)
      [] tag = 2 -> dsmcc_descriptor_0x02_parser(b, len) [] tag = 3 -> dsmcc_descriptor_0x03_parser(b, len)
      [] tag = 4 -> dsmcc_descriptor_0x04_parser(b, len) [] tag = 5 -> dsmcc_descriptor_0x05_parser(b, len)
      [] tag = 6 -> dsmcc_descriptor_0x06_parser(b, len) [] tag = 7 -> dsmcc_descriptor_0x07_parser(b, len)
      [] tag = 194 -> dsmcc_descriptor_0xc2_parser(b, len) [] OTHER -> NoFiles
=============================================================================
