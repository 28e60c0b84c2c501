---------------------------- MODULE SectionBodies -----------------------------
(***************************************************************************)
(* The sections of the data and object carousels and of the applications:  *)
(* DSI, DII, DDB and AIT (dsm-cc/dsi.c, dii.c, ddb.c, ait.c, with what they*)
(* share, dsm-cc/dsmcc.c and tables/psi.c), each as the files made of the  *)
(* bytes of one section; and where the body of a PES packet is found       *)
(* (tables/pes.c).                                                         *)
(*                                                                         *)
(* Which sections are parsed at all, and what becomes of the versions, is  *)
(* in Carousel, ObjectTree and TableVersions. A section is given with its  *)
(* CRC. Where lengths state more than there is, the parsers read on; such  *)
(* sections are not asked about here, nor descriptors so long that an      *)
(* offset of eight bits wraps.                                             *)
(***************************************************************************)
EXTENDS BiopMessages, DescriptorBodies

(* The offsets from first on, each got from the one before, up to the first*)
(* that is not below the limit.                                            *)
Offsets(first, limit, Behind(_)) ==
  LET From[at \in Nat] == IF at < limit THEN <<at>> \o From[Behind(at)] ELSE <<at>>
  IN From[first]

(* The files of the entries of such a loop, in directories from 1 on.      *)
Entries(offsets, FilesAt(_)) ==
  LET Entry(k) == FilesAt(offsets[k + 1]) IN Dirs(1, Len(offsets) - 1, Entry)
-----------------------------------------------------------------------------
psi_parse(b) == Files(<<
  File("table_id", U8(b, 0)),
  File("section_syntax_indicator", Flag(b, 1, 7)),
  File("section_length", U16(b, 1) % 2^12),
  File("identifier", U16(b, 3)),
  File("version_number", Part(b, 5, 1, 5)),
  File("current_next_indicator", Flag(b, 5, 0)),
  File("section_number", U8(b, 6)),
  File("last_section_number", U8(b, 7))>>)
CurrentNext(b) == Flag(b, 5, 0) = 1

(* The length of the adaptation is taken for that of its data, without its *)
(* type.                                                                   *)
dsmcc_parse_message_header(b, i) ==
  [protocol_discriminator |-> U8(b, i), dsmcc_type |-> U8(b, i + 1), message_id |-> U16(b, i + 2),
   adaptation_length |-> U8(b, i + 9), message_length |-> U16(b, i + 10),
   next |-> i + 12 + (IF U8(b, i + 9) = 0 THEN 0 ELSE 1 + U8(b, i + 9))]

(* The same, with the download's id in place of the transaction's.         *)
dsmcc_parse_download_data_header(b, i) == dsmcc_parse_message_header(b, i)

dsmcc_create_message_header_dentries(b, i) ==
  LET header == dsmcc_parse_message_header(b, i)
      length == header.adaptation_length
  IN Files(<<File("dsmcc_type", header.dsmcc_type), File("message_id", header.message_id),
             File("protocol_discriminator", header.protocol_discriminator),
             Bin("transaction_id", U32(b, i + 4)),
             File("adaptation_length", length), File("message_length", header.message_length),
             IF length = 0 THEN NoFiles
             ELSE Files(<<File("adaptation_type", U8(b, i + 12)),
                          Bin("adaptation_data_bytes", Copy(b, i + 13, length))>>)>>)

(* Descriptors that end in the last four bytes are rejected, with all that *)
(* come behind them (dsmcc.c:156): at least the last.                      *)
dsmcc_parse_compatibility_descriptors(b, i) ==
  LET length == U16(b, i)
      count == IF length < 2 THEN 0 ELSE U16(b, i + 2)
      BehindSub(at) == at + 2 + U8(b, at + 1)
      Behind(at) == After(at + 11, U8(b, at + 10), BehindSub)
      Rejected(at) == (at - i) + 2 + U8(b, at + 1) > length - 2
      Accepted[at \in Nat, n \in Nat] ==
        IF n = 0 \/ Rejected(at) THEN <<at>> ELSE <<at>> \o Accepted[Behind(at), n - 1]
      offsets == Accepted[i + 4, count]
  IN [length |-> length, count |-> count, offsets |-> offsets,
      next |-> IF length < 2 \/ Len(offsets) <= count THEN i + 2 + length ELSE Last(offsets)]

(* Of a descriptor that is rejected type and length are known, of those    *)
(* behind it nothing.                                                      *)
dsmcc_create_compatibility_descriptor_dentries(b, cd) ==
  LET Fields(type, length, specifier, data, model, version, subs) == Files(<<
        File("descriptor_type", type), File("descriptor_length", length),
        File("specifier_type", specifier), Bin("specifier_data", data),
        File("model", model), File("version", version), File("sub_descriptor_count", subs)>>)
      Sub(at) == Files(<<File("sub_descriptor_type", U8(b, at)), File("sub_descriptor_length", U8(b, at + 1)),
                         Bin("additional_information", Copy(b, at + 2, U8(b, at + 1)))>>)
      Subs(at) ==
        LET BehindSub(s) == s + 2 + U8(b, s + 1)
            SubOf(k) == Sub(After(at + 11, k, BehindSub))
        IN Dirs(1, U8(b, at + 10), SubOf)
      Descriptor(k) ==
        IF k + 1 < Len(cd.offsets)
        THEN LET at == cd.offsets[k + 1]
             IN Files(<<Fields(U8(b, at), U8(b, at + 1), U8(b, at + 2), Copy(b, at + 3, 3),
                               U16(b, at + 6), U16(b, at + 8), U8(b, at + 10)), Subs(at)>>)
        ELSE IF k + 1 = Len(cd.offsets)
        THEN Fields(U8(b, Last(cd.offsets)), U8(b, Last(cd.offsets) + 1), 0, <<0, 0, 0>>, 0, 0, 0)
        ELSE Fields(0, 0, 0, <<0, 0, 0>>, 0, 0, 0)
  IN Files(<<File("compatibility_descriptor_length", cd.length), File("descriptor_count", cd.count),
             Dirs(1, cd.count, Descriptor)>>)
-----------------------------------------------------------------------------
(* A DII, its message header and its own fields beginning at offset i. The *)
(* compatibility descriptors are shown only where there is private data.   *)
dii_create_dentries(b, i, cd) ==
  LET BehindModule(at) == at + 8 + U8(b, at + 7)
      number == U16(b, cd.next)
      private == After(cd.next + 2, number, BehindModule)
      ModuleAt(at) == Files(<<
        File("module_id", U16(b, at)), Bin("module_size", U32(b, at + 2)),
        File("module_version", U8(b, at + 6)), File("module_info_length", U8(b, at + 7)),
        IF U8(b, at + 7) = 0 THEN NoFiles ELSE biop_parse_module_info(b, at + 8)>>)
      ModuleOf(k) == ModuleAt(After(cd.next + 2, k, BehindModule))
      Private(at) == Files(<<
        File("private_data_length", U16(b, at)), Bin("private_data_bytes", Copy(b, at + 2, U16(b, at))),
        IF U16(b, at) = 0 THEN NoFiles ELSE dsmcc_create_compatibility_descriptor_dentries(b, cd)>>)
  IN Files(<<
       dsmcc_create_message_header_dentries(b, 8),
       Bin("download_id", U32(b, i)), File("block_size", U16(b, i + 4)),
       File("window_size", U8(b, i + 6)), File("ack_period", U8(b, i + 7)),
       Bin("t_c_download_window", U32(b, i + 8)), Bin("t_c_download_scenario", U32(b, i + 12)),
       File("number_of_modules", number), Dirs(1, number, ModuleOf), Private(private)>>)

(* The kinds of a DSI's type_id that make it one of an object carousel.    *)
KnownIds == {<<115, 116, 114, 0>>, <<115, 116, 101, 0>>, <<115, 114, 103, 0>>,
             <<102, 105, 108, 0>>, <<100, 105, 114, 0>>}

(* The groups of a data carousel, from offset i on. A group that begins at *)
(* an offset not below the number of bytes left at i is given up, with all *)
(* behind it (dsi.c:290).                                                  *)
GroupInfo(b, i) ==
  LET left == Len(b) - i
      number == U16(b, i)
      BehindGroup(at, cd) == cd.next + 2 + U16(b, cd.next)
      Next(at) == BehindGroup(at, dsmcc_parse_compatibility_descriptors(b, at + 8))
      Group(at, cd) == Files(<<
        Bin("group_id", U32(b, at)), Bin("group_size", U32(b, at + 4)),
        IF cd.next - i > left THEN NoFiles
        ELSE Files(<<dsmcc_create_compatibility_descriptor_dentries(b, cd),
                     File("group_info_length", U16(b, cd.next)),
                     Bin("group_info_bytes", Copy(b, cd.next + 2, U16(b, cd.next)))>>)>>)
      GroupAt(at) == Group(at, dsmcc_parse_compatibility_descriptors(b, at + 8))
      GroupsFrom[at \in Nat, k \in Nat] ==
        IF k > number \/ at >= left THEN <<>>
        ELSE <<Dir(k, GroupAt(at))>> \o
             (IF dsmcc_parse_compatibility_descriptors(b, at + 8).next - i > left THEN <<>>
              ELSE GroupsFrom[Next(at), k + 1])
  IN IF number * 8 + 2 > left THEN NoFiles
     ELSE Files(<<File("number_of_groups", number)>> \o GroupsFrom[i + 2, 1])

(* The information on the service gateway, from offset i on: taps are taken*)
(* for bytes, and a service context for one with 16 bits of id and 8 of    *)
(* length.                                                                 *)
GatewayInfo(b, i) ==
  LET UserInfo(at) == Files(<<File("user_info_length", U16(b, at)),
                              Bin("user_info", Copy(b, at + 2, U16(b, at)))>>)
      Contexts(at) == Files(<<
        File("service_context_list_count", U8(b, at)),
        UserInfo(IF U8(b, at) = 0 THEN at + 1 ELSE at + 3 + U8(b, at + 3))>>)
      Downloads(at) == Files(<<
        File("download_taps_count", U8(b, at)), Bin("download_taps", Copy(b, at + 1, U8(b, at))),
        Contexts(at + 1 + U8(b, at))>>)
  IN Files(<<iop_create_ior_dentries(b, i), Downloads(iop_parse_ior(b, i).next)>>)

(* The message header is shown before the data is looked at, when its      *)
(* length is still zero: so the compatibility descriptor never is, but for *)
(* its length.                                                             *)
dsi_parse(b) ==
  LET Body(i) == Files(<<
        psi_parse(b), dsmcc_create_message_header_dentries(b, 8),
        Bin("server_id", Copy(b, i, 20)),
        File("compatibility_descriptor_length", U16(b, i + 20)),
        File("private_data_length", U16(b, i + 22)),
        IF (Len(b) - i - 28) % 2^16 >= 8 /\ Copy(b, i + 28, 4) \in KnownIds
        THEN GatewayInfo(b, i + 24) ELSE GroupInfo(b, i + 24)>>)
  IN IF Len(b) < 20 \/ ~CurrentNext(b) THEN NoFiles
     ELSE Body(dsmcc_parse_message_header(b, 8).next)

dii_parse(b) ==
  LET Info(i) == IF ~CurrentNext(b) \/ U16(b, i + 4) = 0 THEN NoFiles
                 ELSE Files(<<psi_parse(b),
                        dii_create_dentries(b, i, dsmcc_parse_compatibility_descriptors(b, i + 16))>>)
      Message(header) ==
        IF header.protocol_discriminator # 17 \/ header.dsmcc_type # 3 THEN NoFiles
        ELSE CASE header.message_id = 4102 -> dsi_parse(b)
               [] header.message_id = 4098 -> Info(header.next)
               [] OTHER -> NoFiles
  IN IF Len(b) < 20 THEN NoFiles ELSE Message(dsmcc_parse_message_header(b, 8))

(* A DDB: the block is what comes behind the fields, however long it should*)
(* be.                                                                     *)
ddb_parse(b) ==
  LET Block(i) == Dir(U16(b, i), Dir(U16(b, i + 4),
                    Bin("block_data_byte", Copy(b, i + 6, Len(b) - (i + 6) - 4))))
      Data(header) ==
        IF \/ ~CurrentNext(b) \/ header.dsmcc_type # 3 \/ header.message_id # 4099
           \/ header.message_length < 5
           \/ header.message_length - header.adaptation_length - 6 = 0
        THEN NoFiles ELSE Block(header.next)
  IN Data(dsmcc_parse_download_data_header(b, 8))
-----------------------------------------------------------------------------
(* The descriptors of an application, p pointing at the tag: offsets start *)
(* behind tag and length and are compared with the length, so that the last*)
(* two bytes are not come to if an entry begins there.                     *)
ApplicationDescriptor(p) ==
  LET i == Last(Offsets(3, U8(p, 2) + 3, LAMBDA at : at + 5))
      Profile(k) == Dir(U16(p, 3 + 5 * k), Files(<<
        File("version_major", U8(p, 5 + 5 * k)), File("version_minor", U8(p, 6 + 5 * k)),
        File("version_micro", U8(p, 7 + 5 * k))>>))
  IN Files([k \in 1..((i - 3) \div 5) |-> Profile(k - 1)]
           \o <<File("service_bound_flag", Flag(p, i, 7)), File("visibility", Part(p, i, 5, 2)),
                File("application_priority", U8(p, i + 1))>>)

ApplicationNames(p, len) ==
  LET NameAt(at) == Files(<<
        File("iso_639_language_code", U24(p, at)), File("application_name_length", U8(p, at + 3)),
        Str("application_name", Copy(p, at + 4, U8(p, at + 3)))>>)
  IN Entries(Offsets(2, len, LAMBDA at : at + 4 + U8(p, at + 3)), NameAt)

(* The first bit of the standard is looked for in the last.                *)
TransportProtocol(p, len) ==
  LET remote == Flag(p, 5, 0)
      i == IF remote = 1 THEN 12 ELSE 6
      Remote == <<File("remote_connection", remote)>> \o
                (IF remote = 0 THEN <<>>
                 ELSE <<File("original_network_id", U16(p, 6)), File("transport_stream_id", U16(p, 8)),
                        File("service_id", U16(p, 10))>>)
      UrlAt(at) == Files(<<File("URL_length", U8(p, at)), Str("URL_byte", Copy(p, at + 1, U8(p, at)))>>)
      Selector ==
        CASE U16(p, 2) \in {1, 4} -> Files(Remote \o <<File("component_tag", U8(p, i))>>)
          [] U16(p, 2) = 2 -> Files(Remote \o <<File("alignment_indicator", Flag(p, i, 0)),
               Entries(Offsets(i + 1, len, LAMBDA at : at + 1 + U8(p, at)), UrlAt)>>)
          [] OTHER -> Bin("selector_byte", Copy(p, 5, len - 3))
  IN Files(<<File("protocol_id", U16(p, 2)), File("transport_protocol_label", U8(p, 4)),
             IF len > 3 THEN Selector ELSE NoFiles>>)

(* A byte too many is skipped behind each parameter (ait.c:358).           *)
GingaJApplication(p, len) ==
  LET ParameterAt(at) == Files(<<File("parameter_length", U8(p, at)),
                                 Str("parameter", Copy(p, at + 1, U8(p, at)))>>)
  IN Entries(Offsets(2, len, LAMBDA at : at + 2 + U8(p, at)), ParameterAt)

GingaJLocation(p, len) ==
  LET Class(i) == Str("initial_class", Copy(p, i, len - i + 2))
      Extended(i) == Files(<<File("classpath_extension_length", U8(p, i)),
                             Str("classpath_extension", Copy(p, i + 1, U8(p, i))),
                             Class(i + 1 + U8(p, i))>>)
  IN Files(<<File("base_directory_length", U8(p, 2)), Str("base_directory", Copy(p, 3, U8(p, 2))),
             Extended(3 + U8(p, 2))>>)

ExternalAuthorizations(p, len) ==
  LET ApplicationAt(at) == Files(<<
        Bin("organization_id", U32(p, at)), File("application_id", U16(p, at + 4)),
        File("application_priority", U8(p, at + 6))>>)
  IN Entries(Offsets(2, len, LAMBDA at : at + 7), ApplicationAt)

ApplicationIcons(p) == Files(<<
  File("icon_locator_length", U8(p, 2)), Bin("icon_locator", Copy(p, 3, U8(p, 2))),
  File("icon_flags", U16(p, 3 + U8(p, 2)))>>)

DiiLocation(p, len) ==
  LET LabelAt(at) == Files(<<File("label_length", U8(p, at)), Str("label", Copy(p, at + 1, U8(p, at))),
                             File("prefetch_priority", U8(p, at + 1 + U8(p, at)))>>)
  IN Files(<<File("transport_protocol_label", U8(p, 2)),
             Entries(Offsets(3, len, LAMBDA at : at + 2 + U8(p, at)), LabelAt)>>)

(* The rest have no files, or other ones in other standards than SBTVD.    *)
ait_parse_descriptor(tag, len, p, standard) ==
  CASE tag = 0 -> ApplicationDescriptor(p)
    [] tag = 1 -> ApplicationNames(p, len)
    [] tag = 2 -> TransportProtocol(p, len)
    [] tag = 3 /\ standard = "SBTVD" -> GingaJApplication(p, len)
    [] tag = 4 /\ standard = "SBTVD" -> GingaJLocation(p, len)
    [] tag = 5 -> ExternalAuthorizations(p, len)
    [] tag = 11 -> ApplicationIcons(p)
    [] tag = 13 -> DiiLocation(p, len)
    [] tag = 17 /\ standard = "SBTVD" -> File("platform_id", U24(p, 2))
    [] OTHER -> NoFiles

(* The application at offset i, each descriptor in a directory named for   *)
(* its tag.                                                                *)
BehindDescriptor(b, at) == at + 2 + U8(b, at + 1)
ApplicationEnd(b, i) ==
  Last(Offsets(i + 9, i + 9 + (U16(b, i + 7) % 2^12), LAMBDA at : BehindDescriptor(b, at)))
ApplicationFiles(b, i, standard) ==
  LET descriptors == Offsets(i + 9, i + 9 + (U16(b, i + 7) % 2^12), LAMBDA at : BehindDescriptor(b, at))
      Shown(at) ==
        Dir(U8(b, at), ait_parse_descriptor(U8(b, at), U8(b, at + 1), Copy(b, at, Len(b) - at), standard))
  IN Files(<<Bin("organization_id", U32(b, i)), File("application_id", U16(b, i + 4)),
             File("application_control_code", U8(b, i + 6)),
             File("application_descriptors_loop_length", U16(b, i + 7) % 2^12)>>
           \o [k \in 1..(Len(descriptors) - 1) |-> Shown(descriptors[k])])

(* An AIT. The offset of an application, in the section, is compared with  *)
(* the length of the loop (ait.c:713): the last ones are left out unless   *)
(* they are longer than what comes before the loop.                        *)
ait_parse(b, standard) ==
  LET common == U16(b, 8) % 2^12
      commons == Offsets(10, 10 + common, LAMBDA at : BehindDescriptor(b, at))
      CommonAt(at) ==
        Dir(U8(b, at), Parser(DsmCc, U8(b, at), Copy(b, at + 2, Len(b) - at - 2), U8(b, at + 1), standard))
      BehindApplication(at) == at + 9 + (U16(b, at + 7) % 2^12)
      Applications(offsets) ==
        IF Last(offsets) > Len(b) THEN NoFiles
        ELSE LET bogus == {k \in 1..(Len(offsets) - 1) : ApplicationEnd(b, offsets[k]) > offsets[k + 1]}
                 Parsed(k) == ApplicationFiles(b, offsets[k + 1], standard)
             IN Dirs(1, CHOOSE k \in 0..(Len(offsets) - 1) :
                          /\ k \in bogus \/ k = Len(offsets) - 1
                          /\ \A m \in 1..(k - 1) : m \notin bogus, Parsed)
      Loop(i) ==
        IF i > Len(b) \/ U16(b, i) % 2^12 > Len(b) THEN NoFiles
        ELSE Files(<<File("application_loop_length", U16(b, i) % 2^12),
                     Applications(Offsets(i + 2, U16(b, i) % 2^12, BehindApplication))>>)
  IN IF ~CurrentNext(b) THEN NoFiles
     ELSE Files(<<psi_parse(b), File("common_descriptors_length", common)>>
       \o (IF common > Len(b) - 8 THEN <<>>
           ELSE [k \in 1..(Len(commons) - 1) |-> CommonAt(commons[k])] \o <<Loop(Last(commons))>>))
-----------------------------------------------------------------------------
(* Where the data of a PES packet begins. What the header says of its own  *)
(* length is not used; of the extension, the pack header's own length is   *)
(* not skipped with it, and a reserved bit, set, is taken for the flag of  *)
(* the last field; stuffing is never skipped, as a signed char is not 0xff.*)
pes_parse_audio_video_payload(b) ==
  LET Plus(at, flag, bytes) == IF flag = 1 THEN at + bytes ELSE at
      Stamps(at) == at + (CASE Part(b, 7, 6, 2) = 2 -> 5 [] Part(b, 7, 6, 2) = 3 -> 10 [] OTHER -> 0)
      Optional(at) == Plus(Plus(Plus(Plus(Plus(at, Flag(b, 7, 5), 6), Flag(b, 7, 4), 3),
                                     Flag(b, 7, 3), 1), Flag(b, 7, 2), 1), Flag(b, 7, 1), 2)
      Packed(flags, at) == IF Flag(b, flags, 6) = 1 THEN at + U8(b, at) ELSE at
      Counted(flags, at) == Plus(Plus(Packed(flags, Plus(at, Flag(b, flags, 7), 16)),
                                      Flag(b, flags, 5), 2), Flag(b, flags, 4), 2)
      Extended(flags, at) == IF Part(b, flags, 0, 2) = 0 THEN at ELSE at + 1 + Part(b, at, 0, 7)
      Extension(at) == IF Flag(b, 7, 0) = 1 THEN Extended(at, Counted(at, at + 1)) ELSE at
      Body(n) == IF n > Len(b) THEN NoFiles ELSE Bin("PES_packet_data_byte", Copy(b, n, Len(b) - n))
  IN Body(Extension(Optional(Stamps(9))))
=============================================================================
