----------------------------- MODULE TableBodies ------------------------------
(***************************************************************************)
(* The sections of the other tables (tables/pat.c, pmt.c, nit.c, sdt.c,    *)
(* sdtt.c, eit.c, tot.c), each as the files made of the bytes of one       *)
(* section.                                                                *)
(*                                                                         *)
(* Which version's directory they go to is TableVersions; what a PAT and a *)
(* PMT register, and which directory of streams a stream goes to, is       *)
(* ParserRegistry: here a stream's directory has the number of its PID     *)
(* only. A loop of descriptors is first noted in its directory, as where it*)
(* is and how long; Described() then puts the files of its descriptors     *)
(* there. Loops are ones that Descriptors shows to be walked right.        *)
(***************************************************************************)
EXTENDS SectionBodies

(* A loop of descriptors to be parsed, and what descriptors_parse() makes  *)
(* of one.                                                                 *)
LoopAt(i, length) == Bin("descriptors", <<i, length>>)
DescriptorLoop(b, i, length, standard) ==
  LET offsets == Offsets(i, i + length, LAMBDA at : BehindDescriptor(b, at))
      DescriptorAt(at) ==
        Dir(U8(b, at), Parser(Ts, U8(b, at), Copy(b, at, Len(b) - at), U8(b, at + 1), standard))
  IN Files([k \in 1..(Len(offsets) - 1) |-> DescriptorAt(offsets[k])])
(* The files, with those of the loops noted among them.                     *)
Described(b, files, standard) ==
  LET loops == {key \in DOMAIN files : key[1] = "descriptors"}
      Under(nrs, made) == FoldRight(Dir, nrs, made)
      LoopOf(key) == Under(key[2], DescriptorLoop(b, files[key][1], files[key][2], standard))
  IN FoldLeft(LAMBDA made, key : LoopOf(key) @@ made,
              [key \in DOMAIN files \ loops |-> files[key]], SetToSeq(loops))
U12(b, i) == U16(b, i) % 2^12
U13(b, i) == U16(b, i) % 2^13
SectionLength(b) == U12(b, 1)
OfCurrent(b, files) == IF CurrentNext(b) THEN Files(<<psi_parse(b)>> \o files) ELSE NoFiles
-----------------------------------------------------------------------------
(* A link per program: to the NIT, or to the PMT of a PID. Links are made  *)
(* where there is none, and never changed.                                 *)
pat_parse(b) ==
  LET Link(at) == Dir(U16(b, at), IF U16(b, at) = 0 THEN File("NIT", 0) ELSE File("PMT", U13(b, at + 2)))
  IN OfCurrent(b, <<FoldLeft(LAMBDA made, k : made @@ Link(4 + 4 * k), NoFiles,
                             [k \in 1..((SectionLength(b) - 9) \div 4) |-> k])>>)

pmt_parse(b) ==
  LET StreamAt(at) == Dir(U13(b, at + 1), Files(<<
        File("stream_type_identifier", U8(b, at)), File("elementary_stream_pid", U13(b, at + 1)),
        File("es_information_length", U12(b, at + 3)), LoopAt(at + 5, U12(b, at + 3))>>))
      Streams(offsets) == Files([k \in 1..(Len(offsets) - 1) |-> StreamAt(offsets[k])])
      first == Last(Offsets(12, 12 + U12(b, 10), LAMBDA at : BehindDescriptor(b, at)))
  IN OfCurrent(b, <<File("pcr_pid", U13(b, 8)), File("program_information_length", U12(b, 10)),
                    LoopAt(12, U12(b, 10)),
                    Streams(Offsets(first, SectionLength(b) - 1, LAMBDA at : at + 5 + U12(b, at + 3)))>>)

(* The offset of a transport stream's information is kept in eight bits.   *)
nit_parse(b) ==
  LET loop == (10 + U12(b, 8)) % 256
      At(i) == (loop + 2 + i) % 256
      InfoAt(i) == Files(<<
        File("transport_stream_id", U16(b, At(i))), File("original_network_id", U16(b, At(i) + 2)),
        File("transport_descriptors_length", U12(b, At(i) + 4)),
        LoopAt(At(i) + 6, U12(b, At(i) + 4))>>)
  IN OfCurrent(b, <<LoopAt(10, U12(b, 8)),
       Entries(Offsets(0, U12(b, loop), LAMBDA i : i + 6 + U12(b, At(i) + 4)), InfoAt)>>)

(* A section whose services end behind its last byte is given up, with the *)
(* files made of it.                                                       *)
sdt_parse(b) ==
  LET ServiceAt(at) == Files(<<
        File("service_id", U16(b, at)), File("eit_schedule_flag", Flag(b, at + 2, 1)),
        File("eit_present_following_flag", Flag(b, at + 2, 0)), File("running_status", Part(b, at + 3, 5, 3)),
        File("free_ca_mode", Flag(b, at + 3, 4)), File("descriptors_loop_length", U12(b, at + 3)),
        LoopAt(at + 5, U12(b, at + 3))>>)
      Services(offsets) ==
        IF Last(offsets) > Len(b) - 4 THEN NoFiles
        ELSE OfCurrent(b, <<File("original_network_id", U16(b, 8)), Entries(offsets, ServiceAt)>>)
  IN Services(Offsets(11, Len(b) - 4, LAMBDA at : at + 5 + U12(b, at + 3)))

(* The highest of the three bits of the running status is masked out.      *)
eit_parse(b) ==
  LET EventAt(at) == Files(<<
        File("event_id", U16(b, at)), Bin("start_time", Copy(b, at + 2, 5)), Bin("duration", Copy(b, at + 7, 3)),
        File("running_status", Part(b, at + 10, 5, 2)), File("free_ca_mode", Flag(b, at + 10, 4)),
        File("descriptors_loop_length", U12(b, at + 10)), LoopAt(at + 12, U12(b, at + 10))>>)
      Behind(at) ==
        Last(Offsets(at + 12, at + 12 + U12(b, at + 10), LAMBDA d : BehindDescriptor(b, d)))
  IN OfCurrent(b, <<File("transport_stream_id", U16(b, 8)), File("original_network_id", U16(b, 10)),
                    File("segment_last_section_number", U8(b, 12)), File("last_table_id", U8(b, 13)),
                    Entries(Offsets(14, Len(b) - 4, Behind), EventAt)>>)

(* The k-th content is looked for at 15 * k, and its n-th schedule n times *)
(* as far from the beginning of the section.                               *)
sdtt_parse(b) ==
  LET Schedule(at) == Files(<<Bin("start_time", Copy(b, at, 5)), Bin("duration", Copy(b, at + 5, 3))>>)
      ContentAt(at) ==
        LET scheduled == U16(b, at + 6) \div 2^4
            ScheduleOf(n) == Schedule(at * (n + 1))
        IN Files(<<
             File("group", Part(b, at, 4, 4)), File("target_version", U12(b, at)),
             File("new_version", U16(b, at + 2) \div 2^4), File("download_level", Part(b, at + 3, 2, 2)),
             File("version_indicator", Part(b, at + 3, 0, 2)),
             File("content_descriptor_length", U16(b, at + 4) \div 2^4),
             File("schedule_descriptor_length", scheduled),
             File("schedule_time_shift_information", Part(b, at + 7, 0, 4)),
             Dirs(1, scheduled \div 8, ScheduleOf),
             LoopAt(at + 8 + 8 * (scheduled \div 8), (U16(b, at + 4) \div 2^4) - scheduled)>>)
      ContentOf(k) == ContentAt(15 * (k + 1))
  IN OfCurrent(b, <<File("maker_id", U8(b, 3)), File("model_id", U8(b, 4)),
       File("transport_stream_id", U16(b, 8)), File("original_network_id", U16(b, 10)),
       File("service_id", U16(b, 12)), File("num_of_contents", U8(b, 14)), Dirs(1, U8(b, 14), ContentOf)>>)
-----------------------------------------------------------------------------
(* The date of a modified Julian day, from March 1900 on, with the source's*)
(* fractions as ratios of integers (no quotient is close to an integer);   *)
(* a day 0 is no date. The year is one since 1900 in eight bits, and 0 is  *)
(* not counted from 1900.                                                  *)
Date(mjd) ==
  IF mjd = 0 THEN <<0, 0, 0>>
  ELSE LET year == (mjd * 100 - 1507820) \div 36525
           days == (year * 1461) \div 4
           month == (mjd * 10000 - 149561000 - days * 10000) \div 306001
           wrap == IF month \in {14, 15} THEN 1 ELSE 0
       IN <<IF year + wrap = 0 THEN 0 ELSE ((year + wrap) % 256) + 1900, month - 1 - wrap * 12,
            mjd - 14956 - days - ((month * 306001) \div 10000)>>

(* Two decimal digits.                                                     *)
Bcd(b, i) == Part(b, i, 4, 4) * 10 + Part(b, i, 0, 4)

(* A date and time that strptime() takes; of another no file is made, or   *)
(* the one there is stays.                                                 *)
tot_create_ut3c_time(b) ==
  LET Time(date, clock) ==
        IF date[2] = 0 \/ clock[1] > 23 \/ clock[2] > 59 \/ clock[3] > 61 THEN NoFiles
        ELSE Bin("utc3_time", date \o clock)
  IN Time(Date(U16(b, 3)), <<Bcd(b, 5), Bcd(b, 6), Bcd(b, 7)>>)

(* Of a later section only the time and the descriptors are made anew.     *)
tot_parse(b, current) == Files(<<
  IF current # NoFiles THEN current
  ELSE Files(<<File("table_id", U8(b, 0)), File("section_syntax_indicator", Flag(b, 1, 7)),
               File("section_length", SectionLength(b)), File("descriptors_loop_length", U12(b, 8))>>),
  tot_create_ut3c_time(b), LoopAt(10, U12(b, 8))>>)
=============================================================================
