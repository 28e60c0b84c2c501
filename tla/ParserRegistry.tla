--------------------------- MODULE ParserRegistry ---------------------------
(***************************************************************************)
(* How a PID gets its parser, and a PES packet its FIFO.                   *)
(*                                                                         *)
(* ts_parse_packet() dispatches on the PID: to a PSI parser if the PID is  *)
(* one of a fixed set or in psi_parsers, to a PES parser if it is in       *)
(* pes_parsers. The PAT registers the PIDs of PMT and NIT, the PMT those   *)
(* of its streams. The PMT also makes each stream's directory, with FIFOs  *)
(* for audio and video, and a link to it in /Streams; pes_get_dentry()     *)
(* finds a FIFO through that link and remembers it in pes_tables.          *)
(*                                                                         *)
(* The hash tables are maps with room for MaxPids keys (see KeyTable). The *)
(* directories of the PMTs are the FIFOs in them; a FIFO is known by its   *)
(* path and by the life of its PMT's directory, which the update of a PMT  *)
(* frees with all that is in it (see TableVersions).                       *)
(***************************************************************************)
EXTENDS Integers, FiniteSets, SequencesExt

CONSTANTS
  Pats,       \* the PATs: records of version and programs, a sequence of [number, pid]
  Pmts,       \* the PMT sections: records of pid, version and streams
  Tables,     \* sections of fixed tables: [pid, table_id]
  ParsePes,   \* the option parse_pes
  MaxPids,    \* DEMUXFS_MAX_PIDS; 256 in the code
  MaxUpdates, \* bound: updates of a PMT
  None        \* NULL

Pids == 0 .. 8191
StaticPids == {0, 1, 16, 17, 18, 19, 20, 23, 30, 31, 34, 35, 36, 37, 38, 39, 40, 41, 8191}
NoTag == -1   \* a descriptor other than the stream identifier descriptor

(* A section, and what its parser reads of it. A version stands for one PAT *)
(* (pat_parse() looks no further); PID 0 has no table but the PAT.          *)
ASSUME RegistryAssumption ==
  /\ MaxPids \in Nat \ {0} /\ MaxUpdates \in Nat /\ ParsePes \in BOOLEAN
  /\ \A t \in Pats \cup Pmts : t.version \in 0 .. 31
  /\ \A t \in Pats : t.programs \in Seq([number : Nat, pid : Pids])
  /\ \A t, u \in Pats : t.version = u.version => t = u
  /\ \A t \in Tables : t.pid \in StaticPids \ {0} /\ t.table_id \in 0 .. 255
  /\ \A t \in Pmts : t.pid \in Pids /\ t.streams \in
       Seq([pid : Pids, type : 0 .. 255, tags : Seq({NoTag} \cup (0 .. 255))])

VARIABLES
  psi_tables,   \* key |-> the table's version, and whether its dentry is alive
  psi_parsers,  \* PID |-> parser of sections
  pes_parsers,  \* PID |-> parser of PES packets
  pes_tables,   \* <<PID, FIFO name>> |-> the FIFO found last
  streams,      \* /Streams: PID |-> the directory the link leads to
  fifos,        \* the FIFOs in the tree
  marks,        \* Primary and Secondary: <<directory, name>> |-> PID
  life,         \* PMT PID |-> how often its directory was freed
  running,      \* the parser thread has not met an error
  fault,        \* freed memory was used: what follows has no meaning
  fed           \* the FIFOs the last packet was written to

vars == <<psi_tables, psi_parsers, pes_parsers, pes_tables, streams, fifos, marks, life,
          running, fault, fed>>

-----------------------------------------------------------------------------
(* Stream types and component tags (stream_type.c, component_tag.c).       *)
IsVideo(type) == type \in {1, 2, 27}
IsAudio(type) == type \in {3, 4, 15, 17, 129}
IsDataCarousel(type) == type \in {5, 11, 13}
IsEventMessage(type) == type \in {12, 13}
IsMpe(type) == type = 10
IsObjectCarousel(type) == type \in {6, 10, 12, 13, 126}
IsDsmcc(type) ==
  IsDataCarousel(type) \/ IsEventMessage(type) \/ IsMpe(type) \/ IsObjectCarousel(type)

IsOneSeg(tag) == tag \in 128 .. 143

(* What a component tag stands for, and which tag of it is the primary one *)
Component(tag) ==
  CASE tag \in (0 .. 15) \cup {129, 130} -> "Video"
    [] tag \in (16 .. 47) \cup (131 .. 134) \cup {144, 145} -> "Audio"
    [] tag \in (48 .. 55) \cup {135} -> "ClosedCaption"
    [] tag \in (56 .. 63) \cup {136} -> "Superimposed"
    [] tag \in 64 .. 111 -> "ObjectCarousel"
    [] tag = 128 -> "DataCarousel"
    [] tag \in 112 .. 127 -> "EventMessage"
    [] OTHER -> "Reserved"

PrimaryTag(tag) == tag \in {0, 129, 16, 131, 133, 144, 48, 135, 56, 136, 64, 128}

(* The directory of streams a stream goes to, by the descriptor at hand.   *)
StreamsName(type, tag) ==
  IF tag # NoTag
    THEN IF Component(tag) \in {"Video", "Audio"} /\ IsOneSeg(tag)
           THEN <<"OneSeg", Component(tag)>> ELSE <<"", Component(tag)>>
    ELSE <<"", IF IsDataCarousel(type) THEN "DataCarousel"
               ELSE IF IsEventMessage(type) THEN "EventMessage"
               ELSE IF IsMpe(type) THEN "Mpe"
               ELSE IF IsObjectCarousel(type) THEN "ObjectCarousel"
               ELSE IF IsVideo(type) THEN "Video"
               ELSE IF IsAudio(type) THEN "Audio" ELSE "Reserved">>

Label(tag) ==
  CASE tag = NoTag -> None
    [] PrimaryTag(tag) -> "Primary"
    [] Component(tag) # "Reserved" /\ ~PrimaryTag(tag) -> "Secondary"
    [] OTHER -> None

-----------------------------------------------------------------------------
With(f, key, value) == [k \in DOMAIN f \cup {key} |-> IF k = key THEN value ELSE f[k]]

(* hashtable_add(): overwrites what the key has, and a full table refuses. *)
Put(table, key, value) ==
  IF key \notin DOMAIN table /\ Cardinality(DOMAIN table) = MaxPids
    THEN table ELSE With(table, key, value)

(* The same behind an `if (! hashtable_get())'.                            *)
PutIfAbsent(table, key, value) ==
  IF key \in DOMAIN table THEN table ELSE Put(table, key, value)

(* TS_PACKET_HASH_KEY.                                                     *)
HashKey(pid, table_id) == pid * 256 + table_id
PmtKey(pid) == HashKey(pid, 2)
PatKey == HashKey(0, 0)

(* ts_is_psi_packet() and ts_is_pes_packet(), in the order they are asked. *)
Dispatch(pid) ==
  IF pid \in StaticPids \cup DOMAIN psi_parsers THEN "psi"
  ELSE IF pid \in DOMAIN pes_parsers THEN "pes" ELSE "none"

(* ts_get_psi_parser() for a section whose fixed parser, by table_id, is   *)
(* `fixed': a registered parser comes first.                               *)
PsiParser(pid, fixed) == IF pid \in DOMAIN psi_parsers THEN psi_parsers[pid] ELSE fixed

-----------------------------------------------------------------------------
(* Mutant of PatRegister: the network's PID is left to the fixed parsers.  *)
PatRegister_NoNit(parsers, program) ==
  IF program.pid \in DOMAIN psi_tables \/ program.number = 0 THEN parsers
  ELSE Put(parsers, program.pid, "pmt_parse")

(* Mutant of PatRegister: the program's number is taken for its PID.       *)
PatRegister_ByNumber(parsers, program) ==
  IF program.pid \in DOMAIN psi_tables THEN parsers
  ELSE Put(parsers, program.number, IF program.number = 0 THEN "nit_parse" ELSE "pmt_parse")

(* pat_populate() for one program. It looks for the PID among the keys of  *)
(* psi_tables, which are not PIDs.                                         *)
PatRegister(parsers, program) ==
  IF program.pid \in DOMAIN psi_tables THEN parsers
  ELSE Put(parsers, program.pid, IF program.number = 0 THEN "nit_parse" ELSE "pmt_parse")

(* pat_parse(). With an update the directory of both versions is freed and *)
(* then used.                                                              *)
PatParse(t) ==
  /\ PatKey \in DOMAIN psi_tables => psi_tables[PatKey].version # t.version
  /\ psi_parsers' = FoldLeft(PatRegister, psi_parsers, t.programs)
  /\ fault' = (PatKey \in DOMAIN psi_tables)
  /\ psi_tables' = Put(psi_tables, PatKey, [version |-> t.version, alive |-> TRUE])
  /\ fed' = {}
  /\ UNCHANGED <<pes_parsers, pes_tables, streams, fifos, marks, life, running>>

(* The first section of a table whose PID and parser are fixed, as the SDT *)
(* (sdt_parse() and others; TableVersions has the rest of them).           *)
TableParse(t) ==
  /\ HashKey(t.pid, t.table_id) \notin DOMAIN psi_tables
  /\ psi_tables' = Put(psi_tables, HashKey(t.pid, t.table_id), [version |-> 0, alive |-> TRUE])
  /\ fed' = {}
  /\ UNCHANGED <<psi_parsers, pes_parsers, pes_tables, streams, fifos, marks, life,
                 running, fault>>

-----------------------------------------------------------------------------
(* pmt_populate_stream_dir() is called once per descriptor of a stream, or *)
(* once if it has none.                                                    *)
Calls(t) ==
  FlattenSeq([i \in DOMAIN t.streams |->
    IF t.streams[i].tags = <<>>
      THEN <<[stream |-> t.streams[i], tag |-> NoTag]>>
      ELSE [j \in DOMAIN t.streams[i].tags |->
              [stream |-> t.streams[i], tag |-> t.streams[i].tags[j]]]])

(* Mutant of NewFifos: only video has an elementary stream.                *)
NewFifos_VideoEs(dir, stream) ==
  IF ~(IsAudio(stream.type) \/ IsVideo(stream.type)) THEN {}
  ELSE {[dir |-> dir, pid |-> stream.pid, name |-> n, life |-> life[dir.pmt]] :
          n \in IF ParsePes /\ IsVideo(stream.type) THEN {"PES", "ES"} ELSE {"PES"}}

(* CREATE_FIFO() of PES and, with parse_pes, of ES.                        *)
NewFifos(dir, stream) ==
  IF ~(IsAudio(stream.type) \/ IsVideo(stream.type)) THEN {}
  ELSE {[dir |-> dir, pid |-> stream.pid, name |-> n, life |-> life[dir.pmt]] :
          n \in IF ParsePes THEN {"PES", "ES"} ELSE {"PES"}}

(* The parser of the stream. A private stream is looked for in pes_parsers *)
(* and registered in psi_parsers.                                          *)
Register(s, stream) ==
  CASE IsDsmcc(stream.type) ->
         [s EXCEPT !.psi = PutIfAbsent(@, stream.pid, "dsmcc_parse")]
    [] IsAudio(stream.type) ->
         [s EXCEPT !.pes = PutIfAbsent(@, stream.pid, "pes_parse_audio")]
    [] IsVideo(stream.type) ->
         [s EXCEPT !.pes = PutIfAbsent(@, stream.pid, "pes_parse_video")]
    [] OTHER ->
         [s EXCEPT !.psi = IF stream.pid \in DOMAIN s.pes THEN @
                           ELSE Put(@, stream.pid, "pes_parse_other")]

(* Links are made where there is none, and never changed: CREATE_SYMLINK.  *)
Link(links, key, target) ==
  IF key \in DOMAIN links THEN links ELSE With(links, key, target)

(* pmt_populate_stream_dir().                                              *)
Populate(t, s, call) ==
  LET dir == [pmt |-> t.pid, version |-> t.version,
              streams |-> StreamsName(call.stream.type, call.tag)]
      label == Label(call.tag)
      created == [s EXCEPT !.fifos = @ \cup NewFifos(dir, call.stream)]
      linked == [created EXCEPT !.streams = Link(@, call.stream.pid, dir)]
      marked == IF label = None THEN linked
                ELSE [linked EXCEPT !.marks = Link(@, <<dir, label>>, call.stream.pid)]
  IN Register(marked, call.stream)

(* All streams of a section.                                               *)
Populated(t) ==
  FoldLeft(LAMBDA s, call : Populate(t, s, call),
           [psi |-> psi_parsers, pes |-> pes_parsers, streams |-> streams,
            fifos |-> fifos, marks |-> marks],
           Calls(t))

Known(t) == PmtKey(t.pid) \in DOMAIN psi_tables

(* pmt_parse(): the first version.                                         *)
PmtFirst(t) ==
  LET s == Populated(t)
  IN /\ Dispatch(t.pid) = "psi" /\ PsiParser(t.pid, "pmt_parse") = "pmt_parse"
     /\ ~Known(t)
     /\ psi_parsers' = s.psi /\ pes_parsers' = s.pes
     /\ streams' = s.streams /\ fifos' = s.fifos /\ marks' = s.marks
     /\ psi_tables' = Put(psi_tables, PmtKey(t.pid), [version |-> t.version, alive |-> TRUE])
     /\ fed' = {}
     /\ UNCHANGED <<pes_tables, life, running, fault>>

(* Mutant of Invalidated: only what is new is looked up.                   *)
Invalidated_Never(cache) == cache

(* hashtable_invalidate_contents() of pes_tables.                          *)
Invalidated(cache) == [k \in {} |-> None]

(* pmt_parse(): a further version. The old table and the new one hold the  *)
(* same dentry; the old table's removal frees it with both versions, and   *)
(* the new table is filed under the key that is read from the freed dentry *)
(* then: the number it had, or any other (the table is never found again). *)
(* The next version of a table that was found works on the freed dentry.   *)
PmtUpdate(t) ==
  LET s == Populated(t)
      k == PmtKey(t.pid)
  IN /\ Dispatch(t.pid) = "psi" /\ PsiParser(t.pid, "pmt_parse") = "pmt_parse"
     /\ Known(t) /\ psi_tables[k].version # t.version
     /\ life[t.pid] < MaxUpdates
     /\ fault' = ~psi_tables[k].alive
     /\ psi_parsers' = s.psi /\ pes_parsers' = s.pes /\ streams' = s.streams
     /\ fifos' = {f \in s.fifos : f.dir.pmt # t.pid}
     /\ marks' = [m \in {x \in DOMAIN s.marks : x[1].pmt # t.pid} |-> s.marks[m]]
     /\ life' = [life EXCEPT ![t.pid] = @ + 1]
     /\ \/ psi_tables' = Put(psi_tables, k, [version |-> t.version, alive |-> FALSE])
        \/ psi_tables' = [x \in DOMAIN psi_tables \ {k} |-> psi_tables[x]]
     /\ pes_tables' = Invalidated(pes_tables)
     /\ fed' = {}
     /\ UNCHANGED running

-----------------------------------------------------------------------------
(* A PID in hexadecimal, filled up with zeroes to so many digits: the name *)
(* of a stream's link is made with `%#04x', and looked up with `%#x'.      *)
Printed(pid, digits) == [pid |-> pid, zeroes |-> IF pid < 16 THEN digits - 1 ELSE 0]
LinkName(pid) == Printed(pid, 2)
PathName(pid) == Printed(pid, 1)

(* The FIFO of that name in the directory /Streams leads to.               *)
InTree(pid, name) ==
  {f \in fifos : /\ pid \in DOMAIN streams /\ LinkName(pid) = PathName(pid)
                 /\ f.dir = streams[pid] /\ f.pid = pid /\ f.name = name}

(* pes_get_dentry().                                                       *)
PesGetDentry(pid, name) ==
  IF <<pid, name>> \in DOMAIN pes_tables THEN pes_tables[<<pid, name>>]
  ELSE IF InTree(pid, name) = {} THEN None
  ELSE CHOOSE f \in InTree(pid, name) : TRUE

Remember(cache, pid, name) ==
  IF PesGetDentry(pid, name) = None THEN cache
  ELSE PutIfAbsent(cache, <<pid, name>>, PesGetDentry(pid, name))

(* The FIFOs pes_parse_audio() and pes_parse_video() write to: they give   *)
(* up at the first they do not find, and with them the parser thread.      *)
Names == IF ParsePes THEN <<"ES", "PES">> ELSE <<"PES">>
Found(pid) ==
  LET missing == {i \in DOMAIN Names : PesGetDentry(pid, Names[i]) = None}
  IN IF missing = {} THEN Names ELSE SubSeq(Names, 1, Min(missing) - 1)

(* A complete PES packet of the PID, that the parser has no fault to find  *)
(* with (PesAssembly and StreamDelivery have the others).                  *)
PesPacket(pid) ==
  /\ Dispatch(pid) = "pes"
  /\ fed' = {PesGetDentry(pid, Found(pid)[i]) : i \in DOMAIN Found(pid)}
  /\ pes_tables' = FoldLeft(LAMBDA c, n : Remember(c, pid, n), pes_tables, Found(pid))
  /\ running' = (Found(pid) = Names)
  /\ UNCHANGED <<psi_tables, psi_parsers, pes_parsers, streams, fifos, marks, life, fault>>

-----------------------------------------------------------------------------
Init ==
  /\ psi_tables = [k \in {} |-> None]
  /\ psi_parsers = [k \in {} |-> None]
  /\ pes_parsers = [k \in {} |-> None]
  /\ pes_tables = [k \in {} |-> None]
  /\ streams = [k \in {} |-> None]
  /\ fifos = {} /\ fed = {}
  /\ marks = [k \in {} |-> None]
  /\ life = [p \in {t.pid : t \in Pmts} |-> 0]
  /\ running = TRUE
  /\ fault = FALSE

StreamPids == UNION {{t.streams[i].pid : i \in DOMAIN t.streams} : t \in Pmts}

Packet ==
  \/ \E t \in Pats : PatParse(t)
  \/ \E t \in Tables : TableParse(t)
  \/ \E t \in Pmts : PmtFirst(t)
  \/ \E t \in Pmts : PmtUpdate(t)
  \/ \E p \in StreamPids : PesPacket(p)

Next == running /\ ~fault /\ Packet

Spec == Init /\ [][Next]_vars

(* The multiplexer repeats its tables, and its streams do not end.         *)
Fairness ==
  /\ WF_vars(running /\ ~fault /\ \E t \in Pats : PatParse(t) /\ PatKey \notin DOMAIN psi_tables)
  /\ \A p \in {t.pid : t \in Pmts} :
       WF_vars(running /\ ~fault /\ \E t \in Pmts : t.pid = p /\ PmtFirst(t))
  /\ \A p \in StreamPids : WF_vars(running /\ ~fault /\ PesPacket(p))

LiveSpec == Spec /\ Fairness

-----------------------------------------------------------------------------
Dirs == [pmt : {t.pid : t \in Pmts}, version : {t.version : t \in Pmts},
         streams : {"", "OneSeg"} \X {"Video", "Audio", "ClosedCaption", "Superimposed",
                    "ObjectCarousel", "DataCarousel", "EventMessage", "Mpe", "Reserved"}]
Fifos == [dir : Dirs, pid : StreamPids, name : {"ES", "PES"}, life : 0 .. MaxUpdates]

ASSUME NoneAssumption == None \notin Fifos

IsMap(f, keys, values) == DOMAIN f \subseteq keys /\ \A k \in DOMAIN f : f[k] \in values

(* What the tables hold.                                                   *)
TypeOK ==
  /\ IsMap(psi_tables, Nat, [version : Nat, alive : BOOLEAN])
  /\ IsMap(psi_parsers, Pids, {"nit_parse", "pmt_parse", "dsmcc_parse", "pes_parse_other"})
  /\ IsMap(pes_parsers, StreamPids, {"pes_parse_audio", "pes_parse_video"})
  /\ IsMap(pes_tables, StreamPids \X {"ES", "PES"}, Fifos)
  /\ IsMap(streams, StreamPids, Dirs)
  /\ fifos \subseteq Fifos /\ fed \subseteq Fifos
  /\ IsMap(marks, Dirs \X {"Primary", "Secondary"}, StreamPids)
  /\ life \in [{t.pid : t \in Pmts} -> 0 .. MaxUpdates]
  /\ running \in BOOLEAN /\ fault \in BOOLEAN
  /\ \A n \in {Cardinality(DOMAIN psi_tables), Cardinality(DOMAIN psi_parsers),
               Cardinality(DOMAIN pes_parsers), Cardinality(DOMAIN pes_tables)} : n <= MaxPids

Full(table) == Cardinality(DOMAIN table) = MaxPids
Updated == \E p \in DOMAIN life : life[p] > 0
(* A PID with PES packets whose link is not found under its name.          *)
Misnamed == \E p \in DOMAIN pes_parsers : LinkName(p) # PathName(p)

(* A FIFO in the cache of pes_get_dentry() is in the tree, and the one     *)
(* that /Streams leads to: the update of a PMT, which frees FIFOs, leaves  *)
(* none of them in the cache.                                              *)
CacheLive ==
  \A k \in DOMAIN pes_tables : pes_tables[k] \in InTree(k[1], k[2])

(* The PES packets of a PID find its FIFOs, whatever the order of PAT and  *)
(* PMTs and though several PMTs announce the PID, until a PMT is updated:  *)
(* the parser thread ends with the first that does not. (With psi_parsers  *)
(* full, a PID may have no FIFO.)  A PID below 16 never finds them, since  *)
(* pmt.c names its link 0x0f where pes.c looks for 0xf: it ends the thread *)
(* as well.                                                                *)
EndsOnlyAfterUpdate == running \/ Updated \/ Full(psi_parsers) \/ Misnamed

(* Every PID of the PAT has a parser, unless its number is the key of      *)
(* another table, or of a PMT whose update filed it elsewhere since:       *)
(* pat_populate() takes a table for a parser.                              *)
Registered ==
  \A t \in Pats :
    PatKey \in DOMAIN psi_tables /\ psi_tables[PatKey].version = t.version =>
      \A i \in DOMAIN t.programs :
        \/ t.programs[i].pid \in DOMAIN psi_parsers
        \/ t.programs[i].pid \in DOMAIN psi_tables \cup {PmtKey(u.pid) : u \in Pmts}
        \/ Full(psi_parsers)

(* Once a PID is taken for sections it is never again taken for PES, even  *)
(* if a PMT announces it as audio or video, and no FIFO gets its packets.  *)
SectionsForGood ==
  /\ \A p \in StreamPids : Dispatch(p) = "psi" => Dispatch(p)' = "psi"
  /\ \A f \in fed' : f.pid \notin DOMAIN psi_parsers

(* A packet goes to the parser of its PID, whatever the order of tables    *)
(* and however PAT and PMTs disagree on what a PID carries (ts.c:76-162).  *)
DispatchRight == [][Registered' /\ SectionsForGood]_vars

(* Every audio and video stream that a PMT of the PAT announces comes to   *)
(* its FIFO in the end: unless another version of the PMT is received      *)
(* first or later, sections claim the PID, a table's key is taken for the  *)
(* PMT's parser, psi_parsers is full, or some stream has a PID below 16,   *)
(* whose first packet ends the thread.                                     *)
StreamsPlay ==
  \A t \in Pmts : \A i \in DOMAIN t.streams :
    LET s == t.streams[i]
    IN IsAudio(s.type) \/ IsVideo(s.type) =>
         <>(\/ \E f \in fed : f.pid = s.pid
            \/ Known(t) /\ psi_tables[PmtKey(t.pid)].version # t.version
            \/ Dispatch(s.pid) = "psi" \/ t.pid \in DOMAIN psi_tables
            \/ Updated \/ fault \/ Full(psi_parsers) \/ Misnamed)

=============================================================================
