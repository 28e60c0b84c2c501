# A TLA+ verification of DemuxFS

DemuxFS (`src/`) mounts an MPEG-2 transport stream as a file system: PSI tables
become directories of small files, elementary streams become FIFOs, and the
object carousel of DSM-CC becomes a tree of files. One thread reads packets,
puts sections and PES packets together, and hands them to parsers that edit a
tree of `struct dentry`; FUSE's threads read that tree.

The modules here model that program, from the command line to the exit and from
the packet to the file. TLC checks them on small instances, and TLAPS proves the
results that matter most for every value of the constants. `PROJECT.json` maps
each definition to the lines it models and lists the hazards, line by line, that
the properties are for. Paths below are relative to `src/src/`.

## 1. Inventory

| component | state | operations | modules |
|---|---|---|---|
| PSI reassembly (`ts.c`, `buffer.c`) | one `struct buffer` per PID | `ts_parse_packet()`, `continuity_counter_is_ok()`, `buffer_*()` | `ContinuityCounter`, `PsiAssembly` |
| PES reassembly (`ts.c`, `buffer.c`, `tables/pes.c`) | the same, and `struct av_fifo_priv` of the ES FIFO | `ts_parse_packet()`, `pes_parse_audio()`, `pes_parse_video()` | `ContinuityCounter`, `PesAssembly` |
| Hash tables (`hash.c`) | `items[]` with keys and owned data | `hashtable_get/add/del/destroy/invalidate_contents()` | `KeyTable`, `HashTable` |
| Table versions (`fsutils.[ch]`, `tables/*.c`, `dsm-cc/ait.c`) | directory, `Version_<n>`, `Current`; the dentry of each table in `psi_tables` | `<table>_parse()`, `fsutils_create_version_dir()`, `fsutils_migrate_children()`, `fsutils_dispose_*()` | `TableVersions`, `TableBodies` |
| Time offset table (`tables/tot.c`) | the files of one table | `tot_parse()` | `TableBodies` |
| Parser registration (`tables/pat.c`, `pmt.c`, `pes.c`) | `psi_parsers`, `pes_parsers`, the cache `pes_tables`, `/Streams` | `pat_populate()`, `pmt_populate_stream_dir()`, `pes_get_dentry()`, the dispatch of `ts.c` | `ParserRegistry` |
| Delivery (`main.c`, `backends/filesrc.c`, `fifo.c`, `pes_append_to_fifo()`) | position in the file, the FIFO's descriptor, the pipe, `main_thread_stopped` | `ts_parser_thread()`, `filesrc_*()`, `fifo_append()`, `demuxfs_init/destroy()` | `StreamDelivery` |
| Backends and options (`main.c`, `backend.c`, `backends/linuxdvb.c`) | options, the library, the backend's parser and descriptors | `main()`, `backend_load/unload()`, create, tune, read, destroy | `Session` |
| DSM-CC carousel (`dsm-cc/dsmcc.c`, `dsi.c`, `dii.c`, `ddb.c`, `ait.c`) | current DSI, DII, DDB; block files; `_filesystem_created`, `_linked_to_dii` | `dsi_parse()`, `dii_parse()`, `ddb_parse()`, `dii_create_filesystem()` | `Carousel`, `SectionBodies` |
| BIOP objects (`dsm-cc/biop.c`, `iop.c`) | the carousel's tree, orphans under a stepfather | `biop_create_filesystem_dentries()`, `biop_reparent_orphaned_dentries()`, `iop_parse_ior()` | `ObjectTree`, `BiopMessages` |
| Descriptors (`tables/descriptors/`, `dsm-cc/descriptors/`) | none | `descriptors_parse()`, `descriptors_count()`, 36 parsers that make files | `DescriptorBodies`, `Descriptors` |
| FUSE operations and attributes (`demuxfs.c`, `xattr.c`) | open handles, `refcount`, a mutex per dentry, lists of attributes | open, read, release, readdir, readlink, `*xattr` | `FuseHandles` |
| Snapshots (`snapshot.c`) | the process' descriptors, pipes to ffmpeg, the frame | read and release of `snapshot.gif` | `Snapshots` |
| CRC, lists (`crc32.c`, `list.h`) | | | not modelled (section 8) |

How they interact. `main()` loads a backend and hands over to FUSE, whose `init`
starts `ts_parser_thread()`. That thread calls the backend for a packet and
`ts_parse_packet()` with it, which finds the PID's buffer in `packet_buffer`,
appends, and calls the parser that `psi_parsers` or `pes_parsers` (filled by PAT
and PMT) or a fixed table gives for the PID. PSI parsers look their table up in
`psi_tables`, write a version directory and replace the table; PES parsers look
FIFOs up through `/Streams` (cached in `pes_tables`) and write to them. The DII
parser reads the files that the DDB parser wrote and has `biop.c` build a tree
of them. FUSE's threads share the tree with the parser thread, protected in part
by a mutex per dentry; no hash table is ever locked (`hashtable_lock()` has no
caller). Processes outside share the FIFOs, and ffmpeg, forked by a read of a
snapshot, is one of them.

What is hard: packets lost and repeated under a counter of 4 bits; one packet
that ends a section and starts another; PES packets whose length is known, or
not; deletion from an open-addressing table; several tables, or several versions
of one, that alias or share a directory, with ownership spread over the tree and
the hash table; two programs that disagree on what a PID carries; sections of a
carousel in any order and in changing versions; objects before the directory
they belong in; threads that look at a dentry between two locks, or at one that
has been freed; descriptors shared by threads that close and dup; a FIFO whose
reader comes, stalls and goes; an unmount while the parser thread is anywhere;
fields that do not end at a byte, lengths of 8 bits that wrap, lengths that
state too little or too much.

What makes each component correct:

- reassembly: what reaches a parser is one section, or PES packet, whole, once;
  without loss everything arrives;
- hash tables: a map, in which it can be said of each datum what became of it;
- versions: one owner per dentry, no version lost but to another of its number,
  `Current` is the last one;
- registration: every PID gets the parser announced for it, every stream its
  FIFO, and no FIFO that was freed is written to;
- delivery: bytes in order, whole up to `PIPE_BUF`; thread and program end when
  the file system is unmounted, and the backend outlives the thread;
- carousel: the file system is made of complete modules, once, and eventually;
- objects: each in its directory, once, with its contents, whatever their order;
- FUSE: counts right, reads and lists that belong to one state of the tree;
- snapshots: each stream's own frame, and a read that returns;
- parsers of structures: the files say what the multiplexer sent.

## 2. Plan

| | module | on top of | abstract specification | status |
|---|---|---|---|---|
| 1 | `PsiAssembly` | `ContinuityCounter` | | checked, proved |
| 2 | `PesAssembly` | `ContinuityCounter` | | checked, proved |
| 3 | `HashTable` | | `KeyTable` | checked, refinement proved |
| 4 | `TableVersions` | | | checked, proved |
| 5 | `Carousel` | | | checked, safety proved |
| 6 | `StreamDelivery`, `Session` around it | | | checked, `WholeFile`, `LifeCycle` and `InOrder` proved |
| 7 | `ParserRegistry` | maps, as `HashTable` shows | | checked, safety proved |
| 8 | `ObjectTree` | modules, as `Carousel` completes them | the tree the messages describe (`TreeRight`) | checked, proved |
| 9 | `FuseHandles` | | | checked, proved |
| 10 | `Snapshots` | | | checked, `FrameRight` proved |
| 11 | `DescriptorBodies`, `Descriptors`; `BiopMessages`, `SectionBodies`, `TableBodies`, `Structures` | `WireFormat` | the standards' layouts (`AsSent`, `StructuresAsSent`) | checked; the walk and the plain descriptors proved |

The components are composed where they share state: `Session` contains
`StreamDelivery`; `PsiAssembly` and `PesAssembly` share the counter;
`Structures` calls every parser of a structure, `Descriptors` every parser of a
descriptor. Elsewhere they are joined by an assumption that another module
shows: `psi_tables` is a map in `TableVersions` and `ParserRegistry` because
`HashTable` implements one; the freeing of a PMT's directory in `ParserRegistry`
is what `TableVersions` shows an update to do; `Carousel` completes the modules
that `ObjectTree` takes the messages of.

The plan is carried out. What is left is not within reach: section 6 says which
properties only TLC shows and why, section 8 what no module models.

## 3. Modules

Wherever a module names an operator "Mutant of ...", it is a wrong variant of
the definition it precedes: nothing uses it but the mutants listed in
`PROJECT.json`, by which every property is shown to depend on the code.

**ContinuityCounter.** `Verdict(last, this, empty)` is
`continuity_counter_is_ok()`: "repeat" and "gap" are its two `return false`,
"ok" its `return true`. The counter has `CcModulus` values.

**PsiAssembly.** `mux`, `packet`, `copies`, `lost` are the multiplexer and the
channel; `buf` is the PID's `struct buffer`, `parsed` what the last packet
handed to a parser. Bytes are abstracted to lengths and the section they belong
to; `buf.pure` records whether the bytes are a prefix of one section. `fresh`,
`heard` and `whole` are history for the properties; no action of the code reads
them. Each way through the PSI half of `ts_parse_packet()` is an action:
`ReceiveNoBuffer`, `ReceiveFirst`, `ReceiveRepeat`, `ReceiveGap`, `ReceiveIdle`,
`ReceiveContinue`, `ReceiveStart`, `ReceiveBoth` (the two rounds of the loop
over a packet with a pointer field). A packet that starts a section while one is
held appends to what is held, as the code does.

**PesAssembly.** The PES half over the same buffer, and `es`, the state of
`struct av_fifo_priv`. `toEs` is what reaches the ES FIFO: the body of a unit,
the fragment raw, or the fragment without its last four bytes (`payload_len -
4`). History: `whole`, the unit received without a loss since its beginning, and
`behind`, the packets sent since the last one taken. A packet passes the test of
its counter wrongly if its counter is 0, or if a turn of the counter went by,
which a unit that starts in a payload too short for `ts.c:329` makes possible:
it leaves buffer and counter as they were. A buffer that took such a packet is
`zero`.

**HashTable** (concrete) and **KeyTable** (abstract). The probing loop is
`Lands`: the first slot, from the home slot on, that is empty or has the key.
Clients use the table in three ways: `Add`, if the key is absent; `Replace`,
delete and add at once for a new version; and `Overwrite`, where the key looked
up is not the one stored under (`nit.c:83` and `137`, `pmt.c:202-206`): the item
that has the key is given the new datum and the old one is not freed (`leaked`).
`owned`, constant in a behaviour, tells `psi_tables` from the tables whose data
belongs to others. `map <- Lookup` is the refinement mapping: a key stands for
what `hashtable_get()` returns for it.

**TableVersions.** One directory, the tables (keys) that write to it, and the
dentries that `calloc()` may return. `kind`, constant in a behaviour, picks the
parser; `First` and `Update` are what the parsers share, `PatParse`, `SdtParse`,
`AitParse` where they differ. `Home` is the directory the section is written to
and `NewDentry` the dentry the new table holds: the same one for parsers that go
through `CREATE_COMMON`, a nameless one for EIT and AIT. `files` says of each
`Version_<n>` which table's files are in it: the files have fixed names, so
those of a second table that announces the same number replace the first's.
(Subdirectories numbered by what is in the section, which only the first table
had, may stay beside them.) `writer`, history, is who announced a number last.
`fault` marks the use of a freed dentry: the program has no defined behaviour
from there, and the model stops.

**StreamDelivery.** The parser thread's loop around the backend and a FIFO. `pc`
is the thread, from `unborn` to `done`: `ReadPacket` is `filesrc_read_packet()`,
with its rewinding (`Rewind`), its end (`EndOfFile`) and a read that fails
(`ReadFails`), which ends the thread as well; `ReadDvr` and `DvrAnswers` are
`linuxdvb_read_packet()`, whose device may fall silent; `OpenFifo`, `WriteFifo`,
`WriteBroken` are `pes_append_to_fifo()` and the rounds of `fifo_append()`. The
reader opens, reads and closes at any moment; `Unmount` and `Join` are
`demuxfs_destroy()`. The kernel's pipe follows pipe(7): atomic up to `PIPE_BUF`,
short writes above, `EAGAIN`, `EPIPE`.

**Session.** The program around it. `stage` is `main()`: `ParseOptions`,
`LoadBackend`, `CreateFilesrc` or `CreateLinuxdvb`, `SetFrequency` and the wait
for the tuner (`Lock`), `FuseMain`, `FuseReturns`, and the way back `Destroy`,
`BackendUnload`, `Exit`, which each failure joins at its own place. `boot` holds
the options, the exit status, the library, the parser, descriptor 0 and what
else is open.

**Carousel.** `dsi`, `dii`, `ddb` are the current tables of one carousel's PID;
`blocks` are the block files with the version they were broadcast in.
`DdbParse`, `DiiFirst`, `DiiRepeat`, `DiiUpdate`, `DsiFirst`, `DsiRepeat`,
`DsiUpdate` are the ways through the three parsers; a section that changes
nothing is a stutter. `Change` has the broadcaster go on to the next version.
`undefined` is what `fault` is elsewhere.

**ParserRegistry.** `psi_tables`, `psi_parsers`, `pes_parsers`, `pes_tables` are
maps with `MaxPids` places; `streams` are the links of `/Streams`, `fifos` the
FIFOs in the tree, `life` which life of a PMT's directory they belong to.
`Dispatch` is the choice of `ts.c:76-162`; `PatParse`, `PmtFirst`, `PmtUpdate`,
`PesPacket` are the handlers, with the loops over programs and streams as folds.
A stream's link is named by `LinkName` (`%#04x`, `pmt.c:125`) and looked up by
`PathName` (`%#x`, `pes.c:88`), which differ for PIDs below 16.

**FuseHandles.** `thread` is where each of FUSE's threads is in `open`, `read`,
`readdir`, `setxattr`, ...; a step ends at a mutex and between two looks at
something no mutex protects. The parser thread creates files, replaces contents
and size in two steps, and disposes of the directory. `fault` is as in
`TableVersions`.

**Snapshots.** `fd` is the process' table of descriptors, in which `open()`,
`pipe()` and `dup()` take the lowest free number, shared by threads that each
treat descriptor 0 as their own. `MakePipe`, `Fork`, `CloseStdin`, `Dup`,
`CloseEnds`, `ReadPipe`, `Save` are the system calls of
`_snapshot_save_video_frame()`, `ReadLock`, `ReadUnlock`, `Release` those of
`demuxfs.c` around it, `FfmpegWrites` and `FfmpegFails` the child, which holds
what it inherited (`Inherited`), waits while its pipe is full (`Capacity`) and
while its FIFO is not fed (`fed`, which only shrinks: `Cease`). `overlapped` is
history.

**ObjectTree.** The messages of a carousel, each about one object, in any order:
`DirMessage` binds names to objects, `FileMessage` brings contents; objects
whose directory is not there yet hang under the stepfather until `Reparent`. A
file has the size its binding states (`Stated`, 0 without object info) until its
message brings `Length` bytes; `Filled` refuses a message whose length differs
from a size of 0 with contents there (`biop.c:611`).
`Again` creates the file system once more over the first. What the code finds by
walking down a tree is the least set that has the children of its members
(`Under`), and what the messages lead to the least set closed under the
directories that came (`LedTo`): for a finite tree that is what the recursion
computes, and it can be reasoned about. The messages are taken to describe a
tree: every object but the gateway is bound once, in one directory, and no two
objects of a directory share a name.

**WireFormat**, and the parsers on top of it: **DescriptorBodies** and
**Descriptors**, **BiopMessages**, **SectionBodies**, **TableBodies**,
**Structures**. `WireFormat` has both sides: layouts as the standards write them
(`Bytes`), and reads as the code makes them (`u8`, 16 and 32 bits, bit fields by
mask and shift). Each parser of a structure is an operator from bytes to the
files it makes, and, in `BiopMessages`, to the offset it goes on from. The
masks, shifts, offsets, signed and 8-bit lengths are the code's, and so are the
ways they depend on `options.standard` (`standard`). A file made of memory that
was never written, or of what lies behind an array, shows `Uninitialized`, which
nothing sent is. `Descriptors` is a machine: the two walks over a loop of
descriptors, one descriptor a step, with the offsets it was pointed at in
`offsets`. `Structures` takes one structure out of its bytes, the messages of a
module one a step.

`Layouts` has no state either: it holds the words in which `TableProofs` speaks
of layouts, of where their fields stand, and of what files tell of them.

The `MC` modules define the constants that a `.cfg` cannot: command lines and
chunks (`MCSession`), a carousel (`MCCarousel`), tables that disagree
(`MCParserRegistry`), a symmetry (`MCFuseHandles`), an object carousel
(`MCObjectTree`), and layouts (`MCDescriptors`, `MCStructures`; `MCWireFormats`
runs both).

## 4. Runs

| run | shows |
|---|---|
| `psi_reassembly` | what reaches a parser is one section's bytes unless a packet with counter 0 joined two (`SplicedOnlyAtZero`), in order and once (`ParsedOnce`); without loss each section arrives (`EndDelivers`); `TypeOK` bounds the buffer |
| `pes_reassembly` | a unit that was joined from two had a counter 0 or a turn in it (`SplicedOnlyAtZero`); a unit handed over lacks at most its last byte (`CompleteButLastByte`); without loss it is handed over (`UnitDelivered`), and an unbounded one goes on without a gap (`UnboundedInOrder`) |
| `hash_table` | no key is cut off from its home slot (`Chained`); every owned datum is stored, freed, refused by a full table, or overwritten by an addition under its key (`Accounted`); it is a map (`TableSpec`) |
| `table_versions` | one owner per dentry (`HeldOnce`), the files of the section that last announced a version number are kept (`VersionsKept`), `Current` is the last (`CurrentIsLast`), a section that breaks off leaves a version whole or gone (`AllOrNothing`) |
| `versions_pmt` | a violation, below |
| `stream_delivery` | a thread that ends by itself has read the whole file, or failed (`WholeFile`); backend, library and descriptors outlive the thread and are given back on every path (`LifeCycle`); bytes in order, whole up to `PIPE_BUF` (`InOrder`); the thread (`EndsUnlessStalled`) and the program (`Exits`) end |
| `carousel` | the file system is made once, of complete modules of one DII (`FsWhole`), the DSI's link leads to it (`LinkRight`), and both come about (`Mounted`) |
| `parser_registry` | no cached FIFO is a freed one (`CacheLive`); only an updated PMT, a full table or a stream whose link has another name than the one looked up ends the thread (`EndsOnlyAfterUpdate`); each PID gets its parser and keeps it (`DispatchRight`); each stream comes to its FIFO (`StreamsPlay`) |
| `fuse_handles` | `refcount` is the number of handles (`RefcountRight`); a read returns one version (`NotTorn`); a listing has what it should, once (`Listed`); no attribute twice (`AttrsUnique`) |
| `snapshots` | size and frame of a snapshot are its stream's (`FrameRight`); a read returns, unless its stream is not fed or snapshots overlapped (`ReadReturns`) |
| `object_tree` | each object hangs once, where its directory says (`TreeRight`), with its own contents, or, created again, with what its binding states (`ContentsRight`) |
| `wire_formats` | the files of about 680 loops of descriptors (`AsSent`) and 600 other structures (`StructuresAsSent`) show the fields that were sent, or the known wrong ones (descriptors of a fixed sequence of fields, as far as `IsPlain` says, always the right ones, `PlainAsSent`); a walk that is over has parsed each descriptor once, from its first byte, and stands behind the loop (`Walked`); every walk ends (`WalkRight`) |

**The violation.** `README.md:54` of the repository says that "DemuxFS records
all versions received so far under different subdirectories". In `versions_pmt`
the second version of a PMT frees the directory that holds both, and
`hashtable_add()` reads the freed dentry (`tables/pmt.c:304`): `CREATE_COMMON`
gave the new table the dentry of the old one, so migration moved nothing. PAT,
NIT, SDT and SDTT do the same.

**Stated up to.** Some properties hold only up to a point the code cannot be
followed past, and say so: in `table_versions`, `carousel`, `parser_registry`
and `fuse_handles`, up to the use of a freed dentry or of NULL (`fault`,
`undefined`); in `snapshots`, unless two snapshots are taken at once
(`overlapped`), since threads then close each other's descriptors, and since an
ffmpeg whose pipe nobody reads stays there with an end of the pipe the others
wait for; in `object_tree`, unless two objects of one name met under the
stepfather (`clashed`). These exceptions are themselves results: each is a state
the code gets into. `fault`, `overlapped` and `clashed` do occur in the runs.

**Other divergences**, kept in the models as the code has them:

- *Hash tables.* A datum that the table owns is lost when it is overwritten
  (`hash.c:116`) or refused (`hash.c:127`).
- *Packets.* A packet received for the first time is dropped as a repeat a turn
  of the counter after a loss (`ts.c:171`); the repeat of a packet that starts a
  PES packet is taken again (`ts.c:331`); a section with a wrong CRC is parsed
  unless `report=CRC` (`ts.c:291`).
- *Delivery.* PES headers reach the ES FIFO (`pes.c:178`); bytes before a sync
  word are skipped in every chunk, not only "for the first time" (`pes.c:121`);
  `fifo_append()` reports success for bytes it dropped (`fifo.c:97`); a read
  error ends the thread like the end of the file (`filesrc.c:196`).
- *Registration.* The link of a stream whose PID is below 16 is `0x0f`, and
  `0xf` is looked for (`pmt.c:125`, `pes.c:88`): its first packet ends the
  thread.
- *Objects.* A file whose binding states no size loses its contents for good
  when the file system is created again (`biop.c:611`, `657`).
- *Versions.* Tables that share a directory replace each other's files in the
  `Version_<n>` of a number both announce (`fsutils.h:141`). An EIT's second
  version takes the directory out of the tree; blocks of two versions of a
  module share a directory (`ddb.c:166`).
- *Descriptors.* 0x10 asks for three bytes too many; 0xc1 reads its bitrate only
  with a length of 4 or more; 0x58 reads the sign of the offset from bit 7;
  0xfd, 0x7c and others drop their last optional fields; dsm-cc 0xc2 reads 16 of
  32 bits; the loop in 0x41 never ends at a length of 255; two descriptors of
  one tag share a directory. 0x50 describes a video component by an array of six
  names, at places up to eight before it and one behind (`parser_0x50.c:86`);
  0xfe has words for an identifier only in SBTVD and ISDB (`parser_0xfe.c:65`).
  `descriptors_count()` takes lengths as signed and counts in 8 bits; loops of
  more than 254 descriptors, or with a length above 127, are walked wrong.
- *Carousels.* The adaptation field is taken one byte too long; a short group
  info of a DSI is rejected; the last compatibility descriptor is; taps and
  contexts are not read; a DII's compatibility descriptor is hidden without
  private data; the last applications of an AIT are lost.
- *Tables.* A NIT's offset has 8 bits, so transport streams beyond byte 255 are
  read from the wrong place; the EIT's `running_status` is masked with 3; the
  SDTT's k-th content is read at 15k; a TOT's year 1900 shows as 0, and an
  undefined time keeps the previous file; of a PES header, the pack header, the
  extension and the stuffing are not skipped.

`CHECK_DEADLOCK FALSE` everywhere: a behaviour ends where its bound on sections,
units, versions, pipes or data is used up, where the program has exited, at a
fault, or when the structure is parsed.

### Bounds, and why they are enough

- *Packets and sections.* 7-byte packets, a limit of 18, sections of 4, 5, 16,
  19 bytes, 3 sections, 2 losses in a row, the true counter. What the code tells
  apart is whether a section is shorter than the rest of a packet, ends exactly
  with one, spans several, or exceeds the limit, and whether more than two bytes
  of a head fit: each case occurs, alone and behind a tail. Three sections are
  the most one packet can touch. Two losses meet counter 0 from both sides.
- *PES.* Payloads of 1, 8 and 9 bytes, units of 8, 17 and 18, bounded and not,
  two units, one loss in a row, a counter modulo 8. A unit that fits into a
  packet, one that leaves a byte for the last packet (the early completion), one
  that does not; two units in packets of one byte are longer than a turn of the
  counter.
- *Hash table.* Three slots make chains that wrap around; four keys, of which
  two collide and two wrap, are more than fit; five data, owned and not, enough
  to fill the table, overwrite and replace.
- *Versions.* Two tables and two versions are the first case in which tables
  share a directory and a version comes back; four dentries are what they need,
  and the proofs say why more change nothing; one section breaks off.
- *Delivery.* A file of two packets, read twice or for ever, some of them bad; a
  pipe of 3 bytes, `PIPE_BUF` 2, chunks below, at and above it and without a
  sync word: a full, a partial and an empty write all occur. Packets are
  numbered where the file ends; a file read for ever is there for the ending
  properties.
- *Carousel.* Modules of 3, 4 and 0 bytes in blocks of 2 (a remainder, none,
  empty), and 5, 1 and 2 in the next version.
- *Registry.* Two programs and three PMTs (one updates another), a PID in two of
  them, one that changes from video to data, one filed under two names, a PMT's
  PID that is the key of a table, a PID of one hexadecimal digit; five places in
  each table, so that one fills; two updates.
- *Handles.* Two threads, two nodes for three names (one of them `Current`), one
  attribute, one update. Threads share nothing but dentries, and a third would
  find what the second finds.
- *Snapshots.* Two threads and streams, five descriptors, two pipes of one
  chunk, frames of two: two reads at once, a retry, a full pipe, and a pipe that
  cannot be made all occur.
- *Objects.* Three directories and three files, two of one name in different
  directories, an empty one, all orders, two passes. One binding states a size
  below the length, one none at all, one a byte for the file that is empty.
- *Wire formats.* Each parser, at the edges of its fields and of the lengths it
  decides by, each descriptor of a table under each of the four standards.

## 5. Fairness

- `StreamDelivery`, `Session`: weak fairness of the parser thread, of `Join` and
  of `main()`, which the operating system schedules. Nothing is assumed of the
  reader, who may hold the FIFO open and never read, of the receiver, which may
  fall silent or never lock, nor that anyone unmounts. The properties except
  those: `Stalled`, `Silent`, a stage of "locking".
- `Carousel`: weak fairness of the DSI, the DII and each block, since a carousel
  is repeated for ever by definition. A change of version or an AIT is not
  assumed; `Mounted` is about a carousel that stays as it is (`Undisturbed`).
- `ParserRegistry`: weak fairness of the first PAT, of the first PMT on each
  PID, and of each stream's packets, which a multiplexer repeats several times a
  second; of updates, none.
- `Snapshots`: weak fairness of each reading thread's next system call and of an
  ffmpeg that has its frame, or a FIFO that is fed, and room in its pipe.
  Nothing is assumed of an ffmpeg that waits, nor of the parser thread, which
  may stop feeding a FIFO at any time; of `Release` and of new reads, none.
  `ReadReturns` excepts a stream that is not fed.
- `Descriptors`: weak fairness of the walk itself, a loop in one thread.

The other modules state safety alone.

## 6. Proofs

Each theorem is by an inductive invariant, `IInv` unless named otherwise, over
all actions, checked by TLC before it was proved.

`PsiAssemblyProofs`

- `TypeCorrect` (`TypeOK`) is inductive by itself: `current_size` never exceeds
  `MAX_SECTION_SIZE`, and no call ends with a complete or hopelessly long
  section in the buffer.
- `NoSplice` (`SplicedOnlyAtZero`). `IInv` adds `CountersTied` (the
  multiplexer's counter is the last one heard plus what was lost, modulo a
  turn), `PacketFromMux`, `BufferFollowsMux` (a pure buffer without a counter 0
  in it is a prefix of the section in transmission, up to where the last packet
  taken ended). A packet is then either the next one, or the verdict is "gap" or
  "repeat", or its counter is 0. It needs `MaxLoss < CcModulus - 1`: a loss of a
  whole turn cannot be noticed.
- `HandedOnce` (`ParsedOnce`), with `DoneBehind`: what was parsed lies before
  what is held.
- `EndIsDelivered` (`EndDelivers`), with `WholeIsHeld`: a section received in
  step is, while it is in transmission and nothing is lost, the one the buffer
  holds, below the hard limit and with no counter 0 in it. `BufferFollowsMux`
  then says that the packet on the wire continues it.

`PesAssemblyProofs`

- `UnitsUnspliced` (`SplicedOnlyAtZero`), `AllButLastByte`
  (`CompleteButLastByte`), `WholeUnitsArrive` (`UnitDelivered`), `StreamInOrder`
  (`UnboundedInOrder`). The same argument over packets of any lengths and any
  number of losses: `behind` carries the turn of the counter that `PsiAssembly`
  excludes. `WholeIsHeld` ties the history `whole` to the buffer.

`HashTableProofs`

- `AlwaysChained`, `EachAccountedFor` (`Accounted`), `IsMap` (`TableSpec`, the
  refinement of `KeyTable`), with additions that overwrite. `IInv` adds that no
  datum is in two slots and that those stored were given. The core is that a
  `Replace` fills the slot it empties before any other probe can see it
  (`UpdatedStores`), and that a probe goes all the way round exactly if `Size`
  keys are stored, a counting argument.

`TableProofs`

- `OneOwner` (`HeldOnce`), `LatestVersionsKept` (`VersionsKept`), `CurrentRight`
  (`CurrentIsLast`), `WholeOrGone` (`AllOrNothing`). `IInv` adds `Owned`,
  `LinkedOne`, `Creators` and `SoleHolds`: who holds the directory that is
  linked, and that only its creator may be alone with it. That `calloc()` finds
  a free dentry (`FreshFree`) is counted from two dentries more than there are
  tables.
- `LoopsAreWalkedRight` (`Walked`), for loops of any number of descriptors with
  bodies of any layout that the counter can count (`Countable`), in either way
  of walking. `WalkInv`: the counter has come to the end of `num` descriptors,
  the parser to the end of `nth`, and it was pointed at the first byte of each.
  It needs to be known where in the loop a descriptor stands (`AtDescriptor`).
  `Concat()` makes the loop of its descriptors by halves, a recursion the
  provers know nothing of; `ConcatIs` shows, by an induction over how many parts
  are put together, that it is `FlattenSeq()` of them, `FlattenIs` that this is
  the last of a sequence of prefixes, each of which adds one part to the one
  before, and `PartStands` that each part stands behind those before it.
- `PlainFilesAreRight` (`PlainAsSent`), for the 25 tags whose descriptors, or
  one or more forms of them, are a fixed sequence of fields that the parsers
  show (`IsPlain`, 29 sequences): flags and bit fields, numbers of up to 24
  bits, bytes, texts, and texts behind their lengths, whatever they hold, so
  that no test value is special; but of a component descriptor only types that
  pick one of the six names of resolutions, and of a system management
  descriptor only the standards whose identifiers the code writes. `FilesInv`
  has, of each descriptor parsed that shares no directory, what its parser made
  of it. The rest is one chain from the layout to the files:
  - A layout's bits are those of its fields, and its bytes, where the fields are
    of whole bytes, those of each (`BytesOfFields`, from `OctetsFlatten`, an
    induction over the fields, and `OctetsOf8`, `OctetsOf16` and `OctetsOf24`,
    the arithmetic of eight bits). Bit fields are taken together first: one
    number in the place of two neighbours leaves the bits, and with them the
    bytes, as they are (`JoinKeeps`), so that every sequence comes down to one
    of whole bytes.
  - Each field stands behind those before it (`FieldsStand`), wherever the
    descriptor stands in the loop (`BodyStands`). What `U8()`, `U16()`, `U24()`,
    `U32()` and `Copy()` read there is the field's value (`ReadByte`, `ReadWord`,
    `ReadHalves`, `ReadText`; field by field, with the place of the next one,
    `TakeByte` and its like). A lemma for each sequence says what stands where
    (`Read_0xcf_1`), and division and remainder give the parts of a byte back
    (`DivUnique`).
  - Files that have each field's value under its name are what the layout tells
    (`FilesTell`); a directory's files agree with the layout if each of them does
    (`CoversTwo` and its like), and show all of it if every name is among them
    (`AllShown`). `Shown_0x48` and its like, one for each form, put these
    together at the parser's own offsets, with what its tests of the length and
    of the flags find.

  The proof would not go through for a simple logo (0xcf, type 3) without
  characters: the parser asks for two bytes, so that not even the type is shown.
  It is now among the known deviations (`Deviates`), and a loop of the run has
  it.

`SignallingProofs`, the tables and the carousel they announce

- `DispatchIsRight` (`DispatchRight`), `CacheIsLive` (`CacheLive`),
  `ThreadGoesOn` (`EndsOnlyAfterUpdate`) and `RegistryTyped`, for any PATs, PMTs
  and tables and any capacity of the hash tables. `IInv` adds `Registered`, that
  no table has more than `MaxPids` entries, and `StreamsAnnounced`: until a PMT
  is updated, every PID with a link in `/Streams` has both FIFOs where the link
  leads, or is a PID of sections, or `psi_parsers` is full; the FIFOs are found
  there unless the link's name is not the one looked up (`Misnamed`). Each
  handler loops over the programs, streams or FIFOs of a packet; `PatLoop`,
  `PmtLoop` and `PesLoop` unroll the folds once, into a sequence of states each
  made of the one before, and an induction over its length (`NatSetInduction`,
  from the well-foundedness of `<`) shows what a loop of any length keeps
  (`Kept`).
- `TreeIsRight` (`TreeRight`) and `ContentsAreRight` (`ContentsRight`), for any
  tree of messages in any order, any sizes stated by the bindings, and any
  number of passes. `TreeInv` says where a dentry is in each phase: while
  messages come (`Coming`), at home if its own directory is reached from the
  gateway, and else with the stepfather and without children of its own; while
  it is reparented (`Leaving`), with everything the messages lead to still
  there. `Sound` (a dentry is in the list it names, once) holds whatever
  clashes; up to a clash, `Named` ties the name and the directory the stepfather
  remembers to the message, and `Brought` the contents. What each macro does to
  one dentry is a lemma (`CreatedIs`, `RenamedIs`, `DisposedIs`...), what a
  bound child is another (`Binds`), and `BoundLoop` unrolls the loop over
  children. `Reparent` frees nothing that a message led to (`NotLedTo`): a
  directory that is led to can be found, since what has a dentry hangs, over
  directories with dentries, below the gateway or the stepfather
  (`FoundSomewhere`).
- `WholeModules` (`FsWhole`), `LinksRight` (`LinkRight`), `CarouselTyped`. Up to
  undefined behaviour, `CarouselInv` adds `LinkHasDii` (a DSI's link comes with
  a DII) and `NoneMade` (a DII whose file system is still to be created has made
  none).

`SessionProofs`

- `FileReadOrFailed` (`WholeFile`) and `EveryPathCleansUp` (`LifeCycle`), for
  files of any length and any number of rounds, chunks and readers. `IInv` is
  `RoundsCounted`, `LivesNested` (thread within mount within parser within
  library) and `HasWhatItNeeds`.
- `BytesComeInOrder` (`InOrder`). `BytesInOrder` says that what the reader has
  last and what the pipe holds form one line in which each byte succeeds the one
  before; only of a chunk longer than `PIPE_BUF` can the end be missing.

`FuseHandlesProofs`

- `HandlesCounted` (`RefcountRight`) and `ReadsWhole` (`NotTorn`), up to a
  fault. `IInv` follows each thread through its operation: who holds which mutex
  (`MutexRight`), and what it saw before the lock still holds when it uses it
  (`SeenRight`, `CountRight`, `SizeRight`, `NothingStale`).
- `ListsAreRight` (`Listed`) and `AttributesOnce` (`AttrsUnique`). `More` adds
  three parts to it. `ChildrenRight`: the directory has each child once, with
  names of their own. `WalksRight`: of a listing that has come to some child,
  each name it owes is listed or still to come after that child, and nothing
  still to come is listed already; the parser only adds at the end.
  `AttrsRight`: the parser adds its attribute where it found it missing, and the
  threads set only others in between.

`SnapshotsProofs`

- `FramesRight` (`FrameRight`). `Own` follows one thread's pipe from descriptor
  to descriptor; `Fed` says that what ffmpeg has written is in the pipe or has
  been read, so that at the end of the file all or nothing was read. It holds of
  the one thread that takes a snapshot (`OneAtATime`); for several at once only
  the size is proved.

The assumptions are the named `ASSUME`s of the modules, which TLC evaluates in
the runs. They bound constants from below, say that marks such as `None` are no
data, that tags, lengths and what follows a loop are bytes (`LoopsAssumption`),
and, in `PsiAssembly`, limit the losses.

The proofs have corrected the project four times. `Registered` did not exempt a
PAT's PID that is the key of a PMT's table: `pat_populate()` takes that table
for the PID's parser, and after an update of the PMT, when the table may be
filed under another key, the PID has neither. And two `CASE` expressions, for
the streams' names and the messages' types, had guards that overlap where the
code's `if` and `else if` do not. `HangsOnce` said that nothing is left
detached, whatever clashes. But where a name is taken under the stepfather, the
dentry that has it gets the inode of the other's directory in its `priv`, and
`biop_reparent_orphaned_dentries()` can then make two directories each other's
parents, which no path leads to: a directory `xd` binds a directory `xi`, that
one `xe`, and `xe` one more that is named like `xi`; their three messages come
in this order, before the gateway's. The claim is now about trees without a
clash, as `BoundAsSent` is, and only `Sound` about all. And `ContentsRight`
needs that no directory binds one object twice: the second binding of a file
takes its contents from the stepfather, where there are none any more.

Only model-checked, and why:

- all liveness (`EndsUnlessStalled`, `Exits`, `Mounted`, `StreamsPlay`,
  `ReadReturns`, and the end of every walk in `WalkRight`), which TLAPS does not
  reach;
- `AsSent` beyond the plain descriptors, since the loops within a descriptor
  make directories by folds over bytes of which each parser would need an
  induction of its own, and the known deviations are found by trying, not by an
  argument;
- `StructuresAsSent`, whose parsers loop and recurse over bytes;
- `VersionsShown`, which does not hold.

## 7. What is abstracted

- Bytes of packets are lengths with the section and offset they come from; names
  and file contents in the state machines are the version, object or table they
  belong to.
- CRC-32 is taken to reject what is not one section's bytes (`CrcRejects`).
- Scrambling, transport errors and the adaptation field only shorten or remove a
  packet.
- A payload that `pes_parse_audio_video_payload()` rejects is left out.
- Memory that `calloc()` returns is one of a finite set; that it fails is left
  out, as the code asserts that it does not.
- `main_thread_stopped` is a plain global; the model has its store seen at some
  later poll.
- The hash tables of `TableVersions` and `ParserRegistry` are maps, as
  `HashTable` shows.
- Descriptors 1 and 2 are left out of `Snapshots`, and `FfmpegFails` stands for
  all that makes ffmpeg exit before its first byte. A `read()` that waits looks
  at descriptor 0 anew in each round; in the process it would stay with the pipe
  it began on, which makes a difference only to snapshots that overlap.
- A file shows a number; the words that explain it are left out.
- Sections with lengths that state more than there is are not asked about in the
  wire formats: the parsers read past them.
- A DSI of a data carousel whose module info is malformed returns early
  (`dsi.c:279-311`): it leaves no trace in `Carousel`. A DII whose block size is
  0 is dropped by its parser.

## 8. What is not modelled, and why

- `crc32.c`, `byteops.h`: arithmetic; `list.h`: the kernel's list, whose
  operations are those of sequences.
- The variant of `snapshot.c` with libavcodec, which is compiled out (`#if 0`).
- The ioctls of `linuxdvb.c`, as to their parameters: whether they succeed is
  modelled.
- `getattr`, `statfs`, `opendir` and the like, which return what is there and
  keep nothing.
- The wording of files, tables of languages, countries and service types,
  logging, help texts.
- `dsmcc_create_download_data_header_dentries()`, which nothing calls.
- Descriptor parsers that only return `-ENOSYS`, and the declarations of
  structures.
