--------------------------- MODULE StreamDelivery ---------------------------
(***************************************************************************)
(* From the source to the reader of a FIFO: the parser thread's main loop  *)
(* (src/src/main.c), the filesrc or linuxdvb backend that feeds it, the    *)
(* one FIFO it delivers to (src/src/fifo.c, pes_append_to_fifo() in        *)
(* tables/pes.c), the process that reads the FIFO and the unmount that     *)
(* stops it all.  Session is the program around it, from main() to exit.   *)
(*                                                                         *)
(* Everything here runs concurrently: the thread polls a descriptor that   *)
(* the reader opens, drains, leaves full or closes when it likes.          *)
(*                                                                         *)
(* What a packet's parser has to deliver is a "chunk" of bytes: a part of  *)
(* a PES packet, or of its payload.  The kernel's pipe is external.        *)
(***************************************************************************)
EXTENDS Integers, Sequences

CONSTANTS
  FileLength,  \* packets in the file
  FileLoops,   \* -o fileloop: how often it is read again, -1 for ever
  Shapes,      \* sizes of the chunks, with the bytes before their sync word
  Capacity,    \* bytes the pipe holds: 65536 on Linux
  Atomic,      \* PIPE_BUF: a write of no more bytes is not split
  BadReads,    \* fread() may fail before the end of the file
  BadPackets   \* ts_parse_packet() may return an error

ASSUME DeliveryAssumption ==
  /\ FileLength \in Nat \ {0} /\ FileLoops \subseteq Nat \cup {-1}
  /\ Shapes \subseteq [size : Nat \ {0}, lead : Nat]
  /\ \A s \in Shapes : s.lead <= s.size
  /\ Capacity \in Nat /\ Atomic \in 1 .. Capacity
  /\ BadReads \in BOOLEAN /\ BadPackets \in BOOLEAN

VARIABLES
  pc,        \* where the parser thread is; "unborn" before demuxfs_init()
  source,    \* the backend that is loaded
  option,    \* the value of -o fileloop
  left,      \* packets before the end of the file
  fileloop,  \* p->fileloop
  serial,    \* history: packets read so far, not counted in an endless file
  chunk,     \* what is being delivered
  fd,        \* fifo->fd >= 0
  flushed,   \* fifo->flushed
  pipe,      \* the bytes in the kernel's pipe
  reader,    \* a process has the FIFO open for reading
  got,       \* history: the last byte this reader read
  mount,     \* "unmounted", "mounted", "stopping" (main_thread_stopped), "gone"
  failed     \* history: a read failed, or ts_parse_packet() returned an error

thread == <<source, option, left, fileloop, serial, chunk, failed>>
fifo == <<fd, flushed>>
vars == <<pc, thread, fifo, pipe, reader, got, mount>>

Shape0 == [size |-> 1, lead |-> 0]
NoByte == [serial |-> 0, off |-> 0, shape |-> Shape0]
(* Packets are numbered, unless they come for ever.                        *)
Counted == option # -1

Bytes == [serial : Nat, off : Nat, shape : Shapes \cup {Shape0}]

least(a, b) == IF a < b THEN a ELSE b

-----------------------------------------------------------------------------
(* The file: filesrc_read_packet().                                        *)

(* Mutant of Again: `--p->fileloop', one round too few.                    *)
Again_CountsFirst == fileloop = -1 \/ fileloop > 1

(* `p->fileloop == -1 || p->fileloop--' at the end of the file.            *)
Again == fileloop # 0

(* Mutant of Running: the thread never looks whether it has to stop.       *)
Running_Forever == TRUE

(* The condition of the thread's loop.  keep_alive() is true all along:    *)
(* feof() is only raised by a read that rewinds or ends the thread.        *)
Running == mount = "mounted"

Stop ==
  /\ pc = "loop" /\ ~Running
  /\ pc' = "done"
  /\ UNCHANGED <<thread, fifo, pipe, reader, got, mount>>

Rewind ==
  /\ pc = "loop" /\ Running /\ source = "filesrc"
  /\ left = 0 /\ Again
  /\ left' = FileLength
  /\ fileloop' = IF fileloop = -1 THEN -1 ELSE fileloop - 1
  /\ UNCHANGED <<pc, source, option, serial, chunk, failed, fifo, pipe, reader, got, mount>>

EndOfFile ==
  /\ pc = "loop" /\ Running /\ source = "filesrc"
  /\ left = 0 /\ ~Again
  /\ fileloop' = fileloop - 1
  /\ pc' = "done"
  /\ UNCHANGED <<source, option, left, serial, chunk, failed, fifo, pipe, reader, got, mount>>

(* fread() comes back with nothing and it is not the end of the file: the  *)
(* backend returns -1, with which the thread ends like at the end.         *)
ReadFails ==
  /\ BadReads
  /\ pc = "loop" /\ Running /\ source = "filesrc"
  /\ failed' = TRUE
  /\ pc' = "done"
  /\ UNCHANGED <<source, option, left, fileloop, serial, chunk, fifo, pipe, reader, got, mount>>

(* ts_parse_packet(): the parser comes up with a chunk for the FIFO, with  *)
(* nothing, or with an error, which ends the thread.                       *)
Parse ==
  \/ /\ pc' = "deliver"
     /\ \E s \in Shapes : chunk' = s
     /\ UNCHANGED failed
  \/ /\ pc' = "loop"
     /\ UNCHANGED <<chunk, failed>>
  \/ /\ BadPackets
     /\ pc' = "done" /\ failed' = TRUE
     /\ UNCHANGED chunk

(* filesrc: a packet of the file is read and parsed.                       *)
ReadPacket ==
  /\ pc = "loop" /\ Running /\ source = "filesrc"
  /\ left > 0
  /\ left' = left - 1
  /\ serial' = IF Counted THEN serial + 1 ELSE serial
  /\ Parse
  /\ UNCHANGED <<source, option, fileloop, fifo, pipe, reader, got, mount>>

(* linuxdvb: keep_alive() is always true, and read() waits for the device, *)
(* which is not opened with O_NONBLOCK.                                    *)
ReadDvr ==
  /\ pc = "loop" /\ Running /\ source = "linuxdvb"
  /\ pc' = "reading"
  /\ UNCHANGED <<thread, fifo, pipe, reader, got, mount>>

(* The device comes up with a packet, or with an error, for which          *)
(* linuxdvb_read_packet() returns 0 all the same: process() refuses the    *)
(* packet then, and the loop goes on.                                      *)
DvrAnswers ==
  /\ pc = "reading"
  /\ Parse
  /\ UNCHANGED <<source, option, left, fileloop, serial, fifo, pipe, reader, got, mount>>

-----------------------------------------------------------------------------
(* pes_append_to_fifo() and the FIFO.                                      *)

(* What is left of the chunk goes to an open FIFO; a chunk without a sync  *)
(* word has nothing left.                                                  *)
Deliverable(open) == open /\ chunk.lead < chunk.size

(* fifo_is_open(): a FIFO nobody reads cannot be opened for writing        *)
(* without waiting.                                                        *)
OpenFifo ==
  /\ pc = "deliver"
  /\ fd' = (fd \/ reader)
  /\ pc' = IF Deliverable(fd') THEN "write" ELSE "loop"
  /\ UNCHANGED <<thread, flushed, pipe, reader, got, mount>>

(* The bytes of the chunk from its sync word on.                           *)
Payload ==
  [i \in 1 .. chunk.size - chunk.lead |->
     [serial |-> serial, off |-> chunk.lead + i - 1, shape |-> chunk]]

Room == Capacity - Len(pipe)

(* What write() takes of it: all or nothing up to PIPE_BUF bytes, what     *)
(* there is room for of a longer one.  0 stands for EAGAIN.                *)
Accepted ==
  IF Len(Payload) > Atomic \/ Len(Payload) <= Room
  THEN least(Len(Payload), Room) ELSE 0

(* Mutant of Finished: fifo_append() starts over if some bytes are left.   *)
Finished_AllOrAgain == Accepted = Len(Payload)

(* fifo_append() is content with what write() took.                        *)
Finished == TRUE

(* One round of fifo_append() with the bytes going into the pipe.  A round *)
(* that ends with EAGAIN changes nothing and is tried again.               *)
WriteFifo ==
  /\ pc = "write"
  /\ reader /\ Accepted > 0
  /\ pipe' = pipe \o SubSeq(Payload, 1, Accepted)
  /\ flushed' = FALSE
  /\ pc' = IF Finished THEN "loop" ELSE "write"
  /\ UNCHANGED <<thread, fd, reader, got, mount>>

(* Mutant of Broken: EPIPE is taken for EAGAIN.                            *)
Broken_Never == FALSE

(* write() fails with EPIPE.                                               *)
Broken == ~reader

(* The reader has left: the FIFO is closed, and what is in the pipe lost.  *)
WriteBroken ==
  /\ pc = "write" /\ Broken
  /\ fd' = FALSE /\ flushed' = TRUE
  /\ pipe' = <<>>
  /\ pc' = "loop"
  /\ UNCHANGED <<thread, reader, got, mount>>

-----------------------------------------------------------------------------
(* The process that reads the FIFO, and the kernel.                        *)

OpenReader ==
  /\ ~reader /\ mount \in {"mounted", "stopping"}
  /\ reader' = TRUE
  /\ got' = NoByte
  /\ UNCHANGED <<pc, thread, fifo, pipe, mount>>

ReadFifo ==
  /\ reader /\ pipe # <<>>
  /\ got' = Head(pipe)
  /\ pipe' = Tail(pipe)
  /\ UNCHANGED <<pc, thread, fifo, reader, mount>>

(* The pipe keeps its bytes as long as one end is open.                    *)
CloseReader ==
  /\ reader
  /\ reader' = FALSE
  /\ got' = NoByte
  /\ pipe' = IF fd THEN pipe ELSE <<>>
  /\ UNCHANGED <<pc, thread, fifo, mount>>

(* demuxfs_destroy(): stop the thread, wait for it, free the tables and    *)
(* the tree with the FIFO in it.                                           *)
Unmount ==
  /\ mount = "mounted"
  /\ mount' = "stopping"
  /\ UNCHANGED <<pc, thread, fifo, pipe, reader, got>>

(* Mutant of Joined: pthread_join() is left out.                           *)
Joined_AtOnce == TRUE

Joined == pc = "done"

Join ==
  /\ mount = "stopping" /\ Joined
  /\ mount' = "gone"
  /\ fd' = FALSE
  /\ pipe' = IF reader THEN pipe ELSE <<>>
  /\ UNCHANGED <<pc, thread, flushed, reader, got>>

-----------------------------------------------------------------------------
Init ==
  /\ pc = "unborn"
  /\ source \in {"filesrc", "linuxdvb"}
  /\ option \in FileLoops
  /\ source = "linuxdvb" => ~Counted
  /\ left = FileLength /\ fileloop = option
  /\ serial = 0
  /\ chunk = Shape0
  /\ fd = FALSE /\ flushed = TRUE
  /\ pipe = <<>>
  /\ reader = FALSE
  /\ got = NoByte
  /\ mount = "unmounted"
  /\ failed = FALSE

(* demuxfs_init(): the root directory, the tables, the thread.             *)
Mount ==
  /\ pc = "unborn"
  /\ pc' = "loop" /\ mount' = "mounted"
  /\ UNCHANGED <<thread, fifo, pipe, reader, got>>

TsParserThread ==
  \/ Stop \/ Rewind \/ EndOfFile \/ ReadFails \/ ReadPacket \/ ReadDvr
  \/ OpenFifo \/ WriteFifo \/ WriteBroken

Reader == OpenReader \/ ReadFifo \/ CloseReader

Delivery == TsParserThread \/ DvrAnswers \/ Reader

(* The threads of the program are scheduled; the reader need do nothing,   *)
(* nor the device, and nobody need unmount.                                *)
Fairness == WF_vars(TsParserThread) /\ WF_vars(Join)

-----------------------------------------------------------------------------
(* Type invariant.  The pipe is only written to by an open descriptor and  *)
(* is empty once both its ends are closed.                                 *)
TypeOK ==
  /\ pc \in {"unborn", "loop", "reading", "deliver", "write", "done"}
  /\ source \in {"filesrc", "linuxdvb"}
  /\ left \in 0 .. FileLength
  /\ option \in FileLoops /\ fileloop \in -1 .. option
  /\ serial \in Nat
  /\ chunk \in Shapes \cup {Shape0}
  /\ fd \in BOOLEAN /\ flushed \in BOOLEAN
  /\ pipe \in Seq(Bytes) /\ Len(pipe) <= Capacity
  /\ pipe # <<>> => fd \/ reader
  /\ pc = "write" => fd
  /\ reader \in BOOLEAN
  /\ got \in Bytes
  /\ mount \in {"unmounted", "mounted", "stopping", "gone"}
  /\ failed \in BOOLEAN

(* The reader never gets a byte again, nor one that was parsed before one  *)
(* it already has; and what fits into one atomic write reaches it in one   *)
(* piece: of a chunk that it began, a reader that stays gets every byte up *)
(* to the last before it gets one of another chunk. Whatever the pipe does *)
(* with the writes (fifo_append(), pes_append_to_fifo()).                  *)
Later(a, b) == a.serial > b.serial \/ (a.serial = b.serial /\ a.off > b.off)
Long(b) == b.shape.size - b.shape.lead > Atomic
Follows(a, b) == IF a.serial = b.serial THEN a.off = b.off + 1 ELSE b.off = b.shape.size - 1
InOrder ==
  [][Counted /\ got' # got /\ got' # NoByte
     => /\ Later(got', got)
        /\ got # NoByte /\ ~Long(got) => Follows(got', got)]_vars

(* `fileloop=<count>      how many times to loop on EOF': a thread that    *)
(* ends by itself has read the file that many times more, no packet of it  *)
(* left out, unless a read or the parsing of a packet failed.  That a read *)
(* failed is seen nowhere but in a log line (filesrc_read_packet()).       *)
WholeFile ==
  pc = "done" /\ mount = "mounted" /\ ~failed
    => serial = FileLength * (option + 1)

(* The FIFO is full and its reader, holding it open, does not read: the    *)
(* thread can only try again.                                              *)
Stalled == pc = "write" /\ reader /\ Accepted = 0

(* The thread comes to the end of a file it does not repeat for ever,      *)
(* whatever readers do, save for one that keeps the FIFO open and full.    *)
EndsUnlessStalled == (Counted /\ mount = "mounted" ~> pc = "done") \/ []<>Stalled

(* The thread waits in read() of a device that is silent from then on.     *)
Silent == <>[](pc = "reading")
=============================================================================
