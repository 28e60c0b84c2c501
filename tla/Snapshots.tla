----------------------------- MODULE Snapshots -----------------------------
(***************************************************************************)
(* Snapshots: reading snapshot.gif runs ffmpeg on the FIFO of a video      *)
(* stream and returns the frame it writes (snapshot.c, and the snapshot    *)
(* branches of demuxfs_read() and demuxfs_release()).                      *)
(*                                                                         *)
(* ffmpeg writes to a pipe that the reading thread moves to descriptor 0   *)
(* (close(0), dup()), as if the process had one thread: the descriptors    *)
(* are a table of small numbers that all threads share, and every system   *)
(* call that touches it is a step. Descriptors 1 and 2 are left out. A     *)
(* frame is a sequence of chunks that carry the stream they are of, and    *)
(* the pipe holds so many of them.                                         *)
(***************************************************************************)
EXTENDS Integers, SequencesExt

CONSTANTS
  Threads,      \* FUSE's threads
  Streams,      \* the video streams, each with its snapshot.gif
  MaxFd,        \* bound: the highest descriptor
  MaxPipes,     \* bound: pipes made altogether
  Chunks,       \* chunks of a frame
  Capacity,     \* chunks the pipe holds
  Unknown,      \* 0xffffff, the size of a snapshot that has not been taken
  None          \* NULL, nobody, a closed descriptor

MaxAttempts == 2

ASSUME SnapshotsAssumption ==
  /\ MaxFd \in Nat \ {0} /\ MaxPipes \in Nat /\ Chunks \in Nat \ {0} /\ Capacity \in Nat \ {0}
  /\ Unknown \notin 0 .. MaxPipes * Chunks /\ None \notin Streams \cup Threads
  /\ None \notin Seq(Streams)

VARIABLES
  fd,        \* the process' descriptors: what each is open on
  pipes,     \* the pipes made so far: what is in them
  ffmpeg,    \* per pipe, the ffmpeg that writes to it, and what else it has open
  mutex,     \* per snapshot, the thread that holds its mutex
  contents,  \* per snapshot, the frame
  size,      \* per snapshot, the size
  thread,    \* what each thread is about
  overlapped, \* two snapshots have been under way at once
  fed        \* the streams whose packets the parser thread puts into their FIFO

vars == <<fd, pipes, ffmpeg, mutex, contents, size, thread, overlapped, fed>>

Fds == 0 .. MaxFd
End(kind, p) == <<kind, p>>       \* an end of pipe p: "r" or "w"
Terminal == <<"terminal", 0>>     \* what descriptor 0 is at first
Fifo == <<"fifo", 0>>             \* a FIFO the parser thread opened to write
Closed == <<"closed", 0>>

Idle == [pc |-> "idle", on |-> None, p |-> 0, r |-> 0, w |-> 0,
         got |-> <<>>, attempt |-> 0]
At(t, pc) == thread[t].pc = pc
Step(t, pc) == thread' = [thread EXCEPT ![t].pc = pc]
Goto(t, state) == thread' = [thread EXCEPT ![t] = state]

Frame(s) == [i \in 1 .. Chunks |-> s]

(* open(), pipe() and dup() return the lowest descriptor that is closed.   *)
FreeFds == {i \in Fds : fd[i] = Closed}
Lowest(S) == CHOOSE i \in S : \A j \in S : i <= j

(* Nobody can write to pipe p any more.                                    *)
AtEof(p) == /\ \A i \in Fds : fd[i] # End("w", p)
            /\ \A q \in DOMAIN ffmpeg : End("w", p) \notin ffmpeg[q].holds
NoReader(p) == /\ \A i \in Fds : fd[i] # End("r", p)
               /\ \A q \in DOMAIN ffmpeg : End("r", p) \notin ffmpeg[q].holds

-----------------------------------------------------------------------------
(* demuxfs_read(): the mutex, then the frame if there is one already.      *)

Free(s) == mutex[s] = None

ReadLock(t) ==
  /\ At(t, "idle")
  /\ \E s \in Streams :
       /\ Free(s)
       /\ mutex' = [mutex EXCEPT ![s] = t]
       /\ Goto(t, [Idle EXCEPT !.pc = IF contents[s] # None THEN "unlock" ELSE "pipe",
                               !.on = s, !.attempt = 1])
       /\ overlapped' = (overlapped \/ \E u \in Threads : thread[u].on \in Streams \ {s})
  /\ UNCHANGED <<fd, pipes, ffmpeg, contents, size, fed>>

(* _snapshot_save_video_frame(). An attempt that fails is made once more.  *)
Retry(t) == IF thread[t].attempt < MaxAttempts
            THEN Goto(t, [Idle EXCEPT !.pc = "pipe", !.on = thread[t].on,
                                      !.attempt = thread[t].attempt + 1])
            ELSE Step(t, "unlock")

MakePipe(t) ==
  /\ At(t, "pipe")
  /\ UNCHANGED <<mutex, contents, size, overlapped, fed>>
  /\ LET r == Lowest(FreeFds)
         w == Lowest(FreeFds \ {r})
         p == Len(pipes) + 1
     IN \/ /\ Cardinality(FreeFds) > 1 /\ p <= MaxPipes
           /\ fd' = [fd EXCEPT ![r] = End("r", p), ![w] = End("w", p)]
           /\ pipes' = Append(pipes, <<>>)
           /\ ffmpeg' = Append(ffmpeg, [on |-> None, holds |-> {}, left |-> 0])
           /\ Goto(t, [thread[t] EXCEPT !.pc = "fork", !.p = p, !.r = r, !.w = w])
        \/ /\ Cardinality(FreeFds) <= 1 \/ p > MaxPipes
           /\ Retry(t)
           /\ UNCHANGED <<fd, pipes, ffmpeg>>

(* fork(): ffmpeg inherits every descriptor, the ends of other pipes with  *)
(* them, and closes of its own pipe the end it does not write to. fork()   *)
(* may fail: both ends stay open.                                          *)
Inherited(t) == {fd[i] : i \in {j \in Fds \ {thread[t].r} : fd[j][1] \in {"r", "w"}}}

Fork(t) ==
  /\ At(t, "fork")
  /\ UNCHANGED <<fd, pipes, mutex, contents, size, overlapped, fed>>
  /\ \/ /\ ffmpeg' = [ffmpeg EXCEPT ![thread[t].p] =
             [on |-> thread[t].on, left |-> Chunks, holds |-> Inherited(t)]]
        /\ Step(t, "close")
     \/ /\ Retry(t)
        /\ UNCHANGED ffmpeg

CloseStdin(t) ==
  /\ At(t, "close")
  /\ fd' = [fd EXCEPT ![0] = Closed]
  /\ Step(t, "dup")
  /\ UNCHANGED <<pipes, ffmpeg, mutex, contents, size, overlapped, fed>>

Dup(t) ==
  /\ At(t, "dup")
  /\ LET from == fd[thread[t].r]
     IN fd' = IF from = Closed \/ FreeFds = {} THEN fd
              ELSE [fd EXCEPT ![Lowest(FreeFds)] = from]
  /\ Step(t, "ends")
  /\ UNCHANGED <<pipes, ffmpeg, mutex, contents, size, overlapped, fed>>

(* Mutant of EndsClosed: the parent keeps the end that is written to.      *)
EndsClosed_KeepsWriter(r, w) == [fd EXCEPT ![r] = Closed]

EndsClosed(r, w) == [fd EXCEPT ![r] = Closed, ![w] = Closed]

CloseEnds(t) ==
  /\ At(t, "ends")
  /\ fd' = EndsClosed(thread[t].r, thread[t].w)
  /\ Step(t, "read")
  /\ UNCHANGED <<pipes, ffmpeg, mutex, contents, size, overlapped, fed>>

(* read(0, ...), which waits while pipe 0 is empty and may be written to.  *)
ReadPipe(t) ==
  /\ At(t, "read")
  /\ UNCHANGED <<fd, ffmpeg, mutex, contents, size, overlapped, fed>>
  /\ LET p == fd[0][2]
     IN IF fd[0][1] # "r" THEN Step(t, "save") /\ UNCHANGED pipes
        ELSE IF pipes[p] # <<>>
             THEN /\ pipes' = [pipes EXCEPT ![p] = Tail(@)]
                  /\ Goto(t, [thread[t] EXCEPT !.got = Append(@, Head(pipes[p]))])
             ELSE AtEof(p) /\ Step(t, "save") /\ UNCHANGED pipes

(* kill() and waitpid(), close(0); what was read is the frame, if anything *)
(* was.                                                                    *)
Save(t) ==
  /\ At(t, "save")
  /\ LET s == thread[t].on
         got == thread[t].got
     IN /\ fd' = [fd EXCEPT ![0] = Closed]
        /\ ffmpeg' = [ffmpeg EXCEPT ![thread[t].p] = [@ EXCEPT !.holds = {}, !.left = 0]]
        /\ IF got = <<>> THEN Retry(t) /\ UNCHANGED <<contents, size>>
           ELSE /\ contents' = [contents EXCEPT ![s] = got]
                /\ size' = [size EXCEPT ![s] = Len(got)]
                /\ Step(t, "unlock")
  /\ UNCHANGED <<pipes, mutex, overlapped, fed>>

(* A read() that took the frame itself has ret > 0 and copies nothing, one *)
(* that failed has ret < 0; only one that found the frame copies it.       *)
ReadUnlock(t) ==
  /\ At(t, "unlock")
  /\ mutex' = [mutex EXCEPT ![thread[t].on] = None]
  /\ Goto(t, Idle)
  /\ UNCHANGED <<fd, pipes, ffmpeg, contents, size, overlapped, fed>>

(* Mutant of SizeForgotten: snapshot_destroy_video_context() leaves size.  *)
SizeForgotten_Never(s) == size

(* demuxfs_release(), snapshot_destroy_video_context(): of every handle,   *)
(* not of the last one.                                                    *)
SizeForgotten(s) == [size EXCEPT ![s] = Unknown]

Release(t) ==
  /\ At(t, "idle")
  /\ \E s \in Streams :
       /\ Free(s)
       /\ contents' = [contents EXCEPT ![s] = None]
       /\ size' = SizeForgotten(s)
  /\ UNCHANGED <<fd, pipes, ffmpeg, mutex, thread, overlapped, fed>>

-----------------------------------------------------------------------------
(* ffmpeg waits for its FIFO to be fed, writes its frame chunk by chunk    *)
(* and exits, or exits with nothing written.  A full pipe makes it wait, a *)
(* pipe nobody has open for reading kills it.                              *)
Exited(p) == [ffmpeg EXCEPT ![p] = [@ EXCEPT !.holds = {}, !.left = 0]]

HasFrame(p) == ffmpeg[p].left > 0 /\ (ffmpeg[p].left < Chunks \/ ffmpeg[p].on \in fed)

FfmpegWrites(p) ==
  /\ HasFrame(p)
  /\ UNCHANGED <<fd, mutex, contents, size, thread, overlapped, fed>>
  /\ IF NoReader(p) THEN ffmpeg' = Exited(p) /\ UNCHANGED pipes
     ELSE /\ Len(pipes[p]) < Capacity
          /\ pipes' = [pipes EXCEPT ![p] = Append(@, ffmpeg[p].on)]
          /\ ffmpeg' = IF ffmpeg[p].left = 1 THEN Exited(p)
                       ELSE [ffmpeg EXCEPT ![p].left = @ - 1]

FfmpegFails(p) ==
  /\ ffmpeg[p].left = Chunks
  /\ ffmpeg' = Exited(p)
  /\ UNCHANGED <<fd, pipes, mutex, contents, size, thread, overlapped, fed>>

(* The parser thread opens a FIFO, once.                                   *)
ParserOpens ==
  /\ \A i \in Fds : fd[i] # Fifo
  /\ FreeFds # {}
  /\ fd' = [fd EXCEPT ![Lowest(FreeFds)] = Fifo]
  /\ UNCHANGED <<pipes, ffmpeg, mutex, contents, size, thread, overlapped, fed>>

(* No more packets come for the FIFO of a stream: the file has ended, the  *)
(* stream was taken off the air or its PMT updated.                        *)
Cease(s) ==
  /\ s \in fed
  /\ fed' = fed \ {s}
  /\ UNCHANGED <<fd, pipes, ffmpeg, mutex, contents, size, thread, overlapped>>

Init ==
  /\ fd = [i \in Fds |-> IF i = 0 THEN Terminal ELSE Closed]
  /\ pipes = <<>> /\ ffmpeg = <<>>
  /\ mutex = [s \in Streams |-> None]
  /\ contents = [s \in Streams |-> None]
  /\ size = [s \in Streams |-> Unknown]
  /\ thread = [t \in Threads |-> Idle]
  /\ overlapped = FALSE
  /\ fed \in SUBSET Streams

Reading(t) ==
  \/ MakePipe(t) \/ Fork(t) \/ CloseStdin(t) \/ Dup(t) \/ CloseEnds(t)
  \/ ReadPipe(t) \/ Save(t) \/ ReadUnlock(t)

Ffmpeg(p) == p \in DOMAIN ffmpeg /\ (FfmpegWrites(p) \/ FfmpegFails(p))

Next ==
  \/ \E t \in Threads : ReadLock(t) \/ Reading(t) \/ Release(t)
  \/ \E p \in 1 .. MaxPipes : Ffmpeg(p)
  \/ ParserOpens
  \/ \E s \in Streams : Cease(s)

Spec == Init /\ [][Next]_vars

(* A read goes on, and so does an ffmpeg that is fed and whose pipe has    *)
(* room; nothing is assumed of one that waits, nor of the parser thread.   *)
LiveSpec ==
  /\ Spec
  /\ \A t \in Threads : WF_vars(Reading(t))
  /\ \A p \in 1 .. MaxPipes : WF_vars(p \in DOMAIN ffmpeg /\ FfmpegWrites(p))

-----------------------------------------------------------------------------
TypeOK ==
  /\ fd \in [Fds -> {Terminal, Fifo, Closed} \cup {End(k, p) : k \in {"r", "w"}, p \in 1 .. MaxPipes}]
  /\ Len(pipes) = Len(ffmpeg) /\ Len(pipes) <= MaxPipes
  /\ \A p \in DOMAIN pipes : Len(pipes[p]) <= Capacity
  /\ \A s \in Streams : mutex[s] # None => thread[mutex[s]].on = s
  /\ fed \subseteq Streams

(* A read copies out of the frame and no further: whenever the mutex is    *)
(* free, a snapshot has its frame's size, and the size of one that is not  *)
(* taken where it has none, however reads, failures and releases of other  *)
(* handles follow one another (demuxfs_read(), snapshot.c:44, 130).        *)
SizeOfFrame ==
  \A s \in Streams : mutex[s] = None =>
    size[s] = IF contents[s] = None THEN Unknown ELSE Len(contents[s])

(* Two reads of one snapshot never take it together: unless another stream *)
(* was being taken too, a frame that is kept is whole and of the stream it *)
(* is the snapshot of.                                                     *)
OwnFrame == \A s \in Streams : contents[s] \in {None, Frame(s)} \/ overlapped

(* What a snapshot's file holds and says it holds is the stream's frame,   *)
(* across reads, failures and releases of several handles.                 *)
FrameRight == SizeOfFrame /\ OwnFrame

(* A read of a snapshot returns and gives the mutex back, though it waits  *)
(* for ffmpeg with the mutex held, whatever calls fail, and whatever their *)
(* pipes leave open in the process and in the ffmpegs to come              *)
(* (_snapshot_save_video_frame()).  There are two exceptions.  A stream    *)
(* that is not fed keeps its ffmpeg waiting, and the read with it.  And    *)
(* two snapshots taken at once may wait for each other: with both reads on *)
(* one pipe, the ffmpeg of the other fills its own and stays, with an end  *)
(* of the first that it inherited.                                         *)
ReadReturns ==
  \A t \in Threads :
    ~At(t, "idle") ~> At(t, "idle") \/ thread[t].on \notin fed \/ overlapped
=============================================================================
