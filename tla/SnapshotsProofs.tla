--------------------------- MODULE SnapshotsProofs ---------------------------
(***************************************************************************)
(* Proofs about Snapshots: however many threads, streams, descriptors and  *)
(* chunks, a snapshot has the size of its frame, and the frame is whole    *)
(* and its stream's unless two streams were being taken at once.           *)
(***************************************************************************)
EXTENDS Snapshots, SequenceTheorems, FiniteSetTheorems, WellFoundedInduction, TLAPS

-----------------------------------------------------------------------------
Pcs == {"idle", "pipe", "fork", "close", "dup", "ends", "read", "save", "unlock"}

(* What a descriptor may be open on.                                       *)
Kinds == {Terminal, Fifo, Closed} \cup {End(k, p) : k \in {"r", "w"}, p \in Nat}

(* An ffmpeg that has something left to write is on a stream.              *)
Writers ==
  {w \in [on : Streams \cup {None}, holds : SUBSET Kinds, left : 0 .. Chunks] :
     w.left > 0 => w.on \in Streams}

States == [pc : Pcs, on : Streams \cup {None}, p : Nat, r : Fds, w : Fds,
           got : Seq(Streams), attempt : Nat]

Shape ==
  /\ fd \in [Fds -> Kinds]
  /\ pipes \in Seq(Seq(Streams))
  /\ ffmpeg \in Seq(Writers)
  /\ Len(ffmpeg) = Len(pipes)
  /\ mutex \in [Streams -> Threads \cup {None}]
  /\ contents \in [Streams -> Seq(Streams) \cup {None}]
  /\ size = [s \in Streams |-> size[s]]
  /\ thread \in [Threads -> States]
  /\ overlapped \in BOOLEAN

(* The steps at which a thread has a pipe.                                 *)
Piping == {"fork", "close", "dup", "ends", "read", "save"}

(* Nothing is open on a pipe that has not been made.                       *)
PipesMade ==
  /\ \A i \in Fds : fd[i][1] = "r" => fd[i][2] \in 1 .. Len(pipes)
  /\ \A t \in Threads : thread[t].pc \in Piping => thread[t].p \in 1 .. Len(pipes)

(* A thread that takes a snapshot holds its mutex.                         *)
MutexRight ==
  \A t \in Threads :
    IF At(t, "idle") THEN thread[t].on = None
    ELSE thread[t].on \in Streams /\ mutex[thread[t].on] = t

(* Unless two streams have been taken at once, nobody else takes one.      *)
OneAtATime ==
  ~overlapped => \A t, u \in Threads : ~At(t, "idle") /\ ~At(u, "idle") => t = u

(* The size, whoever holds the mutex.                                      *)
Sized ==
  \A s \in Streams :
    size[s] = IF contents[s] = None THEN Unknown ELSE Len(contents[s])

Only(seq, s) == \A i \in DOMAIN seq : seq[i] = s

(* What ffmpeg has written is in the pipe or has been read. It wrote all   *)
(* but what is left, unless it gave up at once or nobody could read.       *)
Fed(t) ==
  LET p == thread[t].p
      n == Len(thread[t].got) + Len(pipes[p])
  IN /\ ffmpeg[p].on = thread[t].on
     /\ Only(pipes[p], thread[t].on) /\ Only(thread[t].got, thread[t].on)
     /\ ffmpeg[p].left > 0 => End("w", p) \in ffmpeg[p].holds
     /\ \/ NoReader(p)
        \/ n = Chunks - ffmpeg[p].left
        \/ n = 0 /\ ffmpeg[p].left = 0

(* The thread's pipe, as it goes from one descriptor to another.           *)
Own(t) ==
  LET p == thread[t].p
      pc == thread[t].pc
  IN /\ pc \in {"pipe", "fork", "close", "dup", "ends"} => thread[t].got = <<>>
     /\ pc = "fork" => /\ pipes[p] = <<>> /\ ffmpeg[p].left = 0
                       /\ fd[thread[t].w] = End("w", p)
     /\ pc = "dup" => fd[0] \in {Closed, Fifo} /\ fd[thread[t].r] \in {Closed, Fifo, End("r", p)}
     /\ pc \in {"fork", "close"} => fd[thread[t].r] = End("r", p)
     /\ pc \in {"ends", "read"} => fd[0] \in {Closed, Fifo, End("r", p)}
     /\ pc \in {"close", "dup", "ends", "read"} => Fed(t)
     /\ pc = "read" /\ fd[0] # End("r", p) => thread[t].got = <<>>
     /\ pc = "save" => thread[t].got = <<>> \/ thread[t].got = Frame(thread[t].on)

IInv == /\ Shape /\ PipesMade /\ MutexRight /\ OneAtATime /\ Sized /\ OwnFrame
        /\ ~overlapped => \A t \in Threads : Own(t)

-----------------------------------------------------------------------------
(* Constants and types.                                                    *)

LEMMA Numbers ==
  /\ MaxFd \in Nat /\ MaxFd > 0 /\ MaxPipes \in Nat /\ Chunks \in Nat /\ Chunks > 0
  /\ 0 \in Fds /\ 0 \in 0 .. Chunks /\ Chunks \in 0 .. Chunks
  /\ None \notin Streams /\ None \notin Threads /\ None \notin Seq(Streams)
  BY SnapshotsAssumption DEF Fds

LEMMA KindTypes ==
  /\ Terminal \in Kinds /\ Fifo \in Kinds /\ Closed \in Kinds /\ Fifo # Closed
  /\ \A p \in Nat : End("r", p) \in Kinds /\ End("w", p) \in Kinds
  /\ \A p \in Nat : /\ End("r", p) # Closed /\ End("r", p) # Fifo
                    /\ End("w", p) # Closed /\ End("r", p) # End("w", p)
                    /\ End("r", p)[1] = "r" /\ End("r", p)[2] = p /\ End("w", p)[1] = "w"
  /\ Fifo[1] # "r" /\ Closed[1] # "r"
  BY DEF Kinds, End, Terminal, Fifo, Closed

(* A thread that begins an attempt.                                        *)
Beginning(pc, s, n) == [Idle EXCEPT !.pc = pc, !.on = s, !.attempt = n]

LEMMA IdleType ==
  /\ Idle \in States /\ Idle.pc = "idle" /\ Idle.on = None /\ Idle.got = <<>>
  /\ \A s \in Streams, pc \in Pcs, n \in Nat :
       /\ Beginning(pc, s, n) \in States /\ Beginning(pc, s, n).pc = pc
       /\ Beginning(pc, s, n).on = s /\ Beginning(pc, s, n).got = <<>>
  <1> USE Numbers
  <1>1. <<>> \in Seq(Streams)
    BY EmptySeq
  <1>2. Idle \in States /\ Idle.pc = "idle" /\ Idle.on = None /\ Idle.got = <<>>
    BY <1>1 DEF Idle, States, Pcs
  <1>3. ASSUME NEW s \in Streams, NEW pc \in Pcs, NEW n \in Nat
        PROVE  /\ Beginning(pc, s, n) \in States /\ Beginning(pc, s, n).pc = pc
               /\ Beginning(pc, s, n).on = s /\ Beginning(pc, s, n).got = <<>>
    BY <1>1 DEF Idle, States, Beginning
  <1> QED
    BY <1>2, <1>3

(* The lowest of some descriptors is one of them.                          *)
LEMMA LowestIsOne ==
  ASSUME NEW S, S \subseteq Fds, S # {}
  PROVE  Lowest(S) \in S
  <1> DEFINE R == OpToRel(<, Nat)
  <1>1. S \subseteq Nat
    BY Numbers DEF Fds
  <1>2. IsWellFoundedOn(R, Nat)
    BY NatLessThanWellFounded
  <1>3. \A i, j \in Nat : j < i => <<j, i>> \in R
    BY DEF OpToRel
  <1> HIDE DEF R
  <1>4. \E i \in S : \A j \in S : ~ (<<j, i>> \in R)
    BY <1>1, <1>2, WFMin
  <1>5. \E i \in S : \A j \in S : i <= j
    <2>1. PICK i \in S : \A j \in S : ~ (<<j, i>> \in R)
      BY <1>4
    <2>2. \A j \in S : i \in Nat /\ j \in Nat /\ ~ (j < i)
      BY <1>1, <1>3, <2>1
    <2>3. \A j \in S : i <= j
      BY <2>2
    <2> QED
      BY <2>3
  <1> QED
    BY <1>5 DEF Lowest

LEMMA ThreadFields ==
  ASSUME Shape, NEW t \in Threads
  PROVE  /\ thread[t] \in States /\ thread[t].pc \in Pcs
         /\ thread[t].on \in Streams \cup {None} /\ thread[t].p \in Nat
         /\ thread[t].r \in Fds /\ thread[t].w \in Fds
         /\ thread[t].got \in Seq(Streams) /\ thread[t].attempt \in Nat
         /\ \A pc \in Pcs : LET new == [thread[t] EXCEPT !.pc = pc]
                            IN /\ new \in States /\ new.pc = pc
                               /\ new.on = thread[t].on /\ new.p = thread[t].p
                               /\ new.r = thread[t].r /\ new.w = thread[t].w
                               /\ new.got = thread[t].got
  BY DEF Shape, States

(* A thread that is at work on a snapshot goes on with it.                 *)
Inside(t, new) ==
  /\ new \in States /\ new.pc # "idle" /\ new.on = thread[t].on
  /\ thread' = [thread EXCEPT ![t] = new]

LEMMA InsideKeeps ==
  ASSUME Shape, MutexRight, OneAtATime, NEW t \in Threads, ~At(t, "idle"),
         NEW new, Inside(t, new), UNCHANGED <<mutex, overlapped>>
  PROVE  /\ MutexRight' /\ OneAtATime'
         /\ thread' \in [Threads -> States]
         /\ mutex' \in [Streams -> Threads \cup {None}] /\ overlapped' \in BOOLEAN
         /\ ~overlapped /\ Own(t)' => \A u \in Threads : Own(u)'
  <1>1. /\ thread' \in [Threads -> States] /\ thread'[t] = new
        /\ \A u \in Threads : u # t => thread'[u] = thread[u]
    BY DEF Shape, Inside
  <1>2. \A u \in Threads : At(u, "idle")' <=> At(u, "idle")
    BY <1>1 DEF At, Inside
  <1>3. MutexRight'
    BY <1>1, <1>2 DEF MutexRight, Inside
  <1>4. OneAtATime'
    BY <1>2 DEF OneAtATime
  <1>5. ASSUME ~overlapped, Own(t)', NEW u \in Threads PROVE Own(u)'
    <2>1. CASE u = t
      BY <1>5, <2>1
    <2>2. CASE u # t
      <3>1. thread'[u].pc = "idle"
        BY <1>2, <1>5, <2>2 DEF OneAtATime, At
      <3> QED
        BY <3>1 DEF Own
    <2> QED
      BY <2>1, <2>2
  <1> QED
    BY <1>1, <1>3, <1>4, <1>5 DEF Shape

LEMMA StepInside ==
  ASSUME Shape, NEW t \in Threads, NEW pc \in Pcs, pc # "idle", Step(t, pc)
  PROVE  /\ Inside(t, [thread[t] EXCEPT !.pc = pc])
         /\ thread'[t] = [thread[t] EXCEPT !.pc = pc]
  <1>1. thread' = [thread EXCEPT ![t] = [thread[t] EXCEPT !.pc = pc]]
    BY DEF Step
  <1> QED
    BY <1>1, ThreadFields DEF Inside, Shape

LEMMA RetryInside ==
  ASSUME Shape, MutexRight, NEW t \in Threads, ~At(t, "idle"), Retry(t)
  PROVE  \E new : /\ Inside(t, new) /\ thread'[t] = new
                  /\ new.pc = "unlock" \/ (new.pc = "pipe" /\ new.got = <<>>)
  <1>1. CASE thread[t].attempt < MaxAttempts
    <2> DEFINE new == Beginning("pipe", thread[t].on, thread[t].attempt + 1)
    <2>1. thread' = [thread EXCEPT ![t] = new]
      BY <1>1 DEF Retry, Goto, Beginning
    <2>2. thread[t].on \in Streams /\ thread[t].attempt + 1 \in Nat /\ "pipe" \in Pcs
      <3>1. thread[t].on \in Streams
        BY DEF MutexRight
      <3>2. thread[t].attempt \in Nat
        BY ThreadFields
      <3>3. thread[t].attempt + 1 \in Nat
        BY <3>2
      <3> QED
        BY <3>1, <3>3 DEF Pcs
    <2>3. new \in States /\ new.pc = "pipe" /\ new.on = thread[t].on /\ new.got = <<>>
      BY <2>2, IdleType
    <2> HIDE DEF new
    <2> QED
      BY <2>1, <2>3 DEF Inside, Shape
  <1>2. CASE ~(thread[t].attempt < MaxAttempts)
    <2>1. Step(t, "unlock") /\ "unlock" \in Pcs
      BY <1>2 DEF Retry, Pcs
    <2> DEFINE new == [thread[t] EXCEPT !.pc = "unlock"]
    <2>2. Inside(t, new) /\ thread'[t] = new /\ new.pc = "unlock"
      BY <2>1, StepInside, ThreadFields
    <2> HIDE DEF new
    <2> QED
      BY <2>2
  <1> QED
    BY <1>1, <1>2

LEMMA FramesKeep ==
  ASSUME Sized, OwnFrame, UNCHANGED <<contents, size, overlapped>>
  PROVE  Sized' /\ OwnFrame'
  BY DEF Sized, OwnFrame

LEMMA FedKeeps ==
  ASSUME NEW t \in Threads, Fed(t), UNCHANGED <<pipes, ffmpeg>>,
         thread'[t].p = thread[t].p, thread'[t].on = thread[t].on,
         thread'[t].got = thread[t].got,
         NoReader(thread[t].p) => NoReader(thread[t].p)'
  PROVE  Fed(t)'
  BY DEF Fed, Only

(* A step opens no descriptor but on a pipe that was open, and gives no    *)
(* thread another pipe.                                                    *)
LEMMA MadeKeeps ==
  ASSUME PipesMade, Len(pipes') = Len(pipes),
         \A i \in Fds : fd'[i][1] = "r" => \E j \in Fds : fd'[i] = fd[j],
         \A t \in Threads : thread'[t].pc \in Piping =>
           thread[t].pc \in Piping /\ thread'[t].p = thread[t].p
  PROVE  PipesMade'
  BY DEF PipesMade

-----------------------------------------------------------------------------
(* One lemma per action.                                                   *)

LEMMA ReadLockKeeps ==
  ASSUME IInv, NEW t \in Threads, ReadLock(t)
  PROVE  IInv'
  <1> USE Numbers
  <1>0. Shape /\ PipesMade /\ MutexRight /\ OneAtATime /\ Sized /\ OwnFrame
    BY DEF IInv
  <1>1. PICK s \in Streams :
          /\ Free(s)
          /\ mutex' = [mutex EXCEPT ![s] = t]
          /\ thread' = [thread EXCEPT ![t] =
               Beginning(IF contents[s] # None THEN "unlock" ELSE "pipe", s, 1)]
          /\ overlapped' = (overlapped \/ \E u \in Threads : thread[u].on \in Streams \ {s})
    BY DEF ReadLock, Goto, Beginning
  <1>2. At(t, "idle") /\ UNCHANGED <<fd, pipes, ffmpeg, contents, size, fed>>
    BY DEF ReadLock
  <1> DEFINE pc  == IF contents[s] # None THEN "unlock" ELSE "pipe"
             new == Beginning(pc, s, 1)
  <1>3. /\ pc \in {"unlock", "pipe"} /\ new \in States /\ new.pc = pc
        /\ new.on = s /\ new.got = <<>>
    <2>1. pc \in {"unlock", "pipe"} /\ pc \in Pcs
      BY DEF Pcs
    <2> HIDE DEF pc
    <2> QED
      BY <2>1, IdleType
  <1>4. /\ thread' \in [Threads -> States] /\ thread'[t] = new
        /\ \A u \in Threads : u # t => thread'[u] = thread[u]
    BY <1>0, <1>1, <1>3 DEF Shape
  <1> HIDE DEF pc, new
  <1>5. /\ mutex' \in [Streams -> Threads \cup {None}] /\ mutex'[s] = t
        /\ \A z \in Streams : z # s => mutex'[z] = mutex[z]
    BY <1>0, <1>1 DEF Shape
  <1>6. Shape'
    <2>1. overlapped' \in BOOLEAN
      BY <1>0, <1>1 DEF Shape
    <2> QED
      BY <1>0, <1>2, <1>4, <1>5, <2>1 DEF Shape
  <1>7. MutexRight'
    <2> SUFFICES ASSUME NEW u \in Threads
                 PROVE  IF At(u, "idle")' THEN thread'[u].on = None
                        ELSE thread'[u].on \in Streams /\ mutex'[thread'[u].on] = u
      BY DEF MutexRight
    <2>1. CASE u = t
      BY <2>1, <1>3, <1>4, <1>5 DEF At
    <2>2. CASE u # t
      <3>1. mutex[s] = None
        BY <1>1 DEF Free
      <3> QED
        BY <2>2, <3>1, <1>0, <1>4, <1>5 DEF MutexRight, At
    <2> QED
      BY <2>1, <2>2
  <1>8. ~overlapped' => \A u \in Threads : u # t => At(u, "idle") /\ At(u, "idle")'
    <2> SUFFICES ASSUME ~overlapped', NEW u \in Threads, u # t
                 PROVE  At(u, "idle") /\ At(u, "idle")'
      OBVIOUS
    <2>1. thread[u].on \notin Streams \ {s}
      BY <1>1
    <2>2. mutex[s] = None
      BY <1>1 DEF Free
    <2>3. At(u, "idle")
      BY <1>0, <2>1, <2>2 DEF MutexRight
    <2> QED
      BY <2>3, <1>4 DEF At
  <1>9. OneAtATime'
    BY <1>8 DEF OneAtATime
  <1>10. ~overlapped' => \A u \in Threads : Own(u)'
    <2> SUFFICES ASSUME ~overlapped', NEW u \in Threads PROVE Own(u)'
      OBVIOUS
    <2>1. CASE u = t
      BY <2>1, <1>3, <1>4 DEF Own
    <2>2. CASE u # t
      BY <2>2, <1>8 DEF Own, At
    <2> QED
      BY <2>1, <2>2
  <1>11. Sized' /\ OwnFrame'
    <2>1. overlapped => overlapped'
      BY <1>1
    <2> QED
      BY <1>0, <1>2, <2>1 DEF Sized, OwnFrame
  <1>12. PipesMade'
    BY <1>0, <1>2, <1>3, <1>4, MadeKeeps DEF Piping
  <1> QED
    BY <1>6, <1>7, <1>9, <1>10, <1>11, <1>12 DEF IInv

LEMMA ReadUnlockKeeps ==
  ASSUME IInv, NEW t \in Threads, ReadUnlock(t)
  PROVE  IInv'
  <1> USE Numbers, IdleType
  <1>0. Shape /\ PipesMade /\ MutexRight /\ OneAtATime /\ Sized /\ OwnFrame
    BY DEF IInv
  <1>1. /\ thread[t].pc = "unlock" /\ mutex' = [mutex EXCEPT ![thread[t].on] = None]
        /\ thread' = [thread EXCEPT ![t] = Idle]
        /\ UNCHANGED <<fd, pipes, ffmpeg, contents, size, overlapped, fed>>
    BY DEF ReadUnlock, Goto, At
  <1>2. /\ thread' \in [Threads -> States] /\ thread'[t] = Idle
        /\ \A u \in Threads : u # t => thread'[u] = thread[u]
    BY <1>0, <1>1 DEF Shape
  <1>3. /\ mutex' \in [Streams -> Threads \cup {None}]
        /\ thread[t].on \in Streams /\ mutex[thread[t].on] = t
        /\ \A z \in Streams : z # thread[t].on => mutex'[z] = mutex[z]
    BY <1>0, <1>1 DEF Shape, MutexRight, At
  <1>4. Shape'
    BY <1>0, <1>1, <1>2, <1>3 DEF Shape
  <1>5. MutexRight'
    BY <1>0, <1>2, <1>3 DEF MutexRight, At
  <1>6. OneAtATime'
    BY <1>0, <1>1, <1>2 DEF OneAtATime, At
  <1>7. ~overlapped' => \A u \in Threads : Own(u)'
    <2> SUFFICES ASSUME ~overlapped', NEW u \in Threads PROVE Own(u)'
      OBVIOUS
    <2>1. thread'[u].pc = "idle"
      BY <1>0, <1>1, <1>2 DEF OneAtATime, At
    <2> QED
      BY <2>1 DEF Own
  <1>8. PipesMade'
    BY <1>0, <1>1, <1>2, MadeKeeps DEF Piping
  <1> QED
    BY <1>0, <1>1, <1>4, <1>5, <1>6, <1>7, <1>8, FramesKeep DEF IInv

LEMMA ReleaseKeeps ==
  ASSUME IInv, NEW t \in Threads, Release(t)
  PROVE  IInv'
  <1> USE Numbers
  <1>0. Shape /\ PipesMade /\ MutexRight /\ OneAtATime /\ Sized /\ OwnFrame
    BY DEF IInv
  <1>1. PICK s \in Streams : /\ contents' = [contents EXCEPT ![s] = None]
                             /\ size' = [size EXCEPT ![s] = Unknown]
    BY DEF Release, SizeForgotten
  <1>2. UNCHANGED <<fd, pipes, ffmpeg, mutex, thread, overlapped, fed>>
    BY DEF Release
  <1>3. Shape'
    BY <1>0, <1>1, <1>2 DEF Shape
  <1>4. MutexRight' /\ OneAtATime'
    BY <1>0, <1>2 DEF MutexRight, OneAtATime, At
  <1>5. Sized' /\ OwnFrame'
    BY <1>0, <1>1, <1>2 DEF Sized, OwnFrame, Shape
  <1>6. ~overlapped' => \A u \in Threads : Own(u)'
    BY <1>2 DEF IInv, Own, Fed, NoReader, Only
  <1>7. PipesMade'
    BY <1>0, <1>2 DEF PipesMade
  <1> QED
    BY <1>3, <1>4, <1>5, <1>6, <1>7 DEF IInv

(* Whatever opens a descriptor that was closed, no pipe gets a reader.     *)
LEMMA ParserOpensKeeps ==
  ASSUME IInv, ParserOpens
  PROVE  IInv'
  <1> USE Numbers, KindTypes
  <1>0. Shape /\ PipesMade /\ MutexRight /\ OneAtATime /\ Sized /\ OwnFrame
    BY DEF IInv
  <1> DEFINE k == Lowest(FreeFds)
  <1>1. fd' = [fd EXCEPT ![k] = Fifo] /\ k \in Fds /\ fd[k] = Closed
    BY LowestIsOne DEF ParserOpens, FreeFds
  <1>2. UNCHANGED <<pipes, ffmpeg, mutex, contents, size, thread, overlapped, fed>>
    BY DEF ParserOpens
  <1> HIDE DEF k
  <1>3. fd' \in [Fds -> Kinds] /\ fd'[k] = Fifo
        /\ \A i \in Fds : i # k => fd'[i] = fd[i]
    BY <1>0, <1>1 DEF Shape
  <1>4. Shape'
    BY <1>0, <1>2, <1>3 DEF Shape
  <1>5. MutexRight' /\ OneAtATime'
    BY <1>0, <1>2 DEF MutexRight, OneAtATime, At
  <1>6. \A p \in Nat : NoReader(p) => NoReader(p)'
    BY <1>2, <1>3 DEF NoReader
  <1>7. ASSUME ~overlapped, NEW u \in Threads PROVE Own(u)'
    <2>1. Own(u) /\ thread'[u] = thread[u]
      BY <1>2, <1>7 DEF IInv
    <2>2. thread[u].p \in Nat /\ thread[u].r \in Fds /\ thread[u].w \in Fds
      BY <1>0, ThreadFields
    <2>3. Fed(u) => Fed(u)'
      BY <1>2, <1>6, <2>1, <2>2, FedKeeps
    <2> QED
      BY <1>1, <1>2, <1>3, <2>1, <2>2, <2>3 DEF Own
  <1>8. PipesMade'
    BY <1>0, <1>2, <1>3, MadeKeeps
  <1> QED
    BY <1>0, <1>2, <1>4, <1>5, <1>7, <1>8, FramesKeep DEF IInv

LEMMA PipeTypes ==
  ASSUME Shape
  PROVE  /\ Len(pipes) \in Nat /\ DOMAIN ffmpeg = 1 .. Len(pipes)
         /\ DOMAIN pipes = 1 .. Len(pipes)
         /\ \A p \in 1 .. Len(pipes) :
              /\ p \in Nat
              /\ pipes[p] \in Seq(Streams) /\ Len(pipes[p]) \in Nat
              /\ DOMAIN pipes[p] = 1 .. Len(pipes[p])
              /\ ffmpeg[p] \in Writers /\ ffmpeg[p].left \in 0 .. Chunks
              /\ ffmpeg[p].left \in Nat
              /\ ffmpeg[p].on \in Streams \cup {None}
              /\ ffmpeg[p].left > 0 => ffmpeg[p].on \in Streams
         /\ \A t \in Threads :
              /\ Len(thread[t].got) \in Nat
              /\ DOMAIN thread[t].got = 1 .. Len(thread[t].got)
  <1>1. /\ Len(pipes) \in Nat /\ DOMAIN ffmpeg = 1 .. Len(pipes)
        /\ DOMAIN pipes = 1 .. Len(pipes)
    BY LenProperties DEF Shape
  <1>2. ASSUME NEW p \in 1 .. Len(pipes)
        PROVE  /\ p \in Nat
               /\ pipes[p] \in Seq(Streams) /\ Len(pipes[p]) \in Nat
               /\ DOMAIN pipes[p] = 1 .. Len(pipes[p])
               /\ ffmpeg[p] \in Writers /\ ffmpeg[p].left \in 0 .. Chunks
               /\ ffmpeg[p].left \in Nat
               /\ ffmpeg[p].on \in Streams \cup {None}
               /\ ffmpeg[p].left > 0 => ffmpeg[p].on \in Streams
    <2>1. pipes[p] \in Seq(Streams) /\ ffmpeg[p] \in Writers /\ p \in Nat
      BY <1>1, <1>2, ElementOfSeq DEF Shape
    <2>2. Len(pipes[p]) \in Nat /\ DOMAIN pipes[p] = 1 .. Len(pipes[p])
      BY <2>1, LenProperties
    <2>3. ffmpeg[p].left \in 0 .. Chunks /\ ffmpeg[p].on \in Streams \cup {None}
          /\ (ffmpeg[p].left > 0 => ffmpeg[p].on \in Streams)
      BY <2>1 DEF Writers
    <2> QED
      BY <2>1, <2>2, <2>3, Numbers
  <1>3. ASSUME NEW t \in Threads
        PROVE  /\ Len(thread[t].got) \in Nat
               /\ DOMAIN thread[t].got = 1 .. Len(thread[t].got)
    BY ThreadFields, LenProperties
  <1> QED
    BY <1>1, <1>2, <1>3

LEMMA OneMore ==
  ASSUME NEW a \in Nat, NEW b \in Nat, NEW left \in Nat, a + b = Chunks - left
  PROVE  a + (b + 1) = Chunks - (left - 1)
  <1>1. Chunks \in Nat
    BY Numbers
  <1> QED
    BY <1>1

(* ffmpeg exits with or without its frame, or writes a chunk of it.        *)
LEMMA FfmpegActs ==
  ASSUME Shape, NEW p, Ffmpeg(p)
  PROVE  /\ p \in 1 .. Len(pipes) /\ ffmpeg[p].left > 0
         /\ Shape'
         /\ Len(pipes') = Len(pipes)
         /\ ffmpeg'[p].on = ffmpeg[p].on
         /\ ffmpeg'[p].left > 0 => ffmpeg'[p].holds = ffmpeg[p].holds
         /\ DOMAIN ffmpeg' = 1 .. Len(pipes) /\ DOMAIN ffmpeg = 1 .. Len(pipes)
         /\ \A q \in 1 .. Len(pipes) : ffmpeg'[q].holds \subseteq ffmpeg[q].holds
         /\ \/ NoReader(p) /\ pipes' = pipes
            \/ /\ pipes'[p] = Append(pipes[p], ffmpeg[p].on)
               /\ ffmpeg'[p].left = ffmpeg[p].left - 1
            \/ /\ pipes' = pipes
               /\ ffmpeg[p].left = Chunks /\ ffmpeg'[p].left = 0
         /\ \A q \in 1 .. Len(pipes) :
              q # p => pipes'[q] = pipes[q] /\ ffmpeg'[q] = ffmpeg[q]
         /\ UNCHANGED <<fd, mutex, contents, size, thread, overlapped>>
  <1> USE Numbers, PipeTypes
  <1>1. p \in 1 .. Len(pipes) /\ ffmpeg[p] \in Writers
    BY DEF Ffmpeg
  <1>2. UNCHANGED <<fd, mutex, contents, size, thread, overlapped, fed>>
    BY DEF Ffmpeg, FfmpegWrites, FfmpegFails, HasFrame
  <1> DEFINE gone == [ffmpeg[p] EXCEPT !.holds = {}, !.left = 0]
             less == [ffmpeg[p] EXCEPT !.left = ffmpeg[p].left - 1]
             more == Append(pipes[p], ffmpeg[p].on)
  <1>3. /\ ffmpeg[p].left > 0
        /\ \/ NoReader(p) /\ pipes' = pipes /\ ffmpeg' = [ffmpeg EXCEPT ![p] = gone]
           \/ /\ ~NoReader(p) /\ pipes' = [pipes EXCEPT ![p] = more]
              /\ ffmpeg[p].left = 1 /\ ffmpeg' = [ffmpeg EXCEPT ![p] = gone]
           \/ /\ ~NoReader(p) /\ pipes' = [pipes EXCEPT ![p] = more]
              /\ ffmpeg[p].left # 1 /\ ffmpeg' = [ffmpeg EXCEPT ![p] = less]
           \/ /\ pipes' = pipes /\ ffmpeg[p].left = Chunks
              /\ ffmpeg' = [ffmpeg EXCEPT ![p] = gone]
    BY DEF Ffmpeg, FfmpegWrites, FfmpegFails, HasFrame, Exited
  <1>4. /\ gone \in Writers /\ gone.on = ffmpeg[p].on /\ gone.left = 0 /\ gone.holds = {}
        /\ ffmpeg[p].left > 0 =>
             /\ less \in Writers /\ less.on = ffmpeg[p].on
             /\ less.left = ffmpeg[p].left - 1 /\ less.holds = ffmpeg[p].holds
    <2>1. gone \in Writers /\ gone.on = ffmpeg[p].on /\ gone.left = 0 /\ gone.holds = {}
      <3>1. /\ ffmpeg[p] \in [on : Streams \cup {None}, holds : SUBSET Kinds, left : 0 .. Chunks]
            /\ {} \in SUBSET Kinds /\ 0 \in 0 .. Chunks
        BY <1>1, Numbers DEF Writers
      <3>2. /\ gone \in [on : Streams \cup {None}, holds : SUBSET Kinds, left : 0 .. Chunks]
            /\ gone.on = ffmpeg[p].on /\ gone.left = 0 /\ gone.holds = {}
        BY ONLY <3>1
      <3>3. gone.left > 0 => gone.on \in Streams
        BY ONLY <3>2
      <3> HIDE DEF gone
      <3> QED
        BY ONLY <3>2, <3>3 DEF Writers
    <2>2. ASSUME ffmpeg[p].left > 0
          PROVE  /\ less \in Writers /\ less.on = ffmpeg[p].on
                 /\ less.left = ffmpeg[p].left - 1 /\ less.holds = ffmpeg[p].holds
      <3>1. ffmpeg[p].left - 1 \in 0 .. Chunks /\ ffmpeg[p].on \in Streams
        BY <1>1, <2>2
      <3> QED
        BY <1>1, <3>1 DEF Writers
    <2> QED
      BY <2>1, <2>2
  <1>5. Len(ffmpeg) = Len(pipes) /\ ffmpeg \in Seq(Writers) /\ pipes \in Seq(Seq(Streams))
    BY DEF Shape
  <1> HIDE DEF gone, less
  <1>6. ASSUME NEW e \in Writers, ffmpeg' = [ffmpeg EXCEPT ![p] = e]
        PROVE  /\ ffmpeg' \in Seq(Writers) /\ Len(ffmpeg') = Len(pipes) /\ ffmpeg'[p] = e
               /\ \A q \in 1 .. Len(pipes) : q # p => ffmpeg'[q] = ffmpeg[q]
    BY <1>1, <1>5, <1>6, ExceptSeq
  <1>7. /\ ffmpeg' \in Seq(Writers) /\ Len(ffmpeg') = Len(pipes)
        /\ \A q \in 1 .. Len(pipes) : q # p => ffmpeg'[q] = ffmpeg[q]
        /\ ffmpeg'[p] = gone \/ (ffmpeg[p].left # 1 /\ ffmpeg'[p] = less)
    BY <1>3, <1>4, <1>6
  <1>8. ASSUME pipes' = [pipes EXCEPT ![p] = more]
        PROVE  /\ pipes' \in Seq(Seq(Streams)) /\ Len(pipes') = Len(pipes)
               /\ pipes'[p] = more
               /\ \A q \in 1 .. Len(pipes) : q # p => pipes'[q] = pipes[q]
    <2>1. more \in Seq(Streams)
      BY <1>1, <1>3, AppendProperties
    <2> HIDE DEF more
    <2> QED
      BY <1>1, <1>5, <1>8, <2>1, ExceptSeq
  <1>9. /\ pipes' \in Seq(Seq(Streams)) /\ Len(pipes') = Len(pipes)
        /\ \A q \in 1 .. Len(pipes) : q # p => pipes'[q] = pipes[q]
        /\ pipes'[p] = more \/ pipes' = pipes
    BY <1>3, <1>5, <1>8
  <1>10. Shape'
    BY <1>2, <1>7, <1>9 DEF Shape
  <1>11. /\ ffmpeg'[p].on = ffmpeg[p].on
         /\ ffmpeg'[p].left > 0 => ffmpeg'[p].holds = ffmpeg[p].holds
    BY <1>3, <1>4, <1>7
  <1>13. DOMAIN ffmpeg' = 1 .. Len(pipes) /\ DOMAIN ffmpeg = 1 .. Len(pipes)
    BY <1>5, <1>7
  <1>14. \A q \in 1 .. Len(pipes) : ffmpeg'[q].holds \subseteq ffmpeg[q].holds
    BY <1>3, <1>4, <1>7
  <1>12. \/ NoReader(p) /\ pipes' = pipes
         \/ pipes'[p] = more /\ ffmpeg'[p].left = ffmpeg[p].left - 1
         \/ pipes' = pipes /\ ffmpeg[p].left = Chunks /\ ffmpeg'[p].left = 0
    BY <1>1, <1>3, <1>4, <1>6, <1>8
  <1> QED
    BY <1>1, <1>2, <1>3, <1>7, <1>9, <1>10, <1>11, <1>12, <1>13, <1>14

LEMMA FfmpegKeeps ==
  ASSUME IInv, NEW p, Ffmpeg(p)
  PROVE  IInv'
  <1> USE Numbers, PipeTypes
  <1>0. Shape /\ PipesMade /\ MutexRight /\ OneAtATime /\ Sized /\ OwnFrame
    BY DEF IInv
  <1>1. /\ p \in 1 .. Len(pipes) /\ ffmpeg[p].left > 0
        /\ Shape'
        /\ Len(pipes') = Len(pipes)
        /\ ffmpeg'[p].on = ffmpeg[p].on
        /\ ffmpeg'[p].left > 0 => ffmpeg'[p].holds = ffmpeg[p].holds
        /\ DOMAIN ffmpeg' = 1 .. Len(pipes) /\ DOMAIN ffmpeg = 1 .. Len(pipes)
        /\ \A q \in 1 .. Len(pipes) : ffmpeg'[q].holds \subseteq ffmpeg[q].holds
        /\ \/ NoReader(p) /\ pipes' = pipes
           \/ /\ pipes'[p] = Append(pipes[p], ffmpeg[p].on)
              /\ ffmpeg'[p].left = ffmpeg[p].left - 1
           \/ /\ pipes' = pipes
              /\ ffmpeg[p].left = Chunks /\ ffmpeg'[p].left = 0
        /\ \A q \in 1 .. Len(pipes) :
             q # p => pipes'[q] = pipes[q] /\ ffmpeg'[q] = ffmpeg[q]
        /\ UNCHANGED <<fd, mutex, contents, size, thread, overlapped>>
    BY <1>0, FfmpegActs
  <1>5. \A q : NoReader(q) => NoReader(q)'
    BY <1>1 DEF NoReader
  <1>2. MutexRight' /\ OneAtATime'
    BY <1>0, <1>1 DEF MutexRight, OneAtATime, At
  <1>3. ASSUME ~overlapped, NEW t \in Threads PROVE Own(t)'
    <2>1. Own(t)
      BY <1>3 DEF IInv
    <2>2. CASE thread[t].p # p \/ thread[t].pc \in {"idle", "pipe", "save", "unlock"}
      <3>1. ASSUME Fed(t), thread[t].p # p, thread[t].p \in 1 .. Len(pipes)
            PROVE  Fed(t)'
        BY <1>0, <1>1, <1>5, <3>1 DEF Fed, Only
      <3> QED
        BY <1>0, <1>1, <2>1, <2>2, <3>1 DEF Own, PipesMade, Piping
    <2>3. ASSUME thread[t].p = p, thread[t].pc \in {"close", "dup", "ends", "read"}
          PROVE  Fed(t)'
      <3> DEFINE s == thread[t].on
                 g == thread[t].got
      <3>1. /\ ffmpeg[p].on = s /\ Only(pipes[p], s) /\ Only(g, s)
            /\ End("w", p) \in ffmpeg[p].holds
            /\ NoReader(p) \/ Len(g) + Len(pipes[p]) = Chunks - ffmpeg[p].left
        BY <1>0, <1>1, <2>1, <2>3 DEF Own, Fed
      <3>2. NoReader(p) => NoReader(p)'
        BY <1>5
      <3>3. ASSUME /\ Only(pipes'[p], s)
                   /\ \/ NoReader(p)
                      \/ Len(g) + Len(pipes'[p]) = Chunks - ffmpeg'[p].left
                      \/ Len(g) + Len(pipes'[p]) = 0 /\ ffmpeg'[p].left = 0
            PROVE  Fed(t)'
        BY <1>1, <2>3, <3>1, <3>2, <3>3 DEF Fed, Only
      <3> HIDE DEF g, s
      <3>5. CASE NoReader(p) /\ pipes' = pipes
        BY <3>1, <3>3, <3>5
      <3>6. CASE /\ pipes' = pipes
                 /\ ffmpeg[p].left = Chunks /\ ffmpeg'[p].left = 0
        BY <1>0, <1>1, <3>1, <3>3, <3>6 DEF g
      <3>7. CASE /\ pipes'[p] = Append(pipes[p], ffmpeg[p].on)
                 /\ ffmpeg'[p].left = ffmpeg[p].left - 1
        <4>1. /\ Len(pipes'[p]) = Len(pipes[p]) + 1
              /\ pipes'[p] \in Seq(Streams)
              /\ \A i \in 1 .. Len(pipes[p]) : pipes'[p][i] = pipes[p][i]
              /\ pipes'[p][Len(pipes[p]) + 1] = ffmpeg[p].on
          BY <1>0, <1>1, <3>7, AppendProperties
        <4>2. DOMAIN pipes'[p] = 1 .. Len(pipes[p]) + 1
          BY <4>1, LenProperties
        <4>3. \A i \in 1 .. Len(pipes[p]) : pipes[p][i] = s
          BY <1>0, <1>1, <3>1 DEF Only
        <4>4. \A i \in 1 .. Len(pipes[p]) + 1 :
                 i \in 1 .. Len(pipes[p]) \/ i = Len(pipes[p]) + 1
          BY <1>0, <1>1
        <4>5. Only(pipes'[p], s)
          BY <3>1, <4>1, <4>2, <4>3, <4>4 DEF Only
        <4>6. /\ Len(g) \in Nat /\ Len(pipes[p]) \in Nat
              /\ ffmpeg[p].left \in Nat /\ ffmpeg'[p].left = ffmpeg[p].left - 1
              /\ Len(pipes'[p]) = Len(pipes[p]) + 1
          BY <1>0, <1>1, <3>7, <4>1 DEF g
        <4>7. \/ NoReader(p)
              \/ Len(g) + Len(pipes'[p]) = Chunks - ffmpeg'[p].left
          <5>1. ASSUME Len(g) + Len(pipes[p]) = Chunks - ffmpeg[p].left
                PROVE  Len(g) + (Len(pipes[p]) + 1) = Chunks - (ffmpeg[p].left - 1)
            BY ONLY <4>6, <5>1, OneMore
          <5> QED
            BY ONLY <3>1, <4>6, <5>1
        <4> QED
          BY <3>3, <4>5, <4>7
      <3> QED
        BY <1>1, <3>5, <3>6, <3>7
    <2>6. CASE thread[t].p = p /\ thread[t].pc \in {"close", "dup", "ends", "read"}
      BY <1>0, <1>1, <2>1, <2>3, <2>6 DEF Own
    <2>4. CASE thread[t].p = p /\ thread[t].pc = "fork"
      BY <1>1, <2>1, <2>4 DEF Own
    <2>5. thread[t].pc \in Pcs
      BY <1>0, ThreadFields
    <2> QED
      BY <2>2, <2>4, <2>5, <2>6 DEF Pcs
  <1>4. PipesMade'
    BY <1>0, <1>1, MadeKeeps
  <1> QED
    BY <1>0, <1>1, <1>2, <1>3, <1>4, FramesKeep DEF IInv

(* A step that closes descriptors or copies one, and goes on to pc.        *)
LEMMA DescriptorsMove ==
  ASSUME IInv, NEW t \in Threads, NEW pc \in Pcs, Step(t, pc),
         thread[t].pc \in Piping, pc \in Piping,
         UNCHANGED <<pipes, ffmpeg, mutex, contents, size, overlapped, fed>>,
         fd' \in [Fds -> Kinds],
         \A i \in Fds : fd'[i] = Closed \/ \E j \in Fds : fd'[i] = fd[j],
         ~overlapped /\ Own(t) => Own(t)'
  PROVE  IInv'
  <1>0. Shape /\ PipesMade /\ MutexRight /\ OneAtATime /\ Sized /\ OwnFrame
    BY DEF IInv
  <1> DEFINE new == [thread[t] EXCEPT !.pc = pc]
  <1>1. /\ Inside(t, new) /\ thread'[t] = new
        /\ new.pc = pc /\ new.p = thread[t].p /\ ~At(t, "idle")
    BY <1>0, StepInside, ThreadFields DEF Piping, At
  <1> HIDE DEF new
  <1>2. /\ MutexRight' /\ OneAtATime'
        /\ thread' \in [Threads -> States]
        /\ mutex' \in [Streams -> Threads \cup {None}] /\ overlapped' \in BOOLEAN
        /\ ~overlapped /\ Own(t)' => \A u \in Threads : Own(u)'
    BY <1>0, <1>1, InsideKeeps
  <1>3. Shape'
    BY <1>0, <1>2 DEF Shape
  <1>4. PipesMade'
    <2>1. \A i \in Fds : fd'[i][1] = "r" => \E j \in Fds : fd'[i] = fd[j]
      BY KindTypes
    <2>2. \A u \in Threads : u # t => thread'[u] = thread[u]
      BY <1>0, <1>1 DEF Shape, Inside
    <2>3. \A u \in Threads : thread'[u].pc \in Piping =>
            thread[u].pc \in Piping /\ thread'[u].p = thread[u].p
      BY <1>1, <2>2
    <2> QED
      BY <1>0, <2>1, <2>3, MadeKeeps
  <1>5. ~overlapped' => \A u \in Threads : Own(u)'
    BY <1>2 DEF IInv
  <1> QED
    BY <1>0, <1>2, <1>3, <1>4, <1>5, FramesKeep DEF IInv

(* What such a step leaves of the thread.                                  *)
LEMMA Moved ==
  ASSUME Shape, NEW t \in Threads, NEW pc \in Pcs, pc # "idle", Step(t, pc)
  PROVE  /\ thread'[t].pc = pc /\ thread'[t].p = thread[t].p
         /\ thread'[t].on = thread[t].on /\ thread'[t].got = thread[t].got
         /\ thread'[t].r = thread[t].r /\ thread'[t].w = thread[t].w
  <1> DEFINE new == [thread[t] EXCEPT !.pc = pc]
  <1>1. thread'[t] = new
    BY StepInside
  <1>2. /\ new.pc = pc /\ new.on = thread[t].on /\ new.p = thread[t].p
        /\ new.r = thread[t].r /\ new.w = thread[t].w /\ new.got = thread[t].got
    BY ThreadFields
  <1> QED
    BY <1>1, <1>2

LEMMA CloseStdinKeeps ==
  ASSUME IInv, NEW t \in Threads, CloseStdin(t)
  PROVE  IInv'
  <1> USE Numbers, KindTypes
  <1>1. Shape
    BY DEF IInv
  <1>2. /\ thread[t].pc = "close" /\ fd' = [fd EXCEPT ![0] = Closed] /\ Step(t, "dup")
        /\ UNCHANGED <<pipes, ffmpeg, mutex, contents, size, overlapped, fed>>
        /\ "dup" \in Pcs
    BY DEF CloseStdin, At, Pcs
  <1>3. /\ fd' \in [Fds -> Kinds] /\ fd'[0] = Closed
        /\ \A i \in Fds : fd'[i] = Closed \/ fd'[i] = fd[i]
    BY <1>1, <1>2 DEF Shape
  <1>4. ASSUME Own(t) PROVE Own(t)'
    <2>1. /\ thread'[t].pc = "dup" /\ thread'[t].p = thread[t].p
          /\ thread'[t].on = thread[t].on /\ thread'[t].got = thread[t].got
          /\ thread'[t].r = thread[t].r /\ thread[t].r \in Fds /\ thread[t].p \in Nat
      BY <1>1, <1>2, Moved, ThreadFields
    <2>2. thread[t].got = <<>> /\ fd[thread[t].r] = End("r", thread[t].p) /\ Fed(t)
      BY <1>2, <1>4 DEF Own
    <2>3. NoReader(thread[t].p) => NoReader(thread[t].p)'
      BY <1>2, <1>3, <2>1 DEF NoReader
    <2>4. Fed(t)'
      BY <1>2, <2>1, <2>2, <2>3, FedKeeps
    <2> QED
      BY <1>3, <2>1, <2>2, <2>4 DEF Own
  <1> QED
    BY <1>2, <1>3, <1>4, DescriptorsMove DEF Piping

LEMMA DupKeeps ==
  ASSUME IInv, NEW t \in Threads, Dup(t)
  PROVE  IInv'
  <1> USE Numbers, KindTypes
  <1>1. Shape
    BY DEF IInv
  <1> DEFINE from == fd[thread[t].r]
             k    == Lowest(FreeFds)
  <1>2. /\ thread[t].pc = "dup" /\ Step(t, "ends") /\ "ends" \in Pcs
        /\ UNCHANGED <<pipes, ffmpeg, mutex, contents, size, overlapped, fed>>
        /\ fd' = fd \/ (FreeFds # {} /\ fd' = [fd EXCEPT ![k] = from])
    BY DEF Dup, At, Pcs
  <1>3. thread[t].r \in Fds /\ thread[t].p \in Nat /\ from \in Kinds
    BY <1>1, ThreadFields DEF Shape
  <1>4. FreeFds # {} => k \in Fds
    BY LowestIsOne DEF FreeFds
  <1> HIDE DEF k
  <1>5. /\ fd' \in [Fds -> Kinds]
        /\ \A i \in Fds : fd'[i] = fd[i] \/ fd'[i] = from
    BY <1>1, <1>2, <1>3, <1>4 DEF Shape
  <1>6. ASSUME Own(t) PROVE Own(t)'
    <2>1. /\ thread'[t].pc = "ends" /\ thread'[t].p = thread[t].p
          /\ thread'[t].on = thread[t].on /\ thread'[t].got = thread[t].got
      BY <1>1, <1>2, Moved
    <2>2. /\ thread[t].got = <<>> /\ Fed(t) /\ fd[0] \in {Closed, Fifo}
          /\ from \in {Closed, Fifo, End("r", thread[t].p)}
      BY <1>2, <1>6 DEF Own
    <2>3. NoReader(thread[t].p) => NoReader(thread[t].p)'
      BY <1>2, <1>3, <1>5, <2>1 DEF NoReader
    <2>4. Fed(t)'
      BY <1>2, <2>1, <2>2, <2>3, FedKeeps
    <2>5. fd'[0] \in {Closed, Fifo, End("r", thread[t].p)}
      BY <1>5, <2>2
    <2> QED
      BY <2>1, <2>2, <2>4, <2>5 DEF Own
  <1>7. \A i \in Fds : fd'[i] = Closed \/ \E j \in Fds : fd'[i] = fd[j]
    BY <1>3, <1>5
  <1> QED
    BY <1>2, <1>5, <1>6, <1>7, DescriptorsMove DEF Piping

LEMMA CloseEndsKeeps ==
  ASSUME IInv, NEW t \in Threads, CloseEnds(t)
  PROVE  IInv'
  <1> USE Numbers, KindTypes
  <1>1. Shape
    BY DEF IInv
  <1>2. /\ thread[t].pc = "ends" /\ Step(t, "read") /\ "read" \in Pcs
        /\ UNCHANGED <<pipes, ffmpeg, mutex, contents, size, overlapped, fed>>
        /\ fd' = [fd EXCEPT ![thread[t].r] = Closed, ![thread[t].w] = Closed]
    BY DEF CloseEnds, EndsClosed, At, Pcs
  <1>3. thread[t].r \in Fds /\ thread[t].w \in Fds /\ thread[t].p \in Nat
    BY <1>1, ThreadFields
  <1>4. /\ fd' \in [Fds -> Kinds]
        /\ \A i \in Fds : fd'[i] = fd[i] \/ fd'[i] = Closed
    BY <1>1, <1>2, <1>3 DEF Shape
  <1>5. ASSUME Own(t) PROVE Own(t)'
    <2>1. /\ thread'[t].pc = "read" /\ thread'[t].p = thread[t].p
          /\ thread'[t].on = thread[t].on /\ thread'[t].got = thread[t].got
      BY <1>1, <1>2, Moved
    <2>2. /\ thread[t].got = <<>> /\ Fed(t)
          /\ fd[0] \in {Closed, Fifo, End("r", thread[t].p)}
      BY <1>2, <1>5 DEF Own
    <2>3. NoReader(thread[t].p) => NoReader(thread[t].p)'
      BY <1>2, <1>3, <1>4, <2>1 DEF NoReader
    <2>4. Fed(t)'
      BY <1>2, <2>1, <2>2, <2>3, FedKeeps
    <2>5. fd'[0] \in {Closed, Fifo, End("r", thread[t].p)}
      BY <1>4, <2>2
    <2> QED
      BY <2>1, <2>2, <2>4, <2>5 DEF Own
  <1> QED
    BY <1>2, <1>4, <1>5, DescriptorsMove DEF Piping

(* A step of a thread that leaves the frames as they are.                  *)
LEMMA ThreadGoesOn ==
  ASSUME IInv, NEW t \in Threads, ~At(t, "idle"), NEW new, Inside(t, new),
         thread'[t] = new,
         UNCHANGED <<mutex, contents, size, overlapped>>,
         fd' \in [Fds -> Kinds], pipes' \in Seq(Seq(Streams)),
         ffmpeg' \in Seq(Writers), Len(ffmpeg') = Len(pipes'), Len(pipes') >= Len(pipes),
         \A i \in Fds : \/ fd'[i] = fd[i] \/ fd'[i][1] # "r"
                        \/ fd'[i][2] \in 1 .. Len(pipes'),
         new.pc \in Piping => new.p \in 1 .. Len(pipes'),
         ~overlapped /\ Own(t) => Own(t)'
  PROVE  IInv'
  <1>0. Shape /\ PipesMade /\ MutexRight /\ OneAtATime /\ Sized /\ OwnFrame
    BY DEF IInv
  <1>1. /\ MutexRight' /\ OneAtATime'
        /\ thread' \in [Threads -> States]
        /\ mutex' \in [Streams -> Threads \cup {None}] /\ overlapped' \in BOOLEAN
        /\ ~overlapped /\ Own(t)' => \A u \in Threads : Own(u)'
    BY <1>0, InsideKeeps
  <1>2. Shape'
    BY <1>0, <1>1 DEF Shape
  <1>3. \A u \in Threads : u # t => thread'[u] = thread[u]
    BY <1>0 DEF Shape, Inside
  <1>4. 1 .. Len(pipes) \subseteq 1 .. Len(pipes')
    <2>1. Len(pipes) \in Nat /\ Len(pipes') \in Nat
      BY <1>0, <1>2, LenProperties DEF Shape
    <2> QED
      BY <2>1
  <1>5. PipesMade'
    BY <1>0, <1>3, <1>4 DEF PipesMade
  <1>6. ~overlapped' => \A u \in Threads : Own(u)'
    BY <1>1 DEF IInv
  <1> QED
    BY <1>0, <1>1, <1>2, <1>5, <1>6, FramesKeep DEF IInv

LEMMA RetryKeeps ==
  ASSUME IInv, NEW t \in Threads, ~At(t, "idle"), Retry(t),
         UNCHANGED <<fd, pipes, ffmpeg, mutex, contents, size, overlapped>>
  PROVE  IInv'
  <1>1. Shape /\ MutexRight
    BY DEF IInv
  <1>2. PICK new : /\ Inside(t, new) /\ thread'[t] = new
                   /\ new.pc = "unlock" \/ (new.pc = "pipe" /\ new.got = <<>>)
    BY <1>1, RetryInside
  <1>3. Own(t)'
    BY <1>2 DEF Own
  <1>4. new.pc \notin Piping
    BY <1>2 DEF Piping
  <1>5. /\ fd' \in [Fds -> Kinds] /\ pipes' \in Seq(Seq(Streams))
        /\ ffmpeg' \in Seq(Writers) /\ Len(ffmpeg') = Len(pipes')
        /\ Len(pipes') >= Len(pipes)
    <2>1. Len(pipes) \in Nat
      BY <1>1, PipeTypes
    <2> QED
      BY <1>1, <2>1 DEF Shape
  <1> QED
    BY <1>2, <1>3, <1>4, <1>5, ThreadGoesOn

(* Two descriptors are closed: a pipe gets both its ends.                  *)
LEMMA TwoAreFree ==
  ASSUME Cardinality(FreeFds) > 1
  PROVE  /\ Lowest(FreeFds) \in FreeFds
         /\ Lowest(FreeFds \ {Lowest(FreeFds)}) \in FreeFds \ {Lowest(FreeFds)}
         /\ FreeFds \subseteq Fds
  <1>1. FreeFds \subseteq Fds
    BY DEF FreeFds
  <1>2. FreeFds # {}
    <2>1. Cardinality({}) = 0
      BY FS_EmptySet
    <2> QED
      BY <2>1
  <1>3. Lowest(FreeFds) \in FreeFds
    BY <1>1, <1>2, LowestIsOne
  <1>4. FreeFds # {Lowest(FreeFds)}
    <2>1. Cardinality({Lowest(FreeFds)}) = 1
      BY FS_Singleton
    <2> QED
      BY <2>1
  <1>5. FreeFds \ {Lowest(FreeFds)} # {}
    BY <1>3, <1>4
  <1> QED
    BY <1>1, <1>3, <1>5, LowestIsOne

Piped(state, p, r, w) == [state EXCEPT !.pc = "fork", !.p = p, !.r = r, !.w = w]

LEMMA WithPipe ==
  ASSUME NEW state \in States, NEW p \in Nat, NEW r \in Fds, NEW w \in Fds
  PROVE  LET new == Piped(state, p, r, w)
         IN /\ new \in States /\ new.pc = "fork" /\ new.on = state.on /\ new.p = p
            /\ new.r = r /\ new.w = w /\ new.got = state.got
  BY DEF States, Pcs, Piped

LEMMA MakePipeKeeps ==
  ASSUME IInv, NEW t \in Threads, MakePipe(t)
  PROVE  IInv'
  <1> USE Numbers, KindTypes
  <1>0. Shape
    BY DEF IInv
  <1> DEFINE r == Lowest(FreeFds)
             w == Lowest(FreeFds \ {r})
             p == Len(pipes) + 1
             e == [on |-> None, holds |-> {}, left |-> 0]
             new == Piped(thread[t], p, r, w)
  <1>1. /\ thread[t].pc = "pipe" /\ ~At(t, "idle")
        /\ UNCHANGED <<mutex, contents, size, overlapped, fed>>
        /\ \/ /\ Cardinality(FreeFds) > 1
              /\ fd' = [fd EXCEPT ![r] = End("r", p), ![w] = End("w", p)]
              /\ pipes' = Append(pipes, <<>>) /\ ffmpeg' = Append(ffmpeg, e)
              /\ thread' = [thread EXCEPT ![t] = new]
           \/ Retry(t) /\ UNCHANGED <<fd, pipes, ffmpeg>>
    BY DEF MakePipe, At, Goto, Piped
  <1>2. CASE Retry(t) /\ UNCHANGED <<fd, pipes, ffmpeg>>
    BY <1>1, <1>2, RetryKeeps
  <1>3. CASE /\ Cardinality(FreeFds) > 1
             /\ fd' = [fd EXCEPT ![r] = End("r", p), ![w] = End("w", p)]
             /\ pipes' = Append(pipes, <<>>) /\ ffmpeg' = Append(ffmpeg, e)
             /\ thread' = [thread EXCEPT ![t] = new]
    <2>1. /\ r \in Fds /\ w \in Fds /\ w # r
      BY <1>3, TwoAreFree
    <2>2. Len(pipes) \in Nat /\ Len(ffmpeg) = Len(pipes) /\ p \in Nat
      BY <1>0, PipeTypes DEF Shape
    <2>3. e \in Writers /\ e.left = 0
      BY DEF Writers
    <2> HIDE DEF e
    <2>4. /\ pipes' \in Seq(Seq(Streams)) /\ Len(pipes') = Len(pipes) + 1
          /\ pipes'[Len(pipes) + 1] = <<>>
      <3>1. <<>> \in Seq(Streams)
        BY EmptySeq
      <3> QED
        BY <1>0, <1>3, <3>1, AppendProperties DEF Shape
    <2>5. /\ ffmpeg' \in Seq(Writers) /\ Len(ffmpeg') = Len(pipes')
          /\ ffmpeg'[Len(pipes) + 1] = e
      BY <1>0, <1>3, <2>2, <2>3, <2>4, AppendProperties DEF Shape
    <2> HIDE DEF r, w
    <2>6. /\ new \in States /\ new.pc = "fork" /\ new.on = thread[t].on /\ new.p = p
          /\ new.r = r /\ new.w = w /\ new.got = thread[t].got
      <3>1. thread[t] \in States /\ r \in Fds /\ w \in Fds /\ p \in Nat
        BY <1>0, <2>1, <2>2, ThreadFields
      <3> QED
        BY ONLY <3>1, WithPipe, SMTT(30)
    <2> HIDE DEF new
    <2>7. Inside(t, new) /\ thread'[t] = new
      BY <1>0, <1>3, <2>6 DEF Inside, Shape
    <2>8. /\ fd' \in [Fds -> Kinds] /\ fd'[r] = End("r", p) /\ fd'[w] = End("w", p)
          /\ \A i \in Fds : i # r /\ i # w => fd'[i] = fd[i]
      BY <1>0, <1>3, <2>1, <2>2 DEF Shape
    <2>9. p \in 1 .. Len(pipes') /\ Len(pipes') >= Len(pipes)
      BY <2>2, <2>4
    <2>10. \A i \in Fds : \/ fd'[i] = fd[i] \/ fd'[i][1] # "r"
                          \/ fd'[i][2] \in 1 .. Len(pipes')
      BY <2>2, <2>8, <2>9
    <2>11. Own(t) => Own(t)'
      BY <1>1, <2>3, <2>4, <2>5, <2>6, <2>7, <2>8, SMTT(30) DEF Own
    <2> QED
      BY <1>1, <2>4, <2>5, <2>6, <2>7, <2>8, <2>9, <2>10, <2>11, ThreadGoesOn
  <1> QED
    BY <1>1, <1>2, <1>3

LEMMA ForkKeeps ==
  ASSUME IInv, NEW t \in Threads, Fork(t)
  PROVE  IInv'
  <1> USE Numbers, KindTypes
  <1>0. Shape /\ PipesMade /\ MutexRight
    BY DEF IInv
  <1> DEFINE p == thread[t].p
             open == Inherited(t)
             e == [on |-> thread[t].on, left |-> Chunks, holds |-> open]
  <1>1. /\ thread[t].pc = "fork" /\ ~At(t, "idle")
        /\ UNCHANGED <<fd, pipes, mutex, contents, size, overlapped, fed>>
        /\ \/ ffmpeg' = [ffmpeg EXCEPT ![p] = e] /\ Step(t, "close")
           \/ Retry(t) /\ UNCHANGED ffmpeg
    BY DEF Fork, At
  <1>2. CASE Retry(t) /\ UNCHANGED ffmpeg
    BY <1>1, <1>2, RetryKeeps
  <1>3. CASE ffmpeg' = [ffmpeg EXCEPT ![p] = e] /\ Step(t, "close")
    <2>1. p \in 1 .. Len(pipes) /\ p \in Nat /\ thread[t].on \in Streams /\ thread[t].w \in Fds
      BY <1>0, <1>1, ThreadFields DEF PipesMade, Piping, MutexRight
    <2>2. open \subseteq Kinds
      BY <1>0 DEF Shape, Inherited
    <2>3. fd[thread[t].w] = End("w", p) /\ fd[thread[t].r] = End("r", p) => End("w", p) \in open
      BY <2>1 DEF Inherited
    <2> HIDE DEF open
    <2>4. e \in Writers /\ e.on = thread[t].on /\ e.left = Chunks /\ e.holds = open
      BY <2>1, <2>2 DEF Writers
    <2> HIDE DEF e
    <2>5. /\ ffmpeg' \in Seq(Writers) /\ Len(ffmpeg') = Len(pipes') /\ ffmpeg'[p] = e
          /\ pipes' \in Seq(Seq(Streams)) /\ fd' \in [Fds -> Kinds]
          /\ Len(pipes') >= Len(pipes)
      BY <1>0, <1>1, <1>3, <2>1, <2>4, PipeTypes, ExceptSeq DEF Shape
    <2> DEFINE new == [thread[t] EXCEPT !.pc = "close"]
    <2>6. "close" \in Pcs /\ Inside(t, new) /\ thread'[t] = new /\ new.pc = "close" /\ new.p = p
      BY <1>0, <1>3, StepInside, ThreadFields DEF Pcs
    <2> HIDE DEF new
    <2>7. ASSUME Own(t) PROVE Own(t)'
      <3>1. /\ thread'[t].pc = "close" /\ thread'[t].p = p
            /\ thread'[t].on = thread[t].on /\ thread'[t].got = thread[t].got
            /\ thread'[t].r = thread[t].r
        BY <1>0, <1>3, <2>6, Moved
      <3>2. /\ thread[t].got = <<>> /\ pipes[p] = <<>> /\ fd[thread[t].w] = End("w", p)
            /\ fd[thread[t].r] = End("r", p)
        BY <1>1, <2>7 DEF Own
      <3>3. Len(<<>>) = 0 /\ Len(<<>>) + Len(<<>>) = Chunks - Chunks
        OBVIOUS
      <3>4. Fed(t)'
        BY <1>1, <2>3, <2>4, <2>5, <3>1, <3>2, <3>3 DEF Fed, Only
      <3> QED
        BY <1>1, <3>1, <3>2, <3>4 DEF Own
    <2> QED
      BY <1>1, <2>1, <2>5, <2>6, <2>7, ThreadGoesOn
  <1> QED
    BY <1>1, <1>2, <1>3

(* What is read off a pipe is added to what has been read.                 *)
LEMMA ChunkTaken ==
  ASSUME NEW s, NEW q \in Seq(Streams), NEW g \in Seq(Streams), q # <<>>
  PROVE  /\ Tail(q) \in Seq(Streams) /\ Append(g, Head(q)) \in Seq(Streams)
         /\ Len(Append(g, Head(q))) + Len(Tail(q)) = Len(g) + Len(q)
         /\ Only(q, s) /\ Only(g, s) =>
              Only(Tail(q), s) /\ Only(Append(g, Head(q)), s)
  <1>1. /\ Head(q) \in Streams /\ Head(q) = q[1] /\ Tail(q) \in Seq(Streams)
        /\ Len(Tail(q)) = Len(q) - 1
        /\ \A i \in 1 .. Len(Tail(q)) : Tail(q)[i] = q[i + 1]
    BY HeadTailProperties
  <1>2. /\ Append(g, Head(q)) \in Seq(Streams)
        /\ Len(Append(g, Head(q))) = Len(g) + 1
        /\ \A i \in 1 .. Len(g) : Append(g, Head(q))[i] = g[i]
        /\ Append(g, Head(q))[Len(g) + 1] = Head(q)
    BY <1>1, AppendProperties
  <1>3. /\ Len(q) \in Nat /\ Len(g) \in Nat /\ Len(q) # 0
        /\ DOMAIN q = 1 .. Len(q) /\ DOMAIN g = 1 .. Len(g)
        /\ DOMAIN Tail(q) = 1 .. Len(Tail(q))
        /\ DOMAIN Append(g, Head(q)) = 1 .. Len(g) + 1
    BY <1>1, <1>2, LenProperties, EmptySeq
  <1>4. ASSUME Only(q, s), Only(g, s)
        PROVE  Only(Tail(q), s) /\ Only(Append(g, Head(q)), s)
    <2>1. Head(q) = s
      BY <1>1, <1>3, <1>4 DEF Only
    <2>2. \A i \in 1 .. Len(Tail(q)) : i + 1 \in 1 .. Len(q)
      BY <1>1, <1>3
    <2>3. \A i \in 1 .. Len(Tail(q)) : Tail(q)[i] = s
      BY <1>1, <1>3, <1>4, <2>2 DEF Only
    <2>4. \A i \in 1 .. Len(g) + 1 : i \in 1 .. Len(g) \/ i = Len(g) + 1
      BY <1>3
    <2>5. \A i \in 1 .. Len(g) + 1 : Append(g, Head(q))[i] = s
      BY <1>2, <1>3, <1>4, <2>1, <2>4 DEF Only
    <2> QED
      BY <1>3, <2>3, <2>5 DEF Only
  <1>5. Len(Append(g, Head(q))) + Len(Tail(q)) = Len(g) + Len(q)
    BY <1>1, <1>2, <1>3
  <1> QED
    BY <1>1, <1>2, <1>4, <1>5

(* As many chunks of a stream as a frame has are its frame.                *)
LEMMA WholeFrame ==
  ASSUME NEW s, NEW g \in Seq(Streams), Only(g, s), Len(g) = Chunks
  PROVE  g = Frame(s)
  <1>1. DOMAIN g = 1 .. Chunks /\ g = [i \in 1 .. Len(g) |-> g[i]]
    BY LenProperties
  <1> QED
    BY <1>1 DEF Only, Frame

(* A read at the end of the file: ffmpeg has exited, all has been read.    *)
LEMMA AllRead ==
  ASSUME IInv, NEW t \in Threads, thread[t].pc = "read", ~overlapped,
         fd[0] = End("r", thread[t].p), pipes[thread[t].p] = <<>>, AtEof(thread[t].p)
  PROVE  thread[t].got = <<>> \/ thread[t].got = Frame(thread[t].on)
  <1> USE Numbers, KindTypes
  <1> DEFINE p == thread[t].p
             g == thread[t].got
  <1>1. Shape /\ PipesMade /\ Own(t)
    BY DEF IInv
  <1>2. p \in 1 .. Len(pipes) /\ g \in Seq(Streams) /\ Len(g) \in Nat
    BY <1>1, ThreadFields, PipeTypes DEF PipesMade, Piping
  <1>3. p \in DOMAIN ffmpeg /\ ffmpeg[p].left \in Nat
    BY <1>1, <1>2, PipeTypes
  <1>4. Fed(t)
    BY <1>1 DEF Own
  <1>5. ~ (ffmpeg[p].left > 0)
    BY <1>3, <1>4 DEF Fed, AtEof
  <1>6. ~NoReader(p)
    BY DEF NoReader
  <1>7. Len(pipes[p]) = 0
    OBVIOUS
  <1>8. Only(g, thread[t].on) /\ (Len(g) = Chunks \/ Len(g) = 0)
    BY <1>2, <1>3, <1>4, <1>5, <1>6, <1>7 DEF Fed
  <1> HIDE DEF g
  <1>9. CASE Len(g) = Chunks
    BY <1>2, <1>8, <1>9, WholeFrame DEF g
  <1>10. CASE Len(g) = 0
    BY <1>2, <1>10, EmptySeq DEF g
  <1> QED
    BY <1>8, <1>9, <1>10

Having(state, g) == [state EXCEPT !.got = g]

LEMMA WithChunk ==
  ASSUME NEW state \in States, NEW g \in Seq(Streams)
  PROVE  LET new == Having(state, g)
         IN /\ new \in States /\ new.pc = state.pc /\ new.on = state.on
            /\ new.p = state.p /\ new.got = g
  BY DEF States, Having

LEMMA ReadPipeKeeps ==
  ASSUME IInv, NEW t \in Threads, ReadPipe(t)
  PROVE  IInv'
  <1> USE Numbers, KindTypes
  <1>0. Shape /\ PipesMade
    BY DEF IInv
  <1> DEFINE q == fd[0][2]
             g == thread[t].got
  <1>1. /\ thread[t].pc = "read" /\ ~At(t, "idle")
        /\ UNCHANGED <<fd, ffmpeg, mutex, contents, size, overlapped, fed>>
        /\ \/ fd[0][1] # "r" /\ Step(t, "save") /\ UNCHANGED pipes
           \/ /\ fd[0][1] = "r" /\ pipes[q] = <<>> /\ AtEof(q)
              /\ Step(t, "save") /\ UNCHANGED pipes
           \/ /\ fd[0][1] = "r" /\ pipes[q] # <<>>
              /\ pipes' = [pipes EXCEPT ![q] = Tail(pipes[q])]
              /\ thread' = [thread EXCEPT ![t] =
                   Having(thread[t], Append(g, Head(pipes[q])))]
    BY DEF ReadPipe, At, Goto, Having
  <1>2. /\ Len(pipes) \in Nat /\ thread[t].p \in Nat
        /\ fd[0] \in Kinds /\ ffmpeg \in Seq(Writers) /\ fd \in [Fds -> Kinds]
        /\ thread[t].p \in 1 .. Len(pipes)
        /\ Len(ffmpeg) = Len(pipes) /\ pipes \in Seq(Seq(Streams))
        /\ fd[0][1] = "r" => q \in 1 .. Len(pipes)
    BY <1>0, <1>1, ThreadFields, PipeTypes DEF Shape, PipesMade, Piping
  <1>3. ~overlapped => /\ Own(t) /\ Fed(t)
                       /\ fd[0] \in {Closed, Fifo, End("r", thread[t].p)}
                       /\ fd[0] # End("r", thread[t].p) => g = <<>>
    BY <1>1 DEF IInv, Own
  <1>4. CASE /\ Step(t, "save") /\ UNCHANGED pipes
             /\ fd[0][1] # "r" \/ (pipes[q] = <<>> /\ AtEof(q))
    <2> DEFINE new == [thread[t] EXCEPT !.pc = "save"]
    <2>1. /\ "save" \in Pcs /\ Inside(t, new) /\ thread'[t] = new /\ new.pc = "save"
          /\ new.p = thread[t].p /\ new.on = thread[t].on /\ new.got = g
      BY <1>0, <1>4, StepInside, ThreadFields DEF Pcs
    <2> HIDE DEF new
    <2>2. ASSUME ~overlapped PROVE g = <<>> \/ g = Frame(thread[t].on)
      <3>1. CASE fd[0] # End("r", thread[t].p)
        BY <1>3, <2>2, <3>1
      <3>2. CASE fd[0] = End("r", thread[t].p)
        <4>1. q = thread[t].p /\ fd[0][1] = "r"
          BY <1>2, <3>2
        <4>2. pipes[thread[t].p] = <<>> /\ AtEof(thread[t].p)
          BY <1>4, <4>1
        <4> QED
          BY <1>1, <2>2, <3>2, <4>2, AllRead
      <3> QED
        BY <3>1, <3>2
    <2>3. ~overlapped => Own(t)'
      BY <2>1, <2>2 DEF Own
    <2>4. Len(pipes') >= Len(pipes) /\ new.p \in 1 .. Len(pipes')
      BY <1>2, <1>4, <2>1
    <2> QED
      BY <1>1, <1>2, <1>4, <2>1, <2>3, <2>4, ThreadGoesOn
  <1>5. CASE /\ fd[0][1] = "r" /\ pipes[q] # <<>>
             /\ pipes' = [pipes EXCEPT ![q] = Tail(pipes[q])]
             /\ thread' = [thread EXCEPT ![t] =
                  Having(thread[t], Append(g, Head(pipes[q])))]
    <2> DEFINE more == Append(g, Head(pipes[q]))
               new  == Having(thread[t], more)
    <2>1. /\ q \in 1 .. Len(pipes) /\ q \in Nat /\ pipes[q] \in Seq(Streams)
          /\ g \in Seq(Streams)
      BY <1>0, <1>2, <1>5, PipeTypes, ThreadFields
    <2>2. /\ Tail(pipes[q]) \in Seq(Streams) /\ more \in Seq(Streams)
          /\ Len(more) + Len(Tail(pipes[q])) = Len(g) + Len(pipes[q])
          /\ \A s : Only(pipes[q], s) /\ Only(g, s) =>
               Only(Tail(pipes[q]), s) /\ Only(more, s)
      BY <1>5, <2>1, ChunkTaken
    <2> HIDE DEF more
    <2>3. /\ pipes' \in Seq(Seq(Streams)) /\ Len(pipes') = Len(pipes)
          /\ pipes'[q] = Tail(pipes[q])
      BY <1>2, <1>5, <2>1, <2>2, ExceptSeq
    <2>4. /\ new \in States /\ new.pc = "read" /\ new.on = thread[t].on
          /\ new.p = thread[t].p /\ new.got = more
      <3>1. thread[t] \in States /\ more \in Seq(Streams)
        BY <1>0, <2>2, ThreadFields
      <3> QED
        BY ONLY <1>1, <3>1, WithChunk
    <2> HIDE DEF new
    <2>5. Inside(t, new) /\ thread'[t] = new
      BY <1>0, <1>5, <2>4 DEF Inside, Shape, more, new
    <2>6. ASSUME ~overlapped PROVE Own(t)'
      <3>1. fd[0] = End("r", thread[t].p) /\ q = thread[t].p
        BY <1>2, <1>3, <1>5, <2>6
      <3>2. NoReader(thread[t].p)' => NoReader(thread[t].p)
        BY <1>1, <2>4, <2>5 DEF NoReader
      <3>3. Fed(t)'
        <4>1. /\ ffmpeg[q].on = thread[t].on
              /\ Only(pipes[q], thread[t].on) /\ Only(g, thread[t].on)
              /\ ffmpeg[q].left > 0 => End("w", q) \in ffmpeg[q].holds
              /\ \/ Len(g) + Len(pipes[q]) = Chunks - ffmpeg[q].left
                 \/ Len(g) + Len(pipes[q]) = 0 /\ ffmpeg[q].left = 0
          BY <1>3, <2>6, <3>1 DEF Fed, NoReader
        <4>2. Only(Tail(pipes[q]), thread[t].on) /\ Only(more, thread[t].on)
          BY <2>2, <4>1
        <4>3. /\ thread'[t].p = q /\ thread'[t].on = thread[t].on /\ thread'[t].got = more
              /\ pipes'[q] = Tail(pipes[q]) /\ ffmpeg' = ffmpeg
          BY <1>1, <2>3, <2>4, <2>5, <3>1
        <4>4. \/ Len(more) + Len(pipes'[q]) = Chunks - ffmpeg'[q].left
              \/ Len(more) + Len(pipes'[q]) = 0 /\ ffmpeg'[q].left = 0
          BY <2>2, <4>1, <4>3
        <4>5. /\ \A i \in DOMAIN pipes'[q] : pipes'[q][i] = thread[t].on
              /\ \A i \in DOMAIN more : more[i] = thread[t].on
          BY <4>2, <4>3 DEF Only
        <4>6. /\ ffmpeg'[q].on = thread[t].on
              /\ ffmpeg'[q].left > 0 => End("w", q) \in ffmpeg'[q].holds
          BY <4>1, <4>3
        <4> QED
          BY <4>3, <4>4, <4>5, <4>6 DEF Fed, Only
      <3> QED
        BY <1>1, <2>4, <2>5, <3>1, <3>3 DEF Own
    <2>7. Len(pipes') >= Len(pipes) /\ new.p \in 1 .. Len(pipes')
      BY <1>2, <2>3, <2>4
    <2> QED
      BY <1>1, <1>2, <2>3, <2>4, <2>5, <2>6, <2>7, ThreadGoesOn
  <1> QED
    BY <1>1, <1>4, <1>5

(* A save that found nothing to read leaves the frame; another one makes   *)
(* what was read the frame.                                                *)
LEMMA SaveKeeps ==
  ASSUME IInv, NEW t \in Threads, Save(t)
  PROVE  IInv'
  <1> USE Numbers, KindTypes
  <1>0. Shape /\ PipesMade /\ MutexRight /\ OneAtATime /\ Sized /\ OwnFrame
    BY DEF IInv
  <1> DEFINE s == thread[t].on
             g == thread[t].got
             p == thread[t].p
             e == [ffmpeg[p] EXCEPT !.holds = {}, !.left = 0]
  <1>1. /\ thread[t].pc = "save" /\ ~At(t, "idle")
        /\ fd' = [fd EXCEPT ![0] = Closed] /\ ffmpeg' = [ffmpeg EXCEPT ![p] = e]
        /\ \/ g = <<>> /\ Retry(t) /\ UNCHANGED <<contents, size>>
           \/ /\ g # <<>> /\ contents' = [contents EXCEPT ![s] = g]
              /\ size' = [size EXCEPT ![s] = Len(g)] /\ Step(t, "unlock")
        /\ UNCHANGED <<pipes, mutex, overlapped, fed>>
    BY DEF Save, At
  <1>2. /\ p \in 1 .. Len(pipes) /\ s \in Streams /\ g \in Seq(Streams)
        /\ Len(pipes) \in Nat /\ ffmpeg[p] \in Writers
    BY <1>0, <1>1, ThreadFields, PipeTypes DEF PipesMade, Piping, MutexRight
  <1>3. e \in Writers
    <2>1. /\ ffmpeg[p] \in [on : Streams \cup {None}, holds : SUBSET Kinds, left : 0 .. Chunks]
          /\ {} \in SUBSET Kinds /\ 0 \in 0 .. Chunks
      BY <1>2 DEF Writers
    <2>2. /\ e \in [on : Streams \cup {None}, holds : SUBSET Kinds, left : 0 .. Chunks]
          /\ e.left = 0
      BY ONLY <2>1
    <2>3. e.left > 0 => e.on \in Streams
      BY ONLY <2>2
    <2> HIDE DEF e
    <2> QED
      BY ONLY <2>2, <2>3 DEF Writers
  <1> HIDE DEF e
  <1>4. /\ ffmpeg' \in Seq(Writers) /\ Len(ffmpeg') = Len(pipes')
        /\ pipes' \in Seq(Seq(Streams)) /\ fd' \in [Fds -> Kinds]
        /\ \A i \in Fds : fd'[i] = fd[i] \/ fd'[i] = Closed
        /\ Len(pipes') >= Len(pipes)
    BY <1>0, <1>1, <1>2, <1>3, PipeTypes, ExceptSeq DEF Shape
  <1>5. PICK new : /\ Inside(t, new) /\ thread'[t] = new
                   /\ new.pc = "unlock" \/ (new.pc = "pipe" /\ new.got = <<>>)
    <2>1. CASE Retry(t)
      BY <1>0, <1>1, <2>1, RetryInside
    <2>2. CASE Step(t, "unlock")
      <3> DEFINE new == [thread[t] EXCEPT !.pc = "unlock"]
      <3>1. "unlock" \in Pcs /\ Inside(t, new) /\ thread'[t] = new /\ new.pc = "unlock"
        BY <1>0, <2>2, StepInside, ThreadFields DEF Pcs
      <3> HIDE DEF new
      <3> QED
        BY <3>1
    <2> QED
      BY <1>1, <2>1, <2>2
  <1>6. Own(t)' /\ new.pc \notin Piping
    BY <1>5 DEF Own, Piping
  <1>7. CASE g = <<>> /\ UNCHANGED <<contents, size>>
    BY <1>1, <1>4, <1>5, <1>6, <1>7, ThreadGoesOn
  <1>8. CASE /\ g # <<>> /\ contents' = [contents EXCEPT ![s] = g]
             /\ size' = [size EXCEPT ![s] = Len(g)]
    <2>1. /\ MutexRight' /\ OneAtATime'
          /\ thread' \in [Threads -> States]
          /\ mutex' \in [Streams -> Threads \cup {None}] /\ overlapped' \in BOOLEAN
          /\ ~overlapped /\ Own(t)' => \A u \in Threads : Own(u)'
      BY <1>0, <1>1, <1>5, InsideKeeps
    <2>2. /\ contents' \in [Streams -> Seq(Streams) \cup {None}]
          /\ size' = [z \in Streams |-> size'[z]]
          /\ contents'[s] = g /\ size'[s] = Len(g) /\ g # None
          /\ \A z \in Streams : z # s => contents'[z] = contents[z] /\ size'[z] = size[z]
      BY <1>0, <1>2, <1>8, SMTT(30) DEF Shape
    <2>3. Shape'
      BY <1>4, <2>1, <2>2 DEF Shape
    <2>4. \A u \in Threads : u # t => thread'[u] = thread[u]
      BY <1>0, <1>5 DEF Shape, Inside
    <2>5. PipesMade'
      BY <1>0, <1>1, <1>4, <1>5, <1>6, <2>4, SMTT(30) DEF PipesMade
    <2>6. Sized'
      BY <1>0, <2>2 DEF Sized
    <2>7. OwnFrame'
      <3>1. ~overlapped => g = Frame(s)
        BY <1>1, <1>8 DEF IInv, Own
      <3> QED
        BY <1>0, <1>1, <2>2, <3>1 DEF OwnFrame, Frame
    <2> QED
      BY <1>6, <2>1, <2>3, <2>5, <2>6, <2>7, <1>1 DEF IInv
  <1> QED
    BY <1>1, <1>7, <1>8

-----------------------------------------------------------------------------
LEMMA InvariantInitially == Init => IInv
  <1> USE Numbers, KindTypes, IdleType
  <1> SUFFICES ASSUME Init PROVE IInv
    OBVIOUS
  <1>1. pipes = <<>> /\ ffmpeg = <<>> /\ Len(pipes) = 0 /\ Len(ffmpeg) = 0
    BY DEF Init
  <1>2. pipes \in Seq(Seq(Streams)) /\ ffmpeg \in Seq(Writers)
    BY <1>1, EmptySeq
  <1>3. Shape
    BY <1>1, <1>2, ZenonT(60) DEF Init, Shape
  <1>4. PipesMade
    BY DEF Init, PipesMade, Piping, Terminal, Closed
  <1>5. MutexRight /\ OneAtATime
    BY DEF Init, MutexRight, OneAtATime, At
  <1>6. Sized /\ OwnFrame
    BY DEF Init, Sized, OwnFrame
  <1>7. \A t \in Threads : Own(t)
    BY DEF Init, Own
  <1> QED
    BY <1>3, <1>4, <1>5, <1>6, <1>7 DEF IInv

LEMMA InvariantPreserved == IInv /\ [Next]_vars => IInv'
  <1> SUFFICES ASSUME IInv, [Next]_vars PROVE IInv'
    OBVIOUS
  <1>1. ASSUME NEW t \in Threads, ReadLock(t) PROVE IInv'
    BY <1>1, ReadLockKeeps
  <1>2. ASSUME NEW t \in Threads, MakePipe(t) PROVE IInv'
    BY <1>2, MakePipeKeeps
  <1>3. ASSUME NEW t \in Threads, Fork(t) PROVE IInv'
    BY <1>3, ForkKeeps
  <1>4. ASSUME NEW t \in Threads, CloseStdin(t) PROVE IInv'
    BY <1>4, CloseStdinKeeps
  <1>5. ASSUME NEW t \in Threads, Dup(t) PROVE IInv'
    BY <1>5, DupKeeps
  <1>6. ASSUME NEW t \in Threads, CloseEnds(t) PROVE IInv'
    BY <1>6, CloseEndsKeeps
  <1>7. ASSUME NEW t \in Threads, ReadPipe(t) PROVE IInv'
    BY <1>7, ReadPipeKeeps
  <1>8. ASSUME NEW t \in Threads, Save(t) PROVE IInv'
    BY <1>8, SaveKeeps
  <1>9. ASSUME NEW t \in Threads, ReadUnlock(t) PROVE IInv'
    BY <1>9, ReadUnlockKeeps
  <1>10. ASSUME NEW t \in Threads, Release(t) PROVE IInv'
    BY <1>10, ReleaseKeeps
  <1>11. ASSUME NEW p, Ffmpeg(p) PROVE IInv'
    BY <1>11, FfmpegKeeps
  <1>12. CASE ParserOpens
    BY <1>12, ParserOpensKeeps
  <1>13. ASSUME NEW s, Cease(s) PROVE IInv'
    BY <1>13, ZenonT(60) DEF Cease, IInv, Shape, PipesMade, MutexRight, OneAtATime, Sized,
                 OwnFrame, Own, Fed, Only, NoReader, At
  <1>14. CASE UNCHANGED vars
    BY <1>14, ZenonT(60) DEF vars, IInv, Shape, PipesMade, MutexRight, OneAtATime, Sized,
                 OwnFrame, Own, Fed, Only, NoReader, At
  <1> QED
    BY <1>1, <1>2, <1>3, <1>4, <1>5, <1>6, <1>7, <1>8, <1>9, <1>10, <1>11, <1>12, <1>13, <1>14
       DEF Next, Reading

(* What a snapshot's file holds and says it holds is its stream's frame,   *)
(* unless two streams were taken at once, however threads, ffmpeg, failed  *)
(* calls and closed handles follow one another (demuxfs_read(),            *)
(* demuxfs_release(), snapshot.c).                                         *)
THEOREM FramesRight == Spec => []FrameRight
  <1>1. IInv => FrameRight
    BY DEF IInv, Sized, FrameRight, SizeOfFrame
  <1> QED
    BY InvariantInitially, InvariantPreserved, <1>1, PTL DEF Spec
=============================================================================
