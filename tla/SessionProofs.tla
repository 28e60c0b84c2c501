---------------------------- MODULE SessionProofs ----------------------------
(***************************************************************************)
(* Proofs about a run of the program (Session, with StreamDelivery in it): *)
(* a thread that ends by itself, nothing having failed, has read the whole *)
(* file as often as asked; whatever fails on the way, no step uses what is *)
(* not there and nothing is left behind; and the bytes of a stream reach   *)
(* its readers in order, none twice. For files of any length, any bounds.  *)
(***************************************************************************)
EXTENDS Session, SequenceTheorems, TLAPS

-----------------------------------------------------------------------------
(* Packets read and rounds done.  fileloop only becomes -1 by the last     *)
(* `p->fileloop--', with which the thread ends.                            *)
RoundsCounted ==
  /\ option \in FileLoops /\ left \in 0 .. FileLength
  /\ source = "linuxdvb" => ~Counted
  /\ IF Counted
     THEN /\ serial \in Int /\ fileloop \in -1 .. option
          /\ fileloop # -1 => serial = FileLength * (option - fileloop) + FileLength - left
          /\ fileloop = -1 => pc = "done" /\ serial = FileLength * (option + 1)
     ELSE serial = 0 /\ fileloop = -1
  /\ pc = "done" /\ mount = "mounted" /\ ~failed => fileloop = -1

(* The thread's life within the mount's, and the mount's within main().    *)
Begun == {"options", "load", "create", "tune", "locking", "mount"}
LivesNested ==
  /\ stage \in Begun \cup {"serve", "destroy", "unload", "free", "exit"}
  /\ stage \in Begun => mount = "unmounted"
  /\ stage = "serve" <=> mount \in {"mounted", "stopping", "gone"} /\ stage \notin {"destroy", "unload", "free", "exit"}
  /\ mount \in {"unmounted", "mounted", "stopping", "gone"}
  /\ mount = "unmounted" <=> pc = "unborn"
  /\ mount = "gone" => pc = "done"
  /\ mount \in {"mounted", "stopping"} => stage = "serve"

(* What main() has at each of its stages.                                  *)
HasWhatItNeeds ==
  /\ stage \in {"options", "load", "create"} => parser = "none" /\ open = {}
  /\ stage \in {"create", "tune", "locking", "mount", "serve", "destroy", "unload"} => handle
  /\ stage \in {"tune", "locking", "mount", "serve", "destroy"} => parser = "live" /\ open # {}
  /\ stage \in {"unload", "free", "exit"} => parser # "live" /\ open \subseteq {"frontend"}
  /\ stage \in {"options", "load", "free", "exit"} => ~handle
  /\ open \subseteq {"file", "frontend", "dvr", "demux"}
  /\ ~stdin => stage \in {"unload", "free", "exit"} /\ pc = "unborn"
  /\ stage \in {"destroy", "unload", "free", "exit"} /\ ret = "zero" =>
       pc = "done" \/ options.report = "invalid"

IInv == RoundsCounted /\ LivesNested /\ HasWhatItNeeds

-----------------------------------------------------------------------------
LEMMA InitIInv == SessionInit => IInv
<1> SUFFICES ASSUME SessionInit PROVE IInv
  OBVIOUS
<1>1. RoundsCounted
  BY DeliveryAssumption DEF SessionInit, Init, RoundsCounted, Counted
<1>2. LivesNested /\ HasWhatItNeeds
  BY DEF SessionInit, Init, LivesNested, HasWhatItNeeds, Begun
<1> QED BY <1>1, <1>2 DEF IInv

(* A step of the thread, the reader or the unmount.                        *)
LEMMA MountedKeeps ==
  ASSUME IInv, Mounted, UNCHANGED <<stage, boot>>
  PROVE  IInv'
<1>1. /\ option' = option /\ source' = source
      /\ stage' = stage /\ options' = options /\ ret' = ret /\ handle' = handle
      /\ parser' = parser /\ open' = open /\ stdin' = stdin
  BY DEF boot, Mounted, Delivery, TsParserThread, Reader, Stop, Rewind, EndOfFile, ReadFails, ReadPacket,
         ReadDvr, DvrAnswers, OpenFifo, WriteFifo, WriteBroken, OpenReader, ReadFifo, CloseReader,
         Unmount, Join, thread, fifo
<1>2. \/ pc # "unborn" /\ mount # "gone"
      \/ UNCHANGED <<pc, mount, left, fileloop, serial, failed>>
  <2>1. CASE TsParserThread \/ DvrAnswers \/ Unmount \/ Join
    BY <2>1 DEF TsParserThread, Stop, Rewind, EndOfFile, ReadFails, ReadPacket, ReadDvr, DvrAnswers, OpenFifo,
                WriteFifo, WriteBroken, Unmount, Join, IInv, LivesNested
  <2>2. CASE Reader
    BY <2>2 DEF Reader, OpenReader, ReadFifo, CloseReader, thread
  <2> QED BY <2>1, <2>2 DEF Mounted, Delivery
<1>3. /\ pc # "unborn" => pc' # "unborn"
      /\ pc = "done" => pc' = "done"
      /\ mount' \in {mount} \cup IF mount = "mounted" THEN {"stopping"}
                               ELSE IF mount = "stopping" /\ pc = "done" THEN {"gone"} ELSE {}
      /\ pc = "unborn" => pc' = "unborn"
  <2>1. CASE TsParserThread \/ DvrAnswers
    BY <2>1 DEF TsParserThread, Stop, Rewind, EndOfFile, ReadFails, ReadPacket, Parse, ReadDvr, DvrAnswers,
                OpenFifo, WriteFifo, WriteBroken, Finished
  <2>2. CASE Reader \/ Unmount \/ Join
    BY <2>2 DEF Reader, OpenReader, ReadFifo, CloseReader, Unmount, Join, Joined
  <2> QED BY <2>1, <2>2 DEF Mounted, Delivery
<1>4. LivesNested' /\ HasWhatItNeeds'
  BY <1>1, <1>2, <1>3 DEF IInv, LivesNested, HasWhatItNeeds, Begun
<1>5. RoundsCounted'
  <2>1. CASE Rewind
    <3>1. /\ source = "filesrc" /\ left = 0 /\ fileloop # 0 /\ left' = FileLength
          /\ fileloop' = IF fileloop = -1 THEN -1 ELSE fileloop - 1
          /\ serial' = serial /\ failed' = failed /\ pc' = pc /\ mount' = mount /\ pc = "loop"
      BY <2>1 DEF Rewind, Again
    <3>2. CASE Counted
      <4>1. option \in Nat /\ FileLength \in Nat /\ fileloop \in 1 .. option
        BY <1>2, <3>1, <3>2, DeliveryAssumption DEF IInv, RoundsCounted, Counted
      <4>2. FileLength * (option - (fileloop - 1)) = FileLength * (option - fileloop) + FileLength
        BY <4>1
      <4>3. serial = FileLength * (option - fileloop) + FileLength
        BY <3>1, <3>2, <4>1 DEF IInv, RoundsCounted
      <4>4. FileLength * (option - fileloop) \in Int
        BY <4>1
      <4>5. serial' = FileLength * (option' - fileloop') + FileLength - left'
        BY <1>1, <3>1, <4>1, <4>2, <4>3, <4>4
      <4> QED BY <1>1, <3>1, <3>2, <4>1, <4>5 DEF IInv, RoundsCounted, Counted
    <3>3. CASE ~Counted
      BY <1>1, <3>1, <3>3, DeliveryAssumption DEF IInv, RoundsCounted, Counted
    <3> QED BY <3>2, <3>3
  <2>2. CASE EndOfFile
    <3>1. /\ left = 0 /\ fileloop = 0 /\ left' = left /\ fileloop' = fileloop - 1
          /\ serial' = serial /\ pc' = "done"
      BY <2>2 DEF EndOfFile, Again
    <3>2. Counted /\ serial = FileLength * (option - 0) + FileLength - 0
      BY <3>1 DEF IInv, RoundsCounted
    <3>3. option \in Nat /\ FileLength \in Nat
      BY <3>2, DeliveryAssumption DEF IInv, RoundsCounted, Counted
    <3>4. serial = FileLength * (option + 1)
      BY <3>2, <3>3
    <3> QED BY <1>1, <3>1, <3>2, <3>3, <3>4 DEF IInv, RoundsCounted, Counted
  <2>3. CASE ReadPacket
    <3>1. /\ pc = "loop" /\ left > 0 /\ left' = left - 1 /\ fileloop' = fileloop /\ mount' = mount
          /\ serial' = IF Counted THEN serial + 1 ELSE serial
          /\ pc' = "done" => failed'
      BY <2>3 DEF ReadPacket, Parse
    <3>2. CASE Counted
      <4>1. option \in Nat /\ FileLength \in Nat /\ fileloop \in 0 .. option
        BY <3>1, <3>2, DeliveryAssumption DEF IInv, RoundsCounted, Counted
      <4>2. FileLength * (option - fileloop) \in Int
        BY <4>1
      <4>3. serial' = FileLength * (option' - fileloop') + FileLength - left'
        BY <1>1, <3>1, <3>2, <4>1, <4>2 DEF IInv, RoundsCounted
      <4> QED BY <1>1, <3>1, <3>2, <4>1, <4>3 DEF IInv, RoundsCounted, Counted
    <3>3. CASE ~Counted
      BY <1>1, <3>1, <3>3, DeliveryAssumption DEF IInv, RoundsCounted, Counted
    <3> QED BY <3>2, <3>3
  <2>4. CASE DvrAnswers
    <3>1. /\ pc = "reading" /\ left' = left /\ fileloop' = fileloop /\ serial' = serial
          /\ pc' = "done" => failed'
      BY <2>4 DEF DvrAnswers, Parse
    <3> QED BY <1>1, <3>1 DEF IInv, RoundsCounted, Counted
  <2>5. CASE ReadFails
    <3>1. /\ left' = left /\ fileloop' = fileloop /\ serial' = serial
          /\ failed' = TRUE /\ pc' = "done"
      BY <2>5 DEF ReadFails
    <3> QED BY <1>1, <1>2, <3>1 DEF IInv, RoundsCounted, Counted
  <2>6. CASE Stop \/ ReadDvr \/ OpenFifo \/ WriteFifo \/ WriteBroken \/ Reader \/ Unmount \/ Join
    <3>1. /\ UNCHANGED <<left, fileloop, serial, failed>>
          /\ pc' = "done" => pc = "done" \/ mount' # "mounted"
          /\ mount' = "mounted" => mount = "mounted"
      BY <2>6 DEF Stop, Running, ReadDvr, OpenFifo, WriteFifo, WriteBroken, Finished, Reader,
                  OpenReader, ReadFifo, CloseReader, Unmount, Join, thread
    <3> QED BY <1>1, <1>3, <3>1 DEF IInv, RoundsCounted, Counted
  <2> QED BY <2>1, <2>2, <2>3, <2>4, <2>5, <2>6 DEF Mounted, Delivery, TsParserThread
<1> QED BY <1>4, <1>5 DEF IInv

(* A step of main() itself: the thread is not there but for FuseMain's     *)
(* making it.                                                              *)
LEMMA MainKeeps ==
  ASSUME IInv, Main \/ Lock
  PROVE  IInv'
<1>1. CASE ~FuseMain
  <2>1. UNCHANGED vars
    BY <1>1 DEF Main, Lock, ParseOptions, LoadBackend, CreateFilesrc, CreateLinuxdvb, SetFrequency,
                FuseReturns, Destroy, BackendUnload, Exit
  <2>2. /\ pc' = pc /\ mount' = mount /\ source' = source /\ option' = option /\ left' = left
        /\ fileloop' = fileloop /\ serial' = serial /\ failed' = failed
    BY <2>1 DEF vars, thread
  <2>3. RoundsCounted'
    BY <2>2 DEF IInv, RoundsCounted, Counted
  <2>4. ParseOptions \/ LoadBackend \/ CreateFilesrc \/ CreateLinuxdvb \/ SetFrequency
        \/ FuseReturns \/ Destroy \/ BackendUnload \/ Exit \/ Lock
    BY <1>1 DEF Main
  <2>5. CASE ParseOptions
    BY <2>2, <2>3, <2>5 DEF IInv, LivesNested, HasWhatItNeeds, Begun, ParseOptions, OutFree
  <2>6. CASE LoadBackend
    BY <2>2, <2>3, <2>6 DEF IInv, LivesNested, HasWhatItNeeds, Begun, LoadBackend, OutFree
  <2>7. CASE CreateFilesrc
    BY <2>2, <2>3, <2>7 DEF IInv, LivesNested, HasWhatItNeeds, Begun, CreateFilesrc, CreateFails, Created
  <2>8. CASE CreateLinuxdvb
    <3> DEFINE fds == {Devices[i] : i \in DOMAIN Devices}
    <3>1. fds # {} /\ fds \subseteq {"file", "frontend", "dvr", "demux"}
      BY DEF Devices
    <3> HIDE DEF fds
    <3>2. /\ stage = "create" /\ UNCHANGED <<options, handle>>
          /\ \/ stage' = "tune" /\ parser' = "live" /\ open' = fds /\ ret' = ret /\ stdin' = stdin
             \/ stage' = "unload" /\ parser' = parser /\ open' = open /\ ret' = "error"
      BY <2>8 DEF CreateLinuxdvb, CreateFails, Created, fds
    <3> QED BY <2>2, <2>3, <3>1, <3>2 DEF IInv, LivesNested, HasWhatItNeeds, Begun
  <2>9. CASE SetFrequency \/ Lock
    BY <2>2, <2>3, <2>9 DEF IInv, LivesNested, HasWhatItNeeds, Begun, SetFrequency, Lock, TuneFails
  <2>10. CASE FuseReturns
    BY <2>2, <2>3, <2>10 DEF IInv, LivesNested, HasWhatItNeeds, Begun, FuseReturns
  <2>11. CASE Destroy
    BY <2>2, <2>3, <2>11 DEF IInv, LivesNested, HasWhatItNeeds, Begun, Destroy
  <2>12. CASE BackendUnload
    BY <2>2, <2>3, <2>12 DEF IInv, LivesNested, HasWhatItNeeds, Begun, BackendUnload
  <2>13. CASE Exit
    BY <2>2, <2>3, <2>13 DEF IInv, LivesNested, HasWhatItNeeds, Begun, Exit, boot
  <2> QED BY <2>4, <2>5, <2>6, <2>7, <2>8, <2>9, <2>10, <2>11, <2>12, <2>13
<1>2. CASE FuseMain
  <2>1. /\ UNCHANGED <<options, handle, parser, open, stdin, source, option, left, fileloop, serial, failed>>
        /\ stage = "mount"
        /\ \/ /\ pc = "unborn" /\ pc' = "loop" /\ mount' = "mounted"
              /\ stage' = "serve" /\ ret' = ret
           \/ /\ pc' = pc /\ mount' = mount
              /\ stage' = "destroy" /\ ret' = "error"
    BY <1>2 DEF FuseMain, Mount, vars, thread
  <2>2. RoundsCounted'
    BY <2>1 DEF IInv, RoundsCounted, Counted
  <2> QED BY <2>1, <2>2 DEF IInv, LivesNested, HasWhatItNeeds, Begun
<1> QED BY <1>1, <1>2

LEMMA NextIInv == IInv /\ [SessionNext]_all => IInv'
<1> SUFFICES ASSUME IInv, [SessionNext]_all PROVE IInv'
  OBVIOUS
<1>1. CASE UNCHANGED all
  BY <1>1 DEF all, vars, boot, thread, IInv, RoundsCounted, Counted, LivesNested, HasWhatItNeeds, Begun
<1>2. CASE Main \/ Lock
  BY <1>2, MainKeeps
<1>3. CASE Mounted /\ UNCHANGED <<stage, boot>>
  BY <1>3, MountedKeeps
<1> QED BY <1>1, <1>2, <1>3 DEF SessionNext

LEMMA AlwaysIInv == SessionSpec => []IInv
<1> QED BY InitIInv, NextIInv, PTL DEF SessionSpec

-----------------------------------------------------------------------------
(* -o fileloop: a thread that ends by itself has read the file that many   *)
(* times more, and no packet was left out, unless a read or the parsing of *)
(* a packet failed (filesrc_read_packet()).                                *)
THEOREM FileReadOrFailed == SessionSpec => []WholeFile
<1>1. IInv => WholeFile
  <2> SUFFICES ASSUME IInv, pc = "done", mount = "mounted", ~failed
               PROVE  serial = FileLength * (option + 1)
    BY DEF WholeFile
  <2>1. fileloop = -1
    BY DEF IInv, RoundsCounted
  <2>2. CASE Counted
    BY <2>1, <2>2 DEF IInv, RoundsCounted
  <2>3. CASE ~Counted
    BY <2>3, DeliveryAssumption DEF IInv, RoundsCounted, Counted
  <2> QED BY <2>2, <2>3
<1> QED BY <1>1, AlwaysIInv, PTL

(* main(), backend_load() and the backends: on every path from the command *)
(* line to the exit, the thread has its backend while it runs, destroy()   *)
(* its parser, and what was made is given back.                            *)
THEOREM EveryPathCleansUp == SessionSpec => []LifeCycle
<1>1. IInv => LifeCycle
  <2> SUFFICES ASSUME IInv PROVE LifeCycle
    OBVIOUS
  <2>1. ThreadHasBackend
    BY DEF IInv, LivesNested, HasWhatItNeeds, ThreadHasBackend
  <2>2. DestroysLive /\ NothingLeft /\ StatusTells
    BY DEF IInv, LivesNested, HasWhatItNeeds, DestroysLive, NothingLeft, StatusTells
  <2> QED BY <2>1, <2>2 DEF LifeCycle
<1> QED BY <1>1, AlwaysIInv, PTL

-----------------------------------------------------------------------------
(* The bytes on their way: what the reader has last, then the pipe.        *)
Succeeds(a, b) == Later(a, b) /\ (b # NoByte /\ ~Long(b) => Follows(a, b))
Before(i) == IF i = 1 THEN got ELSE pipe[i - 1]
Tip == IF pipe = <<>> THEN got ELSE pipe[Len(pipe)]
Delivering == pc \in {"deliver", "write"}

PipeShape ==
  /\ serial \in Nat /\ chunk \in Shapes \cup {Shape0}
  /\ pipe \in Seq(Bytes) /\ got \in Bytes
  /\ Delivering => chunk \in Shapes
  /\ pc = "reading" => source = "linuxdvb"
  /\ ~reader => got = NoByte

(* Each byte succeeds the one before it; a packet that has nothing in the  *)
(* pipe yet comes after all of them, and only of a long chunk can the end  *)
(* be missing.                                                             *)
Lined ==
  /\ \A i \in 1 .. Len(pipe) : pipe[i].serial > 0 /\ Succeeds(pipe[i], Before(i))
  /\ Tip.serial <= serial
  /\ Delivering => Tip.serial < serial
  /\ Tip = NoByte \/ Long(Tip) \/ Tip.off = Tip.shape.size - 1

BytesInOrder == PipeShape /\ (Counted => Lined)

LEMMA Atoms ==
  /\ NoByte \in Bytes /\ NoByte.serial = 0
  /\ \A s \in Shapes : s.size \in Nat /\ s.lead \in Nat /\ s.lead <= s.size
  /\ Shape0.size \in Nat /\ Shape0.lead \in Nat
  /\ Atomic \in Nat /\ Capacity \in Nat
  /\ \A b \in Bytes : /\ b.serial \in Nat /\ b.off \in Nat
                      /\ b.shape.size \in Nat /\ b.shape.lead \in Nat
<1>1. \A s \in Shapes : s.size \in Nat /\ s.lead \in Nat /\ s.lead <= s.size
  BY DeliveryAssumption
<1>2. Shape0.size \in Nat /\ Shape0.lead \in Nat
  BY DEF Shape0
<1>3. NoByte \in Bytes /\ NoByte.serial = 0
  BY DEF NoByte, Bytes
<1>4. \A b \in Bytes : b.serial \in Nat /\ b.off \in Nat /\ b.shape \in Shapes \cup {Shape0}
  BY DEF Bytes
<1> QED BY <1>1, <1>2, <1>3, <1>4, DeliveryAssumption

LEMMA TipType ==
  ASSUME PipeShape
  PROVE  Tip \in Bytes /\ Len(pipe) \in Nat /\ \A i \in 1 .. Len(pipe) : pipe[i] \in Bytes
<1>1. Len(pipe) \in Nat /\ \A i \in 1 .. Len(pipe) : pipe[i] \in Bytes
  BY LenProperties, ElementOfSeq DEF PipeShape
<1>2. pipe # <<>> => Len(pipe) \in 1 .. Len(pipe)
  BY <1>1, EmptySeq DEF PipeShape
<1> QED BY <1>1, <1>2 DEF Tip, PipeShape

(* Whatever leaves the bytes where they are.                               *)
LEMMA BytesStay ==
  ASSUME BytesInOrder, pipe' = pipe, got' = got, option' = option,
         serial' \in Nat, serial' >= serial,
         Counted => ~Delivering' \/ (Delivering /\ serial' = serial) \/ serial' = serial + 1,
         chunk' \in Shapes \cup {Shape0}, Delivering' => chunk' \in Shapes,
         pc' = "reading" => source' = "linuxdvb",
         ~reader' => got = NoByte
  PROVE  BytesInOrder'
<1>1. PipeShape'
  BY DEF BytesInOrder, PipeShape
<1>2. ASSUME Counted' PROVE Lined'
  <2>1. Counted /\ Lined
    BY <1>2 DEF BytesInOrder, Counted
  <2>2. Tip' = Tip /\ Tip.serial \in Nat /\ serial \in Nat
    BY TipType, Atoms DEF BytesInOrder, Tip, PipeShape
  <2>3. Tip'.serial <= serial' /\ (Delivering' => Tip'.serial < serial')
    BY <2>1, <2>2 DEF Lined
  <2>4. \A i \in 1 .. Len(pipe') : pipe'[i].serial > 0 /\ Succeeds(pipe'[i], Before(i)')
    BY <2>1 DEF Lined, Before
  <2> QED BY <2>1, <2>2, <2>3, <2>4 DEF Lined
<1> QED BY <1>1, <1>2 DEF BytesInOrder

(* The pipe loses what is in it, with nobody to miss it.                   *)
LEMMA BytesLost ==
  ASSUME BytesInOrder, pipe' \in {pipe, <<>>}, got' = NoByte, UNCHANGED thread,
         Delivering' => Delivering, pc' # "reading" \/ pc' = pc
  PROVE  BytesInOrder'
<1>1. /\ serial' = serial /\ option' = option /\ chunk' = chunk /\ source' = source
  BY DEF thread
<1>2. PipeShape'
  BY <1>1, Atoms, EmptySeq DEF BytesInOrder, PipeShape
<1>3. ASSUME Counted' PROVE Lined'
  <2>1. Counted /\ Lined /\ PipeShape
    BY <1>1, <1>3 DEF BytesInOrder, Counted
  <2>2. serial \in Nat /\ Tip.serial \in Nat
    BY <2>1, TipType, Atoms DEF PipeShape
  <2>3. CASE pipe' = <<>>
    <3>1. Tip' = NoByte /\ Len(pipe') = 0
      BY <2>3 DEF Tip
    <3> QED BY <1>1, <2>1, <2>2, <3>1, Atoms DEF Lined
  <2>4. CASE pipe' = pipe /\ pipe # <<>>
    <3>1. Tip' = Tip
      BY <2>4 DEF Tip
    <3>2. ASSUME NEW i \in 1 .. Len(pipe) PROVE Succeeds(pipe[i], Before(i)')
      <4>1. CASE i = 1
        <5>1. pipe[i].serial > 0 /\ Before(i)' = NoByte
          BY <2>1, <4>1 DEF Lined, Before
        <5> QED BY <5>1, Atoms DEF Succeeds, Later
      <4>2. CASE i # 1
        BY <2>1, <2>4, <4>2 DEF Lined, Before
      <4> QED BY <4>1, <4>2
    <3> QED BY <1>1, <2>1, <2>4, <3>1, <3>2 DEF Lined
  <2> QED BY <2>3, <2>4
<1> QED BY <1>2, <1>3 DEF BytesInOrder

LEMMA ReadFifoKeeps ==
  ASSUME BytesInOrder, ReadFifo
  PROVE  BytesInOrder'
<1>1. /\ pipe # <<>> /\ got' = Head(pipe) /\ pipe' = Tail(pipe) /\ reader
      /\ UNCHANGED <<pc, reader, mount>>
      /\ serial' = serial /\ option' = option /\ chunk' = chunk /\ source' = source
  BY DEF ReadFifo, thread
<1>2. PipeShape /\ pipe \in Seq(Bytes) /\ Len(pipe) \in Nat
  BY TipType DEF BytesInOrder, PipeShape
<1>3. /\ got' = pipe[1] /\ got' \in Bytes /\ pipe' \in Seq(Bytes)
      /\ Len(pipe') = Len(pipe) - 1 /\ Len(pipe) # 0
      /\ \A i \in 1 .. Len(pipe') : pipe'[i] = pipe[i + 1]
  BY <1>1, <1>2, HeadTailProperties, EmptySeq
<1>4. PipeShape'
  BY <1>1, <1>2, <1>3 DEF PipeShape, Delivering
<1>5. ASSUME Counted' PROVE Lined'
  <2>1. Counted /\ Lined
    BY <1>1, <1>5 DEF BytesInOrder, Counted
  <2>2. Tip' = Tip
    <3>1. pipe' = <<>> <=> Len(pipe) = 1
      BY <1>2, <1>3, EmptySeq
    <3>2. CASE Len(pipe) = 1
      BY <1>1, <1>3, <3>1, <3>2 DEF Tip
    <3>3. CASE Len(pipe) # 1
      <4>1. Len(pipe') \in 1 .. Len(pipe') /\ Len(pipe') + 1 = Len(pipe)
        BY <1>2, <1>3, <3>3
      <4>2. pipe'[Len(pipe')] = pipe[Len(pipe)]
        BY <1>3, <4>1
      <4> QED BY <1>1, <3>1, <3>3, <4>2 DEF Tip
    <3> QED BY <3>2, <3>3
  <2>3. ASSUME NEW i \in 1 .. Len(pipe')
        PROVE  pipe'[i].serial > 0 /\ Succeeds(pipe'[i], Before(i)')
    <3>1. i + 1 \in 1 .. Len(pipe) /\ i + 1 # 1 /\ (i + 1) - 1 = i
      BY <1>2, <1>3
    <3>2. pipe'[i] = pipe[i + 1] /\ pipe[i + 1].serial > 0
          /\ Succeeds(pipe[i + 1], Before(i + 1))
      BY <1>3, <2>1, <3>1 DEF Lined
    <3>3. Before(i + 1) = pipe[i]
      BY <3>1 DEF Before
    <3>4. Before(i)' = pipe[i]
      <4>1. CASE i = 1
        BY <1>3, <4>1 DEF Before
      <4>2. CASE i # 1
        <5>1. i - 1 \in 1 .. Len(pipe') /\ (i - 1) + 1 = i
          BY <1>2, <1>3, <4>2
        <5> QED BY <1>3, <4>2, <5>1 DEF Before
      <4> QED BY <4>1, <4>2
    <3> QED BY <3>2, <3>3, <3>4
  <2> QED BY <1>1, <2>1, <2>2, <2>3 DEF Lined, Delivering
<1> QED BY <1>4, <1>5 DEF BytesInOrder

(* What write() takes, which is all of a chunk that is not long.           *)
LEMMA Taken ==
  ASSUME PipeShape, pc = "write", Accepted > 0
  PROVE  /\ Accepted \in Nat /\ SubSeq(Payload, 1, Accepted) \in Seq(Bytes)
         /\ Len(SubSeq(Payload, 1, Accepted)) = Accepted
         /\ \A i \in 1 .. Accepted :
              SubSeq(Payload, 1, Accepted)[i] =
                [serial |-> serial, off |-> chunk.lead + i - 1, shape |-> chunk]
         /\ chunk.size - chunk.lead > Atomic \/ Accepted = chunk.size - chunk.lead
<1> DEFINE n == chunk.size - chunk.lead
<1>1. chunk \in Shapes /\ n \in Nat /\ chunk.lead \in Nat /\ chunk.size \in Nat
  <2>1. chunk \in Shapes
    BY DEF PipeShape, Delivering
  <2> QED BY <2>1, Atoms
<1>2. \A i \in 1 .. n :
        [serial |-> serial, off |-> chunk.lead + i - 1, shape |-> chunk] \in Bytes
  BY <1>1 DEF Bytes, PipeShape
<1>3. Payload \in Seq(Bytes) /\ Len(Payload) = n
      /\ \A i \in 1 .. n : Payload[i] = [serial |-> serial, off |-> chunk.lead + i - 1, shape |-> chunk]
  <2>1. Payload = [i \in 1 .. n |-> [serial |-> serial, off |-> chunk.lead + i - 1, shape |-> chunk]]
    BY DEF Payload
  <2> HIDE DEF n
  <2>2. Payload \in [1 .. n -> Bytes]
    BY <1>2, <2>1
  <2>3. Payload \in Seq(Bytes)
    BY <1>1, <2>2, SeqDef
  <2>4. Len(Payload) = n
    BY <1>1, <2>2, <2>3, LenProperties
  <2> QED BY <2>1, <2>3, <2>4
<1>4. Len(pipe) \in Nat /\ Capacity \in Nat /\ Room \in Int
  BY TipType, Atoms DEF Room
<1>5. /\ Accepted \in Nat /\ Accepted <= n
      /\ n > Atomic \/ Accepted = n
  <2>1. Accepted = IF n > Atomic \/ n <= Room THEN least(n, Room) ELSE 0
    BY <1>3 DEF Accepted
  <2> HIDE DEF n
  <2>2. Atomic \in Nat
    BY Atoms
  <2> QED BY <1>1, <1>4, <2>1, <2>2 DEF least
<1> HIDE DEF n
<1>6. /\ SubSeq(Payload, 1, Accepted) \in Seq(Bytes)
      /\ Len(SubSeq(Payload, 1, Accepted)) = Accepted
      /\ \A i \in 1 .. Accepted : SubSeq(Payload, 1, Accepted)[i] = Payload[i]
  <2>1. \A i \in 1 .. Accepted : i \in 1 .. Len(Payload)
    BY <1>1, <1>3, <1>5
  <2>2. /\ SubSeq(Payload, 1, Accepted) \in Seq(Bytes)
        /\ Len(SubSeq(Payload, 1, Accepted)) = Accepted - 1 + 1
        /\ \A i \in 1 .. Accepted - 1 + 1 : SubSeq(Payload, 1, Accepted)[i] = Payload[1 + i - 1]
    BY <1>3, <1>5, <2>1, SubSeqProperties
  <2>3. Accepted - 1 + 1 = Accepted /\ \A i \in 1 .. Accepted : 1 + i - 1 = i
    BY <1>5
  <2> QED BY <2>2, <2>3
<1>7. \A i \in 1 .. Accepted : i \in 1 .. n
  BY <1>1, <1>5
<1> QED BY <1>3, <1>5, <1>6, <1>7 DEF n

LEMMA WriteFifoKeeps ==
  ASSUME BytesInOrder, WriteFifo
  PROVE  BytesInOrder'
<1> DEFINE new == SubSeq(Payload, 1, Accepted)
           n   == Len(pipe)
<1>1. /\ pc = "write" /\ reader /\ Accepted > 0 /\ pipe' = pipe \o new
      /\ pc' = "loop" /\ got' = got /\ reader' = reader
      /\ serial' = serial /\ option' = option /\ chunk' = chunk /\ source' = source
  BY DEF WriteFifo, thread, Finished
<1>2. PipeShape /\ pipe \in Seq(Bytes) /\ n \in Nat /\ Tip \in Bytes
  BY TipType DEF BytesInOrder, PipeShape
<1>3. /\ Accepted \in Nat /\ new \in Seq(Bytes) /\ Len(new) = Accepted
      /\ \A i \in 1 .. Accepted :
           /\ new[i].serial = serial /\ new[i].shape = chunk
           /\ new[i].off = chunk.lead + i - 1
      /\ chunk.size - chunk.lead > Atomic \/ Accepted = chunk.size - chunk.lead
      /\ chunk.lead \in Nat /\ chunk.size \in Nat
  <2>1. chunk \in Shapes
    BY <1>1, <1>2 DEF PipeShape, Delivering
  <2>2. /\ Accepted \in Nat /\ new \in Seq(Bytes) /\ Len(new) = Accepted
        /\ \A i \in 1 .. Accepted :
             new[i] = [serial |-> serial, off |-> chunk.lead + i - 1, shape |-> chunk]
        /\ chunk.size - chunk.lead > Atomic \/ Accepted = chunk.size - chunk.lead
    BY <1>1, <1>2, Taken
  <2> HIDE DEF new
  <2>3. chunk.lead \in Nat /\ chunk.size \in Nat
    BY <2>1, Atoms
  <2> QED BY <2>2, <2>3
<1> HIDE DEF new
<1>4. /\ pipe' \in Seq(Bytes) /\ Len(pipe') = n + Accepted
      /\ \A i \in 1 .. n : pipe'[i] = pipe[i]
      /\ \A i \in n + 1 .. n + Accepted : pipe'[i] = new[i - n]
  <2>1. /\ pipe \o new \in Seq(Bytes) /\ Len(pipe \o new) = n + Accepted
        /\ \A i \in 1 .. n + Accepted : (pipe \o new)[i] = IF i <= n THEN pipe[i] ELSE new[i - n]
    BY <1>2, <1>3, ConcatProperties
  <2>2. /\ \A i \in 1 .. n : i \in 1 .. n + Accepted /\ i <= n
        /\ \A i \in n + 1 .. n + Accepted : i \in 1 .. n + Accepted /\ ~(i <= n)
    BY <1>2, <1>3
  <2> QED BY <1>1, <2>1, <2>2
<1>5. PipeShape'
  BY <1>1, <1>2, <1>4 DEF PipeShape, Delivering
<1>6. pipe' # <<>> /\ Tip' = new[Accepted]
  <2>1. Len(pipe') # 0 /\ n + Accepted \in n + 1 .. n + Accepted /\ (n + Accepted) - n = Accepted
    BY <1>1, <1>2, <1>3, <1>4
  <2>2. pipe' # <<>>
    BY <2>1, EmptySeq
  <2> QED BY <1>4, <2>1, <2>2 DEF Tip
<1>7. ASSUME Counted' PROVE Lined'
  <2>1. Counted /\ Lined /\ Tip.serial < serial /\ Tip.serial \in Nat /\ serial \in Nat
    BY <1>1, <1>2, <1>7, Atoms DEF BytesInOrder, Counted, Lined, Delivering, PipeShape
  <2>2. ASSUME NEW i \in 1 .. n + Accepted
        PROVE  pipe'[i].serial > 0 /\ Succeeds(pipe'[i], Before(i)')
    <3>1. CASE i \in 1 .. n
      <4>1. pipe'[i] = pipe[i] /\ pipe[i].serial > 0 /\ Succeeds(pipe[i], Before(i))
        BY <1>4, <2>1, <3>1 DEF Lined
      <4>2. Before(i)' = Before(i)
        <5>1. i # 1 => i - 1 \in 1 .. n
          BY <1>2, <3>1
        <5> QED BY <1>1, <1>4, <5>1 DEF Before
      <4> QED BY <4>1, <4>2
    <3>2. CASE i = n + 1
      <4>1. i \in n + 1 .. n + Accepted /\ i - n = 1 /\ 1 \in 1 .. Accepted
        BY <1>1, <1>2, <1>3, <3>2
      <4>2. pipe'[i].serial = serial
        BY <1>3, <1>4, <4>1
      <4>3. Before(i)' = Tip
        <5>1. n = 0 <=> pipe = <<>>
          BY <1>2, EmptySeq
        <5>2. n # 0 => i # 1 /\ i - 1 = n /\ n \in 1 .. n
          BY <1>2, <3>2
        <5>3. n = 0 => i = 1
          BY <3>2
        <5> QED BY <1>1, <1>4, <5>1, <5>2, <5>3 DEF Before, Tip
      <4>4. Tip # NoByte /\ ~Long(Tip) => Tip.off = Tip.shape.size - 1
        BY <2>1 DEF Lined
      <4> QED BY <2>1, <4>2, <4>3, <4>4 DEF Succeeds, Later, Follows
    <3>3. CASE i \in n + 2 .. n + Accepted
      <4>1. /\ i \in n + 1 .. n + Accepted /\ i - 1 \in n + 1 .. n + Accepted
            /\ i - n \in 1 .. Accepted /\ (i - 1) - n \in 1 .. Accepted /\ i # 1
        BY <1>2, <1>3, <3>3
      <4>2. /\ pipe'[i].serial = serial /\ pipe'[i].off = chunk.lead + (i - n) - 1
            /\ pipe'[i - 1].serial = serial
            /\ pipe'[i - 1].off = chunk.lead + ((i - 1) - n) - 1
        BY <1>3, <1>4, <4>1
      <4>3. Before(i)' = pipe'[i - 1]
        BY <4>1 DEF Before
      <4>4. pipe'[i].off = pipe'[i - 1].off + 1 /\ pipe'[i - 1].off \in Int
        BY <1>2, <1>3, <4>1, <4>2
      <4> QED BY <2>1, <4>2, <4>3, <4>4 DEF Succeeds, Later, Follows
    <3> QED BY <1>2, <1>3, <3>1, <3>2, <3>3
  <2>3. Tip'.serial = serial /\ Tip'.shape = chunk /\ Tip'.off = chunk.lead + Accepted - 1
    <3>1. Accepted \in 1 .. Accepted
      BY <1>1, <1>3
    <3> QED BY <1>3, <1>6, <3>1
  <2>4. Long(Tip') \/ Tip'.off = Tip'.shape.size - 1
    <3>1. CASE chunk.size - chunk.lead > Atomic
      BY <2>3, <3>1 DEF Long
    <3>2. CASE Accepted = chunk.size - chunk.lead
      <4>1. chunk.lead + Accepted - 1 = chunk.size - 1
        BY <1>3, <3>2
      <4> QED BY <2>3, <4>1
    <3> QED BY <1>3, <3>1, <3>2
  <2> QED BY <1>1, <1>4, <2>1, <2>2, <2>3, <2>4 DEF Lined, Delivering, Long
<1> QED BY <1>5, <1>7 DEF BytesInOrder

LEMMA BytesInitially == SessionInit => BytesInOrder
<1> SUFFICES ASSUME SessionInit PROVE BytesInOrder
  OBVIOUS
<1>1. /\ pc = "unborn" /\ pipe = <<>> /\ got = NoByte /\ serial = 0 /\ chunk = Shape0
      /\ pipe \in Seq(Bytes) /\ Len(pipe) = 0
  BY EmptySeq DEF SessionInit, Init
<1> QED BY <1>1, Atoms DEF BytesInOrder, PipeShape, Lined, Tip, Delivering

LEMMA BytesPreserved == IInv /\ BytesInOrder /\ [SessionNext]_all => BytesInOrder'
<1> SUFFICES ASSUME IInv, BytesInOrder, [SessionNext]_all PROVE BytesInOrder'
  OBVIOUS
<1>0. /\ serial \in Nat /\ serial + 1 >= serial /\ serial >= serial
      /\ chunk \in Shapes \cup {Shape0} /\ (~reader => got = NoByte)
      /\ Delivering => chunk \in Shapes
      /\ pc = "reading" => source = "linuxdvb" /\ ~Counted
  BY DEF BytesInOrder, PipeShape, IInv, RoundsCounted
<1>1. CASE WriteFifo
  BY <1>1, WriteFifoKeeps
<1>2. CASE ReadFifo
  BY <1>2, ReadFifoKeeps
<1>3. CASE WriteBroken \/ CloseReader \/ (Join /\ ~reader)
  <2>1. /\ pipe' \in {pipe, <<>>} /\ got' = NoByte /\ UNCHANGED thread
        /\ pc' \in {pc, "loop"}
    BY <1>0, <1>3 DEF WriteBroken, Broken, CloseReader, Join
  <2> QED BY <2>1, BytesLost DEF Delivering
<1>4. CASE ReadPacket \/ DvrAnswers
  <2>1. /\ pipe' = pipe /\ got' = got /\ option' = option /\ source' = source
        /\ reader' = reader
        /\ serial' = IF Counted THEN serial + 1 ELSE serial
    BY <1>0, <1>4 DEF ReadPacket, DvrAnswers
  <2>2. /\ pc' \in {"deliver", "loop", "done"}
        /\ chunk' \in Shapes \/ (chunk' = chunk /\ pc' # "deliver")
    BY <1>4 DEF ReadPacket, DvrAnswers, Parse
  <2>3. /\ serial' \in Nat /\ serial' >= serial /\ (Counted => serial' = serial + 1)
    BY <1>0, <2>1
  <2> QED BY <1>0, <2>1, <2>2, <2>3, BytesStay DEF Delivering
<1>5. CASE \/ Stop \/ Rewind \/ EndOfFile \/ ReadFails \/ ReadDvr \/ OpenFifo \/ OpenReader \/ Unmount
           \/ (Join /\ reader) \/ (Mount /\ pc = "unborn") \/ UNCHANGED vars
  <2>1. /\ pipe' = pipe /\ got' = got /\ option' = option /\ source' = source
        /\ serial' = serial /\ chunk' = chunk
        /\ reader' = reader \/ reader'
        /\ pc' # "reading" \/ source = "linuxdvb"
        /\ Delivering' => Delivering
    BY <1>0, <1>5 DEF Stop, Rewind, EndOfFile, ReadFails, ReadDvr, OpenFifo, OpenReader, Unmount, Join,
                      Mount, vars, thread, Delivering
  <2> QED BY <1>0, <2>1, BytesStay
<1>6. \/ WriteFifo \/ ReadFifo \/ WriteBroken \/ CloseReader \/ ReadPacket \/ DvrAnswers
      \/ Stop \/ Rewind \/ EndOfFile \/ ReadFails \/ ReadDvr \/ OpenFifo \/ OpenReader \/ Unmount \/ Join
      \/ Mount \/ UNCHANGED vars
  BY DEF SessionNext, Mounted, Delivery, TsParserThread, Reader, Main, Lock, ParseOptions,
         LoadBackend, CreateFilesrc, CreateLinuxdvb, SetFrequency, FuseMain, FuseReturns,
         Destroy, BackendUnload, Exit, all
<1>7. Mount => pc = "unborn"
  BY DEF Mount
<1> QED BY <1>1, <1>2, <1>3, <1>4, <1>5, <1>6, <1>7

(* What a reader gets comes in order, nothing twice, and a chunk of up to  *)
(* PIPE_BUF bytes in one piece, whatever the file, the pipe, its readers   *)
(* and the unmount do (fifo_append(), pes_append_to_fifo()).               *)
THEOREM BytesComeInOrder == SessionSpec => InOrder
<1>1. ASSUME BytesInOrder, [SessionNext]_all
      PROVE  [Counted /\ got' # got /\ got' # NoByte
              => /\ Later(got', got)
                 /\ got # NoByte /\ ~Long(got) => Follows(got', got)]_vars
  <2> SUFFICES ASSUME Counted, got' # got, got' # NoByte
               PROVE  Succeeds(got', got)
    BY DEF Succeeds
  <2>1. ReadFifo
    BY <1>1 DEF SessionNext, Mounted, Delivery, TsParserThread, Reader, Main, Lock, ParseOptions,
         LoadBackend, CreateFilesrc, CreateLinuxdvb, SetFrequency, FuseMain, FuseReturns,
         Destroy, BackendUnload, Exit, all, vars, Mount, Stop, Rewind, EndOfFile, ReadFails, ReadPacket, ReadDvr,
         DvrAnswers, OpenFifo, WriteFifo, WriteBroken, OpenReader, CloseReader, Unmount, Join
  <2>2. /\ got' = pipe[1] /\ 1 \in 1 .. Len(pipe)
    <3>1. pipe \in Seq(Bytes) /\ pipe # <<>> /\ got' = Head(pipe)
      BY <1>1, <2>1 DEF BytesInOrder, PipeShape, ReadFifo
    <3>2. Len(pipe) \in Nat /\ Len(pipe) # 0 /\ Head(pipe) = pipe[1]
      BY <3>1, HeadTailProperties, EmptySeq, LenProperties
    <3> QED BY <3>1, <3>2
  <2> QED BY <1>1, <2>2 DEF BytesInOrder, Lined, Before
<1> QED BY <1>1, BytesInitially, BytesPreserved, AlwaysIInv, PTL DEF SessionSpec, InOrder
=============================================================================
