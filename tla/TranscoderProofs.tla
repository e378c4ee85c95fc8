--------------------------- MODULE TranscoderProofs ---------------------------
(***************************************************************************)
(* Proofs about Transcoder: what the three threads that meet in the muxer  *)
(* write, for any file, any number of buffers and any number of failures.  *)
(***************************************************************************)
EXTENDS Transcoder, FiniteSetTheorems, SequenceTheorems, TLAPS

\* OMXMuxer::Open resets is_ready_write: until then no thread has anything to write.
BeforeOpen == mpc \in {"start", "reader", "player", "setcallback", "muxer"}
Quiet ==
    /\ queue = <<>> /\ device = <<>> /\ written = <<>>
    /\ \A t \in Callers : at[t] = "idle"

\* is_ready_write is set only after the header has been written, and never
\* reset: who has seen it set, main before it takes the lock in particular, may
\* rely on it.
MuxInv ==
    /\ at \in [Callers -> {"idle", "callback", "header", "ready", "push"}]
    /\ ready => header
    /\ \A t \in Callers : at[t] = "ready" => header
    /\ mpc = "write" => ready
    /\ written # <<>> => ready
    /\ BeforeOpen => Quiet

\* Nothing is written at first.
LEMMA InitMuxInv == Init => MuxInv
  BY DEF Init, MuxInv, Quiet, Player!Init

\* Main reads is_ready_write when it chooses to write, and nobody resets it.
LEMMA MainMuxInv == MuxInv /\ MainStep => MuxInv'
<1> SUFFICES ASSUME MuxInv, MainStep PROVE MuxInv'
  OBVIOUS
<1>. USE DEF MuxInv
<1>1. CASE Read
  BY <1>1 DEF Read, poolVars, muxVars, BeforeOpen
<1>2. CASE VideoBranch
  BY <1>2 DEF VideoBranch, poolVars, muxVars, BeforeOpen
<1>3. CASE AudioBranch
  BY <1>3 DEF AudioBranch, EndAudio, poolVars, BeforeOpen
<1>4. CASE AudioWrite
  BY <1>4 DEF AudioWrite, EndAudio, poolVars, BeforeOpen
<1>5. CASE OtherBranch
  BY <1>5 DEF OtherBranch, poolVars, muxVars, BeforeOpen
<1>6. CASE SetUp
  <2>1. CASE OpenMuxer
    BY <1>6, <2>1 DEF OpenMuxer, KeepSetUp, poolVars, BeforeOpen, Quiet, Callers
  <2>2. CASE Exit
    BY <1>6, <2>2 DEF Exit, poolVars, muxVars, BeforeOpen
  <2>3. CASE CheckInput \/ OpenReader \/ OpenPlayer \/ SetCallBack
    BY <1>6, <2>3 DEF CheckInput, OpenReader, OpenPlayer, SetCallBack, KeepSetUp, playerVars,
                      poolVars, BeforeOpen, Quiet
  <2>. QED  BY <1>6, <2>1, <2>2, <2>3 DEF SetUp
<1>. QED  BY <1>1, <1>2, <1>3, <1>4, <1>5, <1>6 DEF MainStep

\* A callback goes from the header to is_ready_write without letting go.
LEMMA CallbackMuxInv ==
    ASSUME MuxInv, NEW t \in Callers, Callback(t)
    PROVE  MuxInv'
<1>. USE DEF MuxInv, mainVars, KeepPool, EndAddPacket, BeforeOpen, Quiet
<1>1. CASE MuxFrame(t)
  BY <1>1 DEF MuxFrame
<1>2. CASE MuxSet(t)
  BY <1>2 DEF MuxSet, ReadyAsBefore
<1>3. CASE MuxHeader(t)
  BY <1>3 DEF MuxHeader
<1>4. CASE MuxReady(t)
  BY <1>4 DEF MuxReady
<1>5. CASE PushBuffer(t)
  BY <1>5 DEF PushBuffer, muxVars
<1>. QED  BY <1>1, <1>2, <1>3, <1>4, <1>5 DEF Callback

\* Every step keeps the invariant.
LEMMA StepMuxInv == MuxInv /\ [Next]_vars => MuxInv'
<1> SUFFICES ASSUME MuxInv, [Next]_vars PROVE MuxInv'
  OBVIOUS
<1>1. CASE MainStep
  BY <1>1, MainMuxInv
<1>2. CASE WorkerDecodes
  BY <1>2 DEF WorkerDecodes, NoRequest, FillThisBuffer, RefuseBuffer, FlushOutput,
              Player!Deliver, MuxInv, BeforeOpen, Quiet, mainVars, muxVars, Callers
<1>3. CASE EncoderEmits \/ EncoderFlushes
  BY <1>3 DEF EncoderEmits, EncoderFlushes, EncoderReturns, MuxInv, BeforeOpen,
              Quiet, mainVars, muxVars, Callers
<1>4. CASE \E t \in Callers : Callback(t)
  BY <1>4, CallbackMuxInv
<1>5. CASE WorkerTakes \/ WorkerStalls
  <2>1. BeforeOpen => queue = <<>>
    BY DEF MuxInv, Quiet
  <2>. QED
    BY <1>5, <2>1 DEF WorkerTakes, WorkerStalls, MuxInv, BeforeOpen, Quiet, mainVars, poolVars,
                      muxVars
<1>6. CASE Ended \/ UNCHANGED vars
  BY <1>6 DEF Ended, vars, mainVars, playerVars, poolVars, muxVars, MuxInv, BeforeOpen, Quiet
<1>. QED  BY <1>1, <1>2, <1>3, <1>4, <1>5, <1>6 DEF Next

\* OMXMuxer: the invariant in every state of every run.
THEOREM MuxInvariant == Spec => []MuxInv
<1>. QED  BY InitMuxInv, StepMuxInv, PTL DEF Spec

\* Nothing is written before the header, whichever thread writes.
THEOREM HeaderIsFirst == Spec => []HeaderFirst
<1>1. MuxInv => HeaderFirst
  BY DEF MuxInv, HeaderFirst
<1>. QED  BY <1>1, MuxInvariant, PTL

\* A step may drop audio or video only while nothing has been written.
LEMMA DropStep ==
    MuxInv /\ [Next]_vars => [written # <<>> => skipped' = skipped]_vars
<1> SUFFICES ASSUME MuxInv, Next, ready PROVE skipped' = skipped
  BY DEF MuxInv
<1>1. CASE MainStep
  BY <1>1 DEF MainStep, SetUp, CheckInput, OpenReader, OpenPlayer, SetCallBack, OpenMuxer, Exit,
              KeepSetUp, Read, VideoBranch, AudioBranch, AudioWrite, EndAudio,
              OtherBranch, muxVars
<1>2. CASE WorkerTakes \/ WorkerStalls \/ WorkerDecodes \/ EncoderEmits \/ EncoderFlushes \/ Ended
  BY <1>2 DEF Ended, vars, WorkerTakes, WorkerStalls, WorkerDecodes, EncoderEmits,
              EncoderFlushes, EncoderReturns, muxVars
<1>3. CASE \E t \in Callers : Callback(t)
  BY <1>3 DEF Callback, MuxFrame, MuxSet, MuxHeader, MuxReady, PushBuffer, muxVars
<1>. QED  BY <1>1, <1>2, <1>3 DEF Next

\* Once anything is in the file, nothing more is left out of it.
THEOREM NothingLeftOut == Spec => NothingDroppedOnceBegun
<1>. QED  BY MuxInvariant, DropStep, PTL DEF Spec, NothingDroppedOnceBegun

-----------------------------------------------------------------------------
(***************************************************************************)
(* The packets and the buffers.                                            *)
(***************************************************************************)

\* The player drops nothing, and has been given no more than was read.
QueueInv ==
    /\ Len(delivered) + Len(queue) = Len(handed)
    /\ Len(handed) <= pos
    /\ pkt # Nothing => Len(handed) < pos

\* At most one of main and the reader holds a packet: the one read last.
HandInv ==
    /\ pkt # Nothing =>
          /\ pkt = pos /\ avpkt = Nothing
          /\ codec = CodecOf(KindOf(pkt)) /\ ~IsAudioIndex(KindOf(pkt))
          /\ pkt \notin lost /\ pkt \notin freed
    /\ avpkt # Nothing =>
          /\ avpkt = pos
          /\ HasAudio => KindOf(avpkt) = "audio" /\ codec = "audio"
          /\ avpkt \notin WrittenAudio
    /\ pkt # Nothing \/ avpkt # Nothing => pos \notin Range(handed)

\* Where main is says what may be in hand: nothing in the set-up, no audio when
\* it reads, and in the muxer nothing but audio.
BranchInv ==
    /\ mpc \notin {"loop", "dispatch", "write"} => pkt = Nothing /\ avpkt = Nothing
    /\ mpc = "write" => IsAudio
    /\ HasAudio /\ mpc \notin {"dispatch", "write"} => avpkt = Nothing

\* While the worker waits for room, it has neither a callback nor a flush to do.
WorkerInv == hand \in {"held", "stuck"} => at["worker"] = "idle" /\ flushing = 0

IInv == TypeOK /\ BuffersKept /\ QueueInv /\ HandInv /\ BranchInv /\ PacketFate
            /\ AudioInOrder /\ WorkerInv

-----------------------------------------------------------------------------
(***************************************************************************)
(* Lemmas about the operators of Transcoder.                               *)
(***************************************************************************)

\* What the proofs use of the assumption on the files and the limits.
LEMMA Constants ==
    /\ EncBuffers \in Nat /\ MaxUnfilled \in Nat
    /\ \A f \in Inputs : /\ f.streams \in Seq(Kinds)
                         /\ f.packets \in Seq(DOMAIN f.streams)
  BY TranscoderAssumption DEF InputSet

LEMMA KindIsKnown ==
    ASSUME input \in Inputs
    PROVE  /\ Len(input.packets) \in Nat
           /\ \A p \in Packets : KindOf(p) \in Kinds
<1>1. input.streams \in Seq(Kinds) /\ input.packets \in Seq(DOMAIN input.streams)
  BY Constants
<1>2. ASSUME NEW p \in Packets PROVE KindOf(p) \in Kinds
  <2>1. input.packets[p] \in DOMAIN input.streams
    BY <1>1 DEF Packets
  <2>. QED  BY <1>1, <2>1 DEF KindOf, StreamOf
<1>. QED  BY <1>1, <1>2

\* Appending to a sequence, and taking its first element.
LEMMA Appended ==
    ASSUME NEW S, NEW q \in Seq(S), NEW e \in S
    PROVE  /\ Append(q, e) \in Seq(S)
           /\ Len(Append(q, e)) = Len(q) + 1
           /\ \A i \in 1 .. Len(q) : Append(q, e)[i] = q[i]
           /\ Append(q, e)[Len(q) + 1] = e
           /\ Range(Append(q, e)) = Range(q) \cup {e}
<1>1. /\ Append(q, e) \in Seq(S) /\ Len(Append(q, e)) = Len(q) + 1
      /\ \A i \in 1 .. Len(q) : Append(q, e)[i] = q[i]
      /\ Append(q, e)[Len(q) + 1] = e
  OBVIOUS
<1>2. DOMAIN Append(q, e) = DOMAIN q \cup {Len(q) + 1} /\ DOMAIN q = 1 .. Len(q)
  OBVIOUS
<1>3. Range(Append(q, e)) = Range(q) \cup {e}
  BY <1>1, <1>2 DEF Range
<1>. QED  BY <1>1, <1>3

LEMMA Shortened ==
    ASSUME NEW S, NEW q \in Seq(S), q # <<>>
    PROVE  /\ Head(q) \in S /\ Tail(q) \in Seq(S)
           /\ Len(Tail(q)) = Len(q) - 1 /\ Len(q) \in Nat \ {0}
  OBVIOUS

\* How many threads are in a callback.
Busy(a) == {t \in Callers : a[t] # "idle"}

LEMMA BusyCount ==
    ASSUME NEW a
    PROVE  Cardinality(Busy(a)) = (IF a["worker"] = "idle" THEN 0 ELSE 1)
                                   + (IF a["encoder"] = "idle" THEN 0 ELSE 1)
<1>1. CASE a["worker"] = "idle" /\ a["encoder"] = "idle"
  <2>1. Busy(a) = {}
    BY <1>1 DEF Busy, Callers
  <2>. QED  BY <1>1, <2>1, FS_EmptySet
<1>2. CASE a["worker"] # "idle" /\ a["encoder"] = "idle"
  <2>1. Busy(a) = {"worker"}
    BY <1>2 DEF Busy, Callers
  <2>2. Cardinality(Busy(a)) = 1
    BY <2>1, FS_Singleton
  <2>. QED  BY <1>2, <2>2
<1>3. CASE a["worker"] = "idle" /\ a["encoder"] # "idle"
  <2>1. Busy(a) = {"encoder"}
    BY <1>3 DEF Busy, Callers
  <2>2. Cardinality(Busy(a)) = 1
    BY <2>1, FS_Singleton
  <2>. QED  BY <1>3, <2>2
<1>4. CASE a["worker"] # "idle" /\ a["encoder"] # "idle"
  <2>1. Busy(a) = {"worker"} \cup {"encoder"} /\ "encoder" \notin {"worker"}
    BY <1>4 DEF Busy, Callers
  <2>2. IsFiniteSet({"worker"}) /\ Cardinality({"worker"}) = 1
    BY FS_Singleton
  <2>3. Cardinality(Busy(a)) = 1 + 1
    BY <2>1, <2>2, FS_AddElement
  <2>. QED  BY <1>4, <2>3
<1>. QED  BY <1>1, <1>2, <1>3, <1>4

\* What the muxer appends to the output: a frame changes nothing for the audio,
\* an audio packet that is later than all before it keeps the order.
LEMMA WrittenGrows ==
    ASSUME NEW w \in Output, written \in Seq(Output), written' = Append(written, w),
           InOrder("audio"),
           w.kind = "audio" => \A p \in WrittenAudio : p < w.id
    PROVE  /\ InOrder("audio")'
           /\ WrittenAudio' = WrittenAudio \cup (IF w.kind = "audio" THEN {w.id} ELSE {})
<1>1. /\ Len(written') = Len(written) + 1 /\ Len(written) \in Nat
      /\ \A i \in 1 .. Len(written) : written'[i] = written[i]
      /\ written'[Len(written) + 1] = w
  BY Appended
<1>2. Written("audio")' = Written("audio")
                             \cup (IF w.kind = "audio" THEN {Len(written) + 1} ELSE {})
  BY <1>1 DEF Written
<1>3. Written("audio") \subseteq 1 .. Len(written)
  BY DEF Written
<1>4. WrittenAudio' = WrittenAudio \cup (IF w.kind = "audio" THEN {w.id} ELSE {})
  <2>1. CASE w.kind = "audio"
    BY <1>1, <1>2, <1>3, <2>1 DEF WrittenAudio
  <2>2. CASE w.kind # "audio"
    BY <1>1, <1>2, <1>3, <2>2 DEF WrittenAudio
  <2>. QED  BY <2>1, <2>2
<1>5. InOrder("audio")'
  <2>. SUFFICES ASSUME NEW i \in Written("audio")', NEW j \in Written("audio")', i < j
                PROVE  written'[i].id < written'[j].id
    BY DEF InOrder
  <2>1. i \in Written("audio") /\ written'[i] = written[i]
    BY <1>1, <1>2, <1>3
  <2>2. CASE j \in Written("audio")
    BY <1>1, <1>3, <2>1, <2>2 DEF InOrder
  <2>3. CASE j \notin Written("audio")
    <3>1. w.kind = "audio" /\ j = Len(written) + 1
      BY <1>2, <2>3
    <3>2. written[i].id \in WrittenAudio
      BY <2>1 DEF WrittenAudio
    <3>. QED  BY <1>1, <2>1, <3>1, <3>2
  <2>. QED  BY <2>2, <2>3
<1>. QED  BY <1>4, <1>5

\* The kinds of what goes into the output.
LEMMA BufferKinds ==
    ASSUME NEW b \in Buffers, b.kind # "set"
    PROVE  b \in Output /\ b.kind # "audio" /\ \A p : b # Audio(p)
  BY DEF Buffers, Output, Frames, Frame, ParamSet, Blank, Audio

-----------------------------------------------------------------------------
(***************************************************************************)
(* Steps of the other threads: they move the buffers of the encoder and    *)
(* what the player holds, and no packet of main or the reader.             *)
(***************************************************************************)

\* A step that moves no packet.
Still ==
    /\ UNCHANGED <<readerVars, pkt, handed, freed, leaked>>
    /\ WrittenAudio' = WrittenAudio /\ SkippedAudio' = SkippedAudio
    /\ InOrder("audio")'

LEMMA StillKeeps ==
    ASSUME IInv, Still
    PROVE  HandInv' /\ PacketFate' /\ AudioInOrder'
<1>. USE DEF Still, readerVars
<1>1. HasAudio' = HasAudio /\ \A p : KindOf(p)' = KindOf(p)
  BY DEF HasAudio, KindOf, StreamOf
<1>2. HandInv'
  BY <1>1 DEF IInv, HandInv, KindOf, StreamOf, IsAudioIndex
<1>3. PacketFate'
  BY <1>1 DEF IInv, PacketFate
<1>4. AudioInOrder'
  BY <1>1 DEF IInv, AudioInOrder
<1>. QED  BY <1>2, <1>3, <1>4

\* None of these steps moves a packet but what the muxer does with a frame.
Others ==
    \/ WorkerTakes \/ WorkerStalls \/ WorkerDecodes \/ EncoderEmits \/ EncoderFlushes
    \/ \E t \in Callers : Callback(t)

LEMMA OthersAreStill ==
    ASSUME IInv, Others
    PROVE  Still /\ UNCHANGED mainVars
<1>1. CASE WorkerTakes \/ WorkerStalls \/ WorkerDecodes \/ EncoderEmits \/ EncoderFlushes
  <2>1. UNCHANGED <<readerVars, mainVars, written, skipped>>
    BY <1>1 DEF WorkerTakes, WorkerStalls, WorkerDecodes, EncoderEmits,
                EncoderFlushes, EncoderReturns, muxVars
  <2>2. WrittenAudio' = WrittenAudio /\ InOrder("audio")'
    BY <2>1 DEF WrittenAudio, Written, InOrder, IInv, AudioInOrder
  <2>3. SkippedAudio' = SkippedAudio
    BY <2>1 DEF SkippedAudio, Packets, readerVars
  <2>. QED  BY <2>1, <2>2, <2>3 DEF Still, mainVars
<1>2. ASSUME NEW t \in Callers, Callback(t) PROVE Still /\ UNCHANGED mainVars
  <2>1. UNCHANGED <<readerVars, mainVars>>
    BY <1>2 DEF Callback, MuxFrame, MuxSet, MuxHeader, MuxReady, PushBuffer
  <2>2. Packets' = Packets
    BY <2>1 DEF Packets, readerVars
  <2>3. CASE UNCHANGED <<written, skipped>>
    <3>1. WrittenAudio' = WrittenAudio /\ InOrder("audio")'
      BY <2>3 DEF WrittenAudio, Written, InOrder, IInv, AudioInOrder
    <3>2. SkippedAudio' = SkippedAudio
      BY <2>2, <2>3 DEF SkippedAudio
    <3>. QED  BY <2>1, <3>1, <3>2 DEF Still, mainVars
  <2>4. CASE MuxFrame(t)
    <3>1. buf[t] \in Buffers /\ buf[t].kind # "set"
      BY <2>4 DEF MuxFrame, IInv, TypeOK, PoolOK
    <3>2. buf[t] \in Output /\ buf[t].kind # "audio" /\ \A p : buf[t] # Audio(p)
      BY <3>1, BufferKinds
    <3>3. CASE written' = Append(written, buf[t]) /\ UNCHANGED skipped
      <4>1. written \in Seq(Output) /\ InOrder("audio")
        BY DEF IInv, TypeOK, MuxOK, AudioInOrder
      <4>2. InOrder("audio")' /\ WrittenAudio' = WrittenAudio
        BY <3>2, <3>3, <4>1, WrittenGrows
      <4>3. SkippedAudio' = SkippedAudio
        BY <2>2, <3>3 DEF SkippedAudio
      <4>. QED  BY <2>1, <4>2, <4>3 DEF Still, mainVars
    <3>4. CASE skipped' = skipped \cup {buf[t]} /\ UNCHANGED written
      <4>1. WrittenAudio' = WrittenAudio /\ InOrder("audio")'
        BY <3>4 DEF WrittenAudio, Written, InOrder, IInv, AudioInOrder
      <4>2. SkippedAudio' = SkippedAudio
        BY <2>2, <3>2, <3>4 DEF SkippedAudio
      <4>. QED  BY <2>1, <4>1, <4>2 DEF Still, mainVars
    <3>. QED  BY <2>4, <3>3, <3>4 DEF MuxFrame
  <2>. QED
    BY <1>2, <2>3, <2>4 DEF Callback, MuxSet, MuxHeader, MuxReady, PushBuffer, muxVars
<1>. QED  BY <1>1, <1>2 DEF Others

\* So what is about packets is kept, ...
LEMMA OthersReader ==
    ASSUME IInv, Others
    PROVE  ReaderOK' /\ HandInv' /\ BranchInv' /\ PacketFate' /\ AudioInOrder'
<1>1. Still /\ UNCHANGED mainVars
  BY OthersAreStill
<1>2. HandInv' /\ PacketFate' /\ AudioInOrder'
  BY <1>1, StillKeeps
<1>3. Packets' = Packets /\ HasAudio' = HasAudio /\ IsAudio' = IsAudio
  BY <1>1 DEF Still, Packets, HasAudio, IsAudio, IsVideo, KindOf, StreamOf, readerVars,
              mainVars
<1>4. ReaderOK'
  BY <1>1, <1>3 DEF Still, IInv, TypeOK, ReaderOK, readerVars, mainVars
<1>5. BranchInv'
  BY <1>1, <1>3 DEF Still, IInv, BranchInv, readerVars, mainVars
<1>. QED  BY <1>2, <1>4, <1>5

\* ... the player hands on what it was given, ...
LEMMA OthersPlayer ==
    ASSUME IInv, Others
    PROVE  PlayerOK' /\ QueueInv'
<1>1. UNCHANGED <<readerVars, mainVars>>
  BY OthersAreStill DEF Still
<1>2. Packets' = Packets
  BY <1>1 DEF Packets, readerVars
<1>0. hand' \in {"empty", "held", "stuck", "absent"}
  BY DEF Others, WorkerTakes, WorkerStalls, WorkerDecodes, EncoderEmits, EncoderFlushes,
         EncoderReturns, Callback, MuxFrame, MuxSet, MuxHeader, MuxReady, PushBuffer, playerVars,
         IInv, TypeOK, PlayerOK
<1>3. CASE UNCHANGED <<queue, delivered, dropping>>
  BY <1>0, <1>1, <1>2, <1>3 DEF IInv, TypeOK, PlayerOK, QueueInv, readerVars, mainVars
<1>4. CASE Player!Deliver
  <2>. USE DEF Player!Deliver, IInv, TypeOK, PlayerOK
  <2>1. /\ queue # <<>> /\ queue' = Tail(queue) /\ delivered' = Append(delivered, Head(queue))
        /\ UNCHANGED dropping
    BY <1>4
  <2>2. /\ queue' \in Seq(Packets) /\ Len(queue') = Len(queue) - 1
        /\ Len(queue) \in Nat \ {0} /\ Head(queue) \in Packets
    BY <2>1, Shortened
  <2>3. delivered' \in Seq(Packets) /\ Len(delivered') = Len(delivered) + 1
    BY <2>1, <2>2, Appended
  <2>4. PlayerOK'
    BY <1>0, <1>1, <1>2, <2>1, <2>2, <2>3 DEF mainVars
  <2>5. QueueInv'
    <3>1. Len(delivered) + Len(queue) = Len(handed) /\ Len(delivered) \in Nat
      BY DEF QueueInv
    <3>2. QueueInv
      OBVIOUS
    <3>. HIDE DEF IInv, TypeOK, PlayerOK, Player!Deliver
    <3>3. Len(delivered') + Len(queue') = Len(handed)
      BY <2>2, <2>3, <3>1, SMTT(30)
    <3>. QED  BY <1>1, <3>2, <3>3 DEF QueueInv, mainVars, readerVars
  <2>. QED  BY <2>4, <2>5
<1>. QED
  BY <1>3, <1>4 DEF Others, WorkerTakes, WorkerStalls, WorkerDecodes, EncoderEmits, EncoderFlushes,
                    EncoderReturns, Callback, MuxFrame, MuxSet, MuxHeader, MuxReady, PushBuffer,
                    playerVars

\* ... the buffers of the encoder stay in the pool, with it or in a callback ...
LEMMA OthersPool ==
    ASSUME IInv, PlayerOK', Others
    PROVE  PoolOK' /\ BuffersKept'
<1>. DEFINE n(a) == (IF a["worker"] = "idle" THEN 0 ELSE 1)
                     + (IF a["encoder"] = "idle" THEN 0 ELSE 1)
<1>1. UNCHANGED <<readerVars, mainVars>>
  BY OthersAreStill DEF Still
<1>2. Buffers' = Buffers
  BY <1>1 DEF Buffers, Frames, readerVars
<1>3. /\ Len(avail) + Len(device) + n(at) = EncBuffers
      /\ BuffersKept' <=> Len(avail') + Len(device') + n(at') = EncBuffers
  <2>1. Cardinality(Busy(at)) = n(at) /\ Cardinality(Busy(at')) = n(at')
    BY BusyCount
  <2>. QED  BY <2>1 DEF IInv, BuffersKept, Busy
<1>4. /\ avail \in Seq(Buffers) /\ device \in Seq(Buffers)
      /\ Len(avail) \in Nat /\ Len(device) \in Nat
      /\ flushing \in 0 .. Len(device)
      /\ at \in [Callers -> {"idle", "callback", "header", "ready", "push"}]
      /\ buf \in [Callers -> Buffers]
      /\ sets \in Nat /\ frames \in 0 .. Len(delivered)
      /\ unfilled \in 0 .. MaxUnfilled
  BY DEF IInv, TypeOK, PoolOK
<1>5. EncBuffers \in Nat /\ MaxUnfilled \in Nat
  BY Constants
<1>6. Len(delivered) \in Nat /\ Len(delivered') \in Nat /\ delivered' \in Seq(Packets')
  BY DEF IInv, TypeOK, PlayerOK
<1>7. CASE WorkerDecodes
  <2>1. /\ at["worker"] = "idle" /\ flushing = 0 /\ UNCHANGED <<sets, frames>>
        /\ delivered' = Append(delivered, Head(queue)) /\ queue # <<>>
    BY <1>7 DEF WorkerDecodes, Player!Deliver, IInv, WorkerInv
  <2>2. frames' \in 0 .. Len(delivered') /\ sets' \in Nat
    <3>1. Head(queue) \in Packets /\ delivered \in Seq(Packets)
      BY <2>1 DEF IInv, TypeOK, PlayerOK
    <3>2. Len(delivered') = Len(delivered) + 1
      BY <2>1, <3>1, Appended
    <3>. QED  BY <1>4, <1>6, <2>1, <3>2
  <2>3. CASE NoRequest
    BY <1>2, <1>3, <1>4, <2>2, <2>3 DEF NoRequest, IInv, TypeOK, PoolOK
  <2>4. CASE FillThisBuffer
    <3>1. /\ avail # <<>> /\ avail' = Tail(avail) /\ device' = Append(device, Head(avail))
          /\ UNCHANGED <<flushing, at, buf, unfilled>>
      BY <2>4 DEF FillThisBuffer, TakeBuffer
    <3>2. /\ avail' \in Seq(Buffers) /\ Len(avail') = Len(avail) - 1
          /\ Head(avail) \in Buffers
      BY <1>4, <3>1, Shortened
    <3>3. device' \in Seq(Buffers) /\ Len(device') = Len(device) + 1
      BY <1>4, <3>1, <3>2, Appended
    <3>. HIDE DEF n
    <3>4. Len(avail') + Len(device') + n(at') = Len(avail) + Len(device) + n(at)
      BY <1>4, <3>1, <3>2, <3>3 DEF n
    <3>. QED
      BY <1>2, <1>3, <1>4, <2>1, <2>2, <3>1, <3>2, <3>3, <3>4, Constants
      DEF IInv, TypeOK, PoolOK
  <2>5. CASE RefuseBuffer
    <3>1. /\ avail # <<>> /\ avail' = Tail(avail) /\ unfilled < MaxUnfilled
          /\ unfilled' = unfilled + 1
          /\ at' = [at EXCEPT !["worker"] = "callback"]
          /\ buf' = [buf EXCEPT !["worker"] = Head(avail)]
          /\ UNCHANGED <<device, flushing>>
      BY <2>5 DEF RefuseBuffer, TakeBuffer
    <3>2. /\ avail' \in Seq(Buffers) /\ Len(avail') = Len(avail) - 1
          /\ Head(avail) \in Buffers
      BY <1>4, <3>1, Shortened
    <3>3. n(at') = n(at) + 1
      BY <1>4, <2>1, <3>1 DEF Callers
    <3>4. n(at) \in Nat
      OBVIOUS
    <3>. HIDE DEF n
    <3>5. Len(avail') + Len(device') + n(at') = Len(avail) + Len(device) + n(at)
      BY <1>4, <3>1, <3>2, <3>3, <3>4
    <3>6. Len(avail') + Len(device') <= EncBuffers
      BY <1>4, <3>1, <3>2, <1>3, <3>4, <1>5
    <3>7. /\ at' \in [Callers -> {"idle", "callback", "header", "ready", "push"}]
          /\ buf' \in [Callers -> Buffers]
      BY <1>4, <3>1, <3>2
    <3>8. unfilled' \in 0 .. MaxUnfilled /\ flushing' \in 0 .. Len(device')
      BY <1>4, <1>5, <3>1
    <3>9. BuffersKept'
      BY <1>3, <3>5
    <3>. QED
      BY <1>2, <1>4, <2>2, <3>1, <3>2, <3>6, <3>7, <3>8, <3>9 DEF PoolOK
  <2>6. CASE FlushOutput
    <3>1. /\ flushing' = Len(device) /\ unfilled' = unfilled + Len(device)
          /\ unfilled + Len(device) <= MaxUnfilled
          /\ UNCHANGED <<avail, device, at, buf>>
      BY <2>6 DEF FlushOutput
    <3>. HIDE DEF n
    <3>. QED
      BY <1>2, <1>3, <1>4, <1>5, <2>2, <3>1, SMTT(30) DEF IInv, TypeOK, PoolOK
  <2>. QED  BY <1>7, <2>3, <2>4, <2>5, <2>6 DEF WorkerDecodes
<1>8. ASSUME NEW b \in Buffers, EncoderReturns(b),
             flushing' \in 0 .. Len(device) - 1,
             sets' \in Nat, frames' \in 0 .. Len(delivered)
      PROVE  PoolOK' /\ BuffersKept'
  <2>1. /\ device # <<>> /\ at["encoder"] = "idle"
        /\ at' = [at EXCEPT !["encoder"] = "callback"]
        /\ buf' = [buf EXCEPT !["encoder"] = b]
        /\ device' = Tail(device)
        /\ UNCHANGED <<avail, unfilled, delivered>>
    BY <1>8 DEF EncoderReturns, playerVars
  <2>2. device' \in Seq(Buffers) /\ Len(device') = Len(device) - 1
    BY <1>4, <2>1, Shortened
  <2>3. n(at') = n(at) + 1 /\ n(at) \in Nat
    BY <1>4, <2>1 DEF Callers
  <2>. HIDE DEF n
  <2>4. BuffersKept' /\ Len(avail') + Len(device') <= EncBuffers
    BY <1>3, <1>4, <1>5, <2>1, <2>2, <2>3
  <2>5. /\ at' \in [Callers -> {"idle", "callback", "header", "ready", "push"}]
        /\ buf' \in [Callers -> Buffers]
    BY <1>4, <2>1
  <2>. QED
    BY <1>2, <1>4, <1>8, <2>1, <2>2, <2>4, <2>5 DEF PoolOK
<1>9. CASE EncoderEmits
  <2>1. PICK b \in Emissible :
           /\ EncoderReturns(b)
           /\ sets' = IF b.kind = "set" THEN sets + 1 ELSE sets
           /\ frames' = IF b.kind = "set" THEN frames ELSE b.id
           /\ flushing = 0 /\ flushing' = 0
    BY <1>9 DEF EncoderEmits
  <2>2. Len(delivered) <= Len(input.packets) /\ Len(input.packets) \in Nat
    BY <1>6, KindIsKnown DEF IInv, TypeOK, ReaderOK, PlayerOK, QueueInv
  <2>3. \/ \E s \in ParamSets : b = ParamSet(s)
        \/ \E k \in frames + 1 .. Len(delivered) : b = Frame(k)
    BY <2>1 DEF Emissible
  <2>4. b \in Buffers /\ sets' \in Nat /\ frames' \in 0 .. Len(delivered)
    BY <1>4, <2>1, <2>2, <2>3 DEF Buffers, Frames, Frame, ParamSet
  <2>5. flushing' \in 0 .. Len(device) - 1
    BY <1>4, <2>1 DEF EncoderReturns
  <2>. QED  BY <1>8, <2>1, <2>4, <2>5
<1>10. CASE EncoderFlushes
  <2>1. /\ flushing > 0 /\ flushing' = flushing - 1 /\ UNCHANGED <<sets, frames>>
        /\ EncoderReturns(Blank) \/ EncoderReturns(Head(device))
    BY <1>10 DEF EncoderFlushes
  <2>2. flushing' \in 0 .. Len(device) - 1 /\ sets' \in Nat /\ frames' \in 0 .. Len(delivered)
    BY <1>4, <2>1
  <2>3. Blank \in Buffers /\ Head(device) \in Buffers
    BY <1>4, <2>1 DEF Buffers
  <2>. QED  BY <1>8, <2>1, <2>2, <2>3
<1>11. ASSUME NEW t \in Callers, Callback(t) PROVE PoolOK' /\ BuffersKept'
  <2>1. CASE PushBuffer(t)
    <3>1. /\ at[t] = "push" /\ at' = [at EXCEPT ![t] = "idle"]
          /\ avail' = Append(avail, buf[t])
          /\ UNCHANGED <<device, flushing, buf, sets, frames, unfilled, delivered>>
      BY <2>1 DEF PushBuffer, playerVars
    <3>2. avail' \in Seq(Buffers) /\ Len(avail') = Len(avail) + 1
      BY <1>4, <3>1, Appended
    <3>3. n(at) = n(at') + 1 /\ n(at') \in Nat
      BY <1>4, <3>1 DEF Callers
    <3>. HIDE DEF n
    <3>4. BuffersKept' /\ Len(avail') + Len(device') <= EncBuffers
      BY <1>3, <1>4, <1>5, <3>1, <3>2, <3>3
    <3>5. at' \in [Callers -> {"idle", "callback", "header", "ready", "push"}]
      BY <1>4, <3>1
    <3>. QED
      BY <1>2, <1>4, <3>1, <3>2, <3>4, <3>5 DEF PoolOK
  <2>2. CASE MuxFrame(t) \/ MuxSet(t) \/ MuxHeader(t) \/ MuxReady(t)
    <3>1. /\ at[t] # "idle" /\ UNCHANGED <<avail, device, flushing, buf, sets, frames, unfilled>>
          /\ \E x \in {"header", "ready", "push"} : at' = [at EXCEPT ![t] = x]
          /\ UNCHANGED delivered
      BY <2>2 DEF MuxFrame, MuxSet, MuxHeader, MuxReady, EndAddPacket, KeepPool, playerVars
    <3>2. n(at') = n(at)
      BY <1>4, <3>1 DEF Callers
    <3>3. at' \in [Callers -> {"idle", "callback", "header", "ready", "push"}]
      BY <1>4, <3>1
    <3>. HIDE DEF n
    <3>4. BuffersKept'
      BY <1>3, <3>1, <3>2
    <3>. QED
      BY <1>2, <3>1, <3>3, <3>4 DEF IInv, TypeOK, PoolOK
  <2>. QED  BY <1>11, <2>1, <2>2 DEF Callback
<1>12. CASE WorkerTakes \/ WorkerStalls
  <2>1. UNCHANGED <<poolVars, delivered>>
    BY <1>12 DEF WorkerTakes, WorkerStalls
  <2>. QED  BY <1>2, <2>1 DEF IInv, TypeOK, PoolOK, BuffersKept, poolVars
<1>. QED  BY <1>7, <1>9, <1>10, <1>11, <1>12 DEF Others

\* ... the worker waits with nothing else to do ...
LEMMA OthersWorker ==
    ASSUME IInv, Others
    PROVE  WorkerInv'
<1>1. CASE WorkerTakes \/ WorkerStalls
  BY <1>1 DEF WorkerTakes, WorkerStalls, poolVars, IInv, WorkerInv
<1>2. CASE WorkerDecodes
  BY <1>2 DEF WorkerDecodes, WorkerInv
<1>3. CASE EncoderEmits \/ EncoderFlushes
  <2>1. UNCHANGED hand /\ at' = [at EXCEPT !["encoder"] = "callback"]
    BY <1>3 DEF EncoderEmits, EncoderFlushes, EncoderReturns, playerVars
  <2>2. at'["worker"] = at["worker"]
    BY <2>1 DEF IInv, TypeOK, PoolOK, Callers
  <2>3. hand \in {"held", "stuck"} => EncoderEmits
    BY <1>3 DEF EncoderFlushes, IInv, WorkerInv
  <2>. QED  BY <2>1, <2>2, <2>3 DEF EncoderEmits, IInv, WorkerInv
<1>4. ASSUME NEW t \in Callers, Callback(t) PROVE WorkerInv'
  <2>1. /\ UNCHANGED <<hand, flushing>> /\ at[t] # "idle"
        /\ \E x \in {"header", "ready", "push", "idle"} : at' = [at EXCEPT ![t] = x]
    BY <1>4 DEF Callback, MuxFrame, MuxSet, MuxHeader, MuxReady, PushBuffer, EndAddPacket, KeepPool,
                playerVars
  <2>2. hand \in {"held", "stuck"} => t # "worker"
    BY <2>1 DEF IInv, WorkerInv
  <2>3. t # "worker" => at'["worker"] = at["worker"]
    BY <2>1 DEF IInv, TypeOK, PoolOK, Callers
  <2>. QED  BY <2>1, <2>2, <2>3 DEF IInv, WorkerInv
<1>. QED  BY <1>1, <1>2, <1>3, <1>4 DEF Others

\* ... and the muxer writes what it may write.
LEMMA OthersMux ==
    ASSUME IInv, Others
    PROVE  MuxOK'
<1>1. UNCHANGED <<readerVars, mainVars>>
  BY OthersAreStill DEF Still
<1>2. Output' = Output
  BY <1>1 DEF Output, Frames, Packets, readerVars
<1>3. MuxOK
  BY DEF IInv, TypeOK
<1>4. CASE UNCHANGED muxVars
  BY <1>2, <1>3, <1>4 DEF MuxOK, muxVars
<1>5. ASSUME NEW t \in Callers, Callback(t) PROVE MuxOK'
  <2>1. buf[t] \in Buffers
    BY DEF IInv, TypeOK, PoolOK
  <2>2. CASE MuxFrame(t)
    <3>1. buf[t] \in Output
      BY <2>1, <2>2, BufferKinds DEF MuxFrame
    <3>2. Append(written, buf[t]) \in Seq(Output)
      BY <1>3, <3>1, Appended DEF MuxOK
    <3>. QED  BY <1>2, <1>3, <2>2, <3>1, <3>2 DEF MuxFrame, MuxOK
  <2>3. CASE MuxSet(t)
    <3>1. buf[t].set \in ParamSets
      BY <2>1, <2>3 DEF MuxSet, Buffers, Frames, Frame, ParamSet, Blank
    <3>. QED  BY <1>2, <1>3, <2>3, <3>1 DEF MuxSet, MuxOK, ReadyAsBefore
  <2>4. CASE MuxHeader(t)
    BY <1>2, <1>3, <2>4 DEF MuxHeader, MuxOK, UnlockMuxer
  <2>5. CASE MuxReady(t)
    BY <1>2, <1>3, <2>5 DEF MuxReady, MuxOK, UnlockMuxer
  <2>6. CASE PushBuffer(t)
    BY <1>4, <2>6 DEF PushBuffer
  <2>. QED  BY <1>5, <2>2, <2>3, <2>4, <2>5, <2>6 DEF Callback
<1>. QED
  BY <1>4, <1>5 DEF Others, WorkerTakes, WorkerStalls, WorkerDecodes, EncoderEmits, EncoderFlushes,
                    EncoderReturns

-----------------------------------------------------------------------------
(***************************************************************************)
(* Steps of main.                                                          *)
(***************************************************************************)

\* Main leaves the encoder's buffers alone.
LEMMA MainPool ==
    ASSUME IInv, MainStep
    PROVE  /\ PoolOK' /\ BuffersKept'
           /\ UNCHANGED <<input, stray, delivered, dropping>>
           /\ WorkerInv'
<1>1. UNCHANGED <<poolVars, input, stray, delivered, dropping>>
  BY DEF MainStep, SetUp, CheckInput, OpenReader, OpenPlayer, SetCallBack, OpenMuxer, Exit,
         KeepSetUp, Read, VideoBranch, Accept, Refuse, AudioBranch, AudioWrite, OtherBranch,
         readerVars, playerVars, Player!Accept
<1>2. Buffers' = Buffers
  BY <1>1 DEF Buffers, Frames
<1>3. hand' \in {hand, "empty", "absent"}
  BY DEF MainStep, SetUp, CheckInput, OpenReader, OpenPlayer, SetCallBack, OpenMuxer, Exit,
         KeepSetUp, Read, VideoBranch, Accept, Refuse, AudioBranch, AudioWrite, OtherBranch,
         playerVars
<1>4. WorkerInv'
  BY <1>1, <1>3 DEF IInv, WorkerInv, poolVars
<1>. QED
  BY <1>1, <1>2, <1>4 DEF IInv, TypeOK, PoolOK, BuffersKept, poolVars

\* What is about packets, the player and the output.
MainInv == ReaderOK /\ PlayerOK /\ MuxOK /\ QueueInv /\ HandInv /\ BranchInv
               /\ PacketFate /\ AudioInOrder

\* Types and limits as main's steps need them.
LEMMA MainFacts ==
    ASSUME IInv
    PROVE  /\ Len(input.packets) \in Nat /\ Packets = 1 .. Len(input.packets)
           /\ \A p \in Packets : KindOf(p) \in Kinds
           /\ pos \in 0 .. Len(input.packets)
           /\ pkt \in Packets \cup {0} /\ avpkt \in Packets \cup {0}
           /\ handed \in Seq(Packets) /\ Len(handed) \in Nat
           /\ Range(handed) \subseteq 1 .. pos
           /\ \A i \in 1 .. Len(handed) : handed[i] \in Range(handed)
           /\ WrittenAudio \subseteq 1 .. pos /\ SkippedAudio \subseteq 1 .. pos
           /\ freed \subseteq 1 .. pos /\ lost \subseteq 1 .. pos /\ leaked \subseteq 1 .. pos
           /\ Some(pkt) \subseteq 1 .. pos /\ Some(avpkt) \subseteq 1 .. pos
<1>1. /\ input \in Inputs /\ pos \in 0 .. Len(input.packets)
      /\ pkt \in Packets \cup {0} /\ avpkt \in Packets \cup {0}
      /\ handed \in Seq(Packets)
  BY DEF IInv, TypeOK, ReaderOK, PlayerOK, Nothing
<1>2. Packets = 1 .. Len(input.packets)
  BY DEF Packets
<1>3. 1 .. pos = Some(pkt) \cup Some(avpkt) \cup Range(handed) \cup freed \cup lost
                  \cup leaked \cup WrittenAudio \cup SkippedAudio
  BY DEF IInv, PacketFate
<1>4. \A i \in 1 .. Len(handed) : handed[i] \in Range(handed)
  BY <1>1 DEF Range
<1>. QED  BY <1>1, <1>2, <1>3, <1>4, KindIsKnown

\* A step that moves no packet keeps all but what depends on where main is.
LEMMA StillMain ==
    ASSUME IInv, Still, UNCHANGED <<queue, delivered, dropping, muxLock, stored, header, written,
                                    skipped>>,
           ready' \in BOOLEAN, BranchInv', hand' \in {hand, "empty", "absent"},
           mpc' \in {"start", "reader", "player", "setcallback", "muxer", "loop",
                     "dispatch", "write", "exit", "done", "undefined"}
    PROVE  MainInv'
<1>1. HandInv' /\ PacketFate' /\ AudioInOrder'
  BY StillKeeps
<1>2. Packets' = Packets /\ Output' = Output
  BY DEF Still, Packets, Output, Frames, readerVars
<1>3. ReaderOK'
  BY <1>2 DEF Still, IInv, TypeOK, ReaderOK, readerVars
<1>4. PlayerOK' /\ QueueInv'
  BY <1>2 DEF Still, IInv, TypeOK, PlayerOK, QueueInv, readerVars
<1>5. MuxOK'
  BY <1>2 DEF IInv, TypeOK, MuxOK
<1>. QED  BY <1>1, <1>3, <1>4, <1>5 DEF MainInv

\* Nothing is written or dropped, and the packets stay the same.
LEMMA SameAudio ==
    ASSUME IInv, UNCHANGED <<input, written, skipped>>
    PROVE  /\ WrittenAudio' = WrittenAudio /\ SkippedAudio' = SkippedAudio
           /\ InOrder("audio")'
  BY DEF WrittenAudio, SkippedAudio, Written, InOrder, Packets, IInv, AudioInOrder

\* Before its loop main holds nothing.
LEMMA SetUpStep ==
    ASSUME IInv, SetUp
    PROVE  MainInv'
<1>1. /\ UNCHANGED <<readerVars, pkt, handed, freed, leaked, queue, delivered, dropping, muxLock,
                     stored, header, written, skipped>>
      /\ ready' \in BOOLEAN /\ hand' \in {hand, "empty", "absent"}
      /\ mpc \notin {"loop", "dispatch", "write"} /\ mpc' \notin {"dispatch", "write"}
      /\ mpc' \in {"start", "reader", "player", "setcallback", "muxer", "loop",
                   "dispatch", "write", "exit", "done", "undefined"}
  <2>1. CASE CheckInput \/ OpenReader \/ OpenPlayer \/ SetCallBack \/ OpenMuxer
    BY <2>1 DEF CheckInput, OpenReader, OpenPlayer, SetCallBack, OpenMuxer, KeepSetUp,
                IInv, TypeOK, MuxOK
  <2>2. CASE Exit
    <3>1. pkt = Nothing
      BY <2>2 DEF Exit, IInv, BranchInv
    <3>2. Some(pkt) = {}
      BY <3>1 DEF Some
    <3>. QED  BY <2>2, <3>1, <3>2 DEF Exit, muxVars, playerVars, IInv, TypeOK, MuxOK
  <2>. QED  BY <2>1, <2>2 DEF SetUp
<1>2. Still
  BY <1>1, SameAudio DEF Still, readerVars
<1>3. BranchInv'
  BY <1>1 DEF IInv, BranchInv, readerVars
<1>. QED  BY <1>1, <1>2, <1>3, StillMain

LEMMA ReadSkips ==
    ASSUME IInv, Read, pkt # Nothing \/ eof
    PROVE  MainInv'
<1>1. /\ UNCHANGED <<readerVars, pkt, handed, freed, leaked, playerVars, muxVars>>
      /\ mpc' = "dispatch"
  BY DEF Read, readerVars
<1>2. Still
  BY <1>1, SameAudio DEF Still, readerVars, muxVars
<1>3. BranchInv' /\ ready' \in BOOLEAN
  BY <1>1 DEF BranchInv, IInv, TypeOK, MuxOK, muxVars
<1>. QED  BY <1>1, <1>2, <1>3, StillMain DEF muxVars, playerVars

LEMMA SameFile ==
    ASSUME UNCHANGED <<input, stray>>
    PROVE  /\ Packets' = Packets /\ Output' = Output /\ HasAudio' = HasAudio
           /\ \A p : KindOf(p)' = KindOf(p)
  BY DEF Packets, Output, Frames, HasAudio, KindOf, StreamOf

\* The end of the file, or a packet that Read does not pass on: what m_av_pkt held
\* is lost, and with it perhaps the packet read.
LEMMA ReadEnds ==
    ASSUME IInv, Read, pkt = Nothing, ~eof, ReadFails \/ ReadDrops
    PROVE  MainInv'
<1>1. /\ UNCHANGED <<input, stray, pkt, handed, freed, leaked, playerVars, muxVars>>
      /\ mpc = "loop" /\ mpc' = "dispatch" /\ eof' = TRUE /\ avpkt' = Nothing
      /\ \/ pos' = pos /\ lost' = lost \cup Some(avpkt)
         \/ /\ pos < Len(input.packets) /\ pos' = pos + 1
            /\ lost' = lost \cup Some(avpkt) \cup {pos + 1}
      /\ codec' \in {codec} \cup {CodecOf(KindOf(p)) : p \in Packets}
  <2>1. CASE ReadFails
    BY <2>1 DEF Read, ReadFails
  <2>2. CASE ReadDrops
    <3>1. pos + 1 \in Packets
      BY <2>2, MainFacts DEF ReadDrops
    <3>. QED  BY <2>2, <3>1 DEF Read, ReadDrops
  <2>. QED  BY <2>1, <2>2
<1>2. WrittenAudio' = WrittenAudio /\ SkippedAudio' = SkippedAudio /\ InOrder("audio")'
  BY <1>1, SameAudio DEF muxVars
<1>3. Packets' = Packets /\ Output' = Output /\ HasAudio' = HasAudio
      /\ \A p : KindOf(p)' = KindOf(p)
  BY <1>1, SameFile
<1>4. 1 .. pos' = 1 .. pos \cup (IF pos' = pos THEN {} ELSE {pos + 1})
      /\ pos' \in 0 .. Len(input.packets) /\ pos' >= pos
  BY <1>1, MainFacts
<1>5. Some(pkt) = {} /\ Some(avpkt') = {} /\ Some(avpkt) \subseteq {avpkt}
  BY <1>1 DEF Some
<1>6. codec' \in {"video", "audio", "other"}
  <2>1. codec \in {"video", "audio", "other"}
    BY DEF IInv, TypeOK, ReaderOK
  <2>2. \A p \in Packets : CodecOf(KindOf(p)) \in {"video", "audio", "other"}
    BY MainFacts DEF CodecOf, Kinds
  <2>. QED  BY <1>1, <2>1, <2>2
<1>7. ReaderOK'
  <2>1. lost' \subseteq Packets
    BY <1>1, <1>4, <1>5, MainFacts
  <2>. QED  BY <1>1, <1>3, <1>4, <1>6, <2>1 DEF IInv, TypeOK, ReaderOK
<1>8. PlayerOK' /\ QueueInv' /\ MuxOK'
  BY <1>1, <1>3, <1>4, MainFacts, SMTT(30)
  DEF IInv, TypeOK, PlayerOK, MuxOK, QueueInv, playerVars, muxVars
<1>9. HandInv' /\ BranchInv'
  BY <1>1 DEF HandInv, BranchInv
<1>10. AudioInOrder'
  BY <1>2, <1>3 DEF IInv, AudioInOrder
<1>11. PacketFate'
  <2>1. 1 .. pos = Some(avpkt) \cup Range(handed) \cup freed \cup lost
                  \cup leaked \cup WrittenAudio \cup SkippedAudio
    BY <1>5 DEF IInv, PacketFate
  <2>2. 1 .. pos' = Some(pkt') \cup Some(avpkt') \cup Range(handed') \cup freed' \cup lost'
                  \cup leaked' \cup WrittenAudio' \cup SkippedAudio'
    <3>1. CASE pos' = pos /\ lost' = lost \cup Some(avpkt)
      BY <1>1, <1>2, <1>5, <2>1, <3>1
    <3>2. CASE pos' = pos + 1 /\ lost' = lost \cup Some(avpkt) \cup {pos + 1}
      <4>1. 1 .. pos' = 1 .. pos \cup {pos + 1}
        BY <3>2, MainFacts
      <4>. QED  BY <1>1, <1>2, <1>5, <2>1, <3>2, <4>1
    <3>. QED  BY <1>1, <3>1, <3>2
  <2>3. \A p \in 1 .. pos' : KindOf(p) = "video" =>
          p \in Some(pkt') \cup Some(avpkt') \cup Range(handed') \cup lost'
    BY <1>1, <1>4, <1>5 DEF IInv, PacketFate
  <2>4. Range(handed') \cap (Some(pkt') \cup freed' \cup lost') = {}
    <3>1. pos + 1 \notin Range(handed)
      BY MainFacts
    <3>2. Some(avpkt) \cap Range(handed) = {}
      BY <1>5 DEF IInv, HandInv, Some
    <3>3. Range(handed) \cap (freed \cup lost) = {}
      BY DEF IInv, PacketFate
    <3>. QED  BY <1>1, <1>5, <3>1, <3>2, <3>3
  <2>5. \A i, j \in 1 .. Len(handed') : i < j => handed'[i] < handed'[j]
    BY <1>1 DEF IInv, PacketFate
  <2>6. (\A p \in leaked' : KindOf(p)' = "audio2") /\ (HasAudio' /\ ~eof' => lost' = {})
    BY <1>1, <1>3 DEF IInv, PacketFate
  <2>. QED  BY <1>3, <2>2, <2>3, <2>4, <2>5, <2>6 DEF PacketFate
<1>. QED  BY <1>7, <1>8, <1>9, <1>10, <1>11 DEF MainInv

\* Read passes on the next packet, as m_av_pkt or as a copy.
LEMMA ReadPasses ==
    ASSUME IInv, Read, pkt = Nothing, ~eof, ReadFrame
    PROVE  MainInv'
<1> DEFINE new == pos + 1
<1>1. /\ UNCHANGED <<input, stray, eof, handed, freed, leaked, playerVars, muxVars>>
      /\ mpc = "loop" /\ mpc' = "dispatch"
      /\ pos' = new /\ new \in Packets
      /\ lost' = lost \cup Some(avpkt) /\ codec' = CodecOf(KindOf(new))
      /\ IF IsAudioIndex(KindOf(new)) THEN avpkt' = new /\ pkt' = Nothing
                                      ELSE avpkt' = Nothing /\ pkt' = new
  BY MainFacts DEF Read, ReadFrame, CopyPacket
<1>2. WrittenAudio' = WrittenAudio /\ SkippedAudio' = SkippedAudio /\ InOrder("audio")'
  BY <1>1, SameAudio DEF muxVars
<1>3. Packets' = Packets /\ Output' = Output /\ HasAudio' = HasAudio
      /\ \A p : KindOf(p)' = KindOf(p)
  BY <1>1, SameFile
<1>4. /\ 1 .. pos' = 1 .. pos \cup {new} /\ pos' \in 0 .. Len(input.packets)
      /\ new \notin 1 .. pos /\ new # 0 /\ new \in Nat
  BY <1>1, MainFacts
<1>5. /\ Some(pkt) = {} /\ Some(avpkt) \subseteq {avpkt}
      /\ Some(pkt') \cup Some(avpkt') = {new}
  BY <1>1, <1>4 DEF Some, Nothing
<1>. HIDE DEF new
<1>6. codec' \in {"video", "audio", "other"}
  BY <1>1, MainFacts DEF CodecOf, Kinds
<1>7. ReaderOK'
  <2>1. lost' \subseteq Packets
    BY <1>1, <1>4, <1>5, MainFacts
  <2>. QED  BY <1>1, <1>3, <1>4, <1>6, <2>1 DEF IInv, TypeOK, ReaderOK, Nothing
<1>8. PlayerOK' /\ MuxOK'
  BY <1>1, <1>3 DEF IInv, TypeOK, PlayerOK, MuxOK, playerVars, muxVars
<1>9. QueueInv'
  <2>1. Len(handed) <= pos /\ Len(delivered) + Len(queue) = Len(handed)
    BY DEF IInv, QueueInv
  <2>2. pos' = pos + 1
    BY <1>1 DEF new
  <2>. QED  BY <1>1, <2>1, <2>2, MainFacts DEF QueueInv, playerVars
<1>10. HandInv'
  <2>1. /\ new \notin lost' /\ new \notin freed' /\ new \notin Range(handed')
        /\ new \notin WrittenAudio'
    BY <1>1, <1>2, <1>4, <1>5, MainFacts
  <2>2. CASE IsAudioIndex(KindOf(new))
    <3>1. pkt' = Nothing /\ avpkt' = new
      BY <1>1, <2>2
    <3>2. HasAudio => KindOf(new) = "audio" /\ codec' = "audio"
      BY <1>1, <2>2 DEF IsAudioIndex, CodecOf
    <3>3. KindOf(avpkt)' = KindOf(new)
      BY <1>1, <3>1 DEF KindOf, StreamOf
    <3>. QED  BY <1>1, <1>3, <2>1, <3>1, <3>2, <3>3 DEF HandInv
  <2>3. CASE ~IsAudioIndex(KindOf(new))
    <3>1. pkt' = new /\ avpkt' = Nothing
      BY <1>1, <2>3
    <3>2. KindOf(pkt)' = KindOf(new)
      BY <1>1, <3>1 DEF KindOf, StreamOf
    <3>3. IsAudioIndex(KindOf(pkt))' <=> IsAudioIndex(KindOf(new))
      BY <1>1, <1>3, <3>2 DEF IsAudioIndex
    <3>. QED  BY <1>1, <1>3, <2>1, <2>3, <3>1, <3>2, <3>3 DEF HandInv
  <2>. QED  BY <2>2, <2>3
<1>11. BranchInv'
  BY <1>1 DEF BranchInv
<1>12. AudioInOrder'
  BY <1>2, <1>3 DEF IInv, AudioInOrder
<1>13. PacketFate'
  <2>1. 1 .. pos = Some(avpkt) \cup Range(handed) \cup freed \cup lost
                  \cup leaked \cup WrittenAudio \cup SkippedAudio
    BY <1>5 DEF IInv, PacketFate
  <2>2. 1 .. pos' = Some(pkt') \cup Some(avpkt') \cup Range(handed') \cup freed' \cup lost'
                  \cup leaked' \cup WrittenAudio' \cup SkippedAudio'
    BY <1>1, <1>2, <1>4, <1>5, <2>1
  <2>3. \A p \in 1 .. pos' : KindOf(p) = "video" =>
          p \in Some(pkt') \cup Some(avpkt') \cup Range(handed') \cup lost'
    BY <1>1, <1>4, <1>5 DEF IInv, PacketFate
  <2>4. Range(handed') \cap (Some(pkt') \cup freed' \cup lost') = {}
    <3>1. new \notin Range(handed)
      BY <1>4, MainFacts
    <3>2. Some(avpkt) \cap Range(handed) = {}
      BY <1>5 DEF IInv, HandInv, Some
    <3>3. Range(handed) \cap (freed \cup lost) = {}
      BY DEF IInv, PacketFate
    <3>. QED  BY <1>1, <1>5, <3>1, <3>2, <3>3
  <2>5. \A i, j \in 1 .. Len(handed') : i < j => handed'[i] < handed'[j]
    BY <1>1 DEF IInv, PacketFate
  <2>6. \A p \in leaked' : KindOf(p)' = "audio2"
    BY <1>1, <1>3 DEF IInv, PacketFate
  <2>7. HasAudio' /\ ~eof' => lost' = {}
    <3>1. HasAudio => avpkt = Nothing
      BY <1>1 DEF IInv, BranchInv
    <3>2. HasAudio => Some(avpkt) = {}
      BY <3>1 DEF Some
    <3>. QED  BY <1>1, <1>3, <3>2 DEF IInv, PacketFate
  <2>. QED  BY <1>3, <2>2, <2>3, <2>4, <2>5, <2>6, <2>7 DEF PacketFate
<1>. QED  BY <1>7, <1>8, <1>9, <1>10, <1>11, <1>12, <1>13 DEF MainInv

\* The player accepts the packet, or main tries again with it.
LEMMA VideoStep ==
    ASSUME IInv, VideoBranch
    PROVE  MainInv'
<1>1. /\ UNCHANGED <<readerVars, freed, leaked, poolVars, muxVars>>
      /\ mpc = "dispatch" /\ mpc' = "loop" /\ pkt # Nothing /\ KindOf(pkt) = "video"
  BY DEF VideoBranch, IsVideo
<1>2. pkt \in Packets /\ pkt = pos /\ avpkt = Nothing /\ pos \notin Range(handed)
      /\ pkt \notin lost /\ pkt \notin freed
  BY <1>1, MainFacts DEF IInv, HandInv, Nothing
<1>3. WrittenAudio' = WrittenAudio /\ SkippedAudio' = SkippedAudio /\ InOrder("audio")'
  BY <1>1, SameAudio DEF muxVars, readerVars
<1>4. Packets' = Packets /\ Output' = Output /\ HasAudio' = HasAudio
      /\ \A p : KindOf(p)' = KindOf(p)
  BY <1>1, SameFile DEF readerVars
<1>5. CASE Refuse
  <2>1. Still
    BY <1>1, <1>3, <1>5 DEF Still, Refuse
  <2>2. BranchInv'
    BY <1>1, <1>2 DEF BranchInv, readerVars
  <2>. QED
    BY <1>1, <1>5, <2>1, <2>2, StillMain DEF Refuse, muxVars, playerVars, IInv, TypeOK, MuxOK
<1>6. CASE Accept
  <2>1. /\ handed' = Append(handed, pkt) /\ pkt' = Nothing
        /\ queue' = Append(queue, Len(handed) + 1)
        /\ UNCHANGED <<delivered, dropping, hand>>
    BY <1>6 DEF Accept, Player!Accept
  <2>2. /\ handed' \in Seq(Packets) /\ Len(handed') = Len(handed) + 1
        /\ \A i \in 1 .. Len(handed) : handed'[i] = handed[i]
        /\ handed'[Len(handed) + 1] = pkt
        /\ Range(handed') = Range(handed) \cup {pkt}
    BY <1>2, <2>1, MainFacts, Appended
  <2>3. ReaderOK'
    BY <1>1, <1>4, <2>1 DEF IInv, TypeOK, ReaderOK, readerVars
  <2>4. Len(handed) < pos /\ Len(handed) + 1 \in Packets
    BY <1>1, MainFacts DEF IInv, QueueInv
  <2>5. /\ queue \in Seq(Packets) /\ queue' \in Seq(Packets)
        /\ Len(queue') = Len(queue) + 1 /\ Len(queue) \in Nat
    BY <2>1, <2>4, Appended DEF IInv, TypeOK, PlayerOK
  <2>6. PlayerOK'
    BY <1>4, <2>1, <2>2, <2>5 DEF IInv, TypeOK, PlayerOK
  <2>7. QueueInv'
    <3>1. Len(delivered) + Len(queue) = Len(handed) /\ Len(delivered) \in Nat
      BY DEF IInv, QueueInv, TypeOK, PlayerOK
    <3>2. Len(delivered) + Len(queue') = Len(handed') /\ Len(handed') <= pos
      BY <2>2, <2>4, <2>5, <3>1, MainFacts
    <3>. QED  BY <1>1, <2>1, <3>2 DEF QueueInv, readerVars
  <2>8. MuxOK'
    BY <1>1, <1>4 DEF IInv, TypeOK, MuxOK, muxVars
  <2>9. HandInv' /\ BranchInv'
    BY <1>1, <1>2, <2>1 DEF HandInv, BranchInv, readerVars
  <2>10. AudioInOrder'
    BY <1>3, <1>4 DEF IInv, AudioInOrder
  <2>11. Some(pkt) = {pkt} /\ Some(pkt') = {}
    BY <1>1, <2>1 DEF Some
  <2>12. PacketFate'
    <3>1. 1 .. pos' = Some(pkt') \cup Some(avpkt') \cup Range(handed') \cup freed' \cup lost'
                  \cup leaked' \cup WrittenAudio' \cup SkippedAudio'
      BY <1>1, <1>3, <2>2, <2>11 DEF readerVars, IInv, PacketFate
    <3>2. \A p \in 1 .. pos' : KindOf(p) = "video" =>
            p \in Some(pkt') \cup Some(avpkt') \cup Range(handed') \cup lost'
      BY <1>1, <2>2, <2>11 DEF readerVars, IInv, PacketFate
    <3>3. Range(handed') \cap (Some(pkt') \cup freed' \cup lost') = {}
      BY <1>1, <1>2, <2>2, <2>11 DEF readerVars, IInv, PacketFate
    <3>4. ASSUME NEW i \in 1 .. Len(handed'), NEW j \in 1 .. Len(handed'), i < j
          PROVE  handed'[i] < handed'[j]
      <4>1. i \in 1 .. Len(handed)
        BY <2>2, <3>4, MainFacts
      <4>2. CASE j \in 1 .. Len(handed)
        BY <2>2, <3>4, <4>1, <4>2 DEF IInv, PacketFate
      <4>3. CASE j = Len(handed) + 1
        <5>1. handed[i] \in Range(handed) /\ handed[i] \in 1 .. pos
          BY <4>1, MainFacts
        <5>2. handed[i] < pos
          BY <1>2, <5>1, MainFacts
        <5>. QED  BY <1>2, <2>2, <4>1, <4>3, <5>2
      <4>. QED  BY <2>2, <4>2, <4>3, MainFacts
    <3>5. (\A p \in leaked' : KindOf(p)' = "audio2") /\ (HasAudio' /\ ~eof' => lost' = {})
      BY <1>1, <1>4 DEF IInv, PacketFate, readerVars
    <3>. QED  BY <1>4, <3>1, <3>2, <3>3, <3>4, <3>5 DEF PacketFate
  <2>. QED
    BY <2>3, <2>6, <2>7, <2>8, <2>9, <2>10, <2>12 DEF MainInv
<1>. QED  BY <1>5, <1>6 DEF VideoBranch

\* The audio branch: m_av_pkt goes to the output or is skipped, and a copy of a
\* packet of another audio stream is forgotten.
LEMMA AudioLeaves ==
    ASSUME IInv, IsAudio, EndAudio, MuxOK', InOrder("audio")',
           UNCHANGED <<input, stray, pos, eof, codec, lost, handed, freed, playerVars>>,
           WrittenAudio' \cup SkippedAudio'
              = WrittenAudio \cup SkippedAudio \cup Some(avpkt),
           WrittenAudio' \subseteq WrittenAudio \cup Some(avpkt)
    PROVE  MainInv'
<1>1. /\ avpkt' = Nothing /\ pkt' = Nothing /\ leaked' = leaked \cup Some(pkt)
      /\ mpc' = "loop"
  BY DEF EndAudio
<1>2. Packets' = Packets /\ Output' = Output /\ HasAudio' = HasAudio
      /\ \A p : KindOf(p)' = KindOf(p)
  BY SameFile
<1>3. Some(pkt') = {} /\ Some(avpkt') = {}
  BY <1>1 DEF Some
<1>4. \A p \in Some(pkt) : p \in Packets /\ p \in 1 .. pos /\ KindOf(p) = "audio2"
  <2>1. SUFFICES ASSUME pkt # Nothing PROVE pkt \in Packets /\ pkt \in 1 .. pos
                                            /\ KindOf(pkt) = "audio2"
    BY DEF Some
  <2>2. HasAudio /\ codec = "audio" /\ codec = CodecOf(KindOf(pkt))
        /\ ~IsAudioIndex(KindOf(pkt))
    BY <2>1 DEF IsAudio, IInv, HandInv
  <2>3. KindOf(pkt) # "audio"
    BY <2>2 DEF IsAudioIndex
  <2>. QED  BY <2>1, <2>2, <2>3, MainFacts DEF CodecOf, Nothing, Some
<1>5. \A p \in Some(avpkt) : KindOf(p) = "audio"
  BY DEF Some, IsAudio, IInv, HandInv
<1>6. ReaderOK'
  BY <1>1, <1>2, <1>4 DEF IInv, TypeOK, ReaderOK
<1>7. PlayerOK' /\ QueueInv'
  BY <1>1, <1>2 DEF IInv, TypeOK, PlayerOK, QueueInv, playerVars
<1>8. HandInv' /\ BranchInv'
  BY <1>1 DEF HandInv, BranchInv
<1>9. AudioInOrder'
  BY <1>2, <1>5 DEF IInv, AudioInOrder
<1>10. PacketFate'
  <2>1. 1 .. pos' = Some(pkt') \cup Some(avpkt') \cup Range(handed') \cup freed' \cup lost'
                \cup leaked' \cup WrittenAudio' \cup SkippedAudio'
    BY <1>1, <1>3 DEF IInv, PacketFate
  <2>2. \A p \in 1 .. pos' : KindOf(p) = "video" =>
          p \in Some(pkt') \cup Some(avpkt') \cup Range(handed') \cup lost'
    BY <1>4, <1>5 DEF IInv, PacketFate
  <2>3. Range(handed') \cap (Some(pkt') \cup freed' \cup lost') = {}
    BY <1>3 DEF IInv, PacketFate
  <2>4. \A p \in leaked' : KindOf(p)' = "audio2"
    BY <1>1, <1>2, <1>4 DEF IInv, PacketFate
  <2>5. HasAudio' /\ ~eof' => lost' = {}
    BY <1>2 DEF IInv, PacketFate
  <2>6. \A i, j \in 1 .. Len(handed') : i < j => handed'[i] < handed'[j]
    BY DEF IInv, PacketFate
  <2>. QED  BY <1>2, <2>1, <2>2, <2>3, <2>4, <2>5, <2>6 DEF PacketFate
<1>. QED  BY <1>6, <1>7, <1>8, <1>9, <1>10 DEF MainInv

LEMMA AudioBranchStep ==
    ASSUME IInv, AudioBranch
    PROVE  MainInv'
<1>1. /\ UNCHANGED <<input, stray, pos, eof, codec, lost, handed, freed, playerVars,
                     poolVars, muxLock, stored, ready, header, written>>
      /\ mpc = "dispatch" /\ IsAudio
  BY DEF AudioBranch
<1>2. CASE ready
  <2>1. mpc' = "write" /\ UNCHANGED <<pkt, avpkt, leaked, skipped>>
    BY <1>2 DEF AudioBranch
  <2>2. Still
    BY <1>1, <2>1, SameAudio DEF Still, readerVars
  <2>3. IsAudio'
    BY <1>1, <2>1 DEF IsAudio, IsVideo, HasAudio, KindOf, StreamOf
  <2>4. BranchInv'
    BY <1>1, <2>1, <2>3 DEF BranchInv
  <2>. QED
    BY <1>1, <1>2, <2>1, <2>2, <2>4, StillMain DEF playerVars, IInv, TypeOK, MuxOK
<1>3. CASE ~ready
  <2>1. EndAudio /\ skipped' = skipped \cup {Audio(p) : p \in Some(avpkt)}
    BY <1>3 DEF AudioBranch
  <2>2. WrittenAudio' = WrittenAudio /\ InOrder("audio")'
    BY <1>1 DEF WrittenAudio, Written, InOrder, IInv, AudioInOrder
  <2>3. Some(avpkt) \subseteq Packets
    BY MainFacts DEF Some, Nothing
  <2>4. Packets' = Packets /\ Output' = Output
    BY <1>1, SameFile
  <2>5. SkippedAudio' = SkippedAudio \cup Some(avpkt)
    <3>1. \A p, q : Audio(p) = Audio(q) <=> p = q
      BY DEF Audio
    <3>. QED  BY <2>1, <2>3, <2>4, <3>1 DEF SkippedAudio
  <2>6. MuxOK'
    <3>1. {Audio(p) : p \in Some(avpkt)} \subseteq Output
      BY <2>3 DEF Output
    <3>. QED  BY <1>1, <2>1, <2>4, <3>1 DEF IInv, TypeOK, MuxOK
  <2>. QED
    BY <1>1, <2>1, <2>2, <2>5, <2>6, AudioLeaves
<1>. QED  BY <1>2, <1>3

LEMMA AudioWriteStep ==
    ASSUME IInv, AudioWrite
    PROVE  MainInv'
<1>1. /\ UNCHANGED <<input, stray, pos, eof, codec, lost, handed, freed, playerVars,
                     poolVars, muxLock, stored, ready, header, skipped>>
      /\ EndAudio
      /\ written' = IF avpkt = Nothing THEN written ELSE Append(written, Audio(avpkt))
      /\ IsAudio
  BY DEF AudioWrite, IInv, BranchInv
<1>2. Packets' = Packets /\ Output' = Output
  BY <1>1, SameFile
<1>3. SkippedAudio' = SkippedAudio
  BY <1>1, <1>2 DEF SkippedAudio
<1>4. written \in Seq(Output) /\ InOrder("audio")
  BY DEF IInv, TypeOK, MuxOK, AudioInOrder
<1>5. CASE avpkt = Nothing
  <2>1. Some(avpkt) = {} /\ UNCHANGED written
    BY <1>1, <1>5 DEF Some
  <2>2. WrittenAudio' = WrittenAudio /\ InOrder("audio")' /\ MuxOK'
    BY <1>1, <1>2, <1>4, <2>1 DEF WrittenAudio, Written, InOrder, IInv, TypeOK, MuxOK
  <2>. QED  BY <1>1, <1>3, <2>1, <2>2, AudioLeaves
<1>6. CASE avpkt # Nothing
  <2>1. /\ Some(avpkt) = {avpkt} /\ avpkt \in Packets
        /\ avpkt = pos /\ avpkt \notin WrittenAudio
    BY <1>6, MainFacts DEF Some, Nothing, IInv, HandInv
  <2>2. Audio(avpkt) \in Output /\ Audio(avpkt).kind = "audio" /\ Audio(avpkt).id = avpkt
    BY <2>1 DEF Output, Audio
  <2>3. \A p \in WrittenAudio : p < avpkt
    BY <2>1, MainFacts
  <2>4. written' = Append(written, Audio(avpkt))
    BY <1>1, <1>6
  <2>5. InOrder("audio")' /\ WrittenAudio' = WrittenAudio \cup {avpkt}
    <3>. DEFINE w == Audio(avpkt)
    <3>1. w \in Output /\ w.kind = "audio" /\ w.id = avpkt /\ written' = Append(written, w)
      BY <2>2, <2>4
    <3>. HIDE DEF w
    <3>. QED  BY <1>4, <2>3, <3>1, WrittenGrows
  <2>6. MuxOK'
    <3>1. written' \in Seq(Output)
      BY <1>4, <2>2, <2>4, Appended
    <3>. QED  BY <1>1, <1>2, <3>1 DEF IInv, TypeOK, MuxOK
  <2>. QED  BY <1>1, <1>3, <2>1, <2>5, <2>6, AudioLeaves
<1>. QED  BY <1>5, <1>6

\* Anything else is freed.
LEMMA OtherStep ==
    ASSUME IInv, OtherBranch
    PROVE  MainInv'
<1>1. /\ UNCHANGED <<readerVars, handed, leaked, playerVars, poolVars, muxVars>>
      /\ ~IsVideo /\ ~IsAudio /\ freed' = freed \cup Some(pkt) /\ pkt' = Nothing
      /\ mpc' = "loop"
  BY DEF OtherBranch
<1>2. Packets' = Packets /\ Output' = Output /\ HasAudio' = HasAudio
      /\ \A p : KindOf(p)' = KindOf(p)
  BY <1>1, SameFile DEF readerVars
<1>3. WrittenAudio' = WrittenAudio /\ SkippedAudio' = SkippedAudio /\ InOrder("audio")'
  BY <1>1, SameAudio DEF muxVars, readerVars
<1>4. Some(pkt') = {}
  BY <1>1 DEF Some
<1>5. \A p \in Some(pkt) : p \in Packets /\ p \in 1 .. pos /\ KindOf(p) # "video"
                           /\ p \notin Range(handed)
  BY <1>1, MainFacts DEF Some, IsVideo, IInv, HandInv, Nothing
<1>6. HasAudio => avpkt = Nothing
  BY <1>1 DEF IsAudio, IsVideo, IInv, HandInv
<1>7. ReaderOK'
  BY <1>1, <1>2, <1>5 DEF IInv, TypeOK, ReaderOK, readerVars
<1>8. PlayerOK' /\ QueueInv' /\ MuxOK'
  BY <1>1, <1>2 DEF IInv, TypeOK, PlayerOK, QueueInv, MuxOK, playerVars, muxVars, readerVars
<1>9. HandInv'
  <2>1. avpkt # Nothing => KindOf(avpkt)' = KindOf(avpkt)
    BY <1>1 DEF KindOf, StreamOf, readerVars
  <2>. QED  BY <1>1, <1>2, <1>3, <2>1 DEF IInv, HandInv, readerVars
<1>10. BranchInv'
  BY <1>1, <1>2, <1>6 DEF BranchInv, readerVars
<1>11. AudioInOrder'
  BY <1>2, <1>3 DEF IInv, AudioInOrder
<1>12. PacketFate'
  <2>1. 1 .. pos' = Some(pkt') \cup Some(avpkt') \cup Range(handed') \cup freed' \cup lost'
                \cup leaked' \cup WrittenAudio' \cup SkippedAudio'
    BY <1>1, <1>3, <1>4 DEF IInv, PacketFate, readerVars
  <2>2. \A p \in 1 .. pos' : KindOf(p) = "video" =>
          p \in Some(pkt') \cup Some(avpkt') \cup Range(handed') \cup lost'
    BY <1>1, <1>5 DEF IInv, PacketFate, readerVars
  <2>3. Range(handed') \cap (Some(pkt') \cup freed' \cup lost') = {}
    BY <1>1, <1>4, <1>5 DEF IInv, PacketFate, readerVars
  <2>4. (\A p \in leaked' : KindOf(p)' = "audio2") /\ (HasAudio' /\ ~eof' => lost' = {})
    BY <1>1, <1>2 DEF IInv, PacketFate, readerVars
  <2>5. \A i, j \in 1 .. Len(handed') : i < j => handed'[i] < handed'[j]
    BY <1>1 DEF IInv, PacketFate
  <2>. QED  BY <1>2, <2>1, <2>2, <2>3, <2>4, <2>5 DEF PacketFate
<1>. QED  BY <1>7, <1>8, <1>9, <1>10, <1>11, <1>12 DEF MainInv

-----------------------------------------------------------------------------
(***************************************************************************)
(* The invariant in every state.                                           *)
(***************************************************************************)

LEMMA MainStepInv ==
    ASSUME IInv, MainStep
    PROVE  IInv'
<1>1. CASE Read
  <2>1. pkt # Nothing \/ eof \/ ReadFails \/ ReadDrops \/ ReadFrame
    BY <1>1 DEF Read
  <2>2. MainInv'
    BY <1>1, <2>1, ReadSkips, ReadEnds, ReadPasses
  <2>. QED  BY <2>2, MainPool DEF MainInv, IInv, TypeOK
<1>2. CASE SetUp \/ VideoBranch \/ AudioBranch \/ AudioWrite \/ OtherBranch
  <2>1. MainInv'
    BY <1>2, SetUpStep, VideoStep, AudioBranchStep, AudioWriteStep, OtherStep
  <2>. QED  BY <2>1, MainPool DEF MainInv, IInv, TypeOK
<1>. QED  BY <1>1, <1>2 DEF MainStep

LEMMA OthersStepInv ==
    ASSUME IInv, Others
    PROVE  IInv'
<1>1. ReaderOK' /\ HandInv' /\ BranchInv' /\ PacketFate' /\ AudioInOrder'
  BY OthersReader
<1>2. PlayerOK' /\ QueueInv'
  BY OthersPlayer
<1>3. PoolOK' /\ BuffersKept' /\ MuxOK'
  BY <1>2, OthersPool, OthersMux
<1>. QED  BY <1>1, <1>2, <1>3, OthersWorker DEF IInv, TypeOK

LEMMA StepIInv == IInv /\ [Next]_vars => IInv'
<1> SUFFICES ASSUME IInv, [Next]_vars PROVE IInv'
  OBVIOUS
<1>1. CASE MainStep
  BY <1>1, MainStepInv
<1>2. CASE Others
  BY <1>2, OthersStepInv
<1>3. CASE UNCHANGED vars
  <2>1. UNCHANGED <<readerVars, mainVars, playerVars, poolVars, muxVars>>
    BY <1>3 DEF vars
  <2>2. UNCHANGED <<input, stray, written, skipped, pkt, handed, freed, leaked>>
    BY <2>1 DEF readerVars, mainVars, muxVars
  <2>3. Still
    BY <2>1, <2>2, SameAudio DEF Still
  <2>4. BranchInv'
    BY <2>1 DEF IInv, BranchInv, IsAudio, IsVideo, HasAudio, KindOf, StreamOf, readerVars,
                mainVars
  <2>5. MainInv'
    BY <2>1, <2>2, <2>3, <2>4, StillMain
    DEF muxVars, mainVars, playerVars, IInv, TypeOK, ReaderOK, MuxOK
  <2>6. Buffers' = Buffers
    BY <2>2 DEF Buffers, Frames
  <2>7. PoolOK' /\ BuffersKept'
    BY <2>1, <2>6 DEF IInv, TypeOK, PoolOK, BuffersKept, poolVars, playerVars
  <2>8. WorkerInv'
    BY <2>1 DEF IInv, WorkerInv, poolVars, playerVars
  <2>. QED  BY <2>5, <2>7, <2>8 DEF MainInv, IInv, TypeOK
<1>. QED  BY <1>1, <1>2, <1>3 DEF Next, Others, Ended

LEMMA InitIInv == Init => IInv
<1> SUFFICES ASSUME Init PROVE IInv
  OBVIOUS
<1>1. /\ input \in Inputs /\ stray \in {"video", "other"} /\ pos = 0 /\ eof = FALSE
      /\ avpkt = Nothing /\ codec = "video" /\ mpc = "start" /\ pkt = Nothing
      /\ handed = <<>> /\ queue = <<>> /\ delivered = <<>> /\ dropping = FALSE
      /\ hand = "empty"
      /\ written = <<>> /\ skipped = {} /\ freed = {} /\ lost = {} /\ leaked = {}
  BY DEF Init, Player!Init
<1>2. Len(input.packets) \in Nat
  BY <1>1, KindIsKnown
<1>3. ReaderOK
  <2>1. pos \in 0 .. Len(input.packets)
    BY <1>1, <1>2
  <2>2. avpkt \in Packets \cup {Nothing} /\ pkt \in Packets \cup {Nothing}
    BY <1>1
  <2>3. eof \in BOOLEAN /\ codec \in {"video", "audio", "other"}
    BY <1>1
  <2>4. freed = {} /\ lost = {} /\ leaked = {} /\ mpc = "start"
    BY <1>1
  <2>. QED  BY <1>1, <2>1, <2>2, <2>3, <2>4 DEF ReaderOK
<1>4. PlayerOK
  BY <1>1, Constants DEF PlayerOK
<1>5. /\ avail \in Seq(Buffers) /\ Len(avail) = EncBuffers
      /\ device = <<>> /\ flushing = 0
      /\ at = [t \in Callers |-> "idle"] /\ buf = [t \in Callers |-> Blank]
      /\ sets = 0 /\ frames = 0 /\ unfilled = 0
  <2>1. avail = [i \in 1 .. EncBuffers |-> Blank]
    BY DEF Init
  <2>. QED  BY <2>1, Constants DEF Init, Buffers
<1>6. PoolOK
  BY <1>1, <1>5, Constants DEF PoolOK, Buffers
<1>7. MuxOK
  <2>1. muxLock = "nobody" /\ stored = {} /\ ready = FALSE /\ header = FALSE
    BY DEF Init
  <2>2. written \in Seq(Output) /\ skipped \subseteq Output
    BY <1>1
  <2>. QED  BY <2>1, <2>2 DEF MuxOK
<1>8. BuffersKept
  <2>1. at["worker"] = "idle" /\ at["encoder"] = "idle"
    BY <1>5 DEF Callers
  <2>2. Cardinality(Busy(at)) = 0
    BY <2>1, BusyCount
  <2>. QED  BY <1>5, <2>2, Constants DEF BuffersKept, Busy
<1>9. QueueInv /\ HandInv /\ BranchInv /\ WorkerInv
  BY <1>1 DEF QueueInv, HandInv, BranchInv, WorkerInv
<1>10. WrittenAudio = {} /\ SkippedAudio = {} /\ InOrder("audio")
  BY <1>1 DEF WrittenAudio, Written, SkippedAudio, InOrder
<1>11. Range(handed) = {} /\ Some(pkt) = {} /\ Some(avpkt) = {}
  BY <1>1 DEF Range, Some
<1>12. PacketFate
  BY <1>1, <1>10, <1>11 DEF PacketFate
<1>. QED
  BY <1>3, <1>4, <1>6, <1>7, <1>8, <1>9, <1>10, <1>12 DEF IInv, TypeOK, AudioInOrder

LEMMA Inductive == Spec => []IInv
  BY InitIInv, StepIInv, PTL DEF Spec

\* The types of the variables, for any file, any number of buffers and failures; in
\* particular the player's queue and the pool of the encoder keep their limits.
THEOREM TypeCorrect == Spec => []TypeOK
<1>1. IInv => TypeOK
  BY DEF IInv
<1>. QED  BY <1>1, Inductive, PTL

\* No output buffer of the encoder is ever lost or duplicated, whether the encoder
\* fills it, refuses it or gives it back in a flush, and whatever the muxer does.
THEOREM PoolIsKept == Spec => []BuffersKept
<1>1. IInv => BuffersKept
  BY DEF IInv
<1>. QED  BY <1>1, Inductive, PTL

\* Every packet of the input is accounted for, and the player gets the video in the
\* order of the file without a gap: what Read, main's branches and the two FreePacket
\* do with m_av_pkt and m_omx_pkt.
THEOREM PacketsAreAccounted == Spec => []PacketFate
<1>1. IInv => PacketFate
  BY DEF IInv
<1>. QED  BY <1>1, Inductive, PTL

\* The audio in the file is in its order, none of it twice and all of it of the
\* active stream, although main tells it by m_codec_type and not by the packet.
THEOREM AudioIsInOrder == Spec => []AudioInOrder
<1>1. IInv => AudioInOrder
  BY DEF IInv
<1>. QED  BY <1>1, Inductive, PTL

-----------------------------------------------------------------------------
(***************************************************************************)
(* CreatOutContext.  OutStreams is recursive over the streams of the file; *)
(* the natural numbers are well-founded.                                   *)
(***************************************************************************)

LEMMA NatSetInduction ==
    ASSUME NEW S, 0 \in S, \A n \in Nat : n \in S => n + 1 \in S
    PROVE  Nat \subseteq S
<1> DEFINE T == Nat \ S
<1> SUFFICES ASSUME T # {} PROVE FALSE
  OBVIOUS
<1>1. PICK x \in T : \A y \in T : ~ (<<y, x>> \in OpToRel(<, Nat))
  BY WFMin, NatLessThanWellFounded
<1>2. x \in Nat /\ x # 0
  OBVIOUS
<1>3. x - 1 \in T /\ x - 1 < x
  BY <1>2
<1>4. <<x - 1, x>> \in OpToRel(<, Nat)
  BY <1>2, <1>3 DEF OpToRel
<1>. QED  BY <1>1, <1>3, <1>4

\* Stream i of the file has a stream in the output; all from 2 up to k are audio.
HasOut(s, i) == i = 1 \/ s[i] \in {"audio", "audio2"}
AllAudio(s, k) == \A i \in 2 .. k : s[i] \in {"audio", "audio2"}

\* f holds the output streams for the first streams of s, up to n of them.
IsMade(f, s, n) ==
    /\ f = [i \in 0 .. n |-> f[i]]
    /\ f[0] = <<>>
    /\ \A i \in 1 .. n : f[i] = IF HasOut(s, i) THEN Append(f[i - 1], CopyOf(i)) ELSE f[i - 1]

LEMMA MadeExists ==
    ASSUME NEW s, NEW n \in Nat
    PROVE  \E f : IsMade(f, s, n)
<1> DEFINE N == {m \in Nat : \E f : IsMade(f, s, m)}
<1>1. 0 \in N
  <2>. DEFINE f == [i \in 0 .. 0 |-> <<>>]
  <2>1. IsMade(f, s, 0)
    BY DEF IsMade
  <2>. QED  BY <2>1
<1>2. ASSUME NEW m \in Nat, m \in N PROVE m + 1 \in N
  <2>1. PICK f : IsMade(f, s, m)
    BY <1>2
  <2>. DEFINE last == IF HasOut(s, m + 1) THEN Append(f[m], CopyOf(m + 1)) ELSE f[m]
              g == [i \in 0 .. m + 1 |-> IF i = m + 1 THEN last ELSE f[i]]
  <2>2. g[m + 1] = last /\ \A i \in 0 .. m : g[i] = f[i]
    OBVIOUS
  <2>3. g = [i \in 0 .. m + 1 |-> g[i]]
    OBVIOUS
  <2>. HIDE DEF g
  <2>4. g[0] = <<>>
    BY <2>1, <2>2 DEF IsMade
  <2>5. ASSUME NEW i \in 1 .. m + 1
        PROVE  g[i] = IF HasOut(s, i) THEN Append(g[i - 1], CopyOf(i)) ELSE g[i - 1]
    <3>1. CASE i = m + 1
      <4>1. i - 1 = m /\ g[m] = f[m]
        BY <3>1, <2>2
      <4>. QED  BY <3>1, <4>1, <2>2
    <3>2. CASE i # m + 1
      <4>1. i \in 1 .. m /\ i - 1 \in 0 .. m /\ i \in 0 .. m
        BY <3>2
      <4>2. g[i] = f[i] /\ g[i - 1] = f[i - 1]
        BY <4>1, <2>2
      <4>. QED  BY <4>1, <4>2, <2>1 DEF IsMade
    <3>. QED  BY <3>1, <3>2
  <2>6. IsMade(g, s, m + 1)
    BY <2>3, <2>4, <2>5 DEF IsMade
  <2>. QED  BY <2>6
<1>. HIDE DEF N
<1>3. n \in N
  BY <1>1, <1>2, NatSetInduction
<1>. QED  BY <1>3 DEF N

\* OutStreams is the last of them.
LEMMA OutStreamsIsMade ==
    ASSUME input.streams \in Seq(Kinds)
    PROVE  \E f : /\ IsMade(f, input.streams, Len(input.streams))
                  /\ OutStreams = f[Len(input.streams)]
<1> DEFINE s == input.streams
           n == Len(input.streams)
           body(f) == [i \in 0 .. n |->
                          IF i = 0 THEN <<>>
                          ELSE IF i = 1 \/ s[i] \in {"audio", "audio2"}
                               THEN Append(f[i - 1], CopyOf(i))
                               ELSE f[i - 1]]
           made == CHOOSE f : f = body(f)
<1>0. n \in Nat
  OBVIOUS
<1>1. \A f : f = body(f) <=> IsMade(f, s, n)
  <2>. SUFFICES ASSUME NEW f PROVE f = body(f) <=> IsMade(f, s, n)
    OBVIOUS
  <2>1. ASSUME f = body(f) PROVE IsMade(f, s, n)
    <3>1. \A i \in 0 .. n :
             f[i] = IF i = 0 THEN <<>>
                    ELSE IF HasOut(s, i) THEN Append(f[i - 1], CopyOf(i)) ELSE f[i - 1]
      BY <2>1 DEF HasOut
    <3>2. f = [i \in 0 .. n |-> f[i]]
      BY <2>1
    <3>3. \A i \in 1 .. n : i \in 0 .. n /\ i # 0
      BY <1>0
    <3>4. f[0] = <<>>
      BY <3>1, <1>0
    <3>5. \A i \in 1 .. n : f[i] = IF HasOut(s, i) THEN Append(f[i - 1], CopyOf(i)) ELSE f[i - 1]
      BY <3>1, <3>3
    <3>. QED  BY <3>2, <3>4, <3>5 DEF IsMade
  <2>2. ASSUME IsMade(f, s, n) PROVE f = body(f)
    BY <2>2, SMTT(30) DEF IsMade, HasOut
  <2>. QED  BY <2>1, <2>2
<1>2. \E f : f = body(f)
  BY <1>0, <1>1, MadeExists
<1>3. made = body(made)
  BY <1>2
<1>4. OutStreams = made[n]
  BY DEF OutStreams
<1>5. IsMade(made, s, n)
  BY <1>1, <1>3
<1>. HIDE DEF made
<1>. QED  BY <1>4, <1>5

\* What the output has for the first m streams.
OutOk(o, s, m) ==
    /\ o \in Seq(Nat) /\ Len(o) <= m
    /\ Len(o) = m <=> AllAudio(s, m)
    /\ \A k \in 1 .. m : AllAudio(s, k) <=> (k <= Len(o) /\ o[k] = CopyOf(k))

LEMMA OutStep ==
    ASSUME NEW s, NEW m \in Nat, NEW o, OutOk(o, s, m)
    PROVE  OutOk(IF HasOut(s, m + 1) THEN Append(o, CopyOf(m + 1)) ELSE o, s, m + 1)
<1>1. o \in Seq(Nat) /\ Len(o) \in Nat /\ Len(o) <= m /\ (Len(o) = m <=> AllAudio(s, m))
  BY DEF OutOk
<1>2. \A k \in 1 .. m : AllAudio(s, k) <=> (k <= Len(o) /\ o[k] = CopyOf(k))
  BY DEF OutOk
<1>0. \A k \in 1 .. m : CopyOf(m + 1) \in Nat /\ CopyOf(k) # CopyOf(m + 1)
  BY DEF CopyOf, Encoded
<1>5. CopyOf(m + 1) \in Nat
  BY DEF CopyOf, Encoded
<1>3. CASE HasOut(s, m + 1)
  <2>. DEFINE a == Append(o, CopyOf(m + 1))
  <2>1. a \in Seq(Nat) /\ Len(a) = Len(o) + 1 /\ a[Len(o) + 1] = CopyOf(m + 1)
    BY <1>1, <1>5
  <2>2. \A k \in 1 .. Len(o) : a[k] = o[k]
    BY <1>1
  <2>. HIDE DEF a
  <2>3. AllAudio(s, m + 1) <=> AllAudio(s, m)
    BY <1>3 DEF AllAudio, HasOut
  <2>4. ASSUME NEW k \in 1 .. m
        PROVE  AllAudio(s, k) <=> (k <= Len(a) /\ a[k] = CopyOf(k))
    <3>1. CASE k <= Len(o)
      <4>1. k \in 1 .. Len(o) /\ k <= Len(a)
        BY <3>1, <1>1, <2>1
      <4>. QED  BY <4>1, <3>1, <1>2, <2>2
    <3>2. CASE k = Len(o) + 1
      <4>1. a[k] = CopyOf(m + 1) /\ CopyOf(k) # CopyOf(m + 1) /\ ~(k <= Len(o))
        BY <3>2, <2>1, <1>0, <1>1
      <4>. QED  BY <4>1, <1>2
    <3>3. CASE k > Len(o) + 1
      <4>1. ~(k <= Len(a)) /\ ~(k <= Len(o))
        BY <3>3, <2>1, <1>1
      <4>. QED  BY <4>1, <1>2
    <3>. QED  BY <3>1, <3>2, <3>3, <1>1
  <2>5. AllAudio(s, m + 1) <=> (m + 1 <= Len(a) /\ a[m + 1] = CopyOf(m + 1))
    <3>1. (m + 1 <= Len(a)) <=> (Len(o) = m)
      BY <1>1, <2>1
    <3>2. Len(o) = m => a[m + 1] = CopyOf(m + 1)
      BY <2>1
    <3>. QED  BY <3>1, <3>2, <1>1, <2>3
  <2>6. \A k \in 1 .. m + 1 : k \in 1 .. m \/ k = m + 1
    OBVIOUS
  <2>7. Len(a) <= m + 1 /\ (Len(a) = m + 1 <=> AllAudio(s, m + 1))
    BY <1>1, <2>1, <2>3
  <2>8. OutOk(a, s, m + 1)
    BY <2>1, <2>4, <2>5, <2>6, <2>7 DEF OutOk
  <2>. QED  BY <1>3, <2>8 DEF a
<1>4. CASE ~HasOut(s, m + 1)
  <2>1. ~AllAudio(s, m + 1)
    BY <1>4 DEF AllAudio, HasOut
  <2>2. ~(m + 1 <= Len(o)) /\ Len(o) # m + 1 /\ Len(o) <= m + 1
    BY <1>1
  <2>3. \A k \in 1 .. m + 1 : k \in 1 .. m \/ k = m + 1
    OBVIOUS
  <2>4. OutOk(o, s, m + 1)
    BY <1>1, <1>2, <2>1, <2>2, <2>3 DEF OutOk
  <2>. QED  BY <1>4, <2>4
<1>. QED  BY <1>3, <1>4

LEMMA OutStreamsOk ==
    ASSUME input.streams \in Seq(Kinds)
    PROVE  OutOk(OutStreams, input.streams, Len(input.streams))
<1> DEFINE s == input.streams
           n == Len(input.streams)
<1>1. n \in Nat
  OBVIOUS
<1>2. PICK f : IsMade(f, s, n) /\ OutStreams = f[n]
  BY OutStreamsIsMade
<1>. HIDE DEF s, n
<1>. DEFINE N == {m \in Nat : m <= n => OutOk(f[m], s, m)}
<1>3. 0 \in N
  <2>1. f[0] = <<>> /\ <<>> \in Seq(Nat) /\ Len(<<>>) = 0 /\ 1 .. 0 = {} /\ 2 .. 0 = {}
    BY <1>2 DEF IsMade
  <2>2. OutOk(f[0], s, 0)
    BY <2>1 DEF OutOk, AllAudio
  <2>. QED  BY <2>2
<1>4. ASSUME NEW m \in Nat, m \in N PROVE m + 1 \in N
  <2>. SUFFICES ASSUME m + 1 <= n PROVE OutOk(f[m + 1], s, m + 1)
    OBVIOUS
  <2>1. OutOk(f[m], s, m)
    BY <1>1, <1>4
  <2>2. m + 1 \in 1 .. n /\ (m + 1) - 1 = m
    BY <1>1
  <2>3. f[m + 1] = IF HasOut(s, m + 1) THEN Append(f[m], CopyOf(m + 1)) ELSE f[m]
    BY <1>2, <2>2 DEF IsMade
  <2>. QED  BY <2>1, <2>3, OutStep
<1>. HIDE DEF N
<1>5. n \in N
  BY <1>1, <1>3, <1>4, NatSetInduction
<1>6. OutOk(f[n], s, n)
  BY <1>1, <1>5 DEF N
<1>. QED  BY <1>2, <1>6 DEF s, n

\* CreatOutContext: the number of an input stream names its own copy in the output
\* just if it is not the first stream, whose place the encoder's video has, and every
\* stream from the second up to it is audio, since the others are left out.
THEOREM OwnStream ==
    ASSUME input \in Inputs, NEW i \in DOMAIN input.streams
    PROVE  (i \in DOMAIN OutStreams /\ OutStreams[i] = i)
             <=> (i # 1 /\ \A k \in 2 .. i : input.streams[k] \in {"audio", "audio2"})
<1>1. input.streams \in Seq(Kinds)
  BY Constants
<1>2. OutOk(OutStreams, input.streams, Len(input.streams)) /\ i \in 1 .. Len(input.streams)
  BY <1>1, OutStreamsOk
<1>3. /\ OutStreams \in Seq(Nat)
      /\ AllAudio(input.streams, i) <=> (i <= Len(OutStreams) /\ OutStreams[i] = CopyOf(i))
  BY <1>2 DEF OutOk
<1>4. i \in DOMAIN OutStreams <=> i <= Len(OutStreams)
  BY <1>2, <1>3
<1>5. CASE i = 1
  <2>1. 2 .. 1 = {}
    OBVIOUS
  <2>2. AllAudio(input.streams, i)
    BY <1>5, <2>1 DEF AllAudio
  <2>3. OutStreams[i] = 0
    BY <1>3, <1>5, <2>2 DEF CopyOf, Encoded
  <2>. QED  BY <1>5, <2>3
<1>6. CASE i # 1
  <2>1. CopyOf(i) = i
    BY <1>6 DEF CopyOf
  <2>2. (i \in DOMAIN OutStreams /\ OutStreams[i] = i) <=> AllAudio(input.streams, i)
    BY <1>3, <1>4, <2>1
  <2>. QED  BY <1>6, <2>2 DEF AllAudio
<1>. QED  BY <1>5, <1>6
=============================================================================
