------------------------------- MODULE Transcoder -------------------------------
(***************************************************************************)
(* The program around the player: main (omxtranscoder.cpp), which sets     *)
(* everything up and then, in a loop, reads packets and hands the video to *)
(* the player and the audio to the muxer; OMXReader::Read; the muxer; and  *)
(* the output buffers of the encoder, which carry the video back.  Three   *)
(* threads meet in the muxer: main with audio, the encoder's thread with   *)
(* the buffers that it filled, and the player's worker with the buffers    *)
(* that the encoder refused.                                               *)
(*                                                                         *)
(* The player is the first-in-first-out channel that VideoPlayer           *)
(* implements; main never flushes it, so it drops nothing.  It has room    *)
(* for a limited number of bytes, and its worker waits for room in the     *)
(* decoder without a timeout: it may wait for ever.  A packet of the input *)
(* is its position in the file.  The loop has no end; main only ends when  *)
(* the set-up fails.                                                       *)
(***************************************************************************)
EXTENDS Naturals, Sequences, FiniteSets, Functions

CONSTANTS
    Inputs,          \* the files: see InputSet
    QueueLimit,      \* m_config.queue_size in bytes
    EncBuffers,      \* output buffers of the encoder
    MaxSets,         \* how many parameter sets the encoder emits (bound)
    MaxUnfilled      \* how many buffers come back from it unfilled (bound)

\* Active video stream, active audio stream, another audio stream, any other.
Kinds == {"video", "audio", "audio2", "other"}

\* The kinds of the streams, and for each packet which stream it belongs to and
\* its size.  Of several streams of a type one is active.
InputSet(f) ==
    /\ f.streams \in Seq(Kinds)
    /\ f.packets \in Seq(DOMAIN f.streams)
    /\ f.sizes \in [DOMAIN f.packets -> Nat]
    /\ \A k \in {"video", "audio"} : \A i, j \in DOMAIN f.streams :
          f.streams[i] = k /\ f.streams[j] = k => i = j
    /\ "audio2" \in Range(f.streams) => "audio" \in Range(f.streams)

ASSUME TranscoderAssumption ==
    /\ \A f \in Inputs : InputSet(f)
    /\ QueueLimit \in Nat \ {0} /\ EncBuffers \in Nat \ {0}
    /\ MaxSets \in Nat \ {0} /\ MaxUnfilled \in Nat

VARIABLES
    input,       \* external: the file
    stray,       \* the kind of stream that m_streams[-1].id happens to name
    pos,         \* packets read so far
    eof,         \* m_eof
    avpkt,       \* m_av_pkt: the packet that it holds
    codec,       \* m_codec_type
    mpc,         \* where main is
    pkt,         \* m_omx_pkt of main
    handed,      \* packets that the player has accepted, in order
    queue,       \* those that it has not decoded, by their number in handed
    delivered,   \* those that it has decoded
    dropping,    \* may it drop any?  main never asks for that
    hand,        \* omx_pkt of the worker: empty, the head of queue, or that one
                 \* for ever ("stuck"); "absent": there is no worker
    avail,       \* m_omx_output_available of the encoder: what the buffers hold
    device,      \* external: the buffers that the encoder has, with what they held
    flushing,    \* external: how many of them a flush is to bring back
    at,          \* where the threads that call enc_done_callback are
    buf,         \* the buffer that they pass
    muxLock,     \* owner of the muxer's m_lock
    stored,      \* sps, pps: the parameter sets that the muxer has
    ready,       \* is_ready_write
    header,      \* the header has been written
    written,     \* what av_interleaved_write_frame was given, in order
    skipped,     \* history: what was dropped for want of a header
    freed,       \* history: packets released with FreePacket(OMXPacket *)
    lost,        \* history: packets that Read did not pass on
    leaked,      \* history: packets that main forgot
    sets,        \* external: how many parameter sets the encoder has emitted
    frames,      \* external: the last frame that it has emitted
    unfilled     \* history: how many buffers came back unfilled

readerVars == <<input, stray, pos, eof, avpkt, codec, lost>>
mainVars   == <<mpc, pkt, handed, freed, leaked>>
playerVars == <<queue, delivered, dropping, hand>>
poolVars   == <<avail, device, flushing, at, buf, sets, frames, unfilled>>
muxVars    == <<muxLock, stored, ready, header, written, skipped>>
vars == <<readerVars, mainVars, playerVars, poolVars, muxVars>>

Nothing   == 0
Callers   == {"worker", "encoder"}
ParamSets == {"sps", "pps"}

Audio(p)  == [kind |-> "audio", id |-> p]
Frame(n)  == [kind |-> "frame", id |-> n]
ParamSet(s) == [kind |-> "set", set |-> s]
Blank     == [kind |-> "blank"]

\* The player, with its packets numbered in the order of acceptance.
Player == INSTANCE PacketChannel WITH
    accepted <- Len(handed), pending <- queue

Init ==
    /\ input \in Inputs
    /\ stray \in {"video", "other"}
    /\ pos = 0 /\ eof = FALSE /\ avpkt = Nothing /\ codec = "video"
    /\ mpc = "start" /\ pkt = Nothing /\ handed = <<>>
    /\ Player!Init /\ hand = "empty"
    /\ avail = [i \in 1 .. EncBuffers |-> Blank] /\ device = <<>> /\ flushing = 0
    /\ at = [t \in Callers |-> "idle"] /\ buf = [t \in Callers |-> Blank]
    /\ muxLock = "nobody" /\ stored = {} /\ ready = FALSE
    /\ header = FALSE /\ written = <<>> /\ skipped = {}
    /\ freed = {} /\ lost = {} /\ leaked = {}
    /\ sets = 0 /\ frames = 0 /\ unfilled = 0

\* m_has_video, m_has_audio: there is a stream.
HasVideo == "video" \in Range(input.streams)
HasAudio == "audio" \in Range(input.streams)
StreamOf(p) == input.packets[p]
KindOf(p) == input.streams[StreamOf(p)]
CodecOf(kind) == IF kind = "audio2" THEN "audio" ELSE kind
Some(p) == {p} \ {Nothing}

-----------------------------------------------------------------------------
(***************************************************************************)
(* main, up to its loop, and do_exit.                                      *)
(***************************************************************************)

KeepSetUp == UNCHANGED <<readerVars, pkt, handed, freed, leaked, queue, delivered,
                         dropping, poolVars, muxLock, stored, header, written, skipped>>

\* The input is a URL, a pipe, or a file that exists; or main returns at once.
CheckInput ==
    /\ mpc = "start"
    /\ mpc' \in {"done", "reader"}
    /\ KeepSetUp /\ UNCHANGED <<ready, hand>>

\* The reader may fail to open it.
OpenReader ==
    /\ mpc = "reader"
    /\ mpc' \in {"exit", "player"}
    /\ KeepSetUp /\ UNCHANGED <<ready, hand>>

\* The player, with its thread, for a file with video.  The result of
\* pthread_create is ignored.
OpenPlayer ==
    /\ mpc = "player"
    /\ mpc' \in IF HasVideo THEN {"exit", "setcallback"} ELSE {"setcallback"}
    /\ hand' \in IF HasVideo THEN {"empty", "absent"} ELSE {"empty"}
    /\ KeepSetUp /\ UNCHANGED ready

\* SetCallBack of the player goes to its decoder, and there is none without
\* video: what then happens is undefined.
SetCallBack ==
    /\ mpc = "setcallback"
    /\ mpc' = IF HasVideo THEN "muxer" ELSE "undefined"
    /\ KeepSetUp /\ UNCHANGED <<ready, hand>>

\* OMXMuxer::Open.
OpenMuxer ==
    /\ mpc = "muxer"
    /\ mpc' = "loop"
    /\ ready' = FALSE
    /\ KeepSetUp /\ UNCHANGED hand

\* CreatOutContext: in the place of the first stream, whatever that is, the output
\* has the stream of the encoder's video, and for each other audio stream a copy.
\* A copy is named by the number of its input stream.
Encoded == 0

CopyOf(i) == IF i = 1 THEN Encoded ELSE i

OutStreams ==
    LET made[i \in 0 .. Len(input.streams)] ==
            IF i = 0 THEN <<>>
            ELSE IF i = 1 \/ input.streams[i] \in {"audio", "audio2"}
                 THEN Append(made[i - 1], CopyOf(i))
                 ELSE made[i - 1]
    IN  made[Len(input.streams)]

\* do_exit closes everything, whether or not it is open.
Exit ==
    /\ mpc = "exit"
    /\ mpc' = "done"
    /\ freed' = freed \cup Some(pkt) /\ pkt' = Nothing
    /\ UNCHANGED <<readerVars, handed, leaked, playerVars, poolVars, muxVars>>

\* The process is gone.
Ended == mpc \in {"done", "undefined"} /\ UNCHANGED vars

SetUp == CheckInput \/ OpenReader \/ OpenPlayer \/ SetCallBack \/ OpenMuxer \/ Exit

-----------------------------------------------------------------------------
(***************************************************************************)
(* OMXReader::Read, by main when it holds no packet.                       *)
(***************************************************************************)

\* m_streams[m_audio_index].id == m_av_pkt.stream_index.  Without an audio
\* stream m_audio_index is -1, and what is read there may name any stream.
IsAudioIndex(kind) == kind = IF HasAudio THEN "audio" ELSE stray

\* The end of the file, or an error; m_codec_type stays.
ReadFails ==
    /\ eof' = TRUE /\ avpkt' = Nothing
    /\ lost' = lost \cup Some(avpkt)
    /\ UNCHANGED <<pos, codec, pkt>>

\* A packet that is not valid, or no memory for a copy: the end as well.
ReadDrops ==
    /\ pos < Len(input.packets)
    /\ pos' = pos + 1
    /\ eof' = TRUE /\ avpkt' = Nothing
    /\ lost' = lost \cup Some(avpkt) \cup {pos + 1}
    /\ \/ UNCHANGED codec
       \/ ~IsAudioIndex(KindOf(pos + 1)) /\ codec' = CodecOf(KindOf(pos + 1))
    /\ UNCHANGED pkt

\* Mutant: av_free_packet is missing after the copy.
CopyAndKeep == avpkt' = pos + 1 /\ pkt' = pos + 1

CopyPacket == avpkt' = Nothing /\ pkt' = pos + 1

\* A packet is read over the one that m_av_pkt still holds.  That of the active
\* audio stream stays there, and the answer is NULL; any other is copied.
ReadFrame ==
    /\ pos < Len(input.packets)
    /\ pos' = pos + 1
    /\ lost' = lost \cup Some(avpkt)
    /\ codec' = CodecOf(KindOf(pos + 1))
    /\ IF IsAudioIndex(KindOf(pos + 1))
       THEN avpkt' = pos + 1 /\ UNCHANGED pkt
       ELSE CopyPacket
    /\ UNCHANGED eof

Read ==
    /\ mpc = "loop"
    /\ mpc' = "dispatch"
    /\ IF pkt # Nothing \/ eof
       THEN UNCHANGED <<pos, eof, avpkt, codec, lost, pkt>>
       ELSE ReadFails \/ ReadDrops \/ ReadFrame
    /\ UNCHANGED <<input, stray, handed, freed, leaked, playerVars, poolVars, muxVars>>

-----------------------------------------------------------------------------
(***************************************************************************)
(* The branches of main's loop.                                            *)
(***************************************************************************)

IsVideo == pkt # Nothing /\ KindOf(pkt) = "video"
IsAudio == ~IsVideo /\ HasAudio /\ codec = "audio"

\* m_cached_size: the bytes in the queue, without the packet in the worker's hand.
Cached ==
    LET taken == IF hand \in {"held", "stuck"} THEN 1 ELSE 0
        sum[n \in 0 .. Len(queue)] ==
            IF n <= taken THEN 0 ELSE sum[n - 1] + input.sizes[handed[queue[n]]]
    IN  sum[Len(queue)]

Fits == Cached + input.sizes[pkt] < QueueLimit

\* AddPacket of the player: it accepts the packet, or main sleeps and tries
\* again with the same one.
Accept ==
    /\ Fits
    /\ handed' = Append(handed, pkt)
    /\ Player!Accept /\ UNCHANGED hand
    /\ pkt' = Nothing

\* Mutant: a refused packet is forgotten as well.
RefuseAndForget ==
    /\ ~Fits
    /\ pkt' = Nothing
    /\ UNCHANGED <<handed, playerVars>>

Refuse ==
    /\ ~Fits
    /\ UNCHANGED <<pkt, handed, playerVars>>

VideoBranch ==
    /\ mpc = "dispatch" /\ IsVideo
    /\ Accept \/ Refuse
    /\ mpc' = "loop"
    /\ UNCHANGED <<readerVars, freed, leaked, poolVars, muxVars>>

\* What is left of the audio branch when the muxer returns: FreePacket() frees
\* m_av_pkt, and m_omx_pkt is set to NULL whatever it is.
EndAudio ==
    /\ avpkt' = Nothing
    /\ pkt' = Nothing
    /\ leaked' = leaked \cup Some(pkt)
    /\ mpc' = "loop"

\* OMXMuxer::AddPacket(AVPacket *) tests is_ready_write without the lock.
AudioBranch ==
    /\ mpc = "dispatch" /\ IsAudio
    /\ IF ready
       THEN /\ mpc' = "write"
            /\ UNCHANGED <<pkt, avpkt, leaked, skipped>>
       ELSE /\ EndAudio
            /\ skipped' = skipped \cup {Audio(p) : p \in Some(avpkt)}
    /\ UNCHANGED <<input, stray, pos, eof, codec, lost, handed, freed, playerVars,
                   poolVars, muxLock, stored, ready, header, written>>

\* Lock, write, UnLock.  A packet without data adds nothing to the output.
AudioWrite ==
    /\ mpc = "write"
    /\ muxLock = "nobody"
    /\ written' = IF avpkt = Nothing THEN written
                                     ELSE Append(written, Audio(avpkt))
    /\ EndAudio
    /\ UNCHANGED <<input, stray, pos, eof, codec, lost, handed, freed, playerVars,
                   poolVars, muxLock, stored, ready, header, skipped>>

\* Anything else is freed; with nothing to do main sleeps.
OtherBranch ==
    /\ mpc = "dispatch" /\ ~IsVideo /\ ~IsAudio
    /\ freed' = freed \cup Some(pkt)
    /\ pkt' = Nothing
    /\ mpc' = "loop"
    /\ UNCHANGED <<readerVars, handed, leaked, playerVars, poolVars, muxVars>>

-----------------------------------------------------------------------------
(***************************************************************************)
(* The worker and the encoder.                                             *)
(***************************************************************************)

\* Mutant: the buffer is not taken off the queue.
PeekBuffer == UNCHANGED avail

TakeBuffer == avail' = Tail(avail)

\* The encoder's side of Decode: no settings yet; a buffer that it takes; one
\* that it refuses, whereupon Decode calls DecoderFillBufferDone with it, with
\* what it held before; no buffer for 500 ms, and a flush.
NoRequest == UNCHANGED <<avail, device, flushing, at, buf, unfilled>>

FillThisBuffer ==
    /\ avail # <<>>
    /\ TakeBuffer
    /\ device' = Append(device, Head(avail))
    /\ UNCHANGED <<flushing, at, buf, unfilled>>

RefuseBuffer ==
    /\ avail # <<>>
    /\ unfilled < MaxUnfilled
    /\ TakeBuffer
    /\ unfilled' = unfilled + 1
    /\ at' = [at EXCEPT !["worker"] = "callback"]
    /\ buf' = [buf EXCEPT !["worker"] = Head(avail)]
    /\ UNCHANGED <<device, flushing>>

FlushOutput ==
    /\ avail = <<>>
    /\ unfilled + Len(device) <= MaxUnfilled
    /\ flushing' = Len(device)
    /\ unfilled' = unfilled + Len(device)
    /\ UNCHANGED <<avail, device, at, buf>>

\* Process takes the next packet; COMXVideo::Decode waits for a flush that it has
\* asked for.
WorkerTakes ==
    /\ hand = "empty" /\ queue # <<>>
    /\ at["worker"] = "idle" /\ flushing = 0
    /\ hand' = "held"
    /\ UNCHANGED <<readerVars, mainVars, queue, delivered, dropping, poolVars, muxVars>>

\* The packet is larger than the decoder's free buffers will ever be, or the decoder
\* takes no more: the poll of Decode has no timeout, and main does not flush.
WorkerStalls ==
    /\ hand = "held"
    /\ hand' = "stuck"
    /\ UNCHANGED <<readerVars, mainVars, queue, delivered, dropping, poolVars, muxVars>>

\* There is room: Process gives the decoder the packet and ignores the result of
\* COMXVideo::Decode.
WorkerDecodes ==
    /\ hand = "held" /\ hand' = "empty"
    /\ UNCHANGED <<readerVars, mainVars, sets, frames, muxVars>>
    /\ Player!Deliver
    /\ NoRequest \/ FillThisBuffer \/ RefuseBuffer \/ FlushOutput

\* What the encoder emits next: both parameter sets, and then frames, in order,
\* each from a packet decoded, and now and then a set again.
Emissible ==
    IF stored # ParamSets THEN {ParamSet(s) : s \in ParamSets \ stored}
    ELSE {ParamSet(s) : s \in IF sets < MaxSets THEN ParamSets ELSE {}}
         \cup {Frame(n) : n \in frames + 1 .. Len(delivered)}

\* The encoder's thread calls back with the first of its buffers.
EncoderReturns(b) ==
    /\ device # <<>>
    /\ at["encoder"] = "idle"
    /\ at' = [at EXCEPT !["encoder"] = "callback"]
    /\ buf' = [buf EXCEPT !["encoder"] = b]
    /\ device' = Tail(device)
    /\ UNCHANGED <<readerVars, mainVars, playerVars, avail, unfilled, muxVars>>

EncoderEmits ==
    /\ flushing = 0
    /\ \E b \in Emissible :
          /\ EncoderReturns(b)
          /\ sets' = IF b.kind = "set" THEN sets + 1 ELSE sets
          /\ frames' = IF b.kind = "set" THEN frames ELSE b.id
    /\ UNCHANGED flushing

\* A flush brings a buffer back empty or as it was.
EncoderFlushes ==
    /\ flushing > 0
    /\ EncoderReturns(Blank) \/ EncoderReturns(Head(device))
    /\ flushing' = flushing - 1
    /\ UNCHANGED <<sets, frames>>

-----------------------------------------------------------------------------
(***************************************************************************)
(* DecoderFillBufferDone of the encoder: enc_done_callback, which is       *)
(* OMXMuxer::AddPacket of the buffer, after which the buffer is available  *)
(* again.                                                                  *)
(***************************************************************************)

KeepPool == UNCHANGED <<avail, device, flushing, buf, sets, frames, unfilled>>

\* The muxer returns.
EndAddPacket(t) ==
    /\ at' = [at EXCEPT ![t] = "push"]
    /\ KeepPool

\* The buffer is pushed to m_omx_output_available.
PushBuffer(t) ==
    /\ at[t] = "push"
    /\ at' = [at EXCEPT ![t] = "idle"]
    /\ avail' = Append(avail, buf[t])
    /\ UNCHANGED <<readerVars, mainVars, playerVars, device, flushing, buf, sets,
                   frames, unfilled, muxVars>>

\* Lock, OmxBuf2AvPkt if a header has been written, UnLock.
MuxFrame(t) ==
    /\ at[t] = "callback" /\ buf[t].kind # "set"
    /\ muxLock = "nobody"
    /\ IF ready THEN written' = Append(written, buf[t]) /\ UNCHANGED skipped
                ELSE skipped' = skipped \cup {buf[t]} /\ UNCHANGED written
    /\ EndAddPacket(t)
    /\ UNCHANGED <<readerVars, mainVars, playerVars, muxLock, stored, ready, header>>

\* Mutants: is_ready_write is set before the header is written; it is reset by
\* every parameter set.
ReadyEarly == ready' = TRUE
ReadyAnew  == ready' = FALSE

ReadyAsBefore == UNCHANGED ready

\* WriteParameterSet: the set is stored; the first one leads to the header.
MuxSet(t) ==
    /\ at[t] = "callback" /\ buf[t].kind = "set"
    /\ muxLock = "nobody"
    /\ stored' = stored \cup {buf[t].set}
    /\ ReadyAsBefore
    /\ IF ready THEN EndAddPacket(t) /\ UNCHANGED muxLock
                ELSE /\ muxLock' = t
                     /\ at' = [at EXCEPT ![t] = "header"]
                     /\ KeepPool
    /\ UNCHANGED <<readerVars, mainVars, playerVars, header, written, skipped>>

\* Mutant: the lock is kept.
KeepMuxer == UNCHANGED muxLock

UnlockMuxer == muxLock' = "nobody"

\* avio_open and avformat_write_header, one of which may fail.
MuxHeader(t) ==
    /\ at[t] = "header"
    /\ \/ /\ header' = TRUE
          /\ at' = [at EXCEPT ![t] = "ready"]
          /\ KeepPool
          /\ UNCHANGED muxLock
       \/ /\ EndAddPacket(t)
          /\ UnlockMuxer
          /\ UNCHANGED header
    /\ UNCHANGED <<readerVars, mainVars, playerVars, stored, ready, written, skipped>>

MuxReady(t) ==
    /\ at[t] = "ready"
    /\ ready' = TRUE
    /\ UnlockMuxer
    /\ EndAddPacket(t)
    /\ UNCHANGED <<readerVars, mainVars, playerVars, stored, header, written, skipped>>

-----------------------------------------------------------------------------

MainStep == SetUp \/ Read \/ VideoBranch \/ AudioBranch \/ AudioWrite \/ OtherBranch

Callback(t) == MuxFrame(t) \/ MuxSet(t) \/ MuxHeader(t) \/ MuxReady(t) \/ PushBuffer(t)

Next == MainStep \/ WorkerTakes \/ WorkerStalls \/ WorkerDecodes
        \/ EncoderEmits \/ EncoderFlushes \/ Ended
        \/ \E t \in Callers : Callback(t)

Spec == Init /\ [][Next]_vars

\* Every thread keeps running; the worker's wait for room ends, or it is stuck.
FairSpec ==
    /\ Spec
    /\ WF_vars(MainStep) /\ WF_vars(EncoderFlushes)
    /\ WF_vars(WorkerTakes) /\ WF_vars(WorkerStalls \/ WorkerDecodes)
    /\ \A t \in Callers : WF_vars(Callback(t))

-----------------------------------------------------------------------------
(***************************************************************************)
(* Properties.                                                             *)
(***************************************************************************)

Packets == 1 .. Len(input.packets)
Frames  == {Frame(n) : n \in 1 .. Len(input.packets)}
Buffers == {Blank} \cup Frames \cup {ParamSet(s) : s \in ParamSets}
Output  == {Blank} \cup Frames \cup {Audio(p) : p \in Packets}

\* Where the audio packets and the frames are in the output.
Written(kind) == {i \in 1 .. Len(written) : written[i].kind = kind}
WrittenAudio  == {written[i].id : i \in Written("audio")}
SkippedAudio  == {p \in Packets : Audio(p) \in skipped}
InOrder(kind) ==
    \A i, j \in Written(kind) : i < j => written[i].id < written[j].id

ReaderOK ==
    /\ input \in Inputs /\ stray \in {"video", "other"}
    /\ pos \in 0 .. Len(input.packets) /\ eof \in BOOLEAN
    /\ avpkt \in Packets \cup {Nothing} /\ pkt \in Packets \cup {Nothing}
    /\ codec \in {"video", "audio", "other"}
    /\ mpc \in {"start", "reader", "player", "setcallback", "muxer", "loop", "dispatch", "write",
               "exit", "done", "undefined"}
    /\ freed \subseteq Packets /\ lost \subseteq Packets /\ leaked \subseteq Packets

PlayerOK ==
    /\ handed \in Seq(Packets) /\ queue \in Seq(Packets) /\ delivered \in Seq(Packets)
    /\ dropping = FALSE /\ hand \in {"empty", "held", "stuck", "absent"}

PoolOK ==
    /\ avail \in Seq(Buffers) /\ device \in Seq(Buffers)
    /\ flushing \in 0 .. Len(device) /\ Len(avail) + Len(device) <= EncBuffers
    /\ at \in [Callers -> {"idle", "callback", "header", "ready", "push"}]
    /\ buf \in [Callers -> Buffers]
    /\ sets \in Nat /\ frames \in 0 .. Len(delivered)
    /\ unfilled \in 0 .. MaxUnfilled

MuxOK ==
    /\ muxLock \in Callers \cup {"nobody"}
    /\ stored \subseteq ParamSets /\ ready \in BOOLEAN /\ header \in BOOLEAN
    /\ written \in Seq(Output) /\ skipped \subseteq Output

\* The types of the variables; in particular the pool of the encoder stays within
\* its limit.
TypeOK == ReaderOK /\ PlayerOK /\ PoolOK /\ MuxOK

\* An output buffer of the encoder is in the pool, with the encoder or in a
\* callback, whichever thread runs it and whether or not the muxer could write.
BuffersKept ==
    Len(avail) + Len(device) + Cardinality({t \in Callers : at[t] # "idle"}) = EncBuffers

\* Nothing reaches the output file before its header, although main tests
\* is_ready_write without the lock under which the encoder's thread sets it.
HeaderFirst == written # <<>> => header

\* Once something has been written nothing more is left out of the file, of
\* audio or video: the writers do not disagree on whether the muxer is ready.
NothingDroppedOnceBegun == [][written # <<>> => skipped' = skipped]_vars

\* Where each packet of the input is: still in a hand of main or the reader,
\* with the player, with the muxer, freed, dropped at the end of the input, or,
\* if its audio stream is not the active one, forgotten.  The player has the
\* video in the order of the file, without a gap.
PacketFate ==
    /\ 1 .. pos = Some(pkt) \cup Some(avpkt) \cup Range(handed) \cup freed \cup lost
                  \cup leaked \cup WrittenAudio \cup SkippedAudio
    /\ \A i, j \in 1 .. Len(handed) : i < j => handed[i] < handed[j]
    /\ \A p \in 1 .. pos : KindOf(p) = "video" =>
          p \in Some(pkt) \cup Some(avpkt) \cup Range(handed) \cup lost
    /\ Range(handed) \cap (Some(pkt) \cup freed \cup lost) = {}
    /\ \A p \in leaked : KindOf(p) = "audio2"
    /\ HasAudio /\ ~eof => lost = {}

\* The audio in the output is that of the active stream, in its order and
\* none of it twice, although main tells audio by the type of the packet read
\* last and takes what the reader then happens to hold.
AudioInOrder ==
    /\ InOrder("audio")
    /\ \A p \in WrittenAudio : KindOf(p) = "audio"

\* What DecoderFillBufferDone hands to the muxer are buffers that the encoder
\* has filled (OMXCore.cpp, the comment above DecoderFillBufferDoneCallback):
\* a frame is in the output at most once.
FrameWrittenOnce == InOrder("frame")

\* Main holds a packet that the player never accepts: AddPacket wants the sum to be
\* less than the limit even when the queue is empty.
TooLarge == IsVideo /\ input.sizes[pkt] >= QueueLimit

\* Of a file with video main reads the whole input, unless the set-up fails: nothing
\* else holds it up for ever, neither a full queue nor the muxer, than a packet
\* as large as the queue's limit, or a worker that was never started or waits
\* for ever for room in the decoder.
InputIsRead ==
    HasVideo => <>(eof \/ mpc = "done" \/ TooLarge \/ hand \in {"stuck", "absent"})

\* A thread that enters enc_done_callback leaves it.
CallbackReturns == \A t \in Callers : at[t] # "idle" ~> at[t] = "idle"
=============================================================================
