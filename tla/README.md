# omxtranscoder in TLA+

omxtranscoder reads a media file, decodes its video with the Raspberry Pi's
`OMX.broadcom.video_decode`, encodes it again with `OMX.broadcom.video_encode`
and writes the result with the unchanged audio to a new file.  This directory
holds TLA+ models of the program, their TLC configurations, and proofs that
TLAPS checks.  Source paths are relative to the repository, `src/` here.

## 1. The system

### Threads

| thread | runs | enters |
|---|---|---|
| main | `main` (`omxtranscoder.cpp`) | reader, player (client side), muxer (audio) |
| worker | `OMXPlayerVideo::Process` (`OMXTranscoderVideo.cpp`) | player, `COMXVideo`, decoder and encoder |
| component | one per OpenMAX component, inside the firmware library | callbacks of `COMXCoreComponent`, muxer (video) |

### Components

**Video player, `OMXPlayerVideo`, on `OMXThread`.**  State: the queue
`m_packets` with `m_cached_size`, the flags `m_bAbort`, `m_bStop`, `m_flush`,
`m_flush_requested`, `m_running`, the two mutexes, the condition variable, the
decoder.  Operations of the client: `Open`, `AddPacket`, `Flush`, `Reset`,
`Close`; of the worker: `Process`, `Decode`.  Hard: four flags are read or
written without the mutex that protects their neighbours; `Decode` polls for
room with a mutex held that `Flush` and `Close` need; `pthread_cond_wait` is not
in a loop; `Reset` undoes what `Flush` asked for.  Correct when no packet is
lost without a request, reordered, decoded twice or freed twice; when nothing
from before a flush is decoded after it; when every call returns.

**Component wrapper, `COMXCoreComponent` (`OMXCore.cpp`).**  State: the lists of
all and of available buffers of two ports, the queue of events, the flags
`m_exit`, `m_flush_input`, `m_flush_output`, `m_resource_error`, the handle.
Operations: `Initialize`, `Alloc*Buffers`, `Get*Buffer`, `EmptyThisBuffer`,
`FillThisBuffer`, `Flush*`, `EnablePort`, `SetStateForComponent`,
`Free*Buffers`, `Deinitialize`; callbacks `DecoderEmptyBufferDone`,
`DecoderFillBufferDone`, `DecoderEventHandler`.  Hard: callbacks run beside the
client and beside the shutdown; waits time out and their answers come late; any
wait takes any error; allocation may stop half way; `Initialize` overwrites a
handle that is still in use.  Correct when a buffer has one owner, when a wait that
succeeds means that the command is done, when the shutdown frees nothing that is in use
and its asserts hold.

**Codec pair, `COMXVideo` (`OMXVideo.cpp`).**  State: a decoder and an encoder
wrapper, `m_settings_changed`, `m_is_open`, the mutex `m_critSection`.
Operations: `Open`, `SendDecoderConfig`, `Decode`, `PortSettingsChanged`, `Reset`,
`Close`.  Hard: one `Decode` call passes buffers through four pools, any of which
may be empty or refuse; its error paths return at different points; the format may be
announced again.  Correct when each path gives every buffer back, when no part of
a packet is decoded without the parts before it, when frames keep their order, when
the encoder is set up once, and when every call returns.

**Muxer, `OMXMuxer`.**  State: the output context, the SPS and PPS,
`is_ready_write`.  Operations: `Open`, `AddPacket` for video (component thread)
and audio (main thread), `Close`.  Hard: two threads; the header is written with
the first parameter set that arrives.  Correct when nothing is written before
the header, and nothing is left out after it.

**Reader, `OMXReader`, on `CFile`.**  State: the format context, the byte context
and the file under it, the table of streams with the counts and active streams of
each type, the packet last read, end of file, the start and length of the timeout.
Operations: `Open`, `Read`, `GetStreams`, `AddStream`, `SetActiveStream`, `SetSpeed`,
`SeekTime`, `FreePacket`, `Close`; callbacks `dvd_file_read`, `dvd_file_seek`,
`interrupt_cb`.  Hard: `Open` fails at six places with different things allocated,
and every one calls `Close`, which is called again later; the timeout is a global, set by
some calls and by the callbacks; `Read` answers NULL for several reasons.  Correct
when everything is freed once, when each type that has a stream has one active stream,
when a slow input ends the call and a prompt one is never taken for slow.

**Main (`omxtranscoder.cpp`).**  State: the packet not yet accepted.  It opens
reader, player and muxer, each of which may fail, and then moves packets from the
reader to the player or to the muxer in a loop that has no exit.

**Log, `CLog`.**  State: the file, the level, the last line with the number of its
repetitions; a mutex.  All threads log.  Correct when what the file
says, with its counts, is what was logged.

**Tunnel, `COMXCoreTunel`.**  State: `m_tunnel_set`, the two components.
`Initialize`, `Establish`, `Deestablish`.  Compiled out of the chain (`NON_TUNNEL`).
Hard: each step may be refused, time out or find the port already switched.

**Bitstream converter, `CBitstreamConverter`.**  State: the parameter sets, the
buffers, the direction, `first_idr`.  `Open`, `Convert`, `Close`, and the
readers of bits.  It converts H.264 between lengths and start codes; linked and
not used by the program.  Hard: a search for start codes by aligned words, buffers that
are freed in several places, a flag that is carried from packet to packet.
Correct when no NAL unit is lost, cut or joined and no block is freed twice.

**Pure functions.**  `add_timespecs`, `ToOMXTime`, `ConvertTimestamp`,
`NormalizeFrameduration`, `GetChapter`, `SeekChapter`, `GetHints`, `_aligned_malloc`.

**The rest.**  `COMXStreamInfo` is a record; `Mailbox.h` is not included anywhere;
`StdString.h`, `variant*.hpp` and the like are third-party.

### How they interact

    main --Read--> reader
    main --AddPacket--> player queue --Process--> COMXVideo::Decode
        decoder.GetInputBuffer / EmptyThisBuffer ----> [decoder]
        encoder.GetOutputBuffer / FillThisBuffer ----> [encoder]
        decoder.GetOutputBuffer -> encoder.GetInputBuffer / EmptyThisBuffer
    [component] --DecoderEmptyBufferDone, DecoderFillBufferDone--> pools
    [encoder]   --m_enc_private_cb--> muxer.AddPacket (video)
    main --AddPacket--> muxer (audio)

## 2. The modules

| module | what |
|---|---|
| `VideoPlayer` | the player: client and worker, one access at a time |
| `PacketChannel` | abstract: the first-in-first-out channel that the player is to its client |
| `VideoPlayerMC` | instances for TLC |
| `VideoPlayerProofs` | proofs: types, locks, the decoder, order and accounting of packets, flushes, the counter, `Close`; and that `VideoPlayer` implements `PacketChannel` |
| `OMXComponent` | one component wrapper, the component behind it, its callbacks |
| `BufferPool` | abstract: the pools that a component's ports are to their users |
| `OMXComponentProofs` | proofs: buffers, commands and their answers, shutdown; and that `OMXComponent` implements `BufferPool` |
| `VideoCodec` | `COMXVideo`: `Decode` through the buffers of decoder and encoder |
| `VideoCodecProofs` | proofs: types, buffers, parts, frames, start times, one encoder |
| `Reader` | `OMXReader` and `CFile`: who owns what, the table of streams, the timeout |
| `ReaderProofs` | proofs: what is freed, the active streams, the time of a call |
| `Transcoder` | main with its set-up and loop, the packets of the reader, the player as `PacketChannel`, the encoder's output buffers and the muxer |
| `TranscoderProofs` | proofs: what becomes of packets and buffers, what reaches the output file |
| `Bitstream` | `CBitstreamConverter`, byte by byte |
| `BitReaders` | its bit readers and its parser of the SPS, as functions |
| `Log`, `LogProofs` | the log file and the count of repeated lines; proof |
| `Tunnel`, `TunnelProofs` | `COMXCoreTunel` against two components; proofs |
| `Timing`, `StreamHints` | arithmetic of time and addresses; what the reader tells the player of a stream |
| `ConversionProofs` | proofs: what those two compute; of `Bitstream` the search for start codes, the units kept in both directions and the memory |
| `OMXComponentMC`, `VideoCodecMC`, `ReaderMC`, `TranscoderMC`, `BitstreamMC` | instances for TLC |

### VideoPlayer

Each variable carries the name of the member it stands for in its declaration.
`mpc` and `ppc` are the positions of the client's and the worker's thread; a
nested call (`Close` calls `Flush`, `Open` calls `Close`) is told by `call`,
which says what to return to.  The client makes one call at a time and never
calls `AddPacket` on a player that was not opened; it is otherwise free.

A step is one access to shared state, or one critical section if all that it
touches is protected by its mutex.  So `Flush` is six steps
(`FlushRequest` writes `m_flush_requested` with no lock; the two locks are taken
one after the other), and `Process` is ten.  `DecodeSleep` and `DecodeAwake` are
the two ends of the poll in `Decode`: the flag is read after the sleep.

Packets are numbers in the order of submission, and have a size.  Sizes,
`QueueLimit` and `FifoSize` are counted in decoder input buffers:
`GetInputBufferSpace` counts whole free buffers.  `COMXVideo::Decode` is one step that
places any part of the packet, because it may fail at any buffer and its result
is not looked at.  `DecoderConsumes` is the firmware taking input.  `m_use_thread` is
true, as in `main`.  Timestamps, `m_stream_id`, `m_open` and the frame
rate decide nothing and are left out; `SubmitEOS` and `IsEOS` are never called.
`pthread_create` may fail: its result is ignored, `m_running` is set all the same.

`decoded`, `freed` and `mark` are history variables.  No guard reads them.

### OMXComponent

The code for the two ports differs in names only, so the port is a parameter.
A call of the client is a script, a sequence of steps (`Send` a command, `Wait`
for it with the result ignored, `Need` it with the result looked at, `Do` something to
the buffers); the head of the script is the program counter.  Callbacks run
between the steps.  `DecoderEmptyBufferDone` has two steps, the test of `m_exit`
and the push under the mutex; so has an error event, `AddEvent` and then
`m_resource_error`.

What is behind the handle is external and modelled from how the code uses it:
commands for a port, and commands that change the state, complete in order; a
flush or a disable completes when the component has given the port's buffers back;
a disable needs them freed, an enable needs them allocated.  Anything may go wrong at
most `MaxFaults` times: a refused command, a failed allocation, an error event,
a wait that times out although the component could go on.  A wait for something
that can no longer happen (`Stuck`) times out without being counted as a fault.

`Initialize` sets `m_handle` to NULL and the counts to 0 without asking what was there
(`OMXCore.cpp:1388`), and leaves the lists of buffers alone.  One caller does that to a live
wrapper: `PortSettingsChanged` (`OMXVideo.cpp:241`), whose encoder has kept its handle from a
set-up that failed later.  `Initialize` has that case (`SetUpFailed` is its guard: something
went wrong, and `Decode` has not used the encoder, so that all its buffers are at home).  The
component behind the old handle goes on by itself: `late` holds the commands that it has not
completed, and `LateCompletion` reports them to the new owner of the list of events.  The
old buffers stay in `all` and `avail`, and new ones join them.  `owed` is history: the
commands whose completion may come although nobody waits for it any more, because a wait for it was
given up or because its handle was overwritten.

`OMX_GetParameter` and `OMX_SetParameter` always succeed here (that they may fail is in
`SetUpFailed`), `OMX_FreeBuffer` and
`OMX_FreeHandle` too (their results are logged only); `m_ignore_error` is
`OMX_ErrorNone`, as in this program; `UseEGLImage` is never called.  `WaitForEvent` is in `VideoCodec`,
the encoder's private callback in `Transcoder`; nothing uses the EOS flag.
`all`, `avail` and the buffers in hand are separate variables, so the
bookkeeping can be wrong in the model where it can be wrong in the code.

`BufferPool` says what the users of a port rely on: a pool gets new buffers behind the free ones
it has, hands out its free buffers first in, first out, each to one user, loses one only
while it is closed, is emptied when every buffer is back, and is opened again when none is out.  `OMXComponent` implements it with
`members` as `all`, `free` as `avail`, `taken` as `held`, `working` as what the component or a
callback has, `lost` as `dropped` and `closing` as `m_exit`; commands, events and faults are
stutters.

### VideoCodec

Every method of `COMXVideo` holds `m_critSection`, so one call is under way at a
time; what goes on beside it are the decoder and the encoder.  `pc` is the position in
`Decode`, one value for each place where it looks at a pool or waits: an input buffer
of the decoder (`input`), an output buffer of the encoder (`encOutput`), one of the
decoder (`decOutput`), an input buffer of the encoder (`encInput`), the decoder's
output buffer given back (`refill`), the event (`poll`), and `PortSettingsChanged`
(`setup`, `setupDecoder`).  A call into a component is one step with the outcomes that
`OMXComponent` gives it; a wait may time out at any time.  A resource error of the encoder is not
kept: each call in which it makes itself felt (`HasNone`: no buffer although there are some) is a fault.

A packet is a number and fills `Parts[packet]` buffers.  Of the decoder's input the model
keeps the part, of its output the frame, of the encoder's buffers the number of the
handle that they were allocated for, so that a buffer of a handle that was lost can
turn up in the pool of the next.  The player's check that there is room, and its
calls `Open`, `Decode`, `Reset` and the destructor, are the guards of the client's actions.
The decoder consumes and emits in order and announces its format when it has
consumed a packet; it may report errors.  `events` is its `m_omx_events`, from which
`WaitForEvent` takes the announcement, or any error in its place.

`input`, `whole`, `sent`, `handles`, `failed`, `allocated`, `lost`, `epoch` and `began` (how many
packets `Decode` had got before the last `Open` or `Reset`) are history variables.

### Reader

One thread.  A call of libavformat that accesses the input begins in one step and
ends in another, and `Tick` passes between.  For a local input libavformat calls
back: `FileAccess` is `dvd_file_read` or `dvd_file_seek`, which reset the timeout and may then
block; for a URL it waits itself and polls `interrupt_cb`.  `heap` is what is
allocated, each thing with the number of the `Open` that made it, and `misuse` records
a second release.  `Close` is one operator on the record of what is owned, as `Open`
calls it at each failure.  `misuse`, `excused`, `waited` and `discarded` are history.

The streams of an input and the order in which its programs list them are
constants; `Table` is what `AddStream` makes of those that `GetStreams` visits, one after the other
(a function of how many it has visited, by recursion).  That no program lists a stream twice is assumed:
`av_program_add_stream_index`, which fills the lists, looks for the number first.  A stream whose
number is `MAX_STREAMS` is written beyond the array: `pc` is then `undefined` and
the model stops there.  `main` opens without `live`, and nothing sets `g_abort`.

### Bitstream and BitReaders

Bytes are numbers, buffers are sequences of them, a block of memory is a number
with `heap` the set of those allocated.  The search for start codes is the code's, with its
aligned words; `align` is where the data begins in memory.  The client opens an object once,
converts, reads the result, closes and deletes it.  `BitReaders` holds `get_bits`, the cached reader
of NAL units and `parseh264_sps`; they are functions, and `BitstreamMC` compares them, and the
search, with their definitions over bounded inputs (`ASSUME`s that the run evaluates; one of them,
`StreamsConform`, is the hypothesis of the theorem about the units).

### Log, Tunnel, Timing, StreamHints

`Log` is `CLog::Log` under its mutex: one step per call.  `told` remembers for each line of
the file how much of what was logged it accounts for.  `Tunnel` follows `Establish` and
`Deestablish` command by command and wait by wait, with two components that
answer late, fail, come and go; what a failed `OMX_SetupTunnel` leaves of a tunnel that was set
before is up to them.  `Timing` uses integers where the code uses doubles, so
its theorems are about the algorithms and not about rounding.  These four have no run:
what is said about them is proved for every value.

### Transcoder

Main, the player's worker and the encoder's thread.  The player is an `INSTANCE`
of `PacketChannel`, the specification that `VideoPlayerProofs` proves it
implements; packets are numbered in the order of acceptance, and `dropping` stays
false because main never flushes.  One turn of main's loop is two steps,
`Read` (which does nothing while main holds a packet) and the branch it takes;
audio takes a third, since `AddPacket(AVPacket *)` tests `is_ready_write` before it locks.
`avpkt` is what the reader's `m_av_pkt` holds between the calls, `codec` the type of the
packet read last.  Without an audio stream `m_audio_index` is -1, and `stray` is what
`m_streams[-1].id` happens to name.

`DecoderFillBufferDone` of the encoder runs on the encoder's thread, for a buffer
that it filled or that a flush brought back, and on the worker for a buffer that the encoder
refused.  `at` says where each of the two is: waiting for the muxer's mutex
(`callback`), between storing the first parameter set and writing the header
(`header`), between that and `is_ready_write` (`ready`), or before the push to the
available buffers (`push`).  The four ways in which `Decode` can deal with the
encoder's output are four operators of `WorkerDecodes`; what the decoder makes of the packet is
not followed, only that the encoder emits both parameter sets first and then
frames in order, at most one for each packet decoded.  The worker waits for the end of a flush.

The queue's limit is in bytes, as `AddPacket` tests it: `Fits` compares the bytes in the queue
(`Cached`, without the packet in the worker's hand) and the packet with `QueueLimit`, so a
packet as large as the limit is never accepted.  `hand` is the worker's hand: it takes a packet
(`WorkerTakes`), waits for room in the decoder, and decodes it (`WorkerDecodes`) or waits for ever
(`WorkerStalls`), since the poll has no timeout and main never flushes; it is `absent` when
`pthread_create` has failed.

`OutStreams` is what `CreatOutContext` makes: in the place of the first input stream, whatever that
is, the H.264 stream of the encoder; for each other audio stream a copy; nothing for the rest.
A packet is written with the number of its input stream.

`input` is a file: the kinds of its streams (active video, active audio, another
audio stream, anything else), the stream of each packet and its size.  The set-up comes first
(`CheckInput`, `OpenReader`, `OpenPlayer`, `SetCallBack`, `OpenMuxer`), and each failure leads to
`Exit`, which is `do_exit`.  Without video `SetCallBack` goes through a NULL pointer: `mpc` is
then `undefined`, and the model stops there.  `skipped`, `freed`, `lost`, `leaked` and `unfilled` are
history variables (`unfilled` is also bounded).

## 3. What is checked

| run | instance | properties |
|---|---|---|
| `player_safety` | 3 packets of sizes 2, 1, 2; limit 4; fifo 2; every call but `Reset` | `TypeOK`, `DecoderSafe`, `PacketAccounting`, `CachedExact`, `DecodedInOrder`, `AtMostOneLostPerFlush`, `NoStaleDecode`, `ImplementsChannel` |
| `player_live` | 3 packets, the second larger than the fifo; every call; fairness | `CallReturns`, `AcceptedIsFreed` |
| `player_reset` | `Open`, `AddPacket`, `Reset` | `NoStaleDecode` is violated |
| `component` | two input buffers, one output buffer, one handle, one fault of any kind | `TypeOK`, `NoDuplicateEvents`, `CleanShutdown`, `FreedIsBack` |
| `component_reopen` | one buffer on each port, two handles, the second after a shutdown or over the first, one fault | `BufferOwnership`, `ImplementsPool`, `WaitMeansDone` |
| `component_assert` | no fault at all | `AssertHolds` is violated |
| `codec` | 3 packets, the second of two parts; two input buffers of the decoder, two output and one input buffer of the encoder; 2 faults, 2 announcements, 1 reset; fairness | `TypeOK`, `FramesInOrder`, `PartsInOrder`, `TrueMeansWhole`, `StartTimeIsFirst`, `OneEncoder`, `DecoderBuffersKept`, `DecodeReturns` |
| `reader` | a file, a FIFO, stdin and a URL with 2 to 5 streams, opened twice; a table of 3; fairness | `TypeOK`, `ReleasedOnce`, `ExactlyOneActive`, `PromptIsKept`, `NetworkCallReturns` |
| `reader_stall` | the same, opened once | `StalledCallReturns` is violated |
| `transcoder` | six files of 1 to 7 packets, among them one without audio, one without video, one with audio first and one with a packet as large as the limit; limit 2; 2 encoder buffers; 3 parameter sets; 2 unfilled buffers; fairness | `TypeOK`, `BuffersKept`, `HeaderFirst`, `PacketFate`, `AudioInOrder`, `NothingDroppedOnceBegun`, `InputIsRead`, `CallbackReturns` |
| `transcoder_refused` | 5 packets of video, one unfilled buffer | `FrameWrittenOnce` is violated |
| `bitstream` | 7 streams, avcC with lengths of 4, 3 and 2 bytes, start codes at each alignment, extradata cut short or without a PPS; 3 packets each | `UnitsAreKept`, `FreedOnce` |

**Bounds.**  `NumPackets` = 3 is enough for one packet decoded, one in hand and
one queued at a flush, which is every relation of packet and flush that the
code can tell apart; 3 also makes the limit refuse one.  Flushes, closes and
reopenings are not bounded: their state is finite.  `MaxHandles` = 2 lets an
event or a buffer of the first handle meet the second.  `MaxPending` = 1 holds
back a new flush or state change while a timed-out command is unfinished; the
calls inside `Deinitialize` and `Alloc` are not held back.  `MaxBusy` bounds how many buffers the
client and the component have together.  `MaxFaults` = 1 is one thing
gone wrong at any step, followed by whatever the code makes of it.  Two input
buffers let one be with the component while the other is with the client.

In `Transcoder`, four video packets are two buffers for the parameter sets and two
for frames, so that the second of them reuses a buffer with a set in it; packets of one byte and a limit of two
bytes make a queue of one, besides the packet in the worker's hand, and main retries.  `MaxSets` = 3 brings a parameter set after the header and `MaxUnfilled` = 2
a flush of both buffers, or a refused one with a flush of another.  The files put audio
before, between and after the video, with a second audio stream and with none.

In `VideoCodec`, `DecInputs` = 2 lets the configuration and a packet be with the
decoder together, a packet of two parts makes a failure fall between its parts, and three
packets are enough for one frame before another with a third on the way.
`MaxChanges` = 2 announces the format again after the encoder exists; `MaxFaults` = 2 lets
a set-up fail half way and something fail after it, which is what it takes to have
two handles with a buffer out.  In `Reader`, `MaxStreams` = 3 lets inputs of four and five streams go beyond
the table (none has an audio, video or subtitle stream with the very number 3, where
the model would stop); `Timeout` = 1 with ticks up to 4 separates in time, just
late, and later than the threefold timeout of `Open`; `MaxOpens` = 2 opens what was closed.  In `Bitstream`
three packets are an IDR picture, another picture, and an IDR picture again, which is the way of
`first_idr`.

**Deadlock** is checked in the runs of the player, the reader and the transcoder; where
the transcoder stops (after `do_exit`, or where its behaviour is undefined) the step `Ended` says so.
It is not in the component's, where a client that has used up its handles, or whose assert
failed, has nothing to do, nor in `codec` and `bitstream`, where the object is deleted in the end.

**Fairness** (`FairSpec`).  Both threads are scheduled, a call that has begun is
carried out, and the decoder goes on consuming.  Condition variables do not wake up
spuriously for ever.  The client does not flush, close and open for ever: `main`
does none of it inside its loop.  Without that, since mutexes are not fair, the
client could keep the worker from `m_lock`; this is a limit of the liveness
results.  Starting a call is never fair: a client may stop.
In `Transcoder` main, the worker, the callbacks and a flush under way keep going; the
encoder need not emit anything.  That the decoder goes on taking input is not assumed there: the
worker's wait for room ends in `WorkerDecodes`, or it is the one that never ends, `WorkerStalls`.  The demuxer and the output library return.
In `VideoCodec` only the thread that is in `Decode` keeps going: decoder and encoder need not do
anything, as every wait has a timeout.  In `Reader` time passes and libavformat polls
`interrupt_cb` while it waits for the network; a local file that answers is read on, but
nobody makes a file or the network answer.

**What the runs show.**  The protocol of `Flush` and `Decode` is sound although
it uses unlocked flags: no wakeup is missed, no call hangs, even when a packet
can never fit.  `m_flush` may stay set after a flush that found no packet in
hand, and then costs the client one packet submitted later, never two.  The unlocked
read of `m_cached_size` is harmless because only the client adds to it.  Of the component:
buffers keep one owner through any single fault, and through a handle that is overwritten; errors,
timeouts and overwritten handles leave completions behind that a later wait takes for its own.
`WaitMeansDone` says that these are the only ones (`owed`), and `FreedIsBack` that nothing else
lets the shutdown free a buffer in use: a flush of that very port that nobody waited out, or a resource
error, after which `Deinitialize` does not flush.  That the code frees in these cases without
asking is so, and no property claims otherwise.

Of the transcoder: the unlocked test of `is_ready_write` by main is harmless, because it is set
last and never reset; main's way of telling audio by the packet read last is
harmless too, because a failed `Read` clears what the reader holds.  What is lost is
what the code says nothing about: audio that comes before the first parameter set
(`skipped`), and the packets of a second audio stream, which main forgets without freeing them.
`CreatOutContext` takes the first stream of the input for the
video (`OMXMuxer.cpp:235`): when audio comes first, its codec context is not copied, and its packets go into the
stream of the video.  `AudioInOrder` therefore says nothing of the output's streams; `OwnStream` (section 4) says for which
files the number of a stream names its own copy.
Three things hold main up for ever, and only they (`InputIsRead`): a packet as large as the queue's limit,
which `AddPacket` never takes; a decoder without room for the packet in the worker's hand, since main
never flushes; a worker that was not created.

Of the codec: whichever of its returns `Decode` takes, the decoder is never given a part
after one left out, and true means that it has all of them.  Output buffers
of the decoder are lost only where the encoder does not take a frame (`lost` counts them:
`DecoderBuffersKept` admits that loss, one buffer for each such return, and no other).  The start time
goes with every part of the first packet after `Open` or `Reset`; when that call finds no
buffer it goes with none, since the flag is cleared before.  The encoder
is initialized again, and the old handle forgotten, only after a set-up that failed; from then on
a buffer of the old handle may be in the pool of the new one.

Of the reader: every way out of `Open` and any number of `Close` free everything once,
but for the options' dictionary of an `Open` that fails before
`avformat_open_input` and a byte context that the demuxer replaced (`excused`).
The time that main spends between two calls never counts as the input's.  Of the converter:
units are kept in both directions, across packets, loops and alignments; `PayloadIsRead` says that its reader of bits
departs from the standard for exactly the units with the bytes 0 0 3 0 3.  `UnitsAreKept` says nothing of
the converter from lengths of three bytes, which writes lengths of two bytes where the comments at
`BitstreamConverter.cpp:499` and `:637` speak of four: nothing says which the decoder is to
get, and the program does not use it.  `FreedOnce` keeps the blocks as a set,
so a block freed twice within one call of `Convert` or `Close` would go unseen; its client does not convert after
`Close`, which leaves `m_convertBuffer` dangling.

**Findings.**

1. `player_reset`: `OMXTranscoderVideo.cpp:117-120` says that `Reset` replaces
   `Close` and `Open`.  It clears `m_flush` right after `Flush` set it, so a packet that
   the worker had in hand is decoded after the reset, which `Close` and `Open` exclude.
2. `component_assert`: `OMXCore.cpp:774` and `:832` assert that all buffers are
   back.  `Deinitialize` sets `m_exit` before it flushes, and the callbacks then
   drop what the flush brings back; the assert fails in the plain case of a
   component that still has a buffer.  `CleanShutdown` in `component` shows the
   other side: it never fails when all buffers were back before.

3. `transcoder_refused`: `OMXCore.cpp:1550` says that `DecoderFillBufferDone` is called
   when an output buffer has been filled.  `Decode` also calls it for a buffer that the
   encoder refused (`OMXVideo.cpp:831`), which sends the frame of the buffer's last use to
   the muxer again.
4. `reader_stall`: `omxtranscoder.cpp:119` says how long a "file/network operation can
   stall for before timing out".  For a local input `dvd_file_read` resets the timeout,
   asks `interrupt_cb` and then blocks in `fread` (`OMXReader.cpp:107`), so nothing ends the call.  For a
   URL the timeout works: `NetworkCallReturns` in `reader`.

## 4. What is proved

For every number and size of packets, every limit, fifo and set of calls, from
`PlayerAssumption` (sizes are positive, the rest are naturals):

| theorem | says |
|---|---|
| `TypeCorrect`, `DecoderIsSafe` | `TypeOK` and `DecoderSafe` |
| `OrderOfDecoding` | `DecodedInOrder` |
| `NoPacketLost` | `PacketAccounting`, with what is left after `Close` |
| `FlushDiscards` | `NoStaleDecode`, if `"reset" \notin Calls` (with it, finding 1) |
| `CounterIsExact` | `CachedExact` |
| `FlushCostsOne` | `AtMostOneLostPerFlush` |
| `PlayerImplementsChannel` | the player implements `PacketChannel` |

The invariants on the way.  `DecoderSafe` is not inductive: that the decoder is not
deleted under `Decode` follows from the join, so `LockInv` (who holds which mutex, from
where the threads are), `ThreadInv` (the worker exists while `m_thread` is
set, the decoder as long as the worker) and `HandInv` (where a packet may be in hand) are
proved with `TypeOK` as `IInv`.  `OrderInv` says that the queue is a gapless run of
numbers after the packet in hand, which is after all those decoded; with it
`FreedInv` (what has left the queue and is not in hand is freed) gives the
accounting.  `StaleInv` says that a packet from before the last flush is in hand only
while `m_flush` is set and `Process` is yet to look at it: exactly what `Reset`
breaks.  For the refinement, `RequestInv` says that a `Flush` that empties the queue
does so with `m_flush_requested` set, so the abstract channel is `dropping`.

The counter and `Close` need more, `CloseInv`: which call each position of the client belongs to
(`CallInv`); that the queue which `Flush` empties stays empty until its caller returns (`EmptyInv`); that
`m_bAbort` is set only where there is neither thread nor decoder (`DownInv`).  `CountInv` says
that `m_cached_size` is the sum of the sizes in the queue and leaves the room that `AddPacket` has tested
for, unless `pthread_create` has failed: then nobody takes packets, and `CachedExact` claims nothing.  The sum is a recursive function; what the proof needs
of it (`BytesAppend`, `BytesTail`) follows from `SumShift`, by induction.  `LostInv` says that once
`Flush` is past its critical section, no packet has been lost to it while `m_flush` is set, since
`Process` resets the flag with the packet it drops.

For all numbers of buffers, faults and calls, from `ComponentAssumption` (`OMXComponentProofs`):

| theorem | says |
|---|---|
| `ComponentTypes` | `TypeOK` |
| `BuffersHaveOneOwner` | `BufferOwnership` |
| `EventsAreDistinct` | `NoDuplicateEvents` |
| `ShutdownIsClean` | `CleanShutdown` |
| `WaitsAreAnswered` | `WaitMeansDone` |
| `FreedBuffersAreBack` | `FreedIsBack` |
| `ComponentImplementsPool` | `ImplementsPool`: the component implements `BufferPool` |

All but the refinement come from one invariant, `IInv`.  A script is data, and what a step does depends on
the steps after it, so `ScriptInv` says which scripts there are: a command is followed by the wait for it
(`Paired`), a port is allocated or enabled once (`Once`), `Deinitialize` flushes before it frees
(`FlushFirst`) and goes on to the end whatever fails (`Lasting`), a port gets buffers once with each handle, and
what is enabled was disabled (`Fits`).  It holds of every script that a call starts with and of every part that is left of one.
`HandleInv`: scripts and commands need a handle.  `OwnerInv`: the lists, the buffers in the
client's hands, those of the component and the one in a callback are disjoint, and each buffer of a port
is in one.  `HomeInv`: during `Deinitialize` what was home stays there.  `OpenInv` is about the commands that nobody
owes (`Punctual`): such a command is outstanding once, somebody waits for it, and what it enables is
not disabled meanwhile.  What comes `late` is owed; after a wait given up, or over an old handle, the code may
send a command while the same one is still outstanding, and then a wait may end with the wrong answer.
`FlushInv`: while `Deinitialize` runs without a resource error, a port whose punctual flush is answered has no
buffer at the component or in a callback, which is what it relies on when it frees them.  `RemoveEvent` is a loop over the
list of events with an erasure in the middle; that it keeps the list free of duplicates, and
loses no other event, is an induction on its steps.

The refinement needs `PoolInv` besides: `m_exit` is set exactly while `Deinitialize` is under way, or the
handle is gone; it sets the flush flags, so nothing is taken any more; without a handle
nobody has a buffer; and while a port has buffers, the step of `Deinitialize` that frees them is still to come.
A step of the component is a step of one pool or a stutter; the assert of `FreeOutputBuffers` and
`FreeInputBuffers` is what keeps an emptied pool whole, since the program ends where it fails.

For all packets, numbers of buffers, failures, announcements and resets, from
`CodecAssumption` (`VideoCodecProofs`):

| theorem | says |
|---|---|
| `NoPartLeftOut`, `TrueIsWhole` | `PartsInOrder` and `TrueMeansWhole` |
| `OrderOfFrames` | `FramesInOrder` |
| `OutputBuffersKept` | `DecoderBuffersKept` |
| `EncoderIsOne` | `OneEncoder` |
| `StartTimeOnce` | `StartTimeIsFirst` |
| `CodecTypes` | `TypeOK` |

The types are proved in groups, since no property needs all of them.  `InputInv` says
how the parts given so far relate to the packet in hand and the next part (a packet begins at
part 1, the last one given is the one before), which gives the order and the wholeness of parts.
`FrameOrder` says that the frames on their way (given to the encoder, in
`Decode`'s hand, in the queue of decoded buffers, last emitted) increase, where a
buffer without a frame does not count: the buffer that goes round is reset before it is decoded into again.
`HandlesFailed` says that a second handle needs a failed set-up, and `EncoderTypes` that no
buffer has a handle from the future.  `StartInv` says that while the flag of the start time waits,
`Decode` has got no packet since it was set, and that a packet which comes later finds it cleared: so the start time is on
the first packet that `Decode` gets, in all its buffers, and lost if that packet gets none.

For every set of files, every number of buffers and every bound
(`TranscoderProofs`):

| theorem | says |
|---|---|
| `HeaderIsFirst` | `HeaderFirst` |
| `NothingLeftOut` | `NothingDroppedOnceBegun` |
| `TypeCorrect` | `TypeOK` |
| `PoolIsKept` | `BuffersKept` |
| `PacketsAreAccounted` | `PacketFate` |
| `AudioIsInOrder` | `AudioInOrder` |
| `OwnStream` | for which streams `CreatOutContext` makes a copy under their own number |

`HeaderFirst` is not inductive: `MuxInv` adds that `is_ready_write` implies the
header, that a callback past the header implies it too, that main, once
on its way to the mutex, still has `is_ready_write` set, and that before `OMXMuxer::Open`
nobody is in the muxer; no assumption on the constants is used.  The other four share an `IInv`.
Each packet that was read is delivered, written, held or left out, and `HandInv` says that main and the reader
together hold at most one: the one read last, and not yet handed on.  `QueueInv` says that the player
drops nothing and was given no more than was read; `BranchInv` where in its loop main may
hold what, and `WorkerInv` that a worker which waits for room has nothing else to do.  The order of audio then follows: what
is written is what was read last.  Which stream of the output it reaches is the number's business:
`OwnStream` says that a stream has a copy under its own number just if it is not the first one and every stream from the second up
to it is audio, by induction over the streams (`OutOk`).

For all inputs, orders of streams, timeouts and numbers of `Open`, from `ReaderAssumption` (`ReaderProofs`):

| theorem | says |
|---|---|
| `TypeCorrect` | `TypeOK` |
| `TimeIsGiven` | `PromptIsKept` |
| `OneIsActive` | `ExactlyOneActive` |
| `FreedOnce` | `ReleasedOnce` |

`ClockInv`: while `Read` waits, the time that has passed and the time it has belong to one
call.  `TableInv`: the table is empty until `GetStreams` has filled it, and then as that leaves it;
`TableOk`, by induction over the streams visited, that it has each stream once, in place, and counts them.
`OwnInv` is about `Close`, which is called from six places with different things
allocated: `StageInv` says what is set at each stage of `Open`, and `Owns` that everything that a
variable points to is allocated, under one name only, and that everything allocated is
pointed to or `excused`.  The proof follows what is released, from the context to the byte
context, the file and the extradata, and each operator keeps `Owns`.  `CountInv` and `FlagsInv` complete the types.

For all lines, levels and changes of the level (`LogProofs`): `LogIsFaithful`, the file tells what was logged,
in its order, if no line is blank (`Blank = {}`: a blank line is remembered but not written, and the count of its repetitions then
follows the wrong line).  Its invariant adds to `LogIsComplete` that the last line kept is the last line logged.
For the tunnel (`TunnelProofs`): `TunnelIsSet`, `m_tunnel_set` means that the tunnel is set on both
ports whatever was refused or late, but for a component taken down or a failed `OMX_SetupTunnel` meanwhile; `DownTakesPorts`, `Deestablish` succeeds only when both ports were
enabled, or something else answers its waits, which the invariant `Waited` says wait by wait.

`ConversionProofs`, for all numbers: `add_timespecs` is the sum, and valid but for a positive whole
number of seconds (`DeadlineIsExact`); a 64-bit time survives `ToOMXTime` and back
(`TicksRoundTrip`); `ConvertTimestamp` keeps the order of timestamps from the slack before the start on
(`OrderIsKept`), and not of all timestamps when the file starts later than the slack (`OrderIsLost`); one chapter contains a time (`OneChapter`);
`SeekChapter` asks for a position up to a millisecond before the chapter, in which `GetChapter` does not
find it unless the times are whole milliseconds, and for one that is too late when the chapter begins before the
file by more than the slack (`ChapterIsSought`);
`NormalizeFrameduration` moves little and once (`NormalizedOnce`); the player's frame time is one of 5 to 100
frames a second (`FrameTimeIsUsable`); what `_aligned_malloc` returns is aligned and
inside its block (`AlignedFits`).
For all packets and extradata, `BlocksAreFreed`: `FreedOnce` of `Bitstream`, however a conversion ends.
Its invariant `MemoryInv` says what is allocated while the converter is open and after `Close`; the
last buffer of a converter from lengths of three bytes is the exception that `FreedOnce` names.

The units, for all bytes, alignments and numbers of units and packets (`ConversionProofs`):

| theorem | says |
|---|---|
| `StartCodeIsFirst` | `avc_find_startcode` returns the first start code of its range that ends before the last byte, with a zero before it, or the end |
| `UnitsOfAnnexB` | `avc_parse_nal_units` finds in units with start codes exactly those units |
| `UnitsKept` | `UnitsAreKept`, for streams that conform |

*From start codes.*  `EveryPositionIsTried` says that the three loops leave no position out: words of four cover
what is between the aligned bytes and the rest, and a word without a zero has no code.  The units are
assumed plain (`IsPlain`: no start code within, no zero at the end), as H.264 makes them.  `UnitsAreLaid`
says where in the bytes each unit and its code are, `CodeIsPassed` and `UnitIsPassed` that the search goes from
one to the next, since what straddles the end of a unit and the code after it is no code.  The parser is a
recursive function of a position; that it is defined, and what it returns, follow by
induction from its calling itself further on (`DescentExists`).  `FoundInv` then says that a converter from start codes
was opened with such extradata and never converts the other way.

*To start codes.*  The property compares what a reader of Annex B (`SplitAtCodes`) finds in all that the client
got with the units of all packets and the parameter sets where a decoder needs them (`WithSets`),
and neither side follows the code: `first_idr` is not in it.  `KeptInv` strengthens `FoundInv` with that equation and with
what `first_idr` means (`FirstIdr`: no IDR unit came yet, or a slice of another type since the last).  `HistoryGrows`
is the right side of the step, one more unit; `OneMoreUnit` the left one: a start code and a plain unit behind bytes that end
with a unit (`IsCoded`) are one more unit to the reader, with no code that straddles them.  `PacketIsConverted` puts them together over the
loop of `BitstreamConvert`, and `FlattenGrows` over the packets.  `UnitsOfPacket` says that the
loop takes from the bytes of a packet the units that its demuxer put there: lengths of 1, 2 and 4 bytes are read
as they were written (`NumberIsWritten`), and a packet that is cut is noticed.

`UnitsKept` assumes of the constant `Streams` what `IsConforming` says: the parameter sets in avcC and the units are plain,
each unit's length fits in its bytes, and a packet that is cut is cut within its last unit.  The first two are what
H.264 and ISO 14496-15 demand of a stream.  The third is there because the format cannot
tell a packet that ends between two units from a whole one: no converter can notice such a cut.  TLC evaluates
the assumption for the streams of `bitstream`, a cut packet among them.

What recursive functions compute (the bytes in a queue, the loop of `RemoveEvent`, the
streams that `CreatOutContext` makes, the table of streams) is reasoned about by induction on numbers: a set of numbers that has 0
and each successor of its members has all (`NatSetInduction`, from the well-foundedness of `<`).

Only model-checked: `BitReaders`, which compares
its functions with definitions over bounded inputs; and all liveness: `CallReturns`,
`AcceptedIsFreed`, `DecodeReturns`, `NetworkCallReturns`, `InputIsRead`, `CallbackReturns`,
which the prover cannot state (`ENABLED`).

## 5. Plan

Done: the player with its refinement, the component wrapper, the codec pair, the
reader, the program around them, the converter, the log, the tunnel and the arithmetic,
with a theorem for each safety property that a passing run checks, and the
pools of the component as an abstract specification that it implements.
Left, in this order:

1. `Transcoder` with `VideoCodec` in the place of its own encoder.
2. What the header's extradata holds, for the orders in which SPS and PPS may come.

## 6. Not modelled

- Wall-clock time outside `Reader`: a timeout may happen whenever its wait is not over.
- Memory allocation failures outside OpenMAX; contents of packets and buffers outside
  `Bitstream`; signals.
- The demuxer, muxer and firmware libraries beyond what the code relies on.
- What a write or read outside an array, or through a NULL pointer, does: the models
  stop there (`undefined`), or take any value for what is read.
- Members that nothing calls: `SubmitEOS`, `IsEOS`, `SetDropState`, `UseEGLImage`, the EOS flag,
  `CFile::OpenForWrite` and `Write`, `CLog::Close` and `MemDump`.
- `GetHints(type, index)`, which nothing calls, and which compares the number with a position in the table.
- Texts: `GetStreamName`, `GetStreamType`, log messages.
- The wakeup of `m_resource_error`, broadcast without the mutex of the waits
  (`OMXCore.cpp:1765`): it may be missed, and then the wait's timeout ends it, which is an outcome that
  the models have anyway.
- `Mailbox.h` and the vendored headers.
