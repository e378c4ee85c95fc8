------------------------------- MODULE VideoCodec -------------------------------
(***************************************************************************)
(* COMXVideo (OMXVideo.cpp): the chain of a video decoder and an encoder,  *)
(* which are two COMXCoreComponents.  Decode copies a packet into input    *)
(* buffers of the decoder and, after each of them, moves one frame on from *)
(* the decoder to the encoder; the encoder is set up when the decoder has  *)
(* announced its output format.                                            *)
(*                                                                         *)
(* Every method runs under m_critSection, so that one call at a time is    *)
(* under way; the two components go on between its steps.  A call into a   *)
(* component is one step with the outcomes that OMXComponent gives it.     *)
(* The caller is OMXPlayerVideo: one Open, Decode of a packet for which    *)
(* there is room, Reset, and the destructor at the end.  It never calls    *)
(* SetDropState or SubmitEOS.                                              *)
(*                                                                         *)
(* A packet is its number, a frame is the number of its packet.  Only what *)
(* the properties need is kept of a buffer: of the decoder's input the     *)
(* part of the packet, of its output the frame, of the encoder's buffers   *)
(* the handle for which they were allocated.                               *)
(***************************************************************************)
EXTENDS Naturals, Sequences, FiniteSets, Functions

CONSTANTS
    Parts,           \* how many input buffers each packet fills
    DecInputs,       \* nBufferCountActual of the decoder's input port
    EncCount,        \* nBufferCountActual of the encoder's ports
    MaxFaults,       \* how many calls and set-ups fail (bound)
    MaxChanges,      \* how often the decoder announces its format (bound)
    MaxResets        \* how often the player resets (bound)

In  == "in"
Out == "out"
Ports == {In, Out}

ASSUME CodecAssumption ==
    /\ Parts \in Seq(Nat \ {0})
    /\ DecInputs \in Nat \ {0}
    /\ EncCount \in [Ports -> Nat \ {0}]
    /\ MaxFaults \in Nat /\ MaxChanges \in Nat /\ MaxResets \in Nat

VARIABLES
    isOpen,      \* m_is_open
    settings,    \* m_settings_changed
    startTime,   \* m_setStartTime
    pc,          \* where Decode is
    cur,         \* the packet that Decode was given last
    part,        \* the part of it that comes next
    start,       \* its nFlags hold OMX_BUFFERFLAG_STARTTIME
    frame,       \* dec_buffer: the frame in it, while Decode holds it
    free,        \* how many input buffers of the decoder are available
    fed,         \* external: the parts that the decoder has not consumed
    decoded,     \* m_omx_output_available of the decoder: frames in order
    filling,     \* external: how many output buffers the decoder has
    events,      \* m_omx_events of the decoder
    resErr,      \* m_resource_error of the decoder
    handle,      \* m_handle of the encoder: 0, or its number
    avail,       \* available buffers of the encoder's ports
    device,      \* external: buffers that the encoder works on
    working,     \* external: the decoder processes its buffers
    complete,    \* external: the last packet that it has consumed
    emitted,     \* external: the last frame that it has emitted
    changes,     \* external: how often it has announced its format
    input,       \* history: all parts that the decoder was given
    whole,       \* history: the packets for which Decode has returned true
    sent,        \* history: the frames that the encoder was given
    handles,     \* history: how many encoder handles Initialize has obtained
    failed,      \* history: how many set-ups of the encoder have failed
    allocated,   \* history: how many output buffers the decoder has
    lost,        \* history: how many of them Decode has not given back
    epoch,       \* history: counts Open and Reset
    began,       \* history: how many packets Decode had got before the last
                 \* of them
    faults       \* history: how many things have gone wrong

flagVars    == <<isOpen, settings, startTime, epoch, began>>
callVars    == <<pc, cur, part, start, frame, whole>>
inputVars   == <<free, fed, input>>
outputVars  == <<decoded, filling, allocated, lost>>
eventVars   == <<events, resErr>>
encoderVars == <<handle, avail, device, sent, handles, failed>>
decoderVars == <<working, complete, emitted, changes>>
vars == <<flagVars, callVars, inputVars, outputVars, eventVars, encoderVars,
          decoderVars, faults>>

Packets == 1 .. Len(Parts)
Blank   == 0                     \* nFilledLen = 0
NoFrame == Len(Parts) + 1        \* Decode holds no dec_buffer
Config  == [pkt |-> 0, part |-> 1, start |-> FALSE, began |-> 0]

Init ==
    /\ isOpen = FALSE /\ settings = FALSE /\ startTime = FALSE /\ epoch = 0
    /\ began = 0
    /\ pc = "new" /\ cur = 0 /\ part = 1 /\ start = FALSE /\ frame = NoFrame
    /\ whole = {}
    /\ free = 0 /\ fed = <<>> /\ input = <<>>
    /\ decoded = <<>> /\ filling = 0 /\ allocated = 0 /\ lost = 0
    /\ events = <<>> /\ resErr = FALSE
    /\ handle = 0 /\ sent = <<>> /\ handles = 0 /\ failed = 0
    /\ avail = [p \in Ports |-> <<>>] /\ device = [p \in Ports |-> <<>>]
    /\ working = FALSE /\ complete = 0 /\ emitted = 0 /\ changes = 0
    /\ faults = 0

Fault   == faults < MaxFaults /\ faults' = faults + 1
NoFault == UNCHANGED faults

-----------------------------------------------------------------------------
(***************************************************************************)
(* Open, Reset and the destructor.                                         *)
(***************************************************************************)

\* No size, an unknown codec, or a decoder that cannot be started: the player
\* deletes the object.
OpenFails ==
    /\ pc = "new"
    /\ pc' = "gone"
    /\ startTime' = TRUE
    /\ UNCHANGED <<isOpen, settings, epoch, began, cur, part, start, frame, whole,
                   inputVars, outputVars, eventVars, encoderVars, decoderVars, faults>>

\* Mutant: the buffer with the extradata is still counted as available.
ConfigStaysFree ==
    free' = DecInputs /\ fed' \in {<<>>, <<Config>>} /\ NoFault

\* SendDecoderConfig, which Open calls when the decoder executes: extradata, if
\* the stream has some, goes to the decoder first.  Its result is ignored.
SendDecoderConfig ==
    \/ free' = DecInputs /\ fed' = <<>> /\ NoFault
    \/ free' = DecInputs - 1 /\ fed' = <<Config>> /\ NoFault
    \/ free' = DecInputs /\ fed' = <<>> /\ Fault

\* The settings of the decoder, its input buffers, and the executing state.
OpenDecoder ==
    /\ pc = "new"
    /\ pc' = "idle"
    /\ isOpen' = TRUE /\ settings' = FALSE /\ startTime' = TRUE
    /\ epoch' = epoch + 1 /\ began' = cur
    /\ working' = TRUE
    /\ SendDecoderConfig
    /\ UNCHANGED <<cur, part, start, frame, whole, input, outputVars, eventVars,
                   encoderVars, complete, emitted, changes>>

\* Reset: FlushInput brings the decoder's input back, unless it fails.
Reset ==
    /\ pc = "idle" /\ epoch <= MaxResets
    /\ startTime' = TRUE
    /\ epoch' = epoch + 1 /\ began' = cur
    /\ \/ fed' = <<>> /\ free' = free + Len(fed) /\ NoFault
       \/ UNCHANGED <<fed, free>> /\ Fault
    /\ UNCHANGED <<isOpen, settings, callVars, input, outputVars, eventVars,
                   encoderVars, decoderVars>>

\* ~COMXVideo: Close takes the decoder down, and the destructors of the members
\* the encoder that m_handle names.
Destroy ==
    /\ pc = "idle"
    /\ pc' = "gone"
    /\ isOpen' = FALSE /\ working' = FALSE
    /\ free' = 0 /\ fed' = <<>>
    /\ decoded' = <<>> /\ filling' = 0 /\ allocated' = 0 /\ lost' = 0
    /\ events' = <<>> /\ resErr' = FALSE
    /\ handle' = 0
    /\ avail' = [p \in Ports |-> <<>>] /\ device' = [p \in Ports |-> <<>>]
    /\ UNCHANGED <<settings, startTime, epoch, began, cur, part, start, frame, whole,
                   input, sent, handles, failed, complete, emitted, changes, faults>>

-----------------------------------------------------------------------------
(***************************************************************************)
(* Decode: the decoder's input.                                            *)
(***************************************************************************)

\* Mutants: a call that fails reports success; m_setStartTime is not cleared; a
\* wait for a buffer has no timeout.
ReturnAnyway(ok) == pc' = "idle" /\ whole' = whole \cup {cur}
KeepStartTime == UNCHANGED startTime
NeverTimesOut == FALSE

\* Decode returns true or false.
Return(ok) ==
    /\ pc' = "idle"
    /\ whole' = IF ok THEN whole \cup {cur} ELSE whole

ClearStartTime == startTime' = FALSE

\* GetInputBuffer(500), GetOutputBuffer(500) give up.
TimesOut == TRUE

Held == UNCHANGED <<cur, part, start, frame>>

\* The player waits until GetFreeSpace() is the size of the packet.
Decode ==
    /\ pc = "idle" /\ cur < Len(Parts)
    /\ free >= Parts[cur + 1]
    /\ pc' = "input"
    /\ cur' = cur + 1 /\ part' = 1
    /\ start' = startTime
    /\ ClearStartTime
    /\ UNCHANGED <<isOpen, settings, epoch, began, frame, whole, inputVars, outputVars,
                   eventVars, encoderVars, decoderVars, faults>>

\* Mutant: a refused buffer does not end the call.
SkipPart ==
    IF part < Parts[cur] THEN /\ part' = part + 1
                              /\ UNCHANGED <<pc, cur, start, frame, whole>>
                         ELSE Return(FALSE) /\ Held

\* The decoder refuses the buffer, which goes back to the queue.
InputRefused == Return(FALSE) /\ Held

ThisPart == [pkt |-> cur, part |-> part, start |-> start, began |-> began]

DecodeInput ==
    /\ pc = "input"
    /\ ~resErr /\ free > 0
    /\ \/ /\ free' = free - 1
          /\ fed' = Append(fed, ThisPart) /\ input' = Append(input, ThisPart)
          /\ pc' = IF settings THEN "encOutput" ELSE "poll"
          /\ UNCHANGED <<cur, part, start, frame, whole>>
          /\ NoFault
       \/ /\ InputRefused
          /\ UNCHANGED inputVars
          /\ Fault
    /\ UNCHANGED <<flagVars, outputVars, eventVars, encoderVars, decoderVars>>

DecodeNoInput ==
    /\ pc = "input"
    /\ resErr \/ (free = 0 /\ TimesOut)
    /\ Return(FALSE) /\ Held
    /\ UNCHANGED <<flagVars, inputVars, outputVars, eventVars, encoderVars,
                   decoderVars, faults>>

\* The end of the loop's body.
NextPart ==
    IF part = Parts[cur]
    THEN Return(TRUE) /\ UNCHANGED <<cur, part, start>>
    ELSE pc' = "input" /\ part' = part + 1 /\ UNCHANGED <<cur, start, whole>>

-----------------------------------------------------------------------------
(***************************************************************************)
(* Decode, once the encoder is set up: a buffer for the encoder to fill,   *)
(* and a frame from the decoder to the encoder.                            *)
(***************************************************************************)

Take(p)   == avail' = [avail EXCEPT ![p] = Tail(@)]
GoAround(p) == avail' = [avail EXCEPT ![p] = Append(Tail(@), Head(@))]
Submit(p) == Take(p) /\ device' = [device EXCEPT ![p] = Append(@, Head(avail[p]))]

\* The encoder may refuse any buffer, and a buffer of an earlier handle without
\* further ado.
Refuses(b) == IF b = handle THEN Fault ELSE NoFault

\* GetOutputBuffer and FillThisBuffer of the encoder.
RequestOutput ==
    /\ pc = "encOutput" /\ avail[Out] # <<>>
    /\ \/ /\ Submit(Out)
          /\ pc' = "decOutput"
          /\ UNCHANGED whole
          /\ NoFault
       \/ /\ GoAround(Out)
          /\ Return(FALSE)
          /\ UNCHANGED device
          /\ Refuses(Head(avail[Out]))
    /\ Held
    /\ UNCHANGED <<flagVars, inputVars, outputVars, eventVars, handle, sent, handles,
                   failed, decoderVars>>

\* GetOutputBuffer and GetInputBuffer return NULL after 500 ms without a buffer, or
\* with buffers in the list when the encoder has a resource error, which is a fault
\* of each call in which it tells.
HasNone(p) == IF avail[p] = <<>> /\ TimesOut THEN NoFault ELSE Fault

\* No output buffer: FlushOutput, which may fail, and the rest of the packet is
\* given up.
FlushEncoder ==
    /\ pc = "encOutput"
    /\ \/ /\ avail' = [avail EXCEPT ![Out] = @ \o device[Out]]
          /\ device' = [device EXCEPT ![Out] = <<>>]
          /\ HasNone(Out)
       \/ UNCHANGED <<avail, device>> /\ Fault
    /\ Return(FALSE) /\ Held
    /\ UNCHANGED <<flagVars, inputVars, outputVars, eventVars, handle, sent, handles,
                   failed, decoderVars>>

\* GetOutputBuffer of the decoder.
TakeFrame ==
    /\ pc = "decOutput"
    /\ ~resErr /\ decoded # <<>>
    /\ frame' = Head(decoded) /\ decoded' = Tail(decoded)
    /\ pc' = "encInput"
    /\ UNCHANGED <<flagVars, cur, part, start, whole, inputVars, filling, allocated,
                   lost, eventVars, encoderVars, decoderVars, faults>>

NoFrameYet ==
    /\ pc = "decOutput"
    /\ resErr \/ (decoded = <<>> /\ TimesOut)
    /\ Return(FALSE) /\ Held
    /\ UNCHANGED <<flagVars, inputVars, outputVars, eventVars, encoderVars,
                   decoderVars, faults>>

\* GetInputBuffer and EmptyThisBuffer of the encoder.
SendFrame ==
    /\ pc = "encInput" /\ avail[In] # <<>>
    /\ Submit(In)
    /\ sent' = Append(sent, frame)
    /\ pc' = "refill"
    /\ UNCHANGED <<flagVars, cur, part, start, frame, whole, inputVars, outputVars,
                   eventVars, handle, handles, failed, decoderVars, faults>>

\* There is no input buffer, or it is refused: Decode returns and forgets
\* dec_buffer.
LoseFrame ==
    /\ pc = "encInput"
    /\ \/ UNCHANGED avail /\ HasNone(In)
       \/ avail[In] # <<>> /\ GoAround(In) /\ Refuses(Head(avail[In]))
    /\ frame' = NoFrame
    /\ lost' = lost + 1
    /\ Return(FALSE)
    /\ UNCHANGED <<flagVars, cur, part, start, inputVars, decoded, filling, allocated,
                   eventVars, handle, device, sent, handles, failed, decoderVars>>

\* Mutant: nFilledLen is not reset.
KeepFilled == frame

\* "Reset output buffer before request fill buffer"
ResetFilled == Blank

\* Mutant: a refused buffer is forgotten.
ForgetBuffer(b) == UNCHANGED decoded

\* DecoderFillBufferDone of the decoder: the buffer is available again.
FillBufferDone(b) == decoded' = Append(decoded, b)

\* FillThisBuffer of the decoder.
RefillDecoder ==
    /\ pc = "refill"
    /\ frame' = NoFrame
    /\ \/ /\ filling' = filling + 1
          /\ NextPart
          /\ UNCHANGED decoded
          /\ NoFault
       \/ /\ FillBufferDone(ResetFilled)
          /\ Return(FALSE)
          /\ UNCHANGED <<filling, cur, part, start>>
          /\ Fault
    /\ UNCHANGED <<flagVars, inputVars, allocated, lost, eventVars, encoderVars,
                   decoderVars>>

-----------------------------------------------------------------------------
(***************************************************************************)
(* Decode, before: WaitForEvent(OMX_EventPortSettingsChanged, 0), and the  *)
(* set-up of the encoder by PortSettingsChanged.                           *)
(***************************************************************************)

\* WaitForEvent takes the first event that is an error, or the one it waits for;
\* it also answers OMX_ErrorNone for a "same state" error, and after a resource
\* error without any event.
AnswersNone ==
    IF events = <<>> THEN resErr ELSE Head(events) \in {"settings", "sameState"}

PollSettings ==
    /\ pc = "poll"
    /\ events' = IF events = <<>> THEN <<>> ELSE Tail(events)
    /\ IF AnswersNone THEN pc' = "setup" /\ UNCHANGED <<cur, part, start, whole>>
                      ELSE NextPart
    /\ UNCHANGED <<flagVars, frame, inputVars, outputVars, resErr, encoderVars,
                   decoderVars, faults>>

\* A step of the set-up fails; after a resource error of the decoder one does.
SetUpFails ==
    /\ Return(FALSE)
    /\ failed' = failed + 1
    /\ IF resErr THEN NoFault ELSE Fault

\* Initialize of the encoder takes a new handle, whatever m_handle was, and
\* leaves the lists of buffers alone.  The parameters and the idle state come
\* next, the buffers of its output port, those of its input port, and the
\* executing state.  Any of these may fail.
SetUpEncoder ==
    /\ pc = "setup"
    /\ \/ /\ handle' = 0
          /\ UNCHANGED <<handles, avail>>
          /\ SetUpFails
       \/ /\ handles' = handles + 1 /\ handle' = handles + 1
          /\ \E outs \in 0 .. EncCount[Out], ins \in 0 .. EncCount[In] :
                /\ ins > 0 => outs = EncCount[Out]
                /\ avail' = [avail EXCEPT ![Out] = @ \o [i \in 1 .. outs |-> handle'],
                                          ![In]  = @ \o [i \in 1 .. ins  |-> handle']]
                /\ \/ SetUpFails
                   \/ /\ outs = EncCount[Out] /\ ins = EncCount[In]
                      /\ pc' = "setupDecoder"
                      /\ UNCHANGED <<failed, whole>> /\ NoFault
    /\ Held
    /\ UNCHANGED <<flagVars, inputVars, outputVars, eventVars, device, sent,
                   decoderVars>>

\* Mutant: m_settings_changed stays as it was.
SettingsForgotten == UNCHANGED settings

SettingsDone == settings' = TRUE

\* AllocOutputBuffers asks the decoder for the idle state, and nothing asks for
\* the executing state again: what the decoder does then is its own affair.
IdleDecoder == working' \in {working, FALSE}

\* The decoder's only output buffer is allocated, and the decoder gets it; the
\* buffers that are available come first.  It may refuse it, and some parameter
\* may be missing after that.
SetUpDecoder ==
    /\ pc = "setupDecoder"
    /\ IdleDecoder
    /\ \/ /\ UNCHANGED <<decoded, filling, allocated, settings>>     \* not allocated
          /\ SetUpFails /\ UNCHANGED <<cur, part, start>>
       \/ /\ allocated' = allocated + 1
          /\ decoded' = Append(decoded, Blank)           \* not enabled, or refused
          /\ UNCHANGED <<filling, settings>>
          /\ SetUpFails /\ UNCHANGED <<cur, part, start>>
       \/ /\ ~resErr
          /\ allocated' = allocated + 1
          /\ decoded' = Tail(Append(decoded, Blank))
          /\ filling' = filling + 1
          /\ \/ UNCHANGED settings /\ SetUpFails /\ UNCHANGED <<cur, part, start>>
             \/ SettingsDone /\ NextPart /\ UNCHANGED failed /\ NoFault
    /\ UNCHANGED <<isOpen, startTime, epoch, began, frame, inputVars, lost, eventVars,
                   handle, avail, device, sent, handles, complete, emitted, changes>>

-----------------------------------------------------------------------------
(***************************************************************************)
(* The two components.                                                     *)
(***************************************************************************)

\* The decoder returns an input buffer.
DecoderConsumes ==
    /\ working /\ fed # <<>>
    /\ free' = free + 1 /\ fed' = Tail(fed)
    /\ complete' = IF Head(fed).pkt # 0 /\ Head(fed).part = Parts[Head(fed).pkt]
                   THEN Head(fed).pkt ELSE complete
    /\ UNCHANGED <<flagVars, callVars, input, outputVars, eventVars, encoderVars,
                   working, emitted, changes, faults>>

\* It fills an output buffer; some packets do not give a frame.
DecoderEmits ==
    /\ working /\ filling > 0
    /\ \E n \in emitted + 1 .. complete :
          /\ emitted' = n
          /\ decoded' = Append(decoded, n)
    /\ filling' = filling - 1
    /\ UNCHANGED <<flagVars, callVars, inputVars, allocated, lost, eventVars,
                   encoderVars, working, complete, changes, faults>>

\* RemoveEvent: the loop that erases every event equal to e.
Without(s, e) ==
    LET kept[i \in 0 .. Len(s)] ==
            IF i = 0 THEN <<>>
            ELSE IF s[i] = e THEN kept[i - 1]
            ELSE Append(kept[i - 1], s[i])
    IN  kept[Len(s)]

\* AddEvent.
AddEvent(e) == events' = Append(Without(events, e), e)

DecoderAnnounces ==
    /\ working /\ changes < MaxChanges /\ complete > 0
    /\ changes' = changes + 1
    /\ AddEvent("settings")
    /\ UNCHANGED <<flagVars, callVars, inputVars, outputVars, resErr, encoderVars,
                   working, complete, emitted, faults>>

DecoderError ==
    /\ working /\ Fault
    /\ \E e \in {"sameState", "error", "resource"} :
          /\ AddEvent(IF e = "resource" THEN "error" ELSE e)
          /\ resErr' = (resErr \/ e = "resource")
    /\ UNCHANGED <<flagVars, callVars, inputVars, outputVars, encoderVars, decoderVars>>

\* The encoder returns a buffer of either port.
EncoderReturns(p) ==
    /\ device[p] # <<>> /\ handle # 0
    /\ device' = [device EXCEPT ![p] = Tail(@)]
    /\ avail' = [avail EXCEPT ![p] = Append(@, Head(device[p]))]
    /\ UNCHANGED <<flagVars, callVars, inputVars, outputVars, eventVars, handle, sent,
                   handles, failed, decoderVars, faults>>

-----------------------------------------------------------------------------

DecodeStep ==
    \/ DecodeInput \/ DecodeNoInput
    \/ RequestOutput \/ FlushEncoder \/ TakeFrame \/ NoFrameYet
    \/ SendFrame \/ LoseFrame \/ RefillDecoder
    \/ PollSettings \/ SetUpEncoder \/ SetUpDecoder

Components ==
    \/ DecoderConsumes \/ DecoderEmits \/ DecoderAnnounces \/ DecoderError
    \/ \E p \in Ports : EncoderReturns(p)

Next == OpenFails \/ OpenDecoder \/ Reset \/ Destroy \/ Decode \/ DecodeStep \/ Components

Spec == Init /\ [][Next]_vars

\* The thread that is in Decode keeps running.
FairSpec == Spec /\ WF_vars(DecodeStep)

-----------------------------------------------------------------------------
(***************************************************************************)
(* Properties.                                                             *)
(***************************************************************************)

Steps == {"new", "idle", "gone", "input", "encOutput", "decOutput", "encInput",
          "refill", "poll", "setup", "setupDecoder"}
PartsGiven == [pkt : {0} \cup Packets, part : Nat \ {0}, start : BOOLEAN, began : Nat]
Frames == {Blank} \cup Packets

\* Types.  Decode never holds more buffers than the components gave it.
TypeOK ==
    /\ isOpen \in BOOLEAN /\ settings \in BOOLEAN /\ startTime \in BOOLEAN
    /\ epoch \in Nat /\ began \in Nat
    /\ pc \in Steps /\ cur \in {0} \cup Packets /\ part \in Nat \ {0}
    /\ start \in BOOLEAN /\ frame \in Frames \cup {NoFrame}
    /\ whole \subseteq Packets
    /\ free \in 0 .. DecInputs /\ fed \in Seq(PartsGiven) /\ input \in Seq(PartsGiven)
    /\ decoded \in Seq(Frames) /\ filling \in Nat
    /\ allocated \in Nat /\ lost \in Nat
    /\ events \in Seq({"settings", "sameState", "error"}) /\ resErr \in BOOLEAN
    /\ handle \in 0 .. handles /\ handles \in Nat /\ failed \in Nat
    /\ avail \in [Ports -> Seq(1 .. handles)] /\ device \in [Ports -> Seq(1 .. handles)]
    /\ sent \in Seq(Frames)
    /\ working \in BOOLEAN /\ complete \in {0} \cup Packets
    /\ emitted \in {0} \cup Packets /\ changes \in Nat /\ faults \in 0 .. MaxFaults

\* The encoder gets every frame at most once and in the order of the decoder:
\* an output buffer that went round without a frame in it is sent empty.
FramesInOrder ==
    \A i, j \in DOMAIN sent :
       i < j /\ sent[i] # Blank /\ sent[j] # Blank => sent[i] < sent[j]

\* The decoder gets the beginning of each packet, in order and without a gap:
\* whatever fails in between, no part of a packet comes after a part that was
\* left out.
PartsInOrder ==
    \A i \in DOMAIN input :
       IF input[i].part = 1 THEN i > 1 => input[i].pkt > input[i-1].pkt
       ELSE i > 1 /\ input[i].pkt = input[i-1].pkt /\ input[i].part = input[i-1].part + 1

\* A packet for which Decode returned true is with the decoder as a whole.
TrueMeansWhole ==
    \A p \in whole : \E i \in DOMAIN input :
       input[i].pkt = p /\ input[i].part = Parts[p]

\* OMX_BUFFERFLAG_STARTTIME goes with every part of the first packet that Decode
\* is given after Open or Reset, and with no part of another.  Decode clears
\* m_setStartTime before it has a buffer: when that first call gets none, no
\* packet carries the start time before the next Reset.
StartTimeIsFirst ==
    \A i \in DOMAIN input : input[i].start <=> input[i].pkt = input[i].began + 1

\* Initialize is called on an encoder that is initialized only after a set-up
\* that failed: but for those no handle is lost, and no buffer of one handle is
\* given to another.
OneEncoder ==
    /\ handles <= failed + 1
    /\ \A p \in Ports : \A b \in Range(device[p]) : b < handle => failed > 0

\* An output buffer of the decoder is available, with the decoder, with Decode,
\* or forgotten because the encoder did not take the frame: no other failure
\* loses one.
DecoderBuffersKept ==
    Len(decoded) + filling + (IF frame = NoFrame THEN 0 ELSE 1) + lost = allocated

\* Every call of Decode returns, whatever the components do.
DecodeReturns == pc \notin {"new", "idle", "gone"} ~> pc = "idle"
=============================================================================
