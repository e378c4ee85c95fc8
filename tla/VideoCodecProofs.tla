---------------------------- MODULE VideoCodecProofs ----------------------------
(***************************************************************************)
(* Proofs about the chain of decoder and encoder, for packets of any       *)
(* number and sizes, any number of buffers, failures, announcements and    *)
(* resets.                                                                 *)
(***************************************************************************)
EXTENDS VideoCodec, FiniteSetTheorems, SequenceTheorems, TLAPS

Flags == start \in BOOLEAN /\ startTime \in BOOLEAN

CallTypes == cur \in 0 .. Len(Parts) /\ part \in Nat \ {0} /\ epoch \in Nat /\ began \in Nat

InputTypes == fed \in Seq(PartsGiven) /\ input \in Seq(PartsGiven) /\ complete \in 0 .. Len(Parts)

\* Decode holds a frame between taking it and giving its buffer back.
FrameIsHeld == frame = NoFrame <=> pc \notin {"encInput", "refill"}

OutputTypes ==
    /\ decoded \in Seq(Frames) /\ frame \in Frames \cup {NoFrame}
    /\ filling \in Nat /\ allocated \in Nat /\ lost \in Nat /\ emitted \in Nat

LEMMA Sizes ==
    /\ Len(Parts) \in Nat /\ Packets = 1 .. Len(Parts)
    /\ Frames = 0 .. Len(Parts) /\ NoFrame = Len(Parts) + 1
    /\ Blank \in Frames /\ NoFrame \notin Frames
BY CodecAssumption DEF Packets, Frames, NoFrame, Blank

LEMMA Given ==
    /\ Config \in PartsGiven
    /\ \A p \in PartsGiven : p.pkt \in 0 .. Len(Parts) /\ p.part \in Nat
    /\ Flags /\ CallTypes => ThisPart \in PartsGiven
<1>1. Config \in PartsGiven
    BY Sizes DEF Config, PartsGiven
<1>2. \A p \in PartsGiven : p.pkt \in 0 .. Len(Parts) /\ p.part \in Nat
    BY Sizes DEF PartsGiven
<1>3. ASSUME Flags, CallTypes PROVE ThisPart \in PartsGiven
    BY <1>3, Sizes DEF Flags, CallTypes, ThisPart, PartsGiven
<1> QED BY <1>1, <1>2, <1>3

LEMMA SequenceSteps ==
    ASSUME NEW S, NEW s \in Seq(S)
    PROVE  /\ <<>> \in Seq(S) /\ \A e \in S : <<e>> \in Seq(S) /\ Append(s, e) \in Seq(S)
           /\ s # <<>> => Head(s) \in S /\ Tail(s) \in Seq(S) /\ Len(Tail(s)) = Len(s) - 1
           /\ Len(s) \in Nat /\ Len(<<>>) = 0
           /\ \A e \in S : Append(s, e) # <<>> /\ Len(Append(s, e)) = Len(s) + 1
OBVIOUS

LEMMA NextPartMoves ==
    NextPart => /\ cur' = cur /\ start' = start
                /\ \/ pc' = "idle" /\ part' = part /\ part = Parts[cur] /\ whole' = whole \cup {cur}
                   \/ pc' = "input" /\ part' = part + 1 /\ whole' = whole
BY DEF NextPart, Return

-----------------------------------------------------------------------------
(***************************************************************************)
(* Types.                                                                  *)
(***************************************************************************)

LEMMA FlagsKept == Flags /\ [Next]_vars => Flags'
<1> SUFFICES ASSUME Flags, [Next]_vars PROVE Flags'
    OBVIOUS
<1>1. CASE OpenFails \/ OpenDecoder \/ Reset
    <2>1. start' = start /\ startTime' = TRUE
        BY <1>1 DEF OpenFails, OpenDecoder, Reset, callVars
    <2> QED BY <2>1 DEF Flags
<1>2. CASE Decode
    <2>1. start' = startTime /\ startTime' = FALSE
        BY <1>2 DEF Decode, ClearStartTime
    <2> QED BY <2>1 DEF Flags
<1>3. CASE Destroy \/ DecodeStep \/ Components \/ UNCHANGED vars
    <2>1. start' = start /\ startTime' = startTime
        BY <1>3 DEF Destroy, DecodeStep, DecodeInput, InputRefused, DecodeNoInput, RequestOutput,
                    FlushEncoder, TakeFrame, NoFrameYet, SendFrame, LoseFrame, RefillDecoder,
                    PollSettings, SetUpEncoder, SetUpDecoder, Held, NextPart, Components,
                    DecoderConsumes, DecoderEmits, DecoderAnnounces, DecoderError, EncoderReturns,
                    flagVars, callVars, vars
    <2> QED BY <2>1 DEF Flags
<1> QED BY <1>1, <1>2, <1>3 DEF Next

LEMMA CallTypesKept == CallTypes /\ [Next]_vars => CallTypes'
<1> SUFFICES ASSUME CallTypes, [Next]_vars PROVE CallTypes'
    OBVIOUS
<1>1. CASE Decode
    BY <1>1, Sizes DEF CallTypes, Decode
<1>2. CASE OpenDecoder \/ Reset
    <2>1. cur' = cur /\ part' = part /\ epoch' = epoch + 1 /\ began' = cur
        BY <1>2 DEF OpenDecoder, Reset, callVars
    <2> QED BY <2>1, Sizes DEF CallTypes
<1>3. CASE RefillDecoder \/ PollSettings \/ SetUpDecoder
    <2>1. cur' = cur /\ epoch' = epoch /\ began' = began /\ (part' = part \/ part' = part + 1)
        BY <1>3, NextPartMoves DEF RefillDecoder, PollSettings, SetUpDecoder, flagVars
    <2> QED BY <2>1 DEF CallTypes
<1>4. CASE \/ OpenFails \/ Destroy \/ DecodeInput \/ DecodeNoInput \/ RequestOutput \/ FlushEncoder
           \/ TakeFrame \/ NoFrameYet \/ SendFrame \/ LoseFrame \/ SetUpEncoder \/ Components
           \/ UNCHANGED vars
    <2>1. cur' = cur /\ part' = part /\ epoch' = epoch /\ began' = began
        BY <1>4 DEF OpenFails, Destroy, DecodeInput, InputRefused, DecodeNoInput, RequestOutput,
                    FlushEncoder, TakeFrame, NoFrameYet, SendFrame, LoseFrame, SetUpEncoder, Held,
                    Components, DecoderConsumes, DecoderEmits, DecoderAnnounces, DecoderError,
                    EncoderReturns, flagVars, callVars, vars
    <2> QED BY <2>1 DEF CallTypes
<1> QED BY <1>1, <1>2, <1>3, <1>4 DEF Next, DecodeStep

LEMMA InputTypesKept == InputTypes /\ Flags /\ CallTypes /\ [Next]_vars => InputTypes'
<1> SUFFICES ASSUME InputTypes, Flags, CallTypes, [Next]_vars PROVE InputTypes'
    OBVIOUS
<1>1. CASE OpenDecoder
    <2>1. fed' \in {<<>>, <<Config>>} /\ input' = input /\ complete' = complete
        BY <1>1 DEF OpenDecoder, SendDecoderConfig
    <2> QED BY <2>1, Given, SequenceSteps, Zenon DEF InputTypes
<1>2. CASE Reset \/ Destroy
    <2>1. fed' \in {<<>>, fed} /\ input' = input /\ complete' = complete
        BY <1>2 DEF Reset, Destroy, decoderVars
    <2> QED BY <2>1, SequenceSteps, Zenon DEF InputTypes
<1>3. CASE DecodeInput
    <2>1. complete' = complete /\ \/ fed' = Append(fed, ThisPart) /\ input' = Append(input, ThisPart)
                                  \/ fed' = fed /\ input' = input
        BY <1>3 DEF DecodeInput, inputVars, decoderVars
    <2> QED BY <2>1, Given, SequenceSteps, Zenon DEF InputTypes
<1>4. CASE DecoderConsumes
    <2>1. fed # <<>> /\ fed' = Tail(fed) /\ input' = input /\ complete' \in {complete, Head(fed).pkt}
        BY <1>4 DEF DecoderConsumes
    <2>2. Head(fed) \in PartsGiven /\ Tail(fed) \in Seq(PartsGiven)
        BY <2>1, SequenceSteps, Zenon DEF InputTypes
    <2> QED BY <2>1, <2>2, Given DEF InputTypes
<1>5. CASE \/ OpenFails \/ Decode \/ DecodeNoInput \/ RequestOutput \/ FlushEncoder
           \/ TakeFrame \/ NoFrameYet \/ SendFrame \/ LoseFrame \/ RefillDecoder \/ PollSettings
           \/ SetUpEncoder \/ SetUpDecoder \/ DecoderEmits \/ DecoderAnnounces \/ DecoderError
           \/ (\E p \in Ports : EncoderReturns(p)) \/ UNCHANGED vars
    <2>1. fed' = fed /\ input' = input /\ complete' = complete
        BY <1>5 DEF OpenFails, Decode, DecodeNoInput, RequestOutput, FlushEncoder, TakeFrame,
                    NoFrameYet, SendFrame, LoseFrame, RefillDecoder, PollSettings, SetUpEncoder,
                    SetUpDecoder, DecoderEmits, DecoderAnnounces, DecoderError, EncoderReturns,
                    inputVars, decoderVars, vars
    <2> QED BY <2>1 DEF InputTypes
<1> QED BY <1>1, <1>2, <1>3, <1>4, <1>5 DEF Next, DecodeStep, Components

LEMMA OutputStepsKept ==
    ASSUME OutputTypes, FrameIsHeld, InputTypes, Next
    PROVE  OutputTypes' /\ FrameIsHeld'
<1>1. CASE Destroy
    BY <1>1, SequenceSteps, Zenon DEF Destroy, OutputTypes, FrameIsHeld
<1>2. CASE TakeFrame
    <2>1. frame' \in Frames /\ decoded' \in Seq(Frames)
        BY <1>2, SequenceSteps, Zenon DEF TakeFrame, OutputTypes
    <2>2. pc' = "encInput" /\ UNCHANGED <<filling, allocated, lost, emitted>>
        BY <1>2 DEF TakeFrame, decoderVars
    <2>3. OutputTypes'
        BY <2>1, <2>2 DEF OutputTypes
    <2>4. FrameIsHeld'
        BY <2>1, <2>2, Sizes DEF FrameIsHeld
    <2> QED BY <2>3, <2>4
<1>3. CASE LoseFrame
    <2>1. /\ frame' = NoFrame /\ pc' = "idle" /\ lost' = lost + 1
          /\ UNCHANGED <<decoded, filling, allocated, emitted>>
        BY <1>3 DEF LoseFrame, Return, decoderVars
    <2> QED BY <2>1 DEF OutputTypes, FrameIsHeld
<1>4. CASE RefillDecoder
    <2>1. /\ frame' = NoFrame /\ pc' \in {"idle", "input"}
          /\ \/ filling' = filling + 1 /\ decoded' = decoded
             \/ filling' = filling /\ decoded' = Append(decoded, Blank)
          /\ UNCHANGED <<allocated, lost, emitted>>
        BY <1>4, NextPartMoves DEF RefillDecoder, FillBufferDone, ResetFilled, Return, decoderVars
    <2>2. decoded' \in Seq(Frames)
        BY <2>1, SequenceSteps, Zenon DEF OutputTypes, Frames
    <2> QED BY <2>1, <2>2 DEF OutputTypes, FrameIsHeld
<1>5. CASE SetUpDecoder
    <2>1. /\ frame' = frame /\ pc' \in {"idle", "input"} /\ pc = "setupDecoder"
          /\ filling' \in {filling, filling + 1} /\ allocated' \in {allocated, allocated + 1}
          /\ \/ decoded' = decoded
             \/ decoded' = Append(decoded, Blank)
             \/ decoded' = Tail(Append(decoded, Blank))
          /\ lost' = lost /\ emitted' = emitted
        BY <1>5, NextPartMoves DEF SetUpDecoder, SetUpFails, Return
    <2>2. decoded' \in Seq(Frames)
        <3>1. Append(decoded, Blank) \in Seq(Frames)
            BY SequenceSteps, Zenon DEF OutputTypes, Frames
        <3>2. Append(decoded, Blank) # <<>>
            BY SequenceSteps, Sizes, Zenon DEF OutputTypes
        <3>3. Tail(Append(decoded, Blank)) \in Seq(Frames)
            BY <3>1, <3>2, SequenceSteps, Zenon
        <3> QED BY <2>1, <3>1, <3>3 DEF OutputTypes
    <2> QED BY <2>1, <2>2 DEF OutputTypes, FrameIsHeld
<1>6. CASE DecoderEmits
    <2>1. PICK n \in emitted + 1 .. complete : emitted' = n /\ decoded' = Append(decoded, n)
        BY <1>6 DEF DecoderEmits
    <2>2. n \in Frames
        BY <2>1, Sizes DEF OutputTypes, InputTypes
    <2>3. decoded' \in Seq(Frames)
        BY <2>1, <2>2, SequenceSteps, Zenon DEF OutputTypes
    <2>4. filling' \in Nat /\ UNCHANGED <<frame, pc, allocated, lost>>
        BY <1>6 DEF DecoderEmits, OutputTypes, callVars
    <2> QED BY <2>1, <2>2, <2>3, <2>4, Sizes DEF OutputTypes, FrameIsHeld
<1>7. CASE \/ OpenFails \/ OpenDecoder \/ Reset \/ Decode \/ DecodeInput \/ DecodeNoInput \/ RequestOutput
           \/ FlushEncoder \/ NoFrameYet \/ SendFrame \/ PollSettings \/ SetUpEncoder \/ DecoderConsumes
           \/ DecoderAnnounces \/ DecoderError \/ (\E p \in Ports : EncoderReturns(p))
    <2>1. UNCHANGED <<decoded, frame, filling, allocated, lost, emitted>>
        BY <1>7, NextPartMoves DEF OpenFails, OpenDecoder, Reset, Decode, DecodeInput, InputRefused, DecodeNoInput,
                    RequestOutput, FlushEncoder, NoFrameYet, SendFrame, PollSettings, SetUpEncoder,
                    DecoderConsumes, DecoderAnnounces, DecoderError, EncoderReturns, Held,
                    callVars, outputVars, decoderVars
    <2>2. pc \in {"encInput", "refill"} <=> pc' \in {"encInput", "refill"}
        BY <1>7, NextPartMoves DEF OpenFails, OpenDecoder, Reset, Decode, DecodeInput, InputRefused, DecodeNoInput,
                    RequestOutput, FlushEncoder, NoFrameYet, SendFrame, PollSettings, SetUpEncoder, SetUpFails,
                    DecoderConsumes, DecoderAnnounces, DecoderError, EncoderReturns, Return, callVars
    <2> QED BY <2>1, <2>2 DEF OutputTypes, FrameIsHeld
<1> QED BY <1>1, <1>2, <1>3, <1>4, <1>5, <1>6, <1>7 DEF Next, DecodeStep, Components

Types == Flags /\ CallTypes /\ InputTypes /\ OutputTypes /\ FrameIsHeld

LEMMA TypesHold == Spec => []Types
<1>1. Init => Types
    <2> SUFFICES ASSUME Init PROVE Types
        OBVIOUS
    <2>1. Flags /\ CallTypes /\ FrameIsHeld
        <3>1. Flags
            BY Zenon DEF Init, Flags
        <3>2. CallTypes
            BY Sizes DEF Init, CallTypes
        <3>3. FrameIsHeld
            BY DEF Init, FrameIsHeld
        <3> QED BY <3>1, <3>2, <3>3
    <2>2. InputTypes /\ OutputTypes
        BY Sizes DEF Init, InputTypes, OutputTypes
    <2> QED BY <2>1, <2>2 DEF Types
<1>2. Types /\ [Next]_vars => Types'
    <2> SUFFICES ASSUME Types, [Next]_vars PROVE Types'
        OBVIOUS
    <2>1. Flags' /\ CallTypes' /\ InputTypes'
        BY FlagsKept, CallTypesKept, InputTypesKept DEF Types
    <2>2. CASE Next
        BY <2>1, <2>2, OutputStepsKept DEF Types
    <2>3. CASE UNCHANGED vars
        BY <2>1, <2>3 DEF Types, OutputTypes, FrameIsHeld, vars, callVars, outputVars, decoderVars
    <2> QED BY <2>2, <2>3
<1> QED BY <1>1, <1>2, PTL DEF Spec

-----------------------------------------------------------------------------
(***************************************************************************)
(* The decoder's output buffers.                                           *)
(***************************************************************************)

LEMMA BuffersStep ==
    ASSUME Types, DecoderBuffersKept, [Next]_vars
    PROVE  DecoderBuffersKept'
<1> USE DEF DecoderBuffersKept, Types, OutputTypes
<1>1. CASE Destroy
    BY <1>1, Sizes DEF Destroy, FrameIsHeld
<1>2. CASE TakeFrame
    <2>1. frame = NoFrame
        BY <1>2 DEF TakeFrame, FrameIsHeld
    <2>2. frame' \in Frames /\ Len(decoded') = Len(decoded) - 1 /\ Len(decoded) \in Nat
        BY <1>2, SequenceSteps, Zenon DEF TakeFrame
    <2>3. frame' # NoFrame
        BY <2>2, Sizes
    <2> QED BY <1>2, <2>1, <2>2, <2>3 DEF TakeFrame
<1>3. CASE LoseFrame
    BY <1>3 DEF LoseFrame, FrameIsHeld
<1>4. CASE RefillDecoder
    <2>1. frame # NoFrame /\ frame' = NoFrame /\ allocated' = allocated /\ lost' = lost
        BY <1>4 DEF RefillDecoder, FrameIsHeld
    <2>2. \/ filling' = filling + 1 /\ decoded' = decoded
          \/ filling' = filling /\ decoded' = Append(decoded, Blank)
        BY <1>4 DEF RefillDecoder, FillBufferDone, ResetFilled
    <2>3. Len(decoded) \in Nat /\ Len(Append(decoded, Blank)) = Len(decoded) + 1
        BY SequenceSteps, Sizes
    <2>4. filling \in Nat /\ lost \in Nat /\ allocated \in Nat
        OBVIOUS
    <2> HIDE DEF OutputTypes, Types
    <2>5. CASE filling' = filling + 1 /\ decoded' = decoded
        BY <2>1, <2>3, <2>4, <2>5
    <2>6. CASE filling' = filling /\ decoded' = Append(decoded, Blank)
        <3>1. Len(decoded') = Len(decoded) + 1
            BY <2>3, <2>6
        <3> QED BY <2>1, <2>3, <2>4, <2>6, <3>1
    <2> QED BY <2>2, <2>5, <2>6 
<1>5. CASE SetUpDecoder
    <2>1. /\ frame' = frame /\ lost' = lost
          /\ \/ decoded' = decoded /\ filling' = filling /\ allocated' = allocated
             \/ decoded' = Append(decoded, Blank) /\ filling' = filling /\ allocated' = allocated + 1
             \/ decoded' = Tail(Append(decoded, Blank)) /\ filling' = filling + 1 /\ allocated' = allocated + 1
        BY <1>5 DEF SetUpDecoder
    <2>2. Len(Append(decoded, Blank)) = Len(decoded) + 1 /\ Len(Tail(Append(decoded, Blank))) = Len(decoded)
        <3>1. Append(decoded, Blank) \in Seq(Frames) /\ Append(decoded, Blank) # <<>>
            BY SequenceSteps, Sizes, Zenon
        <3>2. Len(decoded) \in Nat /\ Len(Append(decoded, Blank)) = Len(decoded) + 1
            BY SequenceSteps, Sizes
        <3>3. Len(Tail(Append(decoded, Blank))) = Len(Append(decoded, Blank)) - 1
            BY <3>1, SequenceSteps, Zenon
        <3> QED BY <3>2, <3>3
    <2>3. Len(decoded) \in Nat /\ filling \in Nat /\ lost \in Nat /\ allocated \in Nat
        OBVIOUS
    <2> HIDE DEF OutputTypes, Types
    <2>4. CASE decoded' = decoded /\ filling' = filling /\ allocated' = allocated
        BY <2>1, <2>3, <2>4
    <2>5. CASE decoded' = Append(decoded, Blank) /\ filling' = filling /\ allocated' = allocated + 1
        <3>1. Len(decoded') = Len(decoded) + 1
            BY <2>2, <2>5, Zenon
        <3> QED BY <2>1, <2>3, <2>5, <3>1
    <2>6. CASE /\ decoded' = Tail(Append(decoded, Blank))
               /\ filling' = filling + 1 /\ allocated' = allocated + 1
        <3>1. Len(decoded') = Len(decoded)
            BY <2>2, <2>6, Zenon
        <3>2. filling' = filling + 1 /\ allocated' = allocated + 1 /\ frame' = frame /\ lost' = lost
            BY <2>1, <2>6
        <3> QED BY <2>3, <3>1, <3>2
    <2> QED BY <2>1, <2>4, <2>5, <2>6
<1>6. CASE DecoderEmits
    <2>1. Len(decoded') = Len(decoded) + 1
        BY <1>6 DEF DecoderEmits
    <2> QED BY <1>6, <2>1 DEF DecoderEmits, callVars
<1>7. CASE \/ OpenFails \/ OpenDecoder \/ Reset \/ Decode \/ DecodeInput \/ DecodeNoInput \/ RequestOutput
           \/ FlushEncoder \/ NoFrameYet \/ SendFrame \/ PollSettings \/ SetUpEncoder \/ DecoderConsumes
           \/ DecoderAnnounces \/ DecoderError \/ (\E p \in Ports : EncoderReturns(p)) \/ UNCHANGED vars
    <2>1. UNCHANGED <<decoded, frame, filling, allocated, lost>>
        BY <1>7 DEF OpenFails, OpenDecoder, Reset, Decode, DecodeInput, InputRefused, DecodeNoInput,
                    RequestOutput, FlushEncoder, NoFrameYet, SendFrame, PollSettings, SetUpEncoder,
                    DecoderConsumes, DecoderAnnounces, DecoderError, EncoderReturns, Held,
                    callVars, outputVars, vars
    <2> QED BY <2>1
<1> QED BY <1>1, <1>2, <1>3, <1>4, <1>5, <1>6, <1>7 DEF Next, DecodeStep, Components

\* Whatever fails, an output buffer of the decoder is lost only where Decode
\* returns with dec_buffer in its hand (OMXVideo.cpp:844, 856).
THEOREM OutputBuffersKept == Spec => []DecoderBuffersKept
<1>1. Init => DecoderBuffersKept
    BY DEF Init, DecoderBuffersKept
<1>2. Types /\ DecoderBuffersKept /\ [Next]_vars => DecoderBuffersKept'
    BY BuffersStep
<1> QED BY <1>1, <1>2, TypesHold, PTL DEF Spec

-----------------------------------------------------------------------------
(***************************************************************************)
(* The decoder's input.                                                    *)
(***************************************************************************)

\* Between DecodeInput and the next part, and in the call that a failure ends.
Submitted == {"encOutput", "decOutput", "encInput", "refill", "poll", "setup", "setupDecoder"}

LastIs(p, n) == Len(input) > 0 /\ input[Len(input)].pkt = p /\ input[Len(input)].part = n

\* What Decode has given the decoder of the packet it was called with.
Progress ==
    /\ \A i \in 1 .. Len(input) : input[i].pkt <= cur
    /\ pc = "input" /\ part = 1 => \A i \in 1 .. Len(input) : input[i].pkt < cur
    /\ pc = "input" /\ part # 1 => LastIs(cur, part - 1)
    /\ pc \in Submitted => LastIs(cur, part)

InputInv == Progress /\ PartsInOrder /\ TrueMeansWhole

LEMMA InputStep == Types /\ InputInv /\ DecodeInput => InputInv'
<1> SUFFICES ASSUME Types, InputInv, DecodeInput PROVE InputInv'
    OBVIOUS
<1>1. CASE InputRefused /\ UNCHANGED inputVars
    <2>1. pc' = "idle" /\ whole' = whole /\ UNCHANGED <<cur, input>>
        BY <1>1 DEF InputRefused, Return, Held, inputVars
    <2> QED BY <2>1 DEF InputInv, Progress, PartsInOrder, TrueMeansWhole, Submitted, LastIs
<1>2. CASE /\ input' = Append(input, ThisPart) /\ pc' \in Submitted
           /\ UNCHANGED <<cur, part, whole>>
    <2> DEFINE n == Len(input)
    <2>1. pc = "input" /\ cur \in Nat /\ part \in Nat \ {0}
        BY Sizes DEF DecodeInput, Types, CallTypes
    <2>2. n \in Nat /\ \A i \in 1 .. n : input[i] \in PartsGiven
        BY DEF Types, InputTypes
    <2>3. \A i \in 1 .. n : input[i].pkt \in Nat /\ input[i].part \in Nat
        BY <2>2, Given, Sizes
    <2>4. /\ DOMAIN input = 1 .. n /\ DOMAIN input' = 1 .. n + 1 /\ Len(input') = n + 1
          /\ \A i \in 1 .. n : input'[i] = input[i]
          /\ input'[n + 1] = ThisPart
        BY <1>2 DEF Types, InputTypes
    <2>5. ThisPart.pkt = cur /\ ThisPart.part = part
        BY DEF ThisPart
    <2> HIDE DEF n
    <2>6. Progress'
        BY <1>2, <2>1, <2>2, <2>3, <2>4, <2>5 DEF InputInv, Progress, Submitted, LastIs
    <2>7. PartsInOrder'
        <3> SUFFICES ASSUME NEW i \in 1 .. n + 1
                     PROVE  IF input'[i].part = 1 THEN i > 1 => input'[i].pkt > input'[i-1].pkt
                            ELSE i > 1 /\ input'[i].pkt = input'[i-1].pkt
                                 /\ input'[i].part = input'[i-1].part + 1
            BY <2>4 DEF PartsInOrder
        <3>1. CASE i \in 1 .. n
            <4>1. i > 1 => i - 1 \in 1 .. n
                BY <2>2, <3>1
            <4> QED BY <2>4, <3>1, <4>1 DEF InputInv, PartsInOrder
        <3>2. CASE i = n + 1 /\ part = 1
            <4>1. i > 1 => n \in 1 .. n /\ i - 1 = n
                BY <2>2, <3>2
            <4>2. \A j \in 1 .. n : input[j].pkt < cur
                BY <2>1, <3>2 DEF InputInv, Progress, n
            <4> QED BY <2>1, <2>3, <2>4, <2>5, <3>2, <4>1, <4>2
        <3>3. CASE i = n + 1 /\ part # 1
            <4>1. n > 0 /\ input[n].pkt = cur /\ input[n].part = part - 1
                BY <2>1, <3>3 DEF InputInv, Progress, LastIs, n
            <4>2. n \in 1 .. n /\ i - 1 = n /\ i > 1
                BY <2>2, <3>3, <4>1
            <4>3. input'[i-1] = input[n] /\ input'[i] = ThisPart
                BY <2>4, <3>3, <4>2
            <4> QED BY <2>1, <2>5, <3>3, <4>1, <4>2, <4>3
        <3> QED BY <2>2, <3>1, <3>2, <3>3
    <2>8. TrueMeansWhole'
        <3> SUFFICES ASSUME NEW p \in whole
                     PROVE  \E i \in 1 .. n + 1 : input'[i].pkt = p /\ input'[i].part = Parts[p]
            BY <1>2, <2>4 DEF TrueMeansWhole
        <3>1. PICK i \in 1 .. n : input[i].pkt = p /\ input[i].part = Parts[p]
            BY <2>4 DEF InputInv, TrueMeansWhole
        <3> QED BY <2>2, <2>4, <3>1
    <2> QED BY <2>6, <2>7, <2>8 DEF InputInv
<1> QED BY <1>1, <1>2 DEF DecodeInput, Submitted

\* The step to the next part, or the return when there is none.
LEMMA NextPartStep ==
    ASSUME Types, InputInv, pc \in Submitted, NextPart, input' = input
    PROVE  InputInv'
<1>1. /\ cur' = cur
      /\ \/ pc' = "idle" /\ part' = part /\ part = Parts[cur] /\ whole' = whole \cup {cur}
         \/ pc' = "input" /\ part' = part + 1 /\ whole' = whole
    BY NextPartMoves
<1>2. LastIs(cur, part) /\ part \in Nat \ {0} /\ Len(input) \in Nat /\ DOMAIN input = 1 .. Len(input)
    BY DEF InputInv, Progress, Types, CallTypes, InputTypes
<1>3. Progress'
    BY <1>1, <1>2 DEF InputInv, Progress, LastIs, Submitted
<1>4. PartsInOrder'
    BY DEF InputInv, PartsInOrder
<1>5. TrueMeansWhole'
    BY <1>1, <1>2 DEF InputInv, TrueMeansWhole, LastIs
<1> QED BY <1>3, <1>4, <1>5 DEF InputInv

LEMMA InputInvKept == Types /\ InputInv /\ [Next]_vars => InputInv'
<1> SUFFICES ASSUME Types, InputInv, [Next]_vars PROVE InputInv'
    OBVIOUS
<1>1. CASE DecodeInput
    BY <1>1, InputStep
<1>2. CASE Decode
    <2>1. /\ cur' = cur + 1 /\ part' = 1 /\ pc' = "input" /\ UNCHANGED <<input, whole>>
          /\ cur \in Nat
        BY <1>2, Sizes DEF Decode, inputVars, Types, CallTypes
    <2>2. \A i \in 1 .. Len(input) : input[i].pkt \in Nat
        BY Given, Sizes DEF Types, InputTypes
    <2> QED BY <2>1, <2>2 DEF InputInv, Progress, PartsInOrder, TrueMeansWhole, Submitted
<1>3. CASE RefillDecoder \/ PollSettings \/ SetUpDecoder
    <2>1. input' = input /\ pc \in Submitted
        BY <1>3 DEF RefillDecoder, PollSettings, SetUpDecoder, inputVars, Submitted
    <2>2. CASE NextPart
        BY <2>1, <2>2, NextPartStep
    <2>3. CASE UNCHANGED <<cur, part, whole>> /\ pc' \in {"idle", "setup"}
        BY <2>1, <2>3 DEF InputInv, Progress, PartsInOrder, TrueMeansWhole, Submitted, LastIs
    <2> QED BY <1>3, <2>2, <2>3 DEF RefillDecoder, PollSettings, SetUpDecoder, SetUpFails, Return
<1>4. CASE \/ OpenFails \/ OpenDecoder \/ Reset \/ Destroy \/ DecodeNoInput \/ RequestOutput
           \/ FlushEncoder \/ TakeFrame \/ NoFrameYet \/ SendFrame \/ LoseFrame \/ SetUpEncoder
           \/ Components \/ UNCHANGED vars
    <2>1. UNCHANGED <<cur, part, whole, input>>
        BY <1>4 DEF OpenFails, OpenDecoder, Reset, Destroy, DecodeNoInput, RequestOutput,
                    FlushEncoder, TakeFrame, NoFrameYet, SendFrame, LoseFrame, SetUpEncoder, SetUpFails,
                    Components, DecoderConsumes, DecoderEmits, DecoderAnnounces, DecoderError,
                    EncoderReturns, Return, Held, callVars, inputVars, vars
    <2>2. pc' = pc \/ pc' \in {"idle", "gone"} \/ (pc \in Submitted /\ pc' \in Submitted)
        BY <1>4 DEF OpenFails, OpenDecoder, Reset, Destroy, DecodeNoInput, RequestOutput,
                    FlushEncoder, TakeFrame, NoFrameYet, SendFrame, LoseFrame, SetUpEncoder, SetUpFails,
                    Components, DecoderConsumes, DecoderEmits, DecoderAnnounces, DecoderError,
                    EncoderReturns, Return, callVars, vars, Submitted
    <2> QED BY <2>1, <2>2 DEF InputInv, Progress, PartsInOrder, TrueMeansWhole, Submitted, LastIs
<1> QED BY <1>1, <1>2, <1>3, <1>4 DEF Next, DecodeStep

LEMMA InputInvHolds == Spec => []InputInv
<1>1. Init => InputInv
    BY DEF Init, InputInv, Progress, PartsInOrder, TrueMeansWhole, Submitted, LastIs
<1> QED BY <1>1, InputInvKept, TypesHold, PTL DEF Spec

\* The decoder never gets a part of a packet after one that was left out, at
\* whichever of the returns of Decode the rest was given up (OMXVideo.cpp:757-883).
THEOREM NoPartLeftOut == Spec => []PartsInOrder
BY InputInvHolds, PTL DEF InputInv

\* When Decode answers true the decoder has all parts of the packet.
THEOREM TrueIsWhole == Spec => []TrueMeansWhole
BY InputInvHolds, PTL DEF InputInv

-----------------------------------------------------------------------------
(***************************************************************************)
(* The handles of the encoder.                                             *)
(***************************************************************************)

Buffers == Seq(1 .. handles)

EncoderTypes ==
    /\ handles \in Nat /\ failed \in Nat /\ handle \in 0 .. handles
    /\ avail \in [Ports -> Buffers] /\ device \in [Ports -> Buffers]

\* Until the set-up has succeeded every handle is one of a set-up that failed,
\* but for the one that is being set up.
HandlesFailed ==
    /\ pc = "new" => ~settings /\ handles = 0
    /\ pc \in {"poll", "setup", "setupDecoder"} => ~settings
    /\ ~settings /\ pc # "setupDecoder" => handles <= failed
    /\ handles <= failed + 1

LEMMA EncoderTypesKept == EncoderTypes /\ [Next]_vars => EncoderTypes'
<1> SUFFICES ASSUME EncoderTypes, [Next]_vars PROVE EncoderTypes'
    OBVIOUS
<1> USE DEF EncoderTypes
<1>1. ASSUME NEW b \in [Ports -> Buffers], NEW p \in Ports
      PROVE  /\ b[p] # <<>> => Head(b[p]) \in 1 .. handles /\ Tail(b[p]) \in Buffers
             /\ \A n \in 1 .. handles : Append(b[p], n) \in Buffers
             /\ b[p] # <<>> => Append(Tail(b[p]), Head(b[p])) \in Buffers
    <2>1. b[p] \in Buffers
        OBVIOUS
    <2>2. b[p] # <<>> => Head(b[p]) \in 1 .. handles /\ Tail(b[p]) \in Buffers
        BY <2>1, SequenceSteps, Zenon DEF Buffers
    <2>3. \A n \in 1 .. handles, s \in Buffers : Append(s, n) \in Buffers
        BY SequenceSteps, Zenon DEF Buffers
    <2> QED BY <2>1, <2>2, <2>3
<1>2. ASSUME NEW b \in [Ports -> Buffers], NEW p \in Ports, NEW s \in Buffers
      PROVE  [b EXCEPT ![p] = s] \in [Ports -> Buffers]
    OBVIOUS
<1>u. ASSUME handles' = handles PROVE Buffers' = Buffers
    BY <1>u DEF Buffers
<1>3. In \in Ports /\ Out \in Ports
    BY DEF Ports, In, Out
<1>4. CASE Destroy
    <2>1. <<>> \in Buffers
        BY DEF Buffers
    <2>2. handles' = handles
        BY <1>4 DEF Destroy
    <2> QED BY <1>4, <2>1, <2>2, <1>u DEF Destroy
<1>5. CASE SetUpEncoder
    <2>0. device' = device /\ failed' \in {failed, failed + 1}
        BY <1>5 DEF SetUpEncoder, SetUpFails
    <2>1. CASE handle' = 0 /\ handles' = handles /\ avail' = avail
        BY <2>0, <2>1, <1>u
    <2>2. CASE /\ handles' = handles + 1 /\ handle' = handles + 1
               /\ \E outs, ins \in Nat : avail' =
                     [avail EXCEPT ![Out] = @ \o [i \in 1 .. outs |-> handle'],
                                   ![In]  = @ \o [i \in 1 .. ins  |-> handle']]
        <3>1. PICK outs, ins \in Nat : avail' =
                     [avail EXCEPT ![Out] = @ \o [i \in 1 .. outs |-> handle'],
                                   ![In]  = @ \o [i \in 1 .. ins  |-> handle']]
            BY <2>2
        <3>2. \A n \in Nat : [i \in 1 .. n |-> handle'] \in Buffers'
            BY <2>2 DEF Buffers
        <3>a. Buffers \subseteq Buffers'
            BY <2>2 DEF Buffers
        <3>3. \A s, t \in Buffers' : s \o t \in Buffers'
            BY DEF Buffers
        <3>4. /\ avail[Out] \o [i \in 1 .. outs |-> handle'] \in Buffers'
              /\ avail[In] \o [i \in 1 .. ins |-> handle'] \in Buffers'
            BY <1>3, <3>a, <3>2, <3>3
        <3>5. In # Out
            BY DEF In, Out
        <3>6. avail' \in [Ports -> Buffers']
            <4>1. avail \in [Ports -> Buffers']
                BY <3>a
            <4>. DEFINE o == avail[Out] \o [i \in 1 .. outs |-> handle']
                        n == avail[In] \o [i \in 1 .. ins |-> handle']
            <4>2. o \in Buffers' /\ n \in Buffers' /\ avail' = [avail EXCEPT ![Out] = o, ![In] = n]
                BY <1>3, <3>1, <3>4, <3>5
            <4>. HIDE DEF o, n
            <4> QED BY <1>3, <4>1, <4>2
        <3>b. device' \in [Ports -> Buffers']
            BY <2>0, <3>a
        <3>7. handles' \in Nat /\ failed' \in Nat /\ handle' \in 0 .. handles'
            BY <2>0, <2>2
        <3> QED BY <3>6, <3>b, <3>7
    <2>3. EncCount[Out] \in Nat /\ EncCount[In] \in Nat
        BY <1>3, CodecAssumption
    <2>4. \/ handle' = 0 /\ handles' = handles /\ avail' = avail
          \/ /\ handles' = handles + 1 /\ handle' = handles + 1
             /\ \E outs \in 0 .. EncCount[Out], ins \in 0 .. EncCount[In] : avail' =
                     [avail EXCEPT ![Out] = @ \o [i \in 1 .. outs |-> handle'],
                                   ![In]  = @ \o [i \in 1 .. ins  |-> handle']]
        BY <1>5, Zenon DEF SetUpEncoder
    <2>5. 0 .. EncCount[Out] \subseteq Nat /\ 0 .. EncCount[In] \subseteq Nat
        BY <2>3
    <2> QED BY <2>1, <2>2, <2>4, <2>5, Zenon
<1>6. CASE RequestOutput
    <2>1. /\ avail[Out] # <<>> /\ UNCHANGED <<handle, handles, failed>>
          /\ avail' \in {[avail EXCEPT ![Out] = Tail(avail[Out])],
                         [avail EXCEPT ![Out] = Append(Tail(avail[Out]), Head(avail[Out]))]}
          /\ device' \in {device, [device EXCEPT ![Out] = Append(device[Out], Head(avail[Out]))]}
        BY <1>6 DEF RequestOutput, Submit, Take, GoAround
    <2>2. avail' \in [Ports -> Buffers]
        <3>1. avail[Out] # <<>> => /\ Tail(avail[Out]) \in Buffers
                               /\ Append(Tail(avail[Out]), Head(avail[Out])) \in Buffers
            BY <1>1, <1>3, Zenon
        <3> QED BY <2>1, <3>1, <1>2, <1>3, Zenon
    <2>3. Append(device[Out], Head(avail[Out])) \in Buffers
        BY <2>1, <1>1, <1>3
    <2>4. device' \in [Ports -> Buffers]
        BY <2>1, <2>3, <1>2, <1>3
    <2> QED BY <1>u, <2>1, <2>2, <2>4
<1>7. CASE FlushEncoder
    <2>1. UNCHANGED <<handle, handles, failed>>
          /\ \/ avail' = avail /\ device' = device
             \/ /\ avail' = [avail EXCEPT ![Out] = avail[Out] \o device[Out]]
                /\ device' = [device EXCEPT ![Out] = <<>>]
        BY <1>7 DEF FlushEncoder
    <2>2. <<>> \in Buffers /\ avail[Out] \o device[Out] \in Buffers
        BY <1>3 DEF Buffers
    <2> QED BY <1>u, <2>1, <2>2, <1>2, <1>3
<1>8. CASE SendFrame
    <2>1. /\ avail[In] # <<>> /\ UNCHANGED <<handle, handles, failed>>
          /\ avail' = [avail EXCEPT ![In] = Tail(avail[In])]
          /\ device' = [device EXCEPT ![In] = Append(device[In], Head(avail[In]))]
        BY <1>8 DEF SendFrame, Submit, Take
    <2>2. Tail(avail[In]) \in Buffers /\ Append(device[In], Head(avail[In])) \in Buffers
        BY <2>1, <1>1, <1>3
    <2> QED BY <1>u, <2>1, <2>2, <1>2, <1>3
<1>9. CASE LoseFrame
    <2>1. /\ UNCHANGED <<handle, handles, failed, device>>
          /\ \/ avail' = avail
             \/ /\ avail[In] # <<>>
                /\ avail' = [avail EXCEPT ![In] = Append(Tail(avail[In]), Head(avail[In]))]
        BY <1>9 DEF LoseFrame, GoAround
    <2>2. avail' \in [Ports -> Buffers]
        <3>1. avail[In] # <<>> => /\ Tail(avail[In]) \in Buffers
                               /\ Append(Tail(avail[In]), Head(avail[In])) \in Buffers
            BY <1>1, <1>3, Zenon
        <3> QED BY <2>1, <3>1, <1>2, <1>3, Zenon
    <2> QED BY <1>u, <2>1, <2>2
<1>10. CASE \E p \in Ports : EncoderReturns(p)
    <2>1. PICK p \in Ports : EncoderReturns(p)
        BY <1>10
    <2>2. /\ device[p] # <<>> /\ UNCHANGED <<handle, handles, failed>>
          /\ device' = [device EXCEPT ![p] = Tail(device[p])]
          /\ avail' = [avail EXCEPT ![p] = Append(avail[p], Head(device[p]))]
        BY <2>1 DEF EncoderReturns
    <2> QED BY <1>u, <2>2, <1>1, <1>2
<1>11. CASE SetUpDecoder
    <2>1. UNCHANGED <<handle, handles, avail, device>> /\ failed' \in {failed, failed + 1}
        BY <1>11 DEF SetUpDecoder, SetUpFails
    <2> QED BY <1>u, <2>1
<1>12. CASE \/ OpenFails \/ OpenDecoder \/ Reset \/ Decode \/ DecodeInput \/ DecodeNoInput
            \/ TakeFrame \/ NoFrameYet \/ RefillDecoder \/ PollSettings \/ DecoderConsumes
            \/ DecoderEmits \/ DecoderAnnounces \/ DecoderError \/ UNCHANGED vars
    <2>1. UNCHANGED <<handle, handles, failed, avail, device>>
        BY <1>12 DEF OpenFails, OpenDecoder, Reset, Decode, DecodeInput, DecodeNoInput, TakeFrame,
                     NoFrameYet, RefillDecoder, PollSettings, DecoderConsumes, DecoderEmits,
                     DecoderAnnounces, DecoderError, encoderVars, vars
    <2> QED BY <1>u, <2>1
<1> QED BY <1>4, <1>5, <1>6, <1>7, <1>8, <1>9, <1>10, <1>11, <1>12 DEF Next, DecodeStep, Components

LEMMA HandlesFailedKept == EncoderTypes /\ HandlesFailed /\ [Next]_vars => HandlesFailed'
<1> SUFFICES ASSUME EncoderTypes, HandlesFailed, [Next]_vars PROVE HandlesFailed'
    OBVIOUS
<1>0. handles \in Nat /\ failed \in Nat
    BY DEF EncoderTypes
<1> USE DEF HandlesFailed
<1>1. CASE OpenDecoder
    BY <1>0, <1>1 DEF OpenDecoder, encoderVars
<1>2. CASE DecodeInput
    BY <1>0, <1>2 DEF DecodeInput, InputRefused, Return, flagVars, encoderVars
<1>3. CASE SetUpEncoder
    BY <1>0, <1>3 DEF SetUpEncoder, SetUpFails, Return, flagVars
<1>4. CASE SetUpDecoder
    BY <1>0, <1>4, NextPartMoves DEF SetUpDecoder, SetUpFails, SettingsDone, Return
<1>5. CASE PollSettings \/ RefillDecoder
    BY <1>0, <1>5, NextPartMoves DEF PollSettings, RefillDecoder, Return, flagVars, encoderVars
<1>6. CASE \/ OpenFails \/ Reset \/ Destroy \/ Decode \/ DecodeNoInput \/ RequestOutput \/ FlushEncoder
           \/ TakeFrame \/ NoFrameYet \/ SendFrame \/ LoseFrame \/ Components \/ UNCHANGED vars
    <2>1. UNCHANGED <<settings, handles, failed>>
        BY <1>6 DEF OpenFails, Reset, Destroy, Decode, DecodeNoInput, RequestOutput, FlushEncoder,
                    TakeFrame, NoFrameYet, SendFrame, LoseFrame, Components, DecoderConsumes,
                    DecoderEmits, DecoderAnnounces, DecoderError, EncoderReturns, encoderVars,
                    flagVars, vars
    <2>2. pc' = pc \/ (pc' \notin {"new", "poll", "setup", "setupDecoder"} /\ pc # "setupDecoder")
        BY <1>6 DEF OpenFails, Reset, Destroy, Decode, DecodeNoInput, RequestOutput, FlushEncoder,
                    TakeFrame, NoFrameYet, SendFrame, LoseFrame, Components, DecoderConsumes,
                    DecoderEmits, DecoderAnnounces, DecoderError, EncoderReturns, Return, callVars, vars
    <2> QED BY <1>0, <2>1, <2>2
<1> QED BY <1>1, <1>2, <1>3, <1>4, <1>5, <1>6 DEF Next, DecodeStep

LEMMA EncoderInvHolds == Spec => [](EncoderTypes /\ HandlesFailed)
<1>1. Init => EncoderTypes /\ HandlesFailed
    BY DEF Init, EncoderTypes, HandlesFailed, Buffers
<1>2. EncoderTypes /\ HandlesFailed /\ [Next]_vars => (EncoderTypes /\ HandlesFailed)'
    BY EncoderTypesKept, HandlesFailedKept
<1> QED BY <1>1, <1>2, PTL DEF Spec

\* PortSettingsChanged initializes an encoder that is initialized already only
\* after a set-up that failed half way (OMXVideo.cpp:241-447).
THEOREM EncoderIsOne == Spec => []OneEncoder
<1>1. EncoderTypes /\ HandlesFailed => OneEncoder
    <2> SUFFICES ASSUME EncoderTypes, HandlesFailed PROVE OneEncoder
        OBVIOUS
    <2>1. handles <= failed + 1
        BY DEF HandlesFailed
    <2>2. ASSUME NEW p \in Ports, NEW b \in Range(device[p]), b < handle
          PROVE  failed > 0
        <3>1. device[p] \in Buffers
            BY DEF EncoderTypes
        <3>2. b \in 1 .. handles
            <4>1. PICK k \in DOMAIN device[p] : b = device[p][k]
                BY <2>2 DEF Range
            <4>2. device[p] \in Seq(1 .. handles)
                BY <3>1 DEF Buffers
            <4>3. \A S : \A s \in Seq(S) : \A i \in DOMAIN s : s[i] \in S
                OBVIOUS
            <4> QED BY <4>1, <4>2, <4>3
        <3>3. handle >= 2 /\ handle <= handles
            BY <2>2, <3>2 DEF EncoderTypes
        <3> QED BY <2>1, <3>3 DEF EncoderTypes
    <2> QED BY <2>1, <2>2 DEF OneEncoder
<1> QED BY <1>1, EncoderInvHolds, PTL

-----------------------------------------------------------------------------
(***************************************************************************)
(* The frames on their way: sent, in the hand of Decode, and decoded.      *)
(***************************************************************************)

Before(m, n) == m # Blank /\ n # Blank => m < n
Sorted(s) == \A i, j \in 1 .. Len(s) : i < j => Before(s[i], s[j])
AllBefore(s, n) == \A i \in 1 .. Len(s) : Before(s[i], n)

InHand == pc = "encInput"

FrameOrder ==
    /\ sent \in Seq(Frames)
    /\ Sorted(sent) /\ Sorted(decoded)
    /\ \A i \in 1 .. Len(decoded) : AllBefore(sent, decoded[i])
    /\ InHand => AllBefore(sent, frame) /\ \A i \in 1 .. Len(decoded) : Before(frame, decoded[i])
    /\ AllBefore(sent, emitted + 1) /\ AllBefore(decoded, emitted + 1)
    /\ InHand => Before(frame, emitted + 1)

LEMMA IndexSteps ==
    ASSUME NEW s \in Seq(Frames)
    PROVE  /\ Len(s) \in Nat /\ \A i \in 1 .. Len(s) : s[i] \in Nat
           /\ \A e \in Frames : /\ Len(Append(s, e)) = Len(s) + 1 /\ Append(s, e)[Len(s) + 1] = e
                                /\ \A i \in 1 .. Len(s) : Append(s, e)[i] = s[i]
           /\ s # <<>> => /\ Len(s) >= 1 /\ Head(s) = s[1] /\ Len(Tail(s)) = Len(s) - 1
                          /\ \A i \in 1 .. Len(Tail(s)) : i + 1 \in 1 .. Len(s) /\ Tail(s)[i] = s[i + 1]
<1>1. \A n \in Frames : n \in Nat
    BY Sizes
<1>2. Len(s) \in Nat /\ \A i \in 1 .. Len(s) : s[i] \in Frames
    OBVIOUS
<1>3. ASSUME NEW e \in Frames
      PROVE  /\ Len(Append(s, e)) = Len(s) + 1 /\ Append(s, e)[Len(s) + 1] = e
             /\ \A i \in 1 .. Len(s) : Append(s, e)[i] = s[i]
    OBVIOUS
<1>4. ASSUME s # <<>>
      PROVE  /\ Len(s) >= 1 /\ Head(s) = s[1] /\ Len(Tail(s)) = Len(s) - 1
             /\ \A i \in 1 .. Len(Tail(s)) : i + 1 \in 1 .. Len(s) /\ Tail(s)[i] = s[i + 1]
    BY <1>4
<1> QED BY <1>1, <1>2, <1>3, <1>4

\* What is put at the end of a sorted sequence, and what is taken from its front.
LEMMA SortedSteps ==
    ASSUME NEW s \in Seq(Frames), Sorted(s)
    PROVE  /\ \A e \in Frames : AllBefore(s, e) => Sorted(Append(s, e))
           /\ \A e \in Frames, n \in Nat : AllBefore(s, n) /\ Before(e, n) => AllBefore(Append(s, e), n)
           /\ s # <<>> => /\ Sorted(Tail(s)) /\ \A n \in Nat : AllBefore(s, n) => AllBefore(Tail(s), n)
                          /\ \A i \in 1 .. Len(Tail(s)) : Before(Head(s), Tail(s)[i])
<1> USE IndexSteps
<1>1. ASSUME NEW e \in Frames, AllBefore(s, e) PROVE Sorted(Append(s, e))
    <2>1. SUFFICES ASSUME NEW i \in 1 .. Len(s) + 1, NEW j \in 1 .. Len(s) + 1, i < j
                   PROVE  Before(Append(s, e)[i], Append(s, e)[j])
        BY DEF Sorted
    <2>2. i \in 1 .. Len(s) /\ Append(s, e)[i] = s[i]
        BY <2>1
    <2>3. CASE j = Len(s) + 1
        BY <1>1, <2>2, <2>3 DEF AllBefore
    <2>4. CASE j \in 1 .. Len(s)
        BY <2>1, <2>2, <2>4 DEF Sorted
    <2> QED BY <2>3, <2>4
<1>2. ASSUME NEW e \in Frames, NEW n \in Nat, AllBefore(s, n), Before(e, n) PROVE AllBefore(Append(s, e), n)
    BY <1>2 DEF AllBefore
<1>3. ASSUME s # <<>>
      PROVE  /\ Sorted(Tail(s)) /\ \A n \in Nat : AllBefore(s, n) => AllBefore(Tail(s), n)
             /\ \A i \in 1 .. Len(Tail(s)) : Before(Head(s), Tail(s)[i])
    BY <1>3 DEF Sorted, AllBefore
<1> QED BY <1>1, <1>2, <1>3

LEMMA FrameOrderKept == Types /\ FrameOrder /\ [Next]_vars => FrameOrder'
<1> SUFFICES ASSUME Types, FrameOrder, [Next]_vars PROVE FrameOrder'
    OBVIOUS
<1>0. /\ decoded \in Seq(Frames) /\ sent \in Seq(Frames) /\ emitted \in Nat
      /\ \A f \in Frames : f \in Nat
      /\ Sorted(sent) /\ Sorted(decoded)
    BY Sizes DEF Types, OutputTypes, FrameOrder
<1>a. \A i \in 1 .. Len(sent) : sent[i] \in Nat
    BY <1>0, IndexSteps
<1>b. \A i \in 1 .. Len(decoded) : decoded[i] \in Nat
    BY <1>0, IndexSteps
<1>1. CASE Destroy
    <2>1. sent' = sent /\ decoded' = <<>> /\ emitted' = emitted /\ pc' = "gone"
        BY <1>1 DEF Destroy
    <2>2. Sorted(<<>>) /\ AllBefore(<<>>, emitted + 1)
        BY DEF Sorted, AllBefore
    <2>3. \A i \in 1 .. Len(<<>>) : AllBefore(sent, decoded'[i])
        OBVIOUS
    <2> QED BY <2>1, <2>2, <2>3 DEF FrameOrder, InHand
<1>2. CASE TakeFrame
    <2>1. /\ decoded # <<>> /\ frame' = Head(decoded) /\ decoded' = Tail(decoded)
          /\ sent' = sent /\ emitted' = emitted
        BY <1>2 DEF TakeFrame, encoderVars, decoderVars
    <2>2. Len(decoded) >= 1 /\ Head(decoded) = decoded[1]
        BY <1>0, <2>1, IndexSteps
    <2>3. \A i \in 1 .. Len(decoded') : i + 1 \in 1 .. Len(decoded) /\ decoded'[i] = decoded[i + 1]
        BY <1>0, <2>1, IndexSteps, Zenon
    <2>4. Sorted(decoded') /\ AllBefore(decoded', emitted + 1)
        BY <1>0, <2>1, SortedSteps DEF FrameOrder
    <2>5. \A i \in 1 .. Len(decoded') : AllBefore(sent, decoded'[i])
        BY <2>3 DEF FrameOrder
    <2>6. AllBefore(sent, frame') /\ Before(frame', emitted + 1)
        BY <2>1, <2>2, <1>0 DEF FrameOrder, AllBefore
    <2>7. \A i \in 1 .. Len(decoded') : Before(frame', decoded'[i])
        BY <1>0, <2>1, SortedSteps
    <2> QED BY <2>1, <2>4, <2>5, <2>6, <2>7 DEF FrameOrder
<1>3. CASE SendFrame
    <2>1. /\ pc = "encInput" /\ sent' = Append(sent, frame) /\ pc' = "refill"
          /\ UNCHANGED <<frame, decoded, emitted>>
        BY <1>3 DEF SendFrame, outputVars, decoderVars
    <2>2. frame \in Frames
        BY <2>1 DEF Types, OutputTypes, FrameIsHeld
    <2>3. sent' \in Seq(Frames) /\ Sorted(sent') /\ AllBefore(sent', emitted + 1)
        BY <1>0, <2>1, <2>2, SortedSteps DEF FrameOrder, InHand
    <2>4. \A i \in 1 .. Len(decoded) : AllBefore(sent', decoded[i])
        BY <1>0, <1>b, <2>1, <2>2, SortedSteps DEF FrameOrder, InHand
    <2> QED BY <1>0, <2>1, <2>3, <2>4 DEF FrameOrder, InHand
<1>4. CASE RefillDecoder \/ SetUpDecoder
    <2>1. /\ pc # "encInput" /\ pc' # "encInput" /\ sent' = sent /\ emitted' = emitted
          /\ \/ decoded' = decoded \/ decoded' = Append(decoded, Blank)
             \/ decoded' = Tail(Append(decoded, Blank))
        BY <1>4, NextPartMoves DEF RefillDecoder, FillBufferDone, ResetFilled, SetUpDecoder,
                                   SetUpFails, Return, encoderVars, decoderVars
    <2>2. Blank \in Frames /\ \A m, n : Before(m, Blank) /\ Before(Blank, n)
        BY Sizes DEF Before
    <2> DEFINE longer == Append(decoded, Blank)
    <2>3. /\ longer \in Seq(Frames) /\ Sorted(longer) /\ AllBefore(longer, emitted + 1) /\ longer # <<>>
        <3>1. AllBefore(decoded, Blank)
            BY <2>2 DEF AllBefore
        <3>2. AllBefore(decoded, emitted + 1) /\ Before(Blank, emitted + 1)
            BY <2>2 DEF FrameOrder
        <3> QED BY <1>0, <2>2, <3>1, <3>2, SortedSteps, SMTT(30)
    <2>4. \A i \in 1 .. Len(longer) : AllBefore(sent, longer[i])
        <3>1. \A i \in 1 .. Len(longer) :
                 (i \in 1 .. Len(decoded) /\ longer[i] = decoded[i]) \/ longer[i] = Blank
            BY <1>0, <2>2, IndexSteps
        <3> QED BY <2>2, <3>1 DEF FrameOrder, AllBefore
    <2> HIDE DEF longer
    <2>5. /\ Sorted(Tail(longer)) /\ AllBefore(Tail(longer), emitted + 1)
          /\ \A i \in 1 .. Len(Tail(longer)) : AllBefore(sent, Tail(longer)[i])
        <3>1. \A i \in 1 .. Len(Tail(longer)) : i + 1 \in 1 .. Len(longer) /\ Tail(longer)[i] = longer[i + 1]
            BY <2>3, IndexSteps, Zenon
        <3>2. Sorted(Tail(longer)) /\ AllBefore(Tail(longer), emitted + 1)
            BY <1>0, <2>3, SortedSteps
        <3> QED BY <2>4, <3>1, <3>2
    <2>6. decoded' \in {decoded, longer, Tail(longer)}
        BY <2>1 DEF longer
    <2> QED BY <2>1, <2>3, <2>4, <2>5, <2>6, Zenon DEF FrameOrder, InHand
<1>5. CASE DecoderEmits
    <2>1. PICK n \in emitted + 1 .. complete : emitted' = n /\ decoded' = Append(decoded, n)
        BY <1>5 DEF DecoderEmits
    <2>2. n \in Frames /\ n \in Nat /\ n >= emitted + 1
        BY <2>1, Sizes DEF Types, OutputTypes, InputTypes
    <2>3. UNCHANGED <<sent, pc, frame>>
        BY <1>5 DEF DecoderEmits, callVars, encoderVars
    <2>a. /\ \A m \in Nat : Before(m, emitted + 1) => Before(m, n) /\ Before(m, n + 1)
          /\ Before(n, n + 1)
        BY <1>0, <2>2 DEF Before, Blank
    <2>4. AllBefore(decoded, n) /\ AllBefore(decoded, n + 1) /\ Before(n, n + 1)
        BY <1>b, <2>a DEF FrameOrder, AllBefore
    <2>5. AllBefore(sent, n) /\ AllBefore(sent, n + 1)
        BY <1>a, <2>a DEF FrameOrder, AllBefore
    <2>6. Sorted(decoded') /\ AllBefore(decoded', n + 1)
        BY <1>0, <2>1, <2>2, <2>4, SortedSteps
    <2>7. \A i \in 1 .. Len(decoded') : (i \in 1 .. Len(decoded) /\ decoded'[i] = decoded[i]) \/ decoded'[i] = n
        BY <1>0, <2>1, <2>2, IndexSteps
    <2>8. \A i \in 1 .. Len(decoded') : AllBefore(sent, decoded'[i])
        BY <2>5, <2>7 DEF FrameOrder
    <2>9. ASSUME InHand
          PROVE  AllBefore(sent, frame) /\ Before(frame, n + 1)
                 /\ \A i \in 1 .. Len(decoded') : Before(frame, decoded'[i])
        <3>1. frame \in Nat
            BY <1>0, <2>9 DEF InHand, Types, OutputTypes, FrameIsHeld
        <3>2. Before(frame, n) /\ Before(frame, n + 1)
            BY <2>a, <2>9, <3>1 DEF FrameOrder
        <3> QED BY <2>7, <2>9, <3>2 DEF FrameOrder
    <2> QED BY <1>0, <2>1, <2>3, <2>5, <2>6, <2>8, <2>9 DEF FrameOrder, InHand
<1>6. CASE \/ OpenFails \/ OpenDecoder \/ Reset \/ Decode \/ DecodeInput \/ DecodeNoInput \/ RequestOutput
           \/ FlushEncoder \/ NoFrameYet \/ LoseFrame \/ PollSettings \/ SetUpEncoder \/ DecoderConsumes
           \/ DecoderAnnounces \/ DecoderError \/ (\E p \in Ports : EncoderReturns(p)) \/ UNCHANGED vars
    <2>1. UNCHANGED <<sent, decoded, emitted>>
        BY <1>6 DEF OpenFails, OpenDecoder, Reset, Decode, DecodeInput, DecodeNoInput, RequestOutput,
                    FlushEncoder, NoFrameYet, LoseFrame, PollSettings, SetUpEncoder, DecoderConsumes,
                    DecoderAnnounces, DecoderError, EncoderReturns, encoderVars, outputVars,
                    decoderVars, vars
    <2>2. pc' # "encInput" \/ (pc' = pc /\ frame' = frame)
        BY <1>6, NextPartMoves DEF OpenFails, OpenDecoder, Reset, Decode, DecodeInput, InputRefused,
                    DecodeNoInput, RequestOutput, FlushEncoder, NoFrameYet, LoseFrame, PollSettings,
                    SetUpEncoder, SetUpFails, DecoderConsumes, DecoderAnnounces, DecoderError,
                    EncoderReturns, Return, callVars, vars
    <2> QED BY <2>1, <2>2 DEF FrameOrder, InHand
<1> QED BY <1>1, <1>2, <1>3, <1>4, <1>5, <1>6 DEF Next, DecodeStep, Components

\* No frame reaches the encoder twice or after a later one, whatever buffers go
\* round without a frame (OMXVideo.cpp:836-875).
THEOREM OrderOfFrames == Spec => []FramesInOrder
<1>1. Init => FrameOrder
    BY DEF Init, FrameOrder, Sorted, AllBefore, InHand
<1>2. FrameOrder => FramesInOrder
    <2> SUFFICES ASSUME FrameOrder PROVE FramesInOrder
        OBVIOUS
    <2>1. DOMAIN sent = 1 .. Len(sent)
        BY DEF FrameOrder
    <2> QED BY <2>1 DEF FrameOrder, Sorted, Before, FramesInOrder
<1> QED BY <1>1, <1>2, FrameOrderKept, TypesHold, PTL DEF Spec

-----------------------------------------------------------------------------
(***************************************************************************)
(* OMX_BUFFERFLAG_STARTTIME: m_setStartTime from Open or Reset to the      *)
(* buffers of the next packet.                                             *)
(***************************************************************************)

Calling == {"input"} \cup Submitted

\* While the flag waits Decode has got no packet since it was set; a packet that
\* comes later finds it cleared.
StartInv ==
    /\ pc = "new" => cur = 0 /\ began = 0 /\ ~startTime
    /\ pc = "idle" => (startTime <=> cur = began)
    /\ pc \in Calling => ~startTime /\ cur > began /\ (start <=> cur = began + 1)
    /\ cur >= began

LEMMA StartStep ==
    ASSUME Types, StartInv, StartTimeIsFirst, [Next]_vars
    PROVE  StartInv' /\ StartTimeIsFirst'
<1>0. /\ cur \in Nat /\ began \in Nat /\ input \in Seq(PartsGiven) /\ Len(input) \in Nat
      /\ DOMAIN input = 1 .. Len(input)
    <2>1. cur \in Nat /\ began \in Nat /\ input \in Seq(PartsGiven)
        BY Sizes DEF Types, CallTypes, InputTypes
    <2> QED BY <2>1
<1>1. ASSUME DecodeInput /\ input' # input PROVE StartTimeIsFirst'
    <2> DEFINE n == Len(input)
    <2>1. pc = "input" /\ input' = Append(input, ThisPart)
        BY <1>1 DEF DecodeInput, inputVars
    <2>2. /\ Len(input') = n + 1 /\ DOMAIN input' = 1 .. n + 1
          /\ \A j \in 1 .. n : input'[j] = input[j]
          /\ input'[n + 1] = ThisPart
        BY <1>0, <2>1
    <2>3. ThisPart.start <=> ThisPart.pkt = ThisPart.began + 1
        BY <2>1 DEF ThisPart, StartInv, Calling
    <2>4. \A j \in 1 .. n : input[j].start <=> input[j].pkt = input[j].began + 1
        BY <1>0 DEF StartTimeIsFirst
    <2>5. \A i \in 1 .. n + 1 : i = n + 1 \/ i \in 1 .. n
        BY <1>0
    <2> HIDE DEF n
    <2>6. \A i \in 1 .. n + 1 : input'[i].start <=> input'[i].pkt = input'[i].began + 1
        <3> SUFFICES ASSUME NEW i \in 1 .. n + 1
                     PROVE  input'[i].start <=> input'[i].pkt = input'[i].began + 1
            OBVIOUS
        <3>1. CASE i = n + 1
            <4>1. input'[i] = ThisPart
                BY <3>1, <2>2
            <4> QED BY <4>1, <2>3, Zenon
        <3>2. CASE i \in 1 .. n
            <4>1. input'[i] = input[i]
                BY <3>2, <2>2
            <4>2. input[i].start <=> input[i].pkt = input[i].began + 1
                BY <3>2, <2>4
            <4> QED BY <4>1, <4>2, Zenon
        <3> QED BY <3>1, <3>2, <2>5, Zenon
    <2> QED BY <2>2, <2>6, Zenon DEF StartTimeIsFirst
<1>2. input' = input => StartTimeIsFirst'
    BY DEF StartTimeIsFirst
<1>3. input' = input \/ (DecodeInput /\ input' # input)
    BY DEF Next, DecodeStep, Components, OpenFails, OpenDecoder, Reset, Destroy, Decode, DecodeNoInput,
           RequestOutput, FlushEncoder, TakeFrame, NoFrameYet, SendFrame, LoseFrame, RefillDecoder,
           PollSettings, SetUpEncoder, SetUpDecoder, DecoderConsumes, DecoderEmits,
           DecoderAnnounces, DecoderError, EncoderReturns, inputVars, vars
<1>4. StartInv'
    <2>1. CASE OpenFails
        <3>1. pc' = "gone" /\ cur' = cur /\ began' = began
            BY <2>1 DEF OpenFails
        <3> QED BY <3>1 DEF StartInv, Calling, Submitted
    <2>2. CASE OpenDecoder \/ Reset
        <3>1. pc' = "idle" /\ startTime' = TRUE /\ cur' = cur /\ began' = cur
            BY <2>2 DEF OpenDecoder, Reset, callVars
        <3> QED BY <1>0, <3>1 DEF StartInv, Calling, Submitted
    <2>3. CASE Decode
        <3>1. /\ pc = "idle" /\ pc' = "input" /\ cur' = cur + 1 /\ began' = began
              /\ start' = startTime /\ startTime' = FALSE
            BY <2>3 DEF Decode, ClearStartTime
        <3>2. (startTime <=> cur = began) /\ cur >= began
            BY <3>1 DEF StartInv
        <3>3. start' <=> cur' = began' + 1
            <4>1. cur = began <=> cur' = began' + 1
                BY <1>0, <3>1
            <4> QED BY <3>1, <3>2, <4>1, Zenon
        <3>4. cur' > began' /\ cur' >= began'
            BY <1>0, <3>1, <3>2
        <3> QED BY <3>1, <3>3, <3>4 DEF StartInv
    <2>4. CASE Destroy \/ DecodeStep \/ Components \/ UNCHANGED vars
        <3>1. UNCHANGED <<cur, start, startTime, began>>
            BY <2>4, NextPartMoves DEF Destroy, DecodeStep, DecodeInput, InputRefused, DecodeNoInput,
                    RequestOutput, FlushEncoder, TakeFrame, NoFrameYet, SendFrame, LoseFrame,
                    RefillDecoder, PollSettings, SetUpEncoder, SetUpDecoder, Held, Components,
                    DecoderConsumes, DecoderEmits, DecoderAnnounces, DecoderError, EncoderReturns,
                    flagVars, callVars, vars
        <3>2. pc' = pc \/ pc' = "gone" \/ (pc \in Calling /\ pc' \in Calling \cup {"idle"})
            BY <2>4, NextPartMoves DEF Destroy, DecodeStep, DecodeInput, InputRefused, DecodeNoInput,
                    RequestOutput, FlushEncoder, TakeFrame, NoFrameYet, SendFrame, LoseFrame,
                    RefillDecoder, PollSettings, SetUpEncoder, SetUpDecoder, SetUpFails, Components,
                    DecoderConsumes, DecoderEmits, DecoderAnnounces, DecoderError, EncoderReturns,
                    Return, callVars, vars, Calling, Submitted
        <3>3. (start' <=> start) /\ (startTime' <=> startTime) /\ cur' = cur /\ began' = began
            BY <3>1, Zenon
        <3>4. CASE pc' = pc
            BY <3>3, <3>4 DEF StartInv
        <3>5. CASE pc' = "gone"
            BY <3>3, <3>5 DEF StartInv, Calling, Submitted
        <3>6. CASE pc \in Calling /\ pc' \in Calling \cup {"idle"}
            <4>1. ~startTime /\ cur > began /\ (start <=> cur = began + 1)
                BY <3>6 DEF StartInv
            <4> QED BY <1>0, <3>3, <3>6, <4>1 DEF StartInv, Calling, Submitted
        <3> QED BY <3>2, <3>4, <3>5, <3>6
    <2> QED BY <2>1, <2>2, <2>3, <2>4 DEF Next
<1> QED BY <1>1, <1>2, <1>3, <1>4

\* A part that the decoder is given carries the start time if and only if its packet
\* is the first that Decode got after the last Open or Reset, although Decode clears
\* m_setStartTime before it has a buffer.  When the call for that packet gets no
\* buffer the start time goes to nobody (OMXVideo.cpp:745-790).
THEOREM StartTimeOnce == Spec => []StartTimeIsFirst
<1>1. Init => StartInv /\ StartTimeIsFirst
    BY DEF Init, StartInv, StartTimeIsFirst, Calling, Submitted
<1>2. Types /\ StartInv /\ StartTimeIsFirst /\ [Next]_vars => (StartInv /\ StartTimeIsFirst)'
    BY StartStep
<1> QED BY <1>1, <1>2, TypesHold, PTL DEF Spec


-----------------------------------------------------------------------------
(***************************************************************************)
(* The rest of the types.  RemoveEvent is a loop, the recursive function   *)
(* of Without; the natural numbers are well-founded.                       *)
(***************************************************************************)

LEMMA NatSetInduction ==
    ASSUME NEW S, 0 \in S, \A n \in Nat : n \in S => n + 1 \in S
    PROVE  Nat \subseteq S
<1> DEFINE T == Nat \ S
<1> SUFFICES ASSUME T # {} PROVE FALSE
  OBVIOUS
<1>1. PICK x \in T : \A y \in T : ~ (<<y, x>> \in OpToRel(<, Nat))
  BY WFMin, NatLessThanWellFounded
<1>2. x \in Nat /\ x # 0
  OBVIOUS
<1>3. x - 1 \in T /\ x - 1 < x
  BY <1>2
<1>4. <<x - 1, x>> \in OpToRel(<, Nat)
  BY <1>2, <1>3 DEF OpToRel
<1>. QED  BY <1>1, <1>3, <1>4

\* The loop of RemoveEvent, over the first n events.
IsKept(f, s, e, n) ==
    /\ f = [i \in 0 .. n |-> f[i]]
    /\ f[0] = <<>>
    /\ \A i \in 1 .. n : f[i] = IF s[i] = e THEN f[i - 1]
                                ELSE Append(f[i - 1], s[i])

LEMMA KeptExists ==
    ASSUME NEW S, NEW s \in Seq(S), NEW e
    PROVE  \E f : IsKept(f, s, e, Len(s))
<1> DEFINE N == {n \in Nat : n <= Len(s) => \E f : IsKept(f, s, e, n)}
<1>1. 0 \in N
  <2>. DEFINE f == [i \in 0 .. 0 |-> <<>>]
  <2>1. IsKept(f, s, e, 0)
    BY DEF IsKept
  <2>. QED  BY <2>1
<1>2. ASSUME NEW n \in Nat, n \in N PROVE n + 1 \in N
  <2>. SUFFICES ASSUME n + 1 <= Len(s) PROVE \E f : IsKept(f, s, e, n + 1)
    OBVIOUS
  <2>1. PICK f : IsKept(f, s, e, n)
    BY <1>2
  <2>. DEFINE last == IF s[n + 1] = e THEN f[n] ELSE Append(f[n], s[n + 1])
              g == [i \in 0 .. n + 1 |-> IF i = n + 1 THEN last ELSE f[i]]
  <2>2. \A i \in 0 .. n : g[i] = f[i]
    OBVIOUS
  <2>3. g[n + 1] = last
    OBVIOUS
  <2>4. IsKept(g, s, e, n + 1)
    <3>1. g = [i \in 0 .. n + 1 |-> g[i]]
      OBVIOUS
    <3>2. g[0] = <<>>
      BY <2>1, <2>2 DEF IsKept
    <3>3. ASSUME NEW i \in 1 .. n + 1
          PROVE  g[i] = IF s[i] = e THEN g[i - 1] ELSE Append(g[i - 1], s[i])
      <4>1. CASE i = n + 1
        BY <4>1, <2>2, <2>3
      <4>2. CASE i \in 1 .. n
        <5>. HIDE DEF g, last
        <5>1. g[i] = f[i] /\ g[i - 1] = f[i - 1]
          BY <4>2, <2>2
        <5>2. f[i] = IF s[i] = e THEN f[i - 1] ELSE Append(f[i - 1], s[i])
          BY <4>2, <2>1 DEF IsKept
        <5>. QED  BY <5>1, <5>2
      <4>. QED  BY <4>1, <4>2
    <3>. HIDE DEF g
    <3>. QED  BY <3>1, <3>2, <3>3 DEF IsKept
  <2>. QED  BY <2>4
<1>. HIDE DEF N
<1>3. Len(s) \in N
  BY <1>1, <1>2, NatSetInduction
<1>. QED  BY <1>3 DEF N

LEMMA KeptTypes ==
    ASSUME NEW S, NEW s \in Seq(S), NEW e, NEW f, IsKept(f, s, e, Len(s)),
           NEW n \in 0 .. Len(s)
    PROVE  f[n] \in Seq(S)
<1> DEFINE N == {m \in Nat : m <= Len(s) => f[m] \in Seq(S)}
<1>1. 0 \in N
  BY SMTT(30) DEF IsKept
<1>2. ASSUME NEW m \in Nat, m \in N PROVE m + 1 \in N
  <2>. SUFFICES ASSUME m + 1 <= Len(s) PROVE f[m + 1] \in Seq(S)
    OBVIOUS
  <2>1. f[m] \in Seq(S) /\ s[m + 1] \in S
    BY <1>2
  <2>2. f[m + 1] = IF s[m + 1] = e THEN f[m] ELSE Append(f[m], s[m + 1])
    BY DEF IsKept
  <2>. QED  BY <2>1, <2>2
<1>. HIDE DEF N
<1>3. n \in N
  BY <1>1, <1>2, NatSetInduction
<1>. QED  BY <1>3 DEF N

LEMMA WithoutTypes ==
    ASSUME NEW S, NEW s \in Seq(S), NEW e
    PROVE  Without(s, e) \in Seq(S)
<1> DEFINE body(f) == [i \in 0 .. Len(s) |->
                          IF i = 0 THEN <<>>
                          ELSE IF s[i] = e THEN f[i - 1]
                          ELSE Append(f[i - 1], s[i])]
           kept == CHOOSE f : f = body(f)
<1>1. \A f : f = body(f) <=> IsKept(f, s, e, Len(s))
  <2>. SUFFICES ASSUME NEW f PROVE f = body(f) <=> IsKept(f, s, e, Len(s))
    OBVIOUS
  <2>1. ASSUME f = body(f) PROVE IsKept(f, s, e, Len(s))
    <3>1. \A i \in 0 .. Len(s) : f[i] = IF i = 0 THEN <<>>
                          ELSE IF s[i] = e THEN f[i - 1]
                          ELSE Append(f[i - 1], s[i])
      BY <2>1
    <3>2. f = [i \in 0 .. Len(s) |-> f[i]]
      BY <2>1
    <3>. QED  BY <3>1, <3>2 DEF IsKept
  <2>2. ASSUME IsKept(f, s, e, Len(s)) PROVE f = body(f)
    BY <2>2, SMTT(30) DEF IsKept
  <2>. QED  BY <2>1, <2>2
<1>2. \E f : f = body(f)
  BY <1>1, KeptExists
<1>3. kept = body(kept)
  BY <1>2
<1>4. Without(s, e) = kept[Len(s)]
  BY DEF Without
<1>5. IsKept(kept, s, e, Len(s))
  BY <1>1, <1>3
<1>. HIDE DEF kept
<1>. QED  BY <1>4, <1>5, KeptTypes


Events == {"settings", "sameState", "error"}

SwitchTypes ==
    /\ isOpen \in BOOLEAN /\ settings \in BOOLEAN /\ working \in BOOLEAN /\ resErr \in BOOLEAN

\* Decode runs for a packet; what it returned true for are packets.
CallInv ==
    /\ pc \in Steps /\ whole \subseteq Packets
    /\ pc \in Calling => cur # 0

\* An input buffer of the decoder is available or with the decoder.
InputBuffers == free \in Nat /\ free + Len(fed) <= DecInputs

OtherTypes ==
    /\ events \in Seq(Events) /\ emitted <= Len(Parts)
    /\ changes \in Nat /\ faults \in 0 .. MaxFaults

LEMMA SwitchTypesKept == SwitchTypes /\ [Next]_vars => SwitchTypes'
<1> SUFFICES ASSUME SwitchTypes, [Next]_vars PROVE SwitchTypes'
    OBVIOUS
<1>1. isOpen' \in {isOpen, TRUE, FALSE}
    BY DEF Next, DecodeStep, Components, OpenFails, OpenDecoder, Reset, Destroy, Decode, DecodeInput,
           DecodeNoInput, RequestOutput, FlushEncoder, TakeFrame, NoFrameYet, SendFrame, LoseFrame,
           RefillDecoder, PollSettings, SetUpEncoder, SetUpDecoder, DecoderConsumes, DecoderEmits,
           DecoderAnnounces, DecoderError, EncoderReturns, flagVars, vars
<1>2. settings' \in {settings, TRUE, FALSE}
    BY DEF Next, DecodeStep, Components, OpenFails, OpenDecoder, Reset, Destroy, Decode, DecodeInput,
           DecodeNoInput, RequestOutput, FlushEncoder, TakeFrame, NoFrameYet, SendFrame, LoseFrame,
           RefillDecoder, PollSettings, SetUpEncoder, SetUpDecoder, SettingsDone, DecoderConsumes,
           DecoderEmits, DecoderAnnounces, DecoderError, EncoderReturns, flagVars, vars
<1>3. working' \in {working, TRUE, FALSE}
    BY DEF Next, DecodeStep, Components, OpenFails, OpenDecoder, Reset, Destroy, Decode, DecodeInput,
           DecodeNoInput, RequestOutput, FlushEncoder, TakeFrame, NoFrameYet, SendFrame, LoseFrame,
           RefillDecoder, PollSettings, SetUpEncoder, SetUpDecoder, IdleDecoder, DecoderConsumes,
           DecoderEmits, DecoderAnnounces, DecoderError, EncoderReturns, decoderVars, vars
<1>4. resErr' \in BOOLEAN
    <2>1. CASE DecoderError
        <3>1. PICK e \in {"sameState", "error", "resource"} : resErr' = (resErr \/ e = "resource")
            BY <2>1, Zenon DEF DecoderError
        <3> QED BY <3>1, Zenon
    <2>2. CASE Destroy
        BY <2>2 DEF Destroy
    <2>3. CASE \/ OpenFails \/ OpenDecoder \/ Reset \/ Decode \/ DecodeStep
               \/ DecoderConsumes \/ DecoderEmits \/ DecoderAnnounces
               \/ (\E p \in Ports : EncoderReturns(p)) \/ UNCHANGED vars
        <3>1. resErr' = resErr
            BY <2>3 DEF DecodeStep, OpenFails, OpenDecoder, Reset, Decode, DecodeInput,
                   DecodeNoInput, RequestOutput, FlushEncoder, TakeFrame, NoFrameYet, SendFrame,
                   LoseFrame, RefillDecoder, PollSettings, SetUpEncoder, SetUpDecoder,
                   DecoderConsumes, DecoderEmits, DecoderAnnounces, EncoderReturns, eventVars, vars
        <3> QED BY <3>1, Zenon DEF SwitchTypes
    <2> QED BY <2>1, <2>2, <2>3, Zenon DEF Next, Components
<1> QED BY <1>1, <1>2, <1>3, <1>4, Zenon DEF SwitchTypes

LEMMA CallInvKept == Types /\ CallInv /\ [Next]_vars => CallInv'
<1> SUFFICES ASSUME Types, CallInv, [Next]_vars PROVE CallInv'
    OBVIOUS
<1>0. cur \in 0 .. Len(Parts) /\ cur' \in 0 .. Len(Parts)
    BY CallTypesKept DEF Types, CallTypes
<1>1. CASE Decode
    <2>1. pc' = "input" /\ cur' = cur + 1 /\ whole' = whole
        BY <1>1 DEF Decode
    <2> QED BY <1>0, <2>1, Sizes DEF CallInv, Steps
<1>2. CASE RefillDecoder \/ PollSettings \/ SetUpDecoder
    <2>1. pc \in Calling /\ cur' = cur
        BY <1>2, NextPartMoves DEF RefillDecoder, PollSettings, SetUpDecoder, Calling, Submitted
    <2>2. pc' \in {"idle", "input", "setup"} /\ whole' \subseteq whole \cup {cur}
        BY <1>2, NextPartMoves DEF RefillDecoder, PollSettings, SetUpDecoder, SetUpFails, Return
    <2> QED BY <1>0, <2>1, <2>2, Sizes DEF CallInv, Steps
<1>3. CASE \/ OpenFails \/ OpenDecoder \/ Reset \/ Destroy \/ DecodeInput \/ DecodeNoInput
           \/ RequestOutput \/ FlushEncoder \/ TakeFrame \/ NoFrameYet \/ SendFrame \/ LoseFrame
           \/ SetUpEncoder \/ Components \/ UNCHANGED vars
    <2>1. UNCHANGED <<cur, whole>>
        BY <1>3 DEF OpenFails, OpenDecoder, Reset, Destroy, DecodeInput, InputRefused, DecodeNoInput,
                    RequestOutput, FlushEncoder, TakeFrame, NoFrameYet, SendFrame, LoseFrame,
                    SetUpEncoder, SetUpFails, Components, DecoderConsumes, DecoderEmits,
                    DecoderAnnounces, DecoderError, EncoderReturns, Return, Held, callVars, vars
    <2>2. pc' = pc \/ pc' \in {"idle", "gone"} \/ (pc \in Calling /\ pc' \in Calling)
        BY <1>3 DEF OpenFails, OpenDecoder, Reset, Destroy, DecodeInput, InputRefused, DecodeNoInput,
                    RequestOutput, FlushEncoder, TakeFrame, NoFrameYet, SendFrame, LoseFrame,
                    SetUpEncoder, SetUpFails, Components, DecoderConsumes, DecoderEmits,
                    DecoderAnnounces, DecoderError, EncoderReturns, Return, callVars, vars,
                    Calling, Submitted
    <2>3. pc' \in Steps /\ (pc' \in Calling => cur # 0)
        BY <2>2 DEF CallInv, Calling, Submitted, Steps
    <2> QED BY <2>1, <2>3 DEF CallInv
<1> QED BY <1>1, <1>2, <1>3 DEF Next, DecodeStep

LEMMA InputBuffersKept == Types /\ InputBuffers /\ [Next]_vars => InputBuffers'
<1> SUFFICES ASSUME Types, InputBuffers, [Next]_vars PROVE InputBuffers'
    OBVIOUS
<1>0. free \in Nat /\ fed \in Seq(PartsGiven) /\ Len(fed) \in Nat /\ free + Len(fed) <= DecInputs
    BY DEF Types, InputTypes, InputBuffers
<1>d. DecInputs \in Nat \ {0}
    BY CodecAssumption
<1>1. CASE OpenDecoder
    <2>1. \/ free' = DecInputs /\ fed' = <<>>
          \/ free' = DecInputs - 1 /\ fed' = <<Config>>
        BY <1>1 DEF OpenDecoder, SendDecoderConfig
    <2>2. CASE free' = DecInputs /\ fed' = <<>>
        <3>1. Len(fed') = 0 /\ free' = DecInputs
            BY <2>2
        <3> QED BY <1>d, <3>1 DEF InputBuffers
    <2>3. CASE free' = DecInputs - 1 /\ fed' = <<Config>>
        <3>1. Len(fed') = 1 /\ free' = DecInputs - 1
            BY <2>3
        <3> QED BY <1>d, <3>1 DEF InputBuffers
    <2> QED BY <2>1, <2>2, <2>3
<1>2. CASE Reset
    <2>1. (fed' = <<>> /\ free' = free + Len(fed)) \/ (fed' = fed /\ free' = free)
        BY <1>2 DEF Reset
    <2>2. Len(<<>>) = 0
        OBVIOUS
    <2> QED BY <1>0, <2>1, <2>2 DEF InputBuffers
<1>3. CASE Destroy
    <2>1. free' = 0 /\ fed' = <<>> /\ Len(<<>>) = 0
        BY <1>3 DEF Destroy
    <2> QED BY <1>d, <2>1 DEF InputBuffers
<1>4. CASE DecodeInput
    <2>1. \/ free > 0 /\ free' = free - 1 /\ fed' = Append(fed, ThisPart)
          \/ free' = free /\ fed' = fed
        BY <1>4 DEF DecodeInput, inputVars
    <2>2. Len(Append(fed, ThisPart)) = Len(fed) + 1
        BY <1>0
    <2> QED BY <1>0, <2>1, <2>2 DEF InputBuffers
<1>5. CASE DecoderConsumes
    <2>1. fed # <<>> /\ free' = free + 1 /\ fed' = Tail(fed)
        BY <1>5 DEF DecoderConsumes
    <2>2. Len(Tail(fed)) = Len(fed) - 1
        BY <1>0, <2>1
    <2> QED BY <1>0, <2>1, <2>2 DEF InputBuffers
<1>6. CASE \/ OpenFails \/ Decode \/ DecodeNoInput \/ RequestOutput \/ FlushEncoder
           \/ TakeFrame \/ NoFrameYet \/ SendFrame \/ LoseFrame \/ RefillDecoder \/ PollSettings
           \/ SetUpEncoder \/ SetUpDecoder \/ DecoderEmits \/ DecoderAnnounces \/ DecoderError
           \/ (\E p \in Ports : EncoderReturns(p)) \/ UNCHANGED vars
    <2>1. fed' = fed /\ free' = free
        BY <1>6 DEF OpenFails, Decode, DecodeNoInput, RequestOutput, FlushEncoder, TakeFrame,
                    NoFrameYet, SendFrame, LoseFrame, RefillDecoder, PollSettings, SetUpEncoder,
                    SetUpDecoder, DecoderEmits, DecoderAnnounces, DecoderError, EncoderReturns,
                    inputVars, vars
    <2> QED BY <2>1 DEF InputBuffers
<1> QED BY <1>1, <1>2, <1>3, <1>4, <1>5, <1>6 DEF Next, DecodeStep, Components

LEMMA OtherTypesKept == Types /\ OtherTypes /\ [Next]_vars => OtherTypes'
<1> SUFFICES ASSUME Types, OtherTypes, [Next]_vars PROVE OtherTypes'
    OBVIOUS
<1>0. events \in Seq(Events) /\ faults \in 0 .. MaxFaults /\ MaxFaults \in Nat
    BY CodecAssumption DEF OtherTypes
<1>1. faults' = faults \/ Fault
    BY DEF Next, DecodeStep, Components, OpenFails, OpenDecoder, SendDecoderConfig, Reset, Destroy,
           Decode, DecodeInput, DecodeNoInput, RequestOutput, Refuses, FlushEncoder, TakeFrame,
           NoFrameYet, SendFrame, LoseFrame, RefillDecoder, PollSettings, SetUpEncoder, SetUpFails,
           SetUpDecoder, DecoderConsumes, DecoderEmits, DecoderAnnounces, DecoderError,
           EncoderReturns, NoFault, HasNone, vars
<1>2. faults' \in 0 .. MaxFaults
    BY <1>0, <1>1 DEF Fault
<1>3. \/ emitted' = emitted
      \/ \E n \in emitted + 1 .. complete : emitted' = n
    BY DEF Next, DecodeStep, Components, OpenFails, OpenDecoder, Reset, Destroy,
           Decode, DecodeInput, DecodeNoInput, RequestOutput, FlushEncoder, TakeFrame,
           NoFrameYet, SendFrame, LoseFrame, RefillDecoder, PollSettings, SetUpEncoder,
           SetUpDecoder, DecoderConsumes, DecoderEmits, DecoderAnnounces, DecoderError,
           EncoderReturns, decoderVars, vars
<1>4. emitted' <= Len(Parts)
    <2>1. emitted \in Nat /\ complete \in 0 .. Len(Parts) /\ emitted <= Len(Parts)
        BY DEF Types, OutputTypes, InputTypes, OtherTypes
    <2> QED BY <1>3, <2>1, Sizes
<1>5. changes' \in {changes, changes + 1}
    BY DEF Next, DecodeStep, Components, OpenFails, OpenDecoder, Reset, Destroy,
           Decode, DecodeInput, DecodeNoInput, RequestOutput, FlushEncoder, TakeFrame,
           NoFrameYet, SendFrame, LoseFrame, RefillDecoder, PollSettings, SetUpEncoder,
           SetUpDecoder, DecoderConsumes, DecoderEmits, DecoderAnnounces, DecoderError,
           EncoderReturns, decoderVars, vars
<1>6. events' \in Seq(Events)
    <2>1. CASE DecoderAnnounces \/ DecoderError
        <3>1. PICK e \in Events : AddEvent(e)
            BY <2>1 DEF DecoderAnnounces, DecoderError, Events
        <3>2. events' = Append(Without(events, e), e)
            BY <3>1 DEF AddEvent
        <3>3. Without(events, e) \in Seq(Events)
            BY <1>0, WithoutTypes
        <3> QED BY <3>2, <3>3, SequenceSteps
    <2>2. CASE PollSettings
        <3>1. events' = IF events = <<>> THEN <<>> ELSE Tail(events)
            BY <2>2 DEF PollSettings
        <3> QED BY <1>0, <3>1, SequenceSteps
    <2>3. CASE Destroy
        BY <2>3, <1>0, SequenceSteps DEF Destroy
    <2>4. CASE \/ OpenFails \/ OpenDecoder \/ Reset \/ Decode \/ DecodeInput \/ DecodeNoInput
               \/ RequestOutput \/ FlushEncoder \/ TakeFrame \/ NoFrameYet \/ SendFrame \/ LoseFrame
               \/ RefillDecoder \/ SetUpEncoder \/ SetUpDecoder \/ DecoderConsumes \/ DecoderEmits
               \/ (\E p \in Ports : EncoderReturns(p)) \/ UNCHANGED vars
        <3>1. events' = events
            BY <2>4 DEF OpenFails, OpenDecoder, Reset, Decode, DecodeInput, DecodeNoInput,
                   RequestOutput, FlushEncoder, TakeFrame, NoFrameYet, SendFrame, LoseFrame,
                   RefillDecoder, SetUpEncoder, SetUpDecoder, DecoderConsumes, DecoderEmits,
                   EncoderReturns, eventVars, vars
        <3> QED BY <1>0, <3>1
    <2> QED BY <2>1, <2>2, <2>3, <2>4 DEF Next, DecodeStep, Components
<1> QED BY <1>2, <1>4, <1>5, <1>6 DEF OtherTypes

LEMMA FrameOrderHolds == Spec => []FrameOrder
<1>1. Init => FrameOrder
    BY DEF Init, FrameOrder, Sorted, AllBefore, InHand
<1> QED BY <1>1, FrameOrderKept, TypesHold, PTL DEF Spec

LEMMA OthersHold == Spec => [](SwitchTypes /\ CallInv /\ InputBuffers /\ OtherTypes)
<1>1. Init => SwitchTypes /\ CallInv /\ InputBuffers /\ OtherTypes
    <2> SUFFICES ASSUME Init PROVE SwitchTypes /\ CallInv /\ InputBuffers /\ OtherTypes
        OBVIOUS
    <2>1. SwitchTypes
        BY Zenon DEF Init, SwitchTypes
    <2>2. CallInv
        BY DEF Init, CallInv, Steps, Calling, Submitted
    <2>3. InputBuffers
        BY CodecAssumption DEF Init, InputBuffers
    <2>4. OtherTypes
        BY CodecAssumption, Sizes DEF Init, OtherTypes
    <2> QED BY <2>1, <2>2, <2>3, <2>4
<1>2. /\ Types /\ SwitchTypes /\ CallInv /\ InputBuffers /\ OtherTypes
      /\ [Next]_vars
      => (SwitchTypes /\ CallInv /\ InputBuffers /\ OtherTypes)'
    BY SwitchTypesKept, CallInvKept, InputBuffersKept, OtherTypesKept
<1> QED BY <1>1, <1>2, TypesHold, PTL DEF Spec

\* The types of the variables, for any packets, buffers and failures: the decoder's
\* input buffers are not counted twice, and no handle of the encoder that was never
\* obtained has a buffer.
THEOREM CodecTypes == Spec => []TypeOK
<1>1. Types /\ EncoderTypes /\ FrameOrder /\ SwitchTypes /\ CallInv /\ InputBuffers /\ OtherTypes
      => TypeOK
    <2> SUFFICES ASSUME Types, EncoderTypes, FrameOrder, SwitchTypes, CallInv, InputBuffers, OtherTypes
                 PROVE  TypeOK
        OBVIOUS
    <2>1. startTime \in BOOLEAN /\ start \in BOOLEAN
        BY Zenon DEF Types, Flags
    <2>2. /\ isOpen \in BOOLEAN /\ settings \in BOOLEAN /\ working \in BOOLEAN
          /\ resErr \in BOOLEAN
        BY Zenon DEF SwitchTypes
    <2>3. {0} \cup Packets = 0 .. Len(Parts)
        BY Sizes
    <2>4. epoch \in Nat /\ began \in Nat /\ cur \in {0} \cup Packets /\ part \in Nat \ {0}
        BY <2>3 DEF Types, CallTypes
    <2>5. pc \in Steps /\ whole \subseteq Packets
        BY DEF CallInv
    <2>6. fed \in Seq(PartsGiven) /\ input \in Seq(PartsGiven) /\ complete \in {0} \cup Packets
        BY <2>3 DEF Types, InputTypes
    <2>7. free \in 0 .. DecInputs
        BY <2>6, CodecAssumption DEF InputBuffers
    <2>8. /\ decoded \in Seq(Frames) /\ filling \in Nat /\ allocated \in Nat /\ lost \in Nat
          /\ frame \in Frames \cup {NoFrame}
        BY DEF Types, OutputTypes
    <2>9. emitted \in {0} \cup Packets
        BY <2>3, Sizes DEF Types, OutputTypes, OtherTypes
    <2>10. /\ events \in Seq({"settings", "sameState", "error"})
           /\ changes \in Nat /\ faults \in 0 .. MaxFaults
        BY DEF OtherTypes, Events
    <2>11. /\ handle \in 0 .. handles /\ handles \in Nat /\ failed \in Nat
           /\ avail \in [Ports -> Seq(1 .. handles)] /\ device \in [Ports -> Seq(1 .. handles)]
        BY DEF EncoderTypes, Buffers
    <2>12. sent \in Seq(Frames)
        BY DEF FrameOrder
    <2> QED BY <2>1, <2>2, <2>4, <2>5, <2>6, <2>7, <2>8, <2>9, <2>10, <2>11, <2>12, Zenon
            DEF TypeOK
<1> QED BY <1>1, TypesHold, EncoderInvHolds, FrameOrderHolds, OthersHold, PTL
=============================================================================
