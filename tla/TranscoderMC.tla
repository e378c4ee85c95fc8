----------------------------- MODULE TranscoderMC -----------------------------
(***************************************************************************)
(* Instances of Transcoder for TLC.                                        *)
(***************************************************************************)
EXTENDS Transcoder, TLC

\* Two audio streams around the video; most of the audio at the end, behind a
\* stream that the output does not have; audio in the first stream; no audio
\* stream; no video stream; a packet as large as the queue's limit.
Ones(f) == f @@ [sizes |-> [i \in DOMAIN f.packets |-> 1]]
Mixed == Ones(
    [streams |-> <<"video", "audio", "audio2">>, packets |-> <<1, 2, 1, 3, 1, 2, 1>>])
AudioLast == Ones(
    [streams |-> <<"video", "other", "audio">>, packets |-> <<1, 1, 1, 1, 3, 3>>])
AudioFirst == Ones(
    [streams |-> <<"audio", "video">>, packets |-> <<2, 1, 2, 2, 1>>])
NoAudio == Ones(
    [streams |-> <<"other", "video">>, packets |-> <<2, 2, 1, 2, 2>>])
NoVideo == Ones(
    [streams |-> <<"audio">>, packets |-> <<1>>])
Large ==
    [streams |-> <<"video", "audio">>, packets |-> <<1, 1, 2>>, sizes |-> <<0, 2, 1>>]
MixedInputs == {Mixed, AudioLast, AudioFirst, NoAudio, NoVideo, Large}

\* Video only.
VideoInputs == {Ones([streams |-> <<"video">>, packets |-> [i \in 1 .. 5 |-> 1]])}
=============================================================================
