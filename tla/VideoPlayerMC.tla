----------------------------- MODULE VideoPlayerMC -----------------------------
(***************************************************************************)
(* Instances of VideoPlayer for TLC.                                       *)
(***************************************************************************)
EXTENDS VideoPlayer

\* Packets of different sizes: in a queue limited to 4 bytes the first two fit
\* together, the third waits; a decoder of 2 bytes takes one of them at a time.
MixedSizes == <<2, 1, 2>>

\* The second packet is larger than all the decoder's buffers together.
OversizeSecond == <<1, 3, 1>>
=============================================================================
