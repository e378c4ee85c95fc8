------------------------------ MODULE VideoCodecMC ------------------------------
(***************************************************************************)
(* An instance of VideoCodec for TLC.                                      *)
(***************************************************************************)
EXTENDS VideoCodec, TLC

\* Three packets; the second fills two buffers.
PartsOfThree == <<1, 2, 1>>

\* Two output buffers and one input buffer, as the decoder has one output buffer.
TwoOutOneIn == (Out :> 2) @@ (In :> 1)
=============================================================================
