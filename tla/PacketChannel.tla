----------------------------- MODULE PacketChannel -----------------------------
(***************************************************************************)
(* What OMXPlayerVideo promises to its client: a first-in-first-out        *)
(* channel from AddPacket to the decoder that loses nothing unless the     *)
(* client asks for it.  After such a request (Flush, Reset, Close) parts of *)
(* what is pending may be dropped until the request is settled.            *)
(***************************************************************************)
EXTENDS Naturals, Sequences

VARIABLES
    accepted,    \* how many packets the channel has accepted
    pending,     \* those neither delivered nor dropped, oldest first
    delivered,   \* those delivered, in order of delivery
    dropping     \* may packets be dropped?

vars == <<accepted, pending, delivered, dropping>>

Init ==
    /\ accepted = 0
    /\ pending = <<>>
    /\ delivered = <<>>
    /\ dropping = FALSE

Accept ==
    /\ accepted' = accepted + 1
    /\ pending' = Append(pending, accepted + 1)
    /\ UNCHANGED <<delivered, dropping>>

Deliver ==
    /\ pending # <<>>
    /\ delivered' = Append(delivered, Head(pending))
    /\ pending' = Tail(pending)
    /\ UNCHANGED <<accepted, dropping>>

\* The client asks for the pending packets to be dropped.
Request ==
    /\ dropping' = TRUE
    /\ UNCHANGED <<accepted, pending, delivered>>

\* A contiguous piece of what is pending survives.
Drop ==
    /\ dropping
    /\ \E first \in 1 .. Len(pending) + 1, last \in 0 .. Len(pending) :
          pending' = SubSeq(pending, first, last)
    /\ dropping' \in BOOLEAN
    /\ UNCHANGED <<accepted, delivered>>

Settle ==
    /\ dropping' = FALSE
    /\ UNCHANGED <<accepted, pending, delivered>>

Next == Accept \/ Deliver \/ Request \/ Drop \/ Settle

Spec == Init /\ [][Next]_vars
=============================================================================
