--------------------------- MODULE VideoPlayerProofs ---------------------------
(***************************************************************************)
(* Proofs about VideoPlayer, for any number and sizes of packets and any   *)
(* set of calls: types and locks; the decoder is safe; no packet is lost,  *)
(* freed twice or decoded out of order, and without Reset none is decoded  *)
(* after a Flush that should have dropped it; m_cached_size is the size of *)
(* the queue; a closed player holds nothing; and the player implements the *)
(* abstract channel.                                                       *)
(***************************************************************************)
EXTENDS VideoPlayer, FiniteSetTheorems, TLAPS

\* Who holds which mutex follows from where the two threads are.
LockInv ==
    /\ lock = Client <=>
          mpc \in {"addPush", "flushLockDecoder", "flushBody",
                   "flushUnlockDecoder", "flushUnlock"}
    /\ lock = Worker <=> ppc \in {"test", "take"}
    /\ decLock = Client <=> mpc \in {"flushBody", "flushUnlockDecoder"}
    /\ decLock = Worker <=> ppc \in {"choose", "space", "sleep", "unlockDecoder"}

\* There is a worker exactly while m_thread is set; the decoder exists as long
\* as the worker, and Close reaches CloseDecoder only without one.
ThreadInv ==
    /\ thread <=> ppc # "none"
    /\ thread => running /\ decoder
    /\ mpc \in {"closeDecoder", "openDecoder", "openThread"} => ~thread
    /\ mpc = "openThread" => decoder
    /\ mpc \in {"addLock", "addPush"} => next \in Packets

\* Process holds a packet only from the pop to the end of its decoder section.
HandInv ==
    /\ hand # NoPacket => ppc \in {"lockDecoder", "choose", "space", "sleep"}
    /\ ppc \in {"space", "sleep"} => hand # NoPacket

IInv == TypeOK /\ LockInv /\ ThreadInv /\ HandInv

\* What taking the first packet off m_packets leaves.
LEMMA TailQueue ==
    ASSUME NEW S, NEW q \in Seq(S), q # <<>>
    PROVE  /\ Head(q) \in S
           /\ Tail(q) \in Seq(S)
           /\ Len(Tail(q)) = Len(q) - 1
           /\ \A i \in 1 .. Len(Tail(q)) : Tail(q)[i] = q[i + 1]
    OBVIOUS

\* What the proofs use of the assumption on the constants.
LEMMA Constants ==
    /\ NumPackets \in Nat /\ FifoSize \in Nat
    /\ \A p \in Packets : Size[p] \in Nat /\ Size[p] > 0
    /\ NoPacket \notin Packets
    /\ \A p \in Packets : p + 1 \in 1 .. NumPackets + 1
  BY PlayerAssumption DEF Packets, NoPacket

\* The type invariant and who-is-where hold initially.
LEMMA InitIInv == Init => IInv
<1> SUFFICES ASSUME Init PROVE IInv
  OBVIOUS
<1>1. FlagsOK
  BY DEF Init, FlagsOK
<1>2. DataOK
  BY Constants DEF Init, DataOK, Nobody, NoPacket, ClientPC, WorkerPC
<1>3. LockInv
  BY DEF Init, LockInv, Nobody, Client, Worker
<1>4. ThreadInv
  BY DEF Init, ThreadInv
<1>5. HandInv
  BY DEF Init, HandInv
<1>. QED  BY <1>1, <1>2, <1>3, <1>4, <1>5 DEF IInv, TypeOK

\* Every step of either thread keeps the invariant.
LEMMA StepIInv == IInv /\ [Next]_vars => IInv'
<1> SUFFICES ASSUME IInv, [Next]_vars PROVE IInv'
  OBVIOUS
<1>. USE Constants DEF IInv, TypeOK, FlagsOK, DataOK, LockInv, ThreadInv, HandInv,
          Nobody, Client, Worker, NoPacket, ClientPC, WorkerPC
<1>1. CASE CallAddPacket
  BY <1>1 DEF CallAddPacket, Start, threadVars, workerVars, historyVars
<1>2. CASE CallFlush
  BY <1>2 DEF CallFlush, Start, threadVars, workerVars, historyVars
<1>3. CASE CallReset
  BY <1>3 DEF CallReset, Start, threadVars, workerVars, historyVars
<1>4. CASE CallClose
  BY <1>4 DEF CallClose, Start, threadVars, workerVars, historyVars
<1>5. CASE CallOpen
  <2>1. FlagsOK'
    BY <1>5 DEF CallOpen, Start, threadVars, workerVars, historyVars
  <2>2. DataOK'
    BY <1>5 DEF CallOpen, Start, threadVars, workerVars, historyVars
  <2>3. LockInv' /\ ThreadInv' /\ HandInv'
    BY <1>5 DEF CallOpen, Start, threadVars, workerVars, historyVars
  <2>. QED  BY <2>1, <2>2, <2>3
<1>6. CASE AddLock
  BY <1>6 DEF AddLock, Goto, threadVars, workerVars, historyVars
<1>7. CASE AddPush
  BY <1>7 DEF AddPush, threadVars, workerVars, historyVars
<1>8. CASE AddBroadcast
  BY <1>8 DEF AddBroadcast, Return, WakeWorker, threadVars, historyVars
<1>9. CASE FlushRequest
  BY <1>9 DEF FlushRequest, Goto, threadVars, workerVars, historyVars
<1>10. CASE FlushLock
  BY <1>10 DEF FlushLock, Goto, threadVars, workerVars, historyVars
<1>11. CASE FlushLockDecoder
  BY <1>11 DEF FlushLockDecoder, Goto, threadVars, workerVars, historyVars
<1>12. CASE FlushBody
  <2>1. FlagsOK'
    BY <1>12 DEF FlushBody, Goto, Queued, threadVars, workerVars
  <2>2. DataOK'
    BY <1>12 DEF FlushBody, Goto, Queued, threadVars, workerVars
  <2>3. LockInv' /\ ThreadInv' /\ HandInv'
    BY <1>12 DEF FlushBody, Goto, Queued, threadVars, workerVars
  <2>. QED  BY <2>1, <2>2, <2>3
<1>13. CASE FlushUnlockDecoder
  BY <1>13 DEF FlushUnlockDecoder, Goto, threadVars, workerVars, historyVars
<1>14. CASE FlushUnlock
  BY <1>14 DEF FlushUnlock, Goto, Return, threadVars, workerVars, historyVars
<1>15. CASE ResetState
  <2>1. FlagsOK'
    BY <1>15 DEF ResetState, Return, threadVars, workerVars, historyVars
  <2>2. DataOK'
    BY <1>15 DEF ResetState, Return, threadVars, workerVars, historyVars
  <2>3. LockInv' /\ ThreadInv' /\ HandInv'
    BY <1>15 DEF ResetState, Return, threadVars, workerVars, historyVars
  <2>. QED  BY <2>1, <2>2, <2>3
<1>16. CASE CloseWake
  BY <1>16 DEF CloseWake, Goto, WakeWorker, threadVars, historyVars
<1>17. CASE CloseStop
  <2>1. FlagsOK'
    BY <1>17 DEF CloseStop, Goto, workerVars, historyVars
  <2>2. DataOK'
    BY <1>17 DEF CloseStop, Goto, workerVars, historyVars
  <2>3. LockInv' /\ ThreadInv' /\ HandInv'
    BY <1>17 DEF CloseStop, Goto, workerVars, historyVars
  <2>. QED  BY <2>1, <2>2, <2>3
<1>18. CASE CloseJoin
  BY <1>18 DEF CloseJoin, Goto, historyVars
<1>19. CASE CloseDecoder
  <2>1. FlagsOK'
    BY <1>19 DEF CloseDecoder, Goto, Return, threadVars, workerVars,
       historyVars
  <2>2. DataOK'
    BY <1>19 DEF CloseDecoder, Goto, Return, threadVars, workerVars,
       historyVars
  <2>3. LockInv' /\ ThreadInv' /\ HandInv'
    BY <1>19 DEF CloseDecoder, Goto, Return, threadVars, workerVars,
       historyVars
  <2>. QED  BY <2>1, <2>2, <2>3
<1>20. CASE OpenDecoder
  <2>1. FlagsOK'
    BY <1>20 DEF OpenDecoder, Goto, threadVars, workerVars, historyVars
  <2>2. DataOK'
    BY <1>20 DEF OpenDecoder, Goto, threadVars, workerVars, historyVars
  <2>3. LockInv' /\ ThreadInv' /\ HandInv'
    BY <1>20 DEF OpenDecoder, Goto, threadVars, workerVars, historyVars
  <2>. QED  BY <2>1, <2>2, <2>3
<1>21. CASE OpenThread
  <2>1. FlagsOK'
    BY <1>21 DEF OpenThread, Return, threadVars, historyVars
  <2>2. DataOK'
    BY <1>21 DEF OpenThread, Return, threadVars, historyVars
  <2>3. LockInv' /\ ThreadInv' /\ HandInv'
    BY <1>21 DEF OpenThread, Return, threadVars, historyVars
  <2>. QED  BY <2>1, <2>2, <2>3
<1>22. CASE ProcessLock
  BY <1>22 DEF ProcessLock, WorkerGoto, threadVars, clientVars, historyVars
<1>23. CASE ProcessTest
  BY <1>23 DEF ProcessTest, WorkerGoto, threadVars, clientVars, historyVars
<1>24. CASE ProcessRelock
  BY <1>24 DEF ProcessRelock, WorkerGoto, threadVars, clientVars, historyVars
<1>25. CASE ProcessTake
  <2>1. FlagsOK'
    BY <1>25 DEF ProcessTake, WorkerGoto, FreeHand, DropHand, FlushHitsHand,
       TakeFirst, InHand, threadVars, clientVars
  <2>2. DataOK'
    <3>1. CASE stop \/ abort \/ FlushHitsHand \/ hand # NoPacket \/ packets = <<>>
      BY <1>25, <3>1
      DEF ProcessTake, WorkerGoto, FreeHand, DropHand, FlushHitsHand, InHand,
          threadVars, clientVars
    <3>2. CASE ~(stop \/ abort) /\ hand = NoPacket /\ packets # <<>>
      <4>1. Head(packets) \in Packets /\ Tail(packets) \in Seq(Packets)
        BY <3>2, TailQueue
      <4>2. cached - Size[Head(packets)] \in Int
        BY <4>1
      <4>. QED
        BY <1>25, <3>2, <4>1, <4>2
        DEF ProcessTake, FlushHitsHand, TakeFirst, threadVars, clientVars
    <3>. QED  BY <3>1, <3>2 DEF FlushHitsHand
  <2>3. LockInv' /\ ThreadInv' /\ HandInv'
    BY <1>25 DEF ProcessTake, WorkerGoto, FreeHand, DropHand, FlushHitsHand,
       TakeFirst, InHand, threadVars, clientVars
  <2>. QED  BY <2>1, <2>2, <2>3
<1>26. CASE ProcessLockDecoder
  BY <1>26 DEF ProcessLockDecoder, WorkerGoto, threadVars, clientVars,
     historyVars
<1>27. CASE ProcessChoose
  <2>1. FlagsOK'
    BY <1>27 DEF ProcessChoose, WorkerGoto, FreeHand, DropHand, FlushHitsHand,
       InHand, threadVars, clientVars
  <2>2. DataOK'
    BY <1>27 DEF ProcessChoose, WorkerGoto, FreeHand, DropHand, FlushHitsHand,
       InHand, threadVars, clientVars
  <2>3. LockInv' /\ ThreadInv' /\ HandInv'
    BY <1>27 DEF ProcessChoose, WorkerGoto, FreeHand, DropHand, FlushHitsHand,
       InHand, threadVars, clientVars
  <2>. QED  BY <2>1, <2>2, <2>3
<1>28. CASE DecodePacket
  BY <1>28, SMTT(30) DEF DecodePacket, FreeHand, HasRoom, InHand, threadVars, clientVars
<1>29. CASE DecodeSleep
  BY <1>29 DEF DecodeSleep, WorkerGoto, HasRoom, threadVars, clientVars,
     historyVars
<1>30. CASE DecodeAwake
  BY <1>30 DEF DecodeAwake, WorkerGoto, FreeHand, InHand, threadVars,
     clientVars
<1>31. CASE ProcessUnlockDecoder
  BY <1>31 DEF ProcessUnlockDecoder, WorkerGoto, threadVars, clientVars,
     historyVars
<1>32. CASE ProcessExit
  BY <1>32 DEF ProcessExit, FreeHand, InHand, threadVars, clientVars
<1>33. CASE SpuriousWakeup
  BY <1>33 DEF SpuriousWakeup, WorkerGoto, threadVars, clientVars, historyVars
<1>34. CASE DecoderConsumes
  BY <1>34 DEF DecoderConsumes, threadVars, clientVars, workerVars,
     historyVars
<1>35. CASE UNCHANGED vars
  BY <1>35 DEF vars, threadVars, clientVars, workerVars, historyVars
<1>. QED
  BY <1>1, <1>2, <1>3, <1>4, <1>5, <1>6, <1>7, <1>8, <1>9, <1>10, <1>11, <1>12,
     <1>13, <1>14, <1>15, <1>16, <1>17, <1>18, <1>19, <1>20, <1>21, <1>22,
     <1>23, <1>24, <1>25, <1>26, <1>27, <1>28, <1>29, <1>30, <1>31, <1>32,
     <1>33, <1>34, <1>35
  DEF Next, ClientCall, ClientStep, WorkerStep

\* The invariant holds in every reachable state.
LEMMA Inductive == Spec => []IInv
  BY InitIInv, StepIInv, PTL DEF Spec

\* Type correctness of the player: whatever the two threads do, the decoder's
\* input never exceeds its buffers, and the packets queued, in hand, decoded and
\* freed are packets of the client.
THEOREM TypeCorrect == Spec => []TypeOK
<1>1. IInv => TypeOK
  BY DEF IInv
<1>. QED  BY <1>1, Inductive, PTL

\* Decode never runs on a decoder that Close has deleted or that Flush is
\* resetting, although Close deletes it without m_lock_decoder: the join in
\* Close and the mutex around Flush suffice.
THEOREM DecoderIsSafe == Spec => []DecoderSafe
<1>1. IInv => DecoderSafe
  BY DEF IInv, LockInv, ThreadInv, DecoderSafe, Client, Worker
<1>. QED  BY <1>1, Inductive, PTL

-----------------------------------------------------------------------------
(***************************************************************************)
(* The packets.                                                            *)
(***************************************************************************)

\* The elements of q are the numbers that follow g.
Follows(q, g) == \A i \in 1 .. Len(q) : q[i] = g + i

Increasing(q) == \A i, j \in 1 .. Len(q) : i < j => q[i] < q[j]

\* The packets up to this one have left the queue.
Gone == next - 1 - Len(packets)

\* The queue holds the latest packets without a gap; the packet in hand is an
\* earlier one, and those decoded are earlier still, in order.
OrderInv ==
    /\ Gone \in Nat
    /\ Follows(packets, Gone)
    /\ hand <= Gone
    /\ \A i \in 1 .. Len(decoded) :
          decoded[i] <= Gone /\ (hand # NoPacket => decoded[i] < hand)
    /\ Increasing(decoded)

\* Every packet that has left the queue is freed or in hand.
FreedInv == freed = (1 .. Gone) \ {hand}

\* Without Reset, a packet in hand from before the latest Flush is still to be
\* dropped: m_flush is set and Process has not looked at it yet.
StaleInv ==
    /\ mark - 1 <= Gone
    /\ mpc = "resetState" => call = "reset"
    /\ "reset" \notin Calls /\ hand # NoPacket /\ hand < mark =>
          flush /\ ppc \in {"lockDecoder", "choose"}

PacketInv == OrderInv /\ FreedInv /\ StaleInv

\* What m_packets.push_back leaves.
LEMMA AppendQueue ==
    ASSUME NEW S, NEW q \in Seq(S), NEW e \in S
    PROVE  /\ Append(q, e) \in Seq(S)
           /\ Len(Append(q, e)) = Len(q) + 1
           /\ \A i \in 1 .. Len(q) : Append(q, e)[i] = q[i]
           /\ Append(q, e)[Len(q) + 1] = e
  OBVIOUS

\* A queue of consecutive packets stays one when AddPacket appends the next ...
LEMMA AppendFollows ==
    ASSUME NEW q \in Seq(Packets), NEW g \in Nat, NEW e \in Packets,
           Follows(q, g), e = g + Len(q) + 1
    PROVE  Follows(Append(q, e), g)
<1> SUFFICES ASSUME NEW i \in 1 .. Len(Append(q, e))
             PROVE  Append(q, e)[i] = g + i
  BY DEF Follows
<1>1. CASE i = Len(q) + 1
  BY <1>1, AppendQueue
<1>2. CASE i \in 1 .. Len(q)
  BY <1>2, AppendQueue DEF Follows
<1>. QED  BY <1>1, <1>2, AppendQueue

\* ... and when Process takes the first.
LEMMA TailFollows ==
    ASSUME NEW q \in Seq(Packets), NEW g \in Nat, Follows(q, g), q # <<>>
    PROVE  Head(q) = g + 1 /\ Follows(Tail(q), g + 1)
<1>1. Head(q) = g + 1
  BY DEF Follows
<1>2. ASSUME NEW i \in 1 .. Len(Tail(q)) PROVE Tail(q)[i] = g + 1 + i
  <2>1. Tail(q)[i] = q[i + 1] /\ i + 1 \in 1 .. Len(q)
    BY TailQueue
  <2>. QED  BY <2>1 DEF Follows
<1>. QED  BY <1>1, <1>2 DEF Follows

\* The decoded packets stay in order when a later one is appended.
LEMMA AppendIncreasing ==
    ASSUME NEW q \in Seq(Packets), NEW e \in Packets, Increasing(q),
           \A i \in 1 .. Len(q) : q[i] < e
    PROVE  Increasing(Append(q, e))
<1> SUFFICES ASSUME NEW i \in 1 .. Len(Append(q, e)),
                    NEW j \in 1 .. Len(Append(q, e)), i < j
             PROVE  Append(q, e)[i] < Append(q, e)[j]
  BY DEF Increasing
<1>1. i \in 1 .. Len(q) /\ j \in 1 .. Len(q) + 1
  BY AppendQueue
<1>2. CASE j = Len(q) + 1
  BY <1>1, <1>2, AppendQueue
<1>3. CASE j \in 1 .. Len(q)
  BY <1>1, <1>3, AppendQueue DEF Increasing
<1>. QED  BY <1>1, <1>2, <1>3

\* An interval cut in two, with one element of the lower part left out.
LEMMA IntervalSplit ==
    ASSUME NEW g \in Nat, NEW n \in Int, NEW h \in Int, h <= g, g <= n
    PROVE  (1 .. n) \ {h} = ((1 .. g) \ {h}) \cup (g + 1 .. n)
<1>1. ASSUME NEW x \in Int
      PROVE  x \in (1 .. n) \ {h} <=> x \in ((1 .. g) \ {h}) \cup (g + 1 .. n)
  BY <1>1
<1>2. (1 .. n) \ {h} \subseteq Int /\ ((1 .. g) \ {h}) \cup (g + 1 .. n) \subseteq Int
  OBVIOUS
<1>. QED  BY <1>1, <1>2

\* The packets in the queue are those after the packets that have left it.
LEMMA QueuedRange ==
    ASSUME IInv, OrderInv
    PROVE  Queued = Gone + 1 .. next - 1
<1> USE DEF IInv, TypeOK, DataOK, OrderInv, Gone, Queued, Follows
<1>1. ASSUME NEW p \in Queued PROVE p \in Gone + 1 .. next - 1
  BY <1>1
<1>2. ASSUME NEW p \in Gone + 1 .. next - 1 PROVE p \in Queued
  <2>1. p - Gone \in 1 .. Len(packets) /\ packets[p - Gone] = p
    BY <1>2
  <2>. QED  BY <2>1
<1>. QED  BY <1>1, <1>2

\* Initially there are no packets.
LEMMA InitPacketInv == Init => PacketInv
<1> SUFFICES ASSUME Init PROVE PacketInv
  OBVIOUS
<1>1. packets = <<>> /\ decoded = <<>> /\ next = 1
  BY DEF Init
<1>2. Gone = 0
  <2>1. Len(packets) = 0 /\ next - 1 = 0
    BY <1>1
  <2>. QED  BY <2>1 DEF Gone
<1>3. OrderInv
  BY <1>1, <1>2 DEF Init, OrderInv, Follows, Increasing, NoPacket
<1>. QED
  BY <1>2, <1>3 DEF Init, PacketInv, FreedInv, StaleInv, NoPacket

\* Every step of either thread keeps the invariant.
LEMMA StepPacketInv == IInv /\ IInv' /\ PacketInv /\ [Next]_vars => PacketInv'
<1> SUFFICES ASSUME IInv, IInv', PacketInv, [Next]_vars PROVE PacketInv'
  OBVIOUS
<1>. USE Constants DEF IInv, TypeOK, DataOK, LockInv, ThreadInv, HandInv, PacketInv,
          OrderInv, FreedInv, StaleInv, Gone, Packets, NoPacket, Client, Worker
<1>1. CASE CallAddPacket
  BY <1>1 DEF CallAddPacket, Start, threadVars, workerVars, historyVars
<1>2. CASE CallFlush
  BY <1>2 DEF CallFlush, Start, threadVars, workerVars, historyVars
<1>3. CASE CallReset
  BY <1>3 DEF CallReset, Start, threadVars, workerVars, historyVars
<1>4. CASE CallClose
  BY <1>4 DEF CallClose, Start, threadVars, workerVars, historyVars
<1>5. CASE CallOpen
  BY <1>5 DEF CallOpen, Start, threadVars, workerVars, historyVars
<1>6. CASE AddLock
  BY <1>6 DEF AddLock, Goto, threadVars, workerVars, historyVars
<1>7. CASE AddPush
  <2>1. next \in Packets
    BY <1>7 DEF AddPush
  <2>2. Gone' = Gone
    BY <1>7, <2>1, AppendQueue DEF AddPush
  <2>3. Follows(packets', Gone)
    BY <1>7, <2>1, AppendFollows DEF AddPush
  <2>4. OrderInv'
    BY <1>7, <2>2, <2>3 DEF AddPush, workerVars, historyVars
  <2>. QED
    BY <1>7, <2>2, <2>4 DEF AddPush, workerVars, historyVars
<1>8. CASE AddBroadcast
  BY <1>8 DEF AddBroadcast, Return, WakeWorker, threadVars, historyVars
<1>9. CASE FlushRequest
  BY <1>9 DEF FlushRequest, Goto, threadVars, workerVars, historyVars
<1>10. CASE FlushLock
  BY <1>10 DEF FlushLock, Goto, threadVars, workerVars, historyVars
<1>11. CASE FlushLockDecoder
  BY <1>11 DEF FlushLockDecoder, Goto, threadVars, workerVars, historyVars
<1>12. CASE FlushBody
  <2>1. Gone' = next - 1 /\ Len(packets') = 0
    BY <1>12 DEF FlushBody, Goto
  <2>2. OrderInv'
    BY <1>12, <2>1, SMTT(30) DEF FlushBody, Goto, workerVars, Follows
  <2>3. freed' = freed \cup (Gone + 1 .. next - 1)
    BY <1>12, QueuedRange DEF FlushBody
  <2>4. hand <= Gone /\ Gone <= next - 1 /\ {hand, Gone, next} \subseteq Int
    OBVIOUS
  <2>5. (1 .. next - 1) \ {hand} = ((1 .. Gone) \ {hand}) \cup (Gone + 1 .. next - 1)
    <3>1. Gone \in Nat /\ next - 1 \in Int /\ hand \in Int /\ hand <= Gone
          /\ Gone <= next - 1
      BY <2>4
    <3>. HIDE DEF IInv, PacketInv, Gone
    <3>. QED  BY <3>1, IntervalSplit
  <2>6. FreedInv'
    BY <1>12, <2>1, <2>3, <2>5 DEF FlushBody, workerVars
  <2>7. StaleInv'
    BY <1>12, <2>1 DEF FlushBody, Goto, workerVars
  <2>. QED  BY <2>2, <2>6, <2>7
<1>13. CASE FlushUnlockDecoder
  BY <1>13 DEF FlushUnlockDecoder, Goto, threadVars, workerVars, historyVars
<1>14. CASE FlushUnlock
  BY <1>14 DEF FlushUnlock, Goto, Return, threadVars, workerVars, historyVars
<1>15. CASE ResetState
  BY <1>15 DEF ResetState, Return, threadVars, workerVars, historyVars
<1>16. CASE CloseWake
  BY <1>16 DEF CloseWake, Goto, WakeWorker, threadVars, historyVars
<1>17. CASE CloseStop
  BY <1>17 DEF CloseStop, Goto, workerVars, historyVars
<1>18. CASE CloseJoin
  BY <1>18 DEF CloseJoin, Goto, historyVars
<1>19. CASE CloseDecoder
  BY <1>19 DEF CloseDecoder, Goto, Return, threadVars, workerVars, historyVars
<1>20. CASE OpenDecoder
  BY <1>20 DEF OpenDecoder, Goto, threadVars, workerVars, historyVars
<1>21. CASE OpenThread
  BY <1>21 DEF OpenThread, Return, threadVars, historyVars
<1>22. CASE ProcessLock
  BY <1>22 DEF ProcessLock, WorkerGoto, threadVars, clientVars, historyVars
<1>23. CASE ProcessTest
  BY <1>23 DEF ProcessTest, WorkerGoto, threadVars, clientVars, historyVars
<1>24. CASE ProcessRelock
  BY <1>24 DEF ProcessRelock, WorkerGoto, threadVars, clientVars, historyVars
<1>25. CASE ProcessTake
  <2>1. CASE stop \/ abort \/ FlushHitsHand \/ hand # NoPacket \/ packets = <<>>
    BY <1>25, <2>1
    DEF ProcessTake, WorkerGoto, DropHand, FreeHand, FlushHitsHand, InHand,
        threadVars, clientVars
  <2>2. CASE ~(stop \/ abort) /\ hand = NoPacket /\ packets # <<>>
    <3>1. /\ hand' = Head(packets) /\ packets' = Tail(packets)
          /\ UNCHANGED <<next, mpc, call, decoded, freed, mark, flush>>
          /\ ppc' = "lockDecoder"
      BY <1>25, <2>2
      DEF ProcessTake, FlushHitsHand, TakeFirst, clientVars
    <3>2. hand' = Gone + 1 /\ Follows(packets', Gone + 1)
      BY <2>2, <3>1, TailFollows
    <3>3. Gone' = Gone + 1
      BY <2>2, <3>1, TailQueue
    <3>4. Gone \in Nat /\ decoded \in Seq(Packets) /\ freed = (1 .. Gone) \ {0}
      BY <2>2
    <3>5. Increasing(decoded) /\ \A i \in 1 .. Len(decoded) : decoded[i] <= Gone
      OBVIOUS
    <3>6. StaleInv'
      BY <3>1, <3>2, <3>3, SMTT(30)
    <3>. HIDE DEF IInv, PacketInv, Gone
    <3>7. \A i \in 1 .. Len(decoded) : decoded[i] \in Nat
      BY <3>4
    <3>8. OrderInv'
      BY <3>1, <3>2, <3>3, <3>4, <3>5, <3>7
    <3>9. FreedInv'
      BY <3>1, <3>2, <3>3, <3>4
    <3>. QED  BY <3>6, <3>8, <3>9 DEF PacketInv
  <2>. QED  BY <2>1, <2>2 DEF FlushHitsHand
<1>26. CASE ProcessLockDecoder
  BY <1>26 DEF ProcessLockDecoder, WorkerGoto, threadVars, clientVars,
     historyVars
<1>27. CASE ProcessChoose
  BY <1>27 DEF ProcessChoose, WorkerGoto, FreeHand, DropHand, FlushHitsHand,
     InHand, threadVars, clientVars
<1>28. CASE DecodePacket
  <2>1. hand \in Packets /\ hand' = NoPacket /\ Gone' = Gone
    BY <1>28 DEF DecodePacket, FreeHand, clientVars
  <2>2. decoded' = Append(decoded, hand) /\ packets' = packets
    BY <1>28 DEF DecodePacket
  <2>3. Increasing(decoded')
    BY <2>1, <2>2, AppendIncreasing
  <2>4. FreedInv'
    BY <1>28, <2>1, SMTT(30) DEF DecodePacket, FreeHand, InHand
  <2>5. StaleInv'
    BY <1>28, <2>1 DEF DecodePacket, clientVars
  <2>6. /\ Gone \in Nat /\ hand <= Gone /\ Follows(packets, Gone)
        /\ decoded \in Seq(Packets)
        /\ \A i \in 1 .. Len(decoded) : decoded[i] <= Gone
    OBVIOUS
  <2>. HIDE DEF IInv, PacketInv, Gone
  <2>7. \A i \in 1 .. Len(decoded') : decoded'[i] <= Gone
    BY <2>1, <2>2, <2>6, AppendQueue
  <2>8. OrderInv'
    BY <2>1, <2>2, <2>3, <2>6, <2>7
  <2>. QED  BY <2>4, <2>5, <2>8 DEF PacketInv
<1>29. CASE DecodeSleep
  BY <1>29 DEF DecodeSleep, WorkerGoto, HasRoom, threadVars, clientVars,
     historyVars
<1>30. CASE DecodeAwake
  BY <1>30 DEF DecodeAwake, WorkerGoto, FreeHand, InHand, threadVars,
     clientVars
<1>31. CASE ProcessUnlockDecoder
  BY <1>31 DEF ProcessUnlockDecoder, WorkerGoto, threadVars, clientVars,
     historyVars
<1>32. CASE ProcessExit
  BY <1>32 DEF ProcessExit, FreeHand, InHand, threadVars, clientVars
<1>33. CASE SpuriousWakeup
  BY <1>33 DEF SpuriousWakeup, WorkerGoto, threadVars, clientVars, historyVars
<1>34. CASE DecoderConsumes
  BY <1>34 DEF DecoderConsumes, threadVars, clientVars, workerVars,
     historyVars
<1>35. CASE UNCHANGED vars
  BY <1>35 DEF vars, threadVars, clientVars, workerVars, historyVars
<1>. QED
  BY <1>1, <1>2, <1>3, <1>4, <1>5, <1>6, <1>7, <1>8, <1>9, <1>10, <1>11, <1>12,
     <1>13, <1>14, <1>15, <1>16, <1>17, <1>18, <1>19, <1>20, <1>21, <1>22,
     <1>23, <1>24, <1>25, <1>26, <1>27, <1>28, <1>29, <1>30, <1>31, <1>32,
     <1>33, <1>34, <1>35
  DEF Next, ClientCall, ClientStep, WorkerStep

\* Both invariants hold in every reachable state.
LEMMA PacketInductive == Spec => [](IInv /\ PacketInv)
<1>1. IInv /\ PacketInv /\ [Next]_vars => (IInv /\ PacketInv)'
  BY StepIInv, StepPacketInv
<1>. QED  BY InitIInv, InitPacketInv, <1>1, PTL DEF Spec

\* The decoder receives the packets in the order of submission, none twice:
\* Process pops at one end what AddPacket pushes at the other, and never puts a
\* packet back.
THEOREM OrderOfDecoding == Spec => []DecodedInOrder
<1>1. PacketInv => DecodedInOrder
  BY DEF PacketInv, OrderInv, Increasing, DecodedInOrder
<1>. QED  BY <1>1, PacketInductive, PTL

\* Every accepted packet is in exactly one place.
LEMMA PacketHasPlace ==
    ASSUME IInv, PacketInv
    PROVE  /\ Queued \cup InHand \cup freed = 1 .. next - 1
           /\ Queued \cap InHand = {}
           /\ (Queued \cup InHand) \cap freed = {}
           /\ Cardinality(Queued) = Len(packets)
<1>1. /\ Gone \in Nat /\ next - 1 \in Nat /\ Len(packets) = next - 1 - Gone
      /\ Len(packets) \in Nat /\ hand \in Nat /\ hand <= Gone
  BY Constants DEF IInv, TypeOK, DataOK, PacketInv, OrderInv, Gone, Packets, NoPacket
<1>2. Queued = Gone + 1 .. next - 1
  BY QueuedRange DEF PacketInv
<1>3. freed = (1 .. Gone) \ {hand} /\ InHand = {hand} \ {0}
  BY DEF PacketInv, FreedInv, InHand, NoPacket
<1>4. Cardinality(Queued) = Len(packets)
  BY <1>1, <1>2, FS_Interval
<1>. QED  BY <1>1, <1>2, <1>3, <1>4

\* A client that never calls Reset sees no packet decoded after a Flush that was
\* to drop it.  The assumption is needed: Reset clears m_flush.
THEOREM FlushDiscards ==
    ASSUME "reset" \notin Calls
    PROVE  Spec => NoStaleDecode
<1>1. IInv /\ PacketInv /\ [Next]_vars => [decoded' # decoded => hand >= mark]_vars
  <2> SUFFICES ASSUME IInv, PacketInv, Next, decoded' # decoded
               PROVE  hand >= mark
    BY DEF vars, historyVars
  <2>1. DecodePacket
    BY DEF Next, ClientCall, ClientStep, WorkerStep, vars, historyVars,
           CallAddPacket, CallFlush, CallReset, CallClose, CallOpen, AddLock,
           AddPush, AddBroadcast, FlushRequest, FlushLock, FlushLockDecoder,
           FlushBody, FlushUnlockDecoder, FlushUnlock, ResetState, CloseWake,
           CloseStop, CloseJoin, CloseDecoder, OpenDecoder, OpenThread,
           ProcessLock, ProcessTest, ProcessRelock, ProcessTake,
           ProcessLockDecoder, ProcessChoose, DecodeSleep, DecodeAwake,
           ProcessUnlockDecoder, ProcessExit, SpuriousWakeup, DecoderConsumes
  <2>2. ppc = "space" /\ hand # NoPacket /\ hand \in Int /\ mark \in Int
    BY <2>1, Constants
    DEF DecodePacket, IInv, TypeOK, DataOK, HandInv, Packets, NoPacket
  <2>. QED  BY <2>2 DEF PacketInv, StaleInv
<1>. QED  BY <1>1, PacketInductive, PTL DEF Spec, NoStaleDecode
-----------------------------------------------------------------------------
(***************************************************************************)
(* The bytes in the queue, and what is left after Flush and Close.         *)
(***************************************************************************)

\* The call that a position of the client's thread belongs to.
CallInv ==
    /\ mpc = "idle" => call = "none"
    /\ call = "add" <=> mpc \in {"addLock", "addPush", "addBroadcast"}
    /\ mpc \in {"flushRequest", "flushLock", "flushLockDecoder", "flushBody",
               "flushUnlockDecoder", "flushUnlock"} =>
          call \in {"flush", "reset", "close", "open", "failed"}
    /\ mpc = "resetState" => call = "reset"
    /\ mpc \in {"closeWake", "closeStop", "closeJoin", "closeDecoder"} =>
          call \in {"close", "open", "failed"}
    /\ mpc \in {"openDecoder", "openThread"} => call = "open"

\* The queue that Flush empties stays empty until its caller returns, since only
\* the client appends to it.
EmptyInv ==
    mpc \in {"flushUnlockDecoder", "flushUnlock", "resetState", "closeWake",
             "closeStop", "closeJoin", "closeDecoder"} => packets = <<>>

\* m_bAbort outlives Close and a failed Open, which leave neither a thread nor a
\* decoder nor a packet.
DownInv ==
    /\ abort => call # "add" /\ mpc # "openThread"
    /\ abort /\ call \in {"none", "flush", "reset"} =>
          ~thread /\ ~decoder /\ packets = <<>>

\* pthread_create failed: m_running is set for good, and there is no worker.
Failed == running /\ ~thread

\* Unless it did, the counter is exact, also where there is no worker, and there
\* is room for the packet for which AddPacket has made its test.
CountInv ==
    ~Failed =>
        /\ cached = QueuedBytes
        /\ cached > 0 => cached < QueueLimit
        /\ mpc \in {"addLock", "addPush"} => cached + Size[next] < QueueLimit
        /\ call = "add" => thread
        /\ decoder /\ mpc \notin {"openThread", "closeDecoder"} => thread
        /\ ~thread => packets = <<>>

\* A Flush that still has to look for a packet in hand has cost none yet.
LostInv ==
    /\ flushReq => mpc \in {"flushLock", "flushLockDecoder", "flushBody"}
    /\ ~flushReq =>
          /\ flush => Lost = {}
          /\ \A p, q \in Lost : p = q

CloseInv == CallInv /\ EmptyInv /\ DownInv /\ CountInv /\ LostInv

\* Induction, for a set of numbers.
LEMMA NatSetInduction ==
    ASSUME NEW S, 0 \in S, \A n \in Nat : n \in S => n + 1 \in S
    PROVE  Nat \subseteq S
<1> DEFINE T == Nat \ S
<1> SUFFICES ASSUME T # {} PROVE FALSE
  OBVIOUS
<1>1. PICK x \in T : \A y \in T : ~ (<<y, x>> \in OpToRel(<, Nat))
  BY WFMin, NatLessThanWellFounded
<1>2. x \in Nat /\ x # 0
  OBVIOUS
<1>3. x - 1 \in T /\ x - 1 < x
  BY <1>2
<1>4. <<x - 1, x>> \in OpToRel(<, Nat)
  BY <1>2, <1>3 DEF OpToRel
<1>. QED  BY <1>1, <1>3, <1>4

\* f holds the sums of the sizes of the first packets of q, up to n of them.
IsSum(f, q, n) ==
    /\ f = [i \in 0 .. n |-> f[i]]
    /\ f[0] = 0
    /\ \A i \in 1 .. n : f[i] = f[i - 1] + Size[q[i]]

LEMMA SumExists ==
    ASSUME NEW q \in Seq(Packets)
    PROVE  \E f : IsSum(f, q, Len(q))
<1> DEFINE N == {n \in Nat : n <= Len(q) => \E f : IsSum(f, q, n)}
<1>1. 0 \in N
  <2>. DEFINE f == [i \in 0 .. 0 |-> 0]
  <2>1. IsSum(f, q, 0)
    BY DEF IsSum
  <2>. QED  BY <2>1
<1>2. ASSUME NEW n \in Nat, n \in N PROVE n + 1 \in N
  <2>. SUFFICES ASSUME n + 1 <= Len(q) PROVE \E f : IsSum(f, q, n + 1)
    OBVIOUS
  <2>1. PICK f : IsSum(f, q, n)
    BY <1>2
  <2>. DEFINE last == f[n] + Size[q[n + 1]]
              g == [i \in 0 .. n + 1 |-> IF i = n + 1 THEN last ELSE f[i]]
  <2>2. \A i \in 0 .. n : g[i] = f[i]
    OBVIOUS
  <2>3. g[n + 1] = last
    OBVIOUS
  <2>4. g = [i \in 0 .. n + 1 |-> g[i]]
    OBVIOUS
  <2>5. g[0] = 0
    BY <2>1, <2>2 DEF IsSum
  <2>6. ASSUME NEW i \in 1 .. n + 1 PROVE g[i] = g[i - 1] + Size[q[i]]
    <3>1. CASE i = n + 1
      BY <3>1, <2>2, <2>3
    <3>2. CASE i \in 1 .. n
      <4>. HIDE DEF g, last
      <4>1. g[i] = f[i] /\ g[i - 1] = f[i - 1]
        BY <3>2, <2>2
      <4>2. f[i] = f[i - 1] + Size[q[i]]
        BY <3>2, <2>1 DEF IsSum
      <4>. QED  BY <4>1, <4>2
    <3>. QED  BY <3>1, <3>2
  <2>. HIDE DEF g
  <2>. QED  BY <2>4, <2>5, <2>6 DEF IsSum
<1>. HIDE DEF N
<1>3. Len(q) \in N
  BY <1>1, <1>2, NatSetInduction
<1>. QED  BY <1>3 DEF N

\* Bytes is the last of the sums.
LEMMA BytesIsSum ==
    ASSUME NEW q \in Seq(Packets)
    PROVE  \E f : IsSum(f, q, Len(q)) /\ Bytes(q) = f[Len(q)]
<1> DEFINE body(f) == [i \in 0 .. Len(q) |->
                          IF i = 0 THEN 0 ELSE f[i - 1] + Size[q[i]]]
           sum == CHOOSE f : f = body(f)
<1>1. \A f : f = body(f) <=> IsSum(f, q, Len(q))
  <2>. SUFFICES ASSUME NEW f PROVE f = body(f) <=> IsSum(f, q, Len(q))
    OBVIOUS
  <2>1. ASSUME f = body(f) PROVE IsSum(f, q, Len(q))
    <3>1. \A i \in 0 .. Len(q) : f[i] = IF i = 0 THEN 0 ELSE f[i - 1] + Size[q[i]]
      BY <2>1
    <3>2. f = [i \in 0 .. Len(q) |-> f[i]]
      BY <2>1
    <3>. QED  BY <3>1, <3>2 DEF IsSum
  <2>2. ASSUME IsSum(f, q, Len(q)) PROVE f = body(f)
    BY <2>2 DEF IsSum
  <2>. QED  BY <2>1, <2>2
<1>2. \E f : f = body(f)
  BY <1>1, SumExists
<1>3. sum = body(sum)
  BY <1>2
<1>4. Bytes(q) = sum[Len(q)]
  BY DEF Bytes
<1>5. IsSum(sum, q, Len(q))
  BY <1>1, <1>3
<1>. HIDE DEF sum
<1>. QED  BY <1>4, <1>5

\* When r is a part of q, the sums over r are those over q but for a constant.
LEMMA SumShift ==
    ASSUME NEW q \in Seq(Packets), NEW r \in Seq(Packets), NEW k \in Nat,
           k + Len(r) <= Len(q), \A i \in 1 .. Len(r) : r[i] = q[k + i],
           NEW f, NEW g, IsSum(f, q, Len(q)), IsSum(g, r, Len(r)),
           NEW n \in 0 .. Len(r), f[k] \in Nat
    PROVE  f[k + n] = f[k] + g[n] /\ g[n] \in Nat
<1> DEFINE P(m) == f[k + m] = f[k] + g[m] /\ g[m] \in Nat
           N == {m \in Nat : m <= Len(r) => P(m)}
<1>1. 0 \in N
  BY DEF IsSum
<1>2. ASSUME NEW m \in Nat, m \in N PROVE m + 1 \in N
  <2>. SUFFICES ASSUME m + 1 <= Len(r) PROVE P(m + 1)
    OBVIOUS
  <2>1. f[k + m] = f[k] + g[m] /\ g[m] \in Nat
    BY <1>2
  <2>2. g[m + 1] = g[m] + Size[r[m + 1]]
    <3>1. m + 1 \in 1 .. Len(r) /\ (m + 1) - 1 = m
      OBVIOUS
    <3>. HIDE DEF N
    <3>. QED  BY <3>1 DEF IsSum
  <2>3. f[k + m + 1] = f[k + m] + Size[q[k + m + 1]]
    <3>1. k + m + 1 \in 1 .. Len(q) /\ (k + m + 1) - 1 = k + m
      OBVIOUS
    <3>. HIDE DEF N
    <3>. QED  BY <3>1 DEF IsSum
  <2>4. r[m + 1] = q[k + m + 1] /\ r[m + 1] \in Packets
    OBVIOUS
  <2>5. Size[r[m + 1]] \in Nat
    BY <2>4, Constants
  <2>6. f[k + m + 1] = f[k] + (g[m] + Size[r[m + 1]])
    BY ONLY <2>1, <2>3, <2>4, <2>5, f[k] \in Nat, SMTT(30)
  <2>7. g[m + 1] \in Nat
    BY ONLY <2>1, <2>2, <2>5
  <2>8. k + (m + 1) = k + m + 1
    OBVIOUS
  <2>. QED  BY ONLY <2>2, <2>6, <2>7, <2>8
<1>3. n \in Nat /\ Nat \subseteq N
  <2>1. n \in Nat
    OBVIOUS
  <2>. HIDE DEF N
  <2>. QED  BY <1>1, <1>2, <2>1, NatSetInduction
<1>4. P(n)
  <2>. HIDE DEF P
  <2>. QED  BY <1>3
<1>. QED  BY <1>4

\* The bytes of no packet, of a queue with one more and with one less.
LEMMA BytesOfNone == Bytes(<<>>) = 0
<1>1. <<>> \in Seq(Packets) /\ Len(<<>>) = 0
  OBVIOUS
<1>. QED  BY <1>1, BytesIsSum DEF IsSum

LEMMA BytesNat ==
    ASSUME NEW q \in Seq(Packets)
    PROVE  Bytes(q) \in Nat
<1>1. PICK f : IsSum(f, q, Len(q)) /\ Bytes(q) = f[Len(q)]
  BY BytesIsSum
<1>2. f[0] \in Nat
  BY <1>1 DEF IsSum
<1>3. 0 + Len(q) <= Len(q) /\ \A i \in 1 .. Len(q) : q[i] = q[0 + i]
  OBVIOUS
<1>. QED  BY <1>1, <1>2, <1>3, SumShift

LEMMA BytesAppend ==
    ASSUME NEW q \in Seq(Packets), NEW e \in Packets
    PROVE  Bytes(Append(q, e)) = Bytes(q) + Size[e]
<1> DEFINE a == Append(q, e)
<1>1. /\ a \in Seq(Packets) /\ Len(a) = Len(q) + 1 /\ a[Len(q) + 1] = e
      /\ \A i \in 1 .. Len(q) : q[i] = a[0 + i]
  BY AppendQueue
<1>. HIDE DEF a
<1>2. PICK f : IsSum(f, a, Len(a)) /\ Bytes(a) = f[Len(a)]
  BY <1>1, BytesIsSum
<1>3. PICK g : IsSum(g, q, Len(q)) /\ Bytes(q) = g[Len(q)]
  BY BytesIsSum
<1>4. f[0] = 0
  BY <1>2 DEF IsSum
<1>5. f[0 + Len(q)] = f[0] + g[Len(q)] /\ g[Len(q)] \in Nat
  <2>. PICK k \in Nat : k = 0
    OBVIOUS
  <2>1. k + Len(q) <= Len(a) /\ Len(q) \in 0 .. Len(q) /\ f[k] \in Nat
    BY <1>1, <1>4
  <2>2. \A i \in 1 .. Len(q) : q[i] = a[k + i]
    BY <1>1
  <2>3. f[k + Len(q)] = f[k] + g[Len(q)] /\ g[Len(q)] \in Nat
    <3>1. /\ a \in Seq(Packets) /\ q \in Seq(Packets)
          /\ IsSum(f, a, Len(a)) /\ IsSum(g, q, Len(q))
      BY <1>1, <1>2, <1>3
    <3>. QED  BY ONLY k \in Nat, <2>1, <2>2, <3>1, SumShift, ZenonT(30)
  <2>. QED  BY <2>3
<1>6. f[Len(q) + 1] = f[Len(q)] + Size[e]
  BY <1>1, <1>2 DEF IsSum
<1>. QED  BY <1>1, <1>2, <1>3, <1>4, <1>5, <1>6 DEF a

LEMMA BytesTail ==
    ASSUME NEW q \in Seq(Packets), q # <<>>
    PROVE  /\ Bytes(Tail(q)) = Bytes(q) - Size[Head(q)]
           /\ Bytes(Tail(q)) \in Nat
<1> DEFINE t == Tail(q)
<1>1. /\ t \in Seq(Packets) /\ Len(t) = Len(q) - 1 /\ Len(q) \in Nat \ {0}
      /\ \A i \in 1 .. Len(t) : t[i] = q[1 + i]
      /\ Head(q) = q[1] /\ Head(q) \in Packets
  OBVIOUS
<1>. HIDE DEF t
<1>2. PICK f : IsSum(f, q, Len(q)) /\ Bytes(q) = f[Len(q)]
  BY BytesIsSum
<1>3. PICK g : IsSum(g, t, Len(t)) /\ Bytes(t) = g[Len(t)]
  BY <1>1, BytesIsSum
<1>4. Size[Head(q)] \in Nat
  BY <1>1, Constants
<1>5. f[1] = Size[Head(q)]
  <2>1. f[1] = f[0] + Size[q[1]] /\ f[0] = 0
    BY <1>1, <1>2 DEF IsSum
  <2>. QED  BY <1>1, <1>4, <2>1
<1>6. f[1 + Len(t)] = f[1] + g[Len(t)] /\ g[Len(t)] \in Nat
  <2>1. 1 + Len(t) <= Len(q) /\ Len(t) \in 0 .. Len(t) /\ f[1] \in Nat
    BY <1>1, <1>4, <1>5
  <2>. QED  BY <1>1, <1>2, <1>3, <2>1, SumShift
<1>. QED  BY <1>1, <1>2, <1>3, <1>4, <1>5, <1>6 DEF t

\* The client's position says which call it executes.
LEMMA CallStep == CallInv /\ [Next]_vars => CallInv'
<1> SUFFICES ASSUME CallInv, [Next]_vars PROVE CallInv'
  OBVIOUS
<1>. USE Constants DEF CallInv
<1>1. CASE CallAddPacket
  BY <1>1 DEF CallAddPacket, Start, threadVars, workerVars, historyVars
<1>2. CASE CallFlush
  BY <1>2 DEF CallFlush, Start, threadVars, workerVars, historyVars
<1>3. CASE CallReset
  BY <1>3 DEF CallReset, Start, threadVars, workerVars, historyVars
<1>4. CASE CallClose
  BY <1>4 DEF CallClose, Start, threadVars, workerVars, historyVars
<1>5. CASE CallOpen
  BY <1>5 DEF CallOpen, Start, threadVars, workerVars, historyVars
<1>6. CASE AddLock
  BY <1>6 DEF AddLock, Goto, threadVars, workerVars, historyVars
<1>7. CASE AddPush
  BY <1>7 DEF AddPush, threadVars, workerVars, historyVars
<1>8. CASE AddBroadcast
  BY <1>8 DEF AddBroadcast, Return, WakeWorker, threadVars, historyVars
<1>9. CASE FlushRequest
  BY <1>9 DEF FlushRequest, Goto, threadVars, workerVars, historyVars
<1>10. CASE FlushLock
  BY <1>10 DEF FlushLock, Goto, threadVars, workerVars, historyVars
<1>11. CASE FlushLockDecoder
  BY <1>11 DEF FlushLockDecoder, Goto, threadVars, workerVars, historyVars
<1>12. CASE FlushBody
  BY <1>12 DEF FlushBody, Goto, threadVars, workerVars
<1>13. CASE FlushUnlockDecoder
  BY <1>13 DEF FlushUnlockDecoder, Goto, threadVars, workerVars, historyVars
<1>14. CASE FlushUnlock
  BY <1>14 DEF FlushUnlock, Goto, Return, threadVars, workerVars, historyVars
<1>15. CASE ResetState
  BY <1>15 DEF ResetState, Return, threadVars, workerVars, historyVars
<1>16. CASE CloseWake
  BY <1>16 DEF CloseWake, Goto, WakeWorker, threadVars, historyVars
<1>17. CASE CloseStop
  BY <1>17 DEF CloseStop, Goto, workerVars, historyVars
<1>18. CASE CloseJoin
  BY <1>18 DEF CloseJoin, Goto, historyVars
<1>19. CASE CloseDecoder
  BY <1>19 DEF CloseDecoder, Goto, Return, threadVars, workerVars, historyVars
<1>20. CASE OpenDecoder
  BY <1>20 DEF OpenDecoder, Goto, threadVars, workerVars, historyVars
<1>21. CASE OpenThread
  BY <1>21 DEF OpenThread, Return, threadVars, historyVars
<1>22. CASE ProcessLock
  BY <1>22 DEF ProcessLock, WorkerGoto, threadVars, clientVars, historyVars
<1>23. CASE ProcessTest
  BY <1>23 DEF ProcessTest, WorkerGoto, threadVars, clientVars, historyVars
<1>24. CASE ProcessRelock
  BY <1>24 DEF ProcessRelock, WorkerGoto, threadVars, clientVars, historyVars
<1>25. CASE ProcessTake
  BY <1>25 DEF ProcessTake, WorkerGoto, FreeHand, DropHand, FlushHitsHand,
     TakeFirst, InHand, threadVars, clientVars
<1>26. CASE ProcessLockDecoder
  BY <1>26 DEF ProcessLockDecoder, WorkerGoto, threadVars, clientVars,
     historyVars
<1>27. CASE ProcessChoose
  BY <1>27 DEF ProcessChoose, WorkerGoto, FreeHand, DropHand, FlushHitsHand,
     InHand, threadVars, clientVars
<1>28. CASE DecodePacket
  BY <1>28 DEF DecodePacket, FreeHand, HasRoom, InHand, threadVars, clientVars
<1>29. CASE DecodeSleep
  BY <1>29 DEF DecodeSleep, WorkerGoto, HasRoom, threadVars, clientVars,
     historyVars
<1>30. CASE DecodeAwake
  BY <1>30 DEF DecodeAwake, WorkerGoto, FreeHand, InHand, threadVars, clientVars
<1>31. CASE ProcessUnlockDecoder
  BY <1>31 DEF ProcessUnlockDecoder, WorkerGoto, threadVars, clientVars,
     historyVars
<1>32. CASE ProcessExit
  BY <1>32 DEF ProcessExit, FreeHand, InHand, threadVars, clientVars
<1>33. CASE SpuriousWakeup
  BY <1>33 DEF SpuriousWakeup, WorkerGoto, threadVars, clientVars, historyVars
<1>34. CASE DecoderConsumes
  BY <1>34 DEF DecoderConsumes, threadVars, clientVars, workerVars, historyVars
<1>35. CASE UNCHANGED vars
  BY <1>35 DEF vars, threadVars, clientVars, workerVars, historyVars
<1>. QED
  BY <1>1, <1>2, <1>3, <1>4, <1>5, <1>6, <1>7, <1>8, <1>9, <1>10, <1>11, <1>12,
     <1>13, <1>14, <1>15, <1>16, <1>17, <1>18, <1>19, <1>20, <1>21, <1>22,
     <1>23, <1>24, <1>25, <1>26, <1>27, <1>28, <1>29, <1>30, <1>31, <1>32,
     <1>33, <1>34, <1>35
  DEF Next, ClientCall, ClientStep, WorkerStep

\* Nothing is appended while Flush and what follows it run.
LEMMA EmptyStep == IInv /\ EmptyInv /\ [Next]_vars => EmptyInv'
<1> SUFFICES ASSUME IInv, EmptyInv, [Next]_vars PROVE EmptyInv'
  OBVIOUS
<1>. USE Constants DEF IInv, TypeOK, DataOK, LockInv, ThreadInv, EmptyInv,
         Nobody, Client, Worker, NoPacket
<1>1. CASE CallAddPacket
  BY <1>1 DEF CallAddPacket, Start, threadVars, workerVars, historyVars
<1>2. CASE CallFlush
  BY <1>2 DEF CallFlush, Start, threadVars, workerVars, historyVars
<1>3. CASE CallReset
  BY <1>3 DEF CallReset, Start, threadVars, workerVars, historyVars
<1>4. CASE CallClose
  BY <1>4 DEF CallClose, Start, threadVars, workerVars, historyVars
<1>5. CASE CallOpen
  BY <1>5 DEF CallOpen, Start, threadVars, workerVars, historyVars
<1>6. CASE AddLock
  BY <1>6 DEF AddLock, Goto, threadVars, workerVars, historyVars
<1>7. CASE AddPush
  BY <1>7 DEF AddPush, threadVars, workerVars, historyVars
<1>8. CASE AddBroadcast
  BY <1>8 DEF AddBroadcast, Return, WakeWorker, threadVars, historyVars
<1>9. CASE FlushRequest
  BY <1>9 DEF FlushRequest, Goto, threadVars, workerVars, historyVars
<1>10. CASE FlushLock
  BY <1>10 DEF FlushLock, Goto, threadVars, workerVars, historyVars
<1>11. CASE FlushLockDecoder
  BY <1>11 DEF FlushLockDecoder, Goto, threadVars, workerVars, historyVars
<1>12. CASE FlushBody
  BY <1>12 DEF FlushBody, Goto, threadVars, workerVars
<1>13. CASE FlushUnlockDecoder
  BY <1>13 DEF FlushUnlockDecoder, Goto, threadVars, workerVars, historyVars
<1>14. CASE FlushUnlock
  BY <1>14 DEF FlushUnlock, Goto, Return, threadVars, workerVars, historyVars
<1>15. CASE ResetState
  BY <1>15 DEF ResetState, Return, threadVars, workerVars, historyVars
<1>16. CASE CloseWake
  BY <1>16 DEF CloseWake, Goto, WakeWorker, threadVars, historyVars
<1>17. CASE CloseStop
  BY <1>17 DEF CloseStop, Goto, workerVars, historyVars
<1>18. CASE CloseJoin
  BY <1>18 DEF CloseJoin, Goto, historyVars
<1>19. CASE CloseDecoder
  BY <1>19 DEF CloseDecoder, Goto, Return, threadVars, workerVars, historyVars
<1>20. CASE OpenDecoder
  BY <1>20 DEF OpenDecoder, Goto, threadVars, workerVars, historyVars
<1>21. CASE OpenThread
  BY <1>21 DEF OpenThread, Return, threadVars, historyVars
<1>22. CASE ProcessLock
  BY <1>22 DEF ProcessLock, WorkerGoto, threadVars, clientVars, historyVars
<1>23. CASE ProcessTest
  BY <1>23 DEF ProcessTest, WorkerGoto, threadVars, clientVars, historyVars
<1>24. CASE ProcessRelock
  BY <1>24 DEF ProcessRelock, WorkerGoto, threadVars, clientVars, historyVars
<1>25. CASE ProcessTake
  BY <1>25 DEF ProcessTake, WorkerGoto, FreeHand, DropHand, FlushHitsHand,
     TakeFirst, InHand, threadVars, clientVars
<1>26. CASE ProcessLockDecoder
  BY <1>26 DEF ProcessLockDecoder, WorkerGoto, threadVars, clientVars,
     historyVars
<1>27. CASE ProcessChoose
  BY <1>27 DEF ProcessChoose, WorkerGoto, FreeHand, DropHand, FlushHitsHand,
     InHand, threadVars, clientVars
<1>28. CASE DecodePacket
  BY <1>28 DEF DecodePacket, FreeHand, HasRoom, InHand, threadVars, clientVars
<1>29. CASE DecodeSleep
  BY <1>29 DEF DecodeSleep, WorkerGoto, HasRoom, threadVars, clientVars,
     historyVars
<1>30. CASE DecodeAwake
  BY <1>30 DEF DecodeAwake, WorkerGoto, FreeHand, InHand, threadVars, clientVars
<1>31. CASE ProcessUnlockDecoder
  BY <1>31 DEF ProcessUnlockDecoder, WorkerGoto, threadVars, clientVars,
     historyVars
<1>32. CASE ProcessExit
  BY <1>32 DEF ProcessExit, FreeHand, InHand, threadVars, clientVars
<1>33. CASE SpuriousWakeup
  BY <1>33 DEF SpuriousWakeup, WorkerGoto, threadVars, clientVars, historyVars
<1>34. CASE DecoderConsumes
  BY <1>34 DEF DecoderConsumes, threadVars, clientVars, workerVars, historyVars
<1>35. CASE UNCHANGED vars
  BY <1>35 DEF vars, threadVars, clientVars, workerVars, historyVars
<1>. QED
  BY <1>1, <1>2, <1>3, <1>4, <1>5, <1>6, <1>7, <1>8, <1>9, <1>10, <1>11, <1>12,
     <1>13, <1>14, <1>15, <1>16, <1>17, <1>18, <1>19, <1>20, <1>21, <1>22,
     <1>23, <1>24, <1>25, <1>26, <1>27, <1>28, <1>29, <1>30, <1>31, <1>32,
     <1>33, <1>34, <1>35
  DEF Next, ClientCall, ClientStep, WorkerStep

\* An aborted player stays down until Reset or Open.
LEMMA DownStep ==
    IInv /\ CallInv /\ EmptyInv /\ DownInv /\ [Next]_vars => DownInv'
<1> SUFFICES ASSUME IInv, CallInv, EmptyInv, DownInv, [Next]_vars PROVE DownInv'
  OBVIOUS
<1>. USE Constants DEF IInv, TypeOK, DataOK, FlagsOK, LockInv, ThreadInv,
         CallInv, EmptyInv, DownInv, Nobody, Client, Worker, NoPacket
<1>1. CASE CallAddPacket
  BY <1>1 DEF CallAddPacket, Start, threadVars, workerVars, historyVars
<1>2. CASE CallFlush
  BY <1>2 DEF CallFlush, Start, threadVars, workerVars, historyVars
<1>3. CASE CallReset
  BY <1>3 DEF CallReset, Start, threadVars, workerVars, historyVars
<1>4. CASE CallClose
  BY <1>4 DEF CallClose, Start, threadVars, workerVars, historyVars
<1>5. CASE CallOpen
  BY <1>5 DEF CallOpen, Start, threadVars, workerVars, historyVars
<1>6. CASE AddLock
  BY <1>6 DEF AddLock, Goto, threadVars, workerVars, historyVars
<1>7. CASE AddPush
  BY <1>7 DEF AddPush, threadVars, workerVars, historyVars
<1>8. CASE AddBroadcast
  BY <1>8 DEF AddBroadcast, Return, WakeWorker, threadVars, historyVars
<1>9. CASE FlushRequest
  BY <1>9 DEF FlushRequest, Goto, threadVars, workerVars, historyVars
<1>10. CASE FlushLock
  BY <1>10 DEF FlushLock, Goto, threadVars, workerVars, historyVars
<1>11. CASE FlushLockDecoder
  BY <1>11 DEF FlushLockDecoder, Goto, threadVars, workerVars, historyVars
<1>12. CASE FlushBody
  BY <1>12 DEF FlushBody, Goto, threadVars, workerVars
<1>13. CASE FlushUnlockDecoder
  BY <1>13 DEF FlushUnlockDecoder, Goto, threadVars, workerVars, historyVars
<1>14. CASE FlushUnlock
  BY <1>14 DEF FlushUnlock, Goto, Return, threadVars, workerVars, historyVars
<1>15. CASE ResetState
  BY <1>15 DEF ResetState, Return, threadVars, workerVars, historyVars
<1>16. CASE CloseWake
  BY <1>16 DEF CloseWake, Goto, WakeWorker, threadVars, historyVars
<1>17. CASE CloseStop
  BY <1>17 DEF CloseStop, Goto, workerVars, historyVars
<1>18. CASE CloseJoin
  BY <1>18 DEF CloseJoin, Goto, historyVars
<1>19. CASE CloseDecoder
  BY <1>19 DEF CloseDecoder, Goto, Return, threadVars, workerVars, historyVars
<1>20. CASE OpenDecoder
  BY <1>20 DEF OpenDecoder, Goto, threadVars, workerVars, historyVars
<1>21. CASE OpenThread
  BY <1>21 DEF OpenThread, Return, threadVars, historyVars
<1>22. CASE ProcessLock
  BY <1>22 DEF ProcessLock, WorkerGoto, threadVars, clientVars, historyVars
<1>23. CASE ProcessTest
  BY <1>23 DEF ProcessTest, WorkerGoto, threadVars, clientVars, historyVars
<1>24. CASE ProcessRelock
  BY <1>24 DEF ProcessRelock, WorkerGoto, threadVars, clientVars, historyVars
<1>25. CASE ProcessTake
  BY <1>25 DEF ProcessTake, WorkerGoto, FreeHand, DropHand, FlushHitsHand,
     TakeFirst, InHand, threadVars, clientVars
<1>26. CASE ProcessLockDecoder
  BY <1>26 DEF ProcessLockDecoder, WorkerGoto, threadVars, clientVars,
     historyVars
<1>27. CASE ProcessChoose
  BY <1>27 DEF ProcessChoose, WorkerGoto, FreeHand, DropHand, FlushHitsHand,
     InHand, threadVars, clientVars
<1>28. CASE DecodePacket
  BY <1>28 DEF DecodePacket, FreeHand, HasRoom, InHand, threadVars, clientVars
<1>29. CASE DecodeSleep
  BY <1>29 DEF DecodeSleep, WorkerGoto, HasRoom, threadVars, clientVars,
     historyVars
<1>30. CASE DecodeAwake
  BY <1>30 DEF DecodeAwake, WorkerGoto, FreeHand, InHand, threadVars, clientVars
<1>31. CASE ProcessUnlockDecoder
  BY <1>31 DEF ProcessUnlockDecoder, WorkerGoto, threadVars, clientVars,
     historyVars
<1>32. CASE ProcessExit
  BY <1>32 DEF ProcessExit, FreeHand, InHand, threadVars, clientVars
<1>33. CASE SpuriousWakeup
  BY <1>33 DEF SpuriousWakeup, WorkerGoto, threadVars, clientVars, historyVars
<1>34. CASE DecoderConsumes
  BY <1>34 DEF DecoderConsumes, threadVars, clientVars, workerVars, historyVars
<1>35. CASE UNCHANGED vars
  BY <1>35 DEF vars, threadVars, clientVars, workerVars, historyVars
<1>. QED
  BY <1>1, <1>2, <1>3, <1>4, <1>5, <1>6, <1>7, <1>8, <1>9, <1>10, <1>11, <1>12,
     <1>13, <1>14, <1>15, <1>16, <1>17, <1>18, <1>19, <1>20, <1>21, <1>22,
     <1>23, <1>24, <1>25, <1>26, <1>27, <1>28, <1>29, <1>30, <1>31, <1>32,
     <1>33, <1>34, <1>35
  DEF Next, ClientCall, ClientStep, WorkerStep

\* m_cached_size follows the queue, and the test of AddPacket stays true.
LEMMA CountStep ==
    IInv /\ CallInv /\ EmptyInv /\ DownInv /\ CountInv /\ [Next]_vars =>
        CountInv'
<1> SUFFICES ASSUME IInv, CallInv, EmptyInv, DownInv, CountInv, [Next]_vars
      PROVE CountInv'
  OBVIOUS
<1>. USE Constants DEF IInv, TypeOK, DataOK, FlagsOK, LockInv, ThreadInv,
         CallInv, EmptyInv, DownInv, CountInv, QueuedBytes, Failed, Nobody,
         Client, Worker, NoPacket
<1>1. CASE CallAddPacket
  BY <1>1 DEF CallAddPacket, Start, threadVars, workerVars, historyVars
<1>2. CASE CallFlush
  BY <1>2 DEF CallFlush, Start, threadVars, workerVars, historyVars
<1>3. CASE CallReset
  BY <1>3 DEF CallReset, Start, threadVars, workerVars, historyVars
<1>4. CASE CallClose
  BY <1>4 DEF CallClose, Start, threadVars, workerVars, historyVars
<1>5. CASE CallOpen
  BY <1>5 DEF CallOpen, Start, threadVars, workerVars, historyVars
<1>6. CASE AddLock
  BY <1>6 DEF AddLock, Goto, threadVars, workerVars, historyVars
<1>7. CASE AddPush
  <2>1. next \in Packets /\ packets \in Seq(Packets)
    BY <1>7 DEF AddPush
  <2>2. Bytes(packets') = Bytes(packets) + Size[next]
    BY <1>7, <2>1, BytesAppend DEF AddPush
  <2>. QED
    BY <1>7, <2>2 DEF AddPush, threadVars, workerVars, historyVars
<1>8. CASE AddBroadcast
  BY <1>8 DEF AddBroadcast, Return, WakeWorker, threadVars, historyVars
<1>9. CASE FlushRequest
  BY <1>9 DEF FlushRequest, Goto, threadVars, workerVars, historyVars
<1>10. CASE FlushLock
  BY <1>10 DEF FlushLock, Goto, threadVars, workerVars, historyVars
<1>11. CASE FlushLockDecoder
  BY <1>11 DEF FlushLockDecoder, Goto, threadVars, workerVars, historyVars
<1>12. CASE FlushBody
  BY <1>12, BytesOfNone DEF FlushBody, Goto, threadVars, workerVars
<1>13. CASE FlushUnlockDecoder
  BY <1>13 DEF FlushUnlockDecoder, Goto, threadVars, workerVars, historyVars
<1>14. CASE FlushUnlock
  BY <1>14 DEF FlushUnlock, Goto, Return, threadVars, workerVars, historyVars
<1>15. CASE ResetState
  BY <1>15, BytesOfNone DEF ResetState, Return, threadVars, workerVars,
     historyVars
<1>16. CASE CloseWake
  BY <1>16 DEF CloseWake, Goto, WakeWorker, threadVars, historyVars
<1>17. CASE CloseStop
  BY <1>17 DEF CloseStop, Goto, workerVars, historyVars
<1>18. CASE CloseJoin
  BY <1>18 DEF CloseJoin, Goto, historyVars
<1>19. CASE CloseDecoder
  BY <1>19 DEF CloseDecoder, Goto, Return, threadVars, workerVars, historyVars
<1>20. CASE OpenDecoder
  BY <1>20, BytesOfNone DEF OpenDecoder, Goto, threadVars, workerVars,
     historyVars
<1>21. CASE OpenThread
  BY <1>21 DEF OpenThread, Return, threadVars, historyVars
<1>22. CASE ProcessLock
  BY <1>22 DEF ProcessLock, WorkerGoto, threadVars, clientVars, historyVars
<1>23. CASE ProcessTest
  BY <1>23 DEF ProcessTest, WorkerGoto, threadVars, clientVars, historyVars
<1>24. CASE ProcessRelock
  BY <1>24 DEF ProcessRelock, WorkerGoto, threadVars, clientVars, historyVars
<1>25. CASE ProcessTake
  <2>1. CASE UNCHANGED <<packets, cached>>
    BY <1>25, <2>1 DEF ProcessTake, threadVars, clientVars
  <2>2. CASE packets # <<>> /\ TakeFirst
    <3>1. /\ Bytes(packets') = Bytes(packets) - Size[Head(packets)]
          /\ Bytes(packets') \in Nat
      BY <2>2, BytesTail DEF TakeFirst
    <3>2. /\ cached' = cached - Size[Head(packets)] /\ Size[Head(packets)] \in Nat
          /\ cached \in Int
      BY <2>2, TailQueue DEF TakeFirst
    <3>3. UNCHANGED <<mpc, call, next, stop, running, thread, decoder>>
      BY <1>25 DEF ProcessTake, threadVars, clientVars
    <3>4. thread
      BY <1>25 DEF ProcessTake
    <3>5. cached = Bytes(packets) /\ (cached > 0 => cached < QueueLimit)
      BY <3>4
    <3>6. cached' = Bytes(packets') /\ cached' <= cached /\ cached' \in Nat
      BY <3>1, <3>2, <3>5
    <3>7. cached' > 0 => cached' < QueueLimit
      BY <3>2, <3>5, <3>6, PlayerAssumption
    <3>8. mpc \in {"addLock", "addPush"} => cached' + Size[next] < QueueLimit
      BY <3>2, <3>4, <3>6, PlayerAssumption, SMTT(30)
    <3>. QED  BY <3>3, <3>4, <3>6, <3>7, <3>8
  <2>. QED  BY <1>25, <2>1, <2>2 DEF ProcessTake, DropHand
<1>26. CASE ProcessLockDecoder
  BY <1>26 DEF ProcessLockDecoder, WorkerGoto, threadVars, clientVars,
     historyVars
<1>27. CASE ProcessChoose
  BY <1>27 DEF ProcessChoose, WorkerGoto, FreeHand, DropHand, FlushHitsHand,
     InHand, threadVars, clientVars
<1>28. CASE DecodePacket
  BY <1>28 DEF DecodePacket, FreeHand, HasRoom, InHand, threadVars, clientVars
<1>29. CASE DecodeSleep
  BY <1>29 DEF DecodeSleep, WorkerGoto, HasRoom, threadVars, clientVars,
     historyVars
<1>30. CASE DecodeAwake
  BY <1>30 DEF DecodeAwake, WorkerGoto, FreeHand, InHand, threadVars, clientVars
<1>31. CASE ProcessUnlockDecoder
  BY <1>31 DEF ProcessUnlockDecoder, WorkerGoto, threadVars, clientVars,
     historyVars
<1>32. CASE ProcessExit
  BY <1>32 DEF ProcessExit, FreeHand, InHand, threadVars, clientVars
<1>33. CASE SpuriousWakeup
  BY <1>33 DEF SpuriousWakeup, WorkerGoto, threadVars, clientVars, historyVars
<1>34. CASE DecoderConsumes
  BY <1>34 DEF DecoderConsumes, threadVars, clientVars, workerVars, historyVars
<1>35. CASE UNCHANGED vars
  BY <1>35 DEF vars, threadVars, clientVars, workerVars, historyVars
<1>. QED
  BY <1>1, <1>2, <1>3, <1>4, <1>5, <1>6, <1>7, <1>8, <1>9, <1>10, <1>11, <1>12,
     <1>13, <1>14, <1>15, <1>16, <1>17, <1>18, <1>19, <1>20, <1>21, <1>22,
     <1>23, <1>24, <1>25, <1>26, <1>27, <1>28, <1>29, <1>30, <1>31, <1>32,
     <1>33, <1>34, <1>35
  DEF Next, ClientCall, ClientStep, WorkerStep
\* A step that frees, decodes and marks nothing loses nothing.
LEMMA LostSame == UNCHANGED <<freed, mark, decoded>> => Lost' = Lost
  BY DEF Lost

\* Freeing the packet in hand loses that one at most.
LEMMA LostOne ==
    ASSUME freed' = freed \cup InHand, UNCHANGED <<mark, decoded>>, Lost = {}
    PROVE  \A p, q \in Lost' : p = q
<1>1. ASSUME NEW p \in Lost' PROVE p = hand
  <2>1. p \in freed \cup InHand /\ p >= mark
        /\ \A i \in 1 .. Len(decoded) : decoded[i] # p
    BY DEF Lost
  <2>2. p \in freed => p \in Lost
    BY <2>1 DEF Lost
  <2>. QED  BY <2>1, <2>2 DEF InHand
<1>. QED  BY <1>1

\* Only a packet in hand while m_flush is set is lost.
LEMMA LostStep == IInv /\ PacketInv /\ LostInv /\ [Next]_vars => LostInv'
<1> SUFFICES ASSUME IInv, PacketInv, LostInv, [Next]_vars PROVE LostInv'
  OBVIOUS
<1>. USE Constants DEF IInv, TypeOK, DataOK, FlagsOK, LockInv, ThreadInv,
         HandInv, LostInv, Nobody, Client, Worker, NoPacket
<1>1. CASE CallAddPacket
  <2>1. UNCHANGED <<freed, mark, decoded>>
    BY <1>1 DEF CallAddPacket, Start, threadVars, workerVars, historyVars
  <2>. QED  BY <1>1, <2>1, LostSame DEF CallAddPacket, Start, threadVars,
     workerVars, historyVars
<1>2. CASE CallFlush
  <2>1. UNCHANGED <<freed, mark, decoded>>
    BY <1>2 DEF CallFlush, Start, threadVars, workerVars, historyVars
  <2>. QED  BY <1>2, <2>1, LostSame DEF CallFlush, Start, threadVars,
     workerVars, historyVars
<1>3. CASE CallReset
  <2>1. UNCHANGED <<freed, mark, decoded>>
    BY <1>3 DEF CallReset, Start, threadVars, workerVars, historyVars
  <2>. QED  BY <1>3, <2>1, LostSame DEF CallReset, Start, threadVars,
     workerVars, historyVars
<1>4. CASE CallClose
  <2>1. UNCHANGED <<freed, mark, decoded>>
    BY <1>4 DEF CallClose, Start, threadVars, workerVars, historyVars
  <2>. QED  BY <1>4, <2>1, LostSame DEF CallClose, Start, threadVars,
     workerVars, historyVars
<1>5. CASE CallOpen
  <2>1. UNCHANGED <<freed, mark, decoded>>
    BY <1>5 DEF CallOpen, Start, threadVars, workerVars, historyVars
  <2>. QED  BY <1>5, <2>1, LostSame DEF CallOpen, Start, threadVars, workerVars,
     historyVars
<1>6. CASE AddLock
  <2>1. UNCHANGED <<freed, mark, decoded>>
    BY <1>6 DEF AddLock, Goto, threadVars, workerVars, historyVars
  <2>. QED  BY <1>6, <2>1, LostSame DEF AddLock, Goto, threadVars, workerVars,
     historyVars
<1>7. CASE AddPush
  <2>1. UNCHANGED <<freed, mark, decoded>>
    BY <1>7 DEF AddPush, threadVars, workerVars, historyVars
  <2>. QED  BY <1>7, <2>1, LostSame DEF AddPush, threadVars, workerVars,
     historyVars
<1>8. CASE AddBroadcast
  <2>1. UNCHANGED <<freed, mark, decoded>>
    BY <1>8 DEF AddBroadcast, Return, WakeWorker, threadVars, historyVars
  <2>. QED  BY <1>8, <2>1, LostSame DEF AddBroadcast, Return, WakeWorker,
     threadVars, historyVars
<1>9. CASE FlushRequest
  <2>1. UNCHANGED <<freed, mark, decoded>>
    BY <1>9 DEF FlushRequest, Goto, threadVars, workerVars, historyVars
  <2>. QED  BY <1>9, <2>1, LostSame DEF FlushRequest, Goto, threadVars,
     workerVars, historyVars
<1>10. CASE FlushLock
  <2>1. UNCHANGED <<freed, mark, decoded>>
    BY <1>10 DEF FlushLock, Goto, threadVars, workerVars, historyVars
  <2>. QED  BY <1>10, <2>1, LostSame DEF FlushLock, Goto, threadVars, workerVars,
     historyVars
<1>11. CASE FlushLockDecoder
  <2>1. UNCHANGED <<freed, mark, decoded>>
    BY <1>11 DEF FlushLockDecoder, Goto, threadVars, workerVars, historyVars
  <2>. QED  BY <1>11, <2>1, LostSame DEF FlushLockDecoder, Goto, threadVars,
     workerVars, historyVars
<1>12. CASE FlushBody
  <2>1. freed' \subseteq 1 .. next - 1 /\ mark' = next
    <3>1. freed' = freed \cup Queued /\ mark' = next
      BY <1>12 DEF FlushBody
    <3>2. Queued = Gone + 1 .. next - 1
      BY QueuedRange DEF PacketInv
    <3>3. freed \subseteq 1 .. Gone /\ Gone \in Nat /\ Gone <= next - 1
      BY DEF PacketInv, OrderInv, FreedInv, Gone
    <3>. QED  BY <3>1, <3>2, <3>3
  <2>2. Lost' = {}
    <3>. SUFFICES ASSUME NEW p \in Lost' PROVE FALSE
      OBVIOUS
    <3>1. p \in freed' /\ p >= mark'
      BY DEF Lost
    <3>. QED  BY <2>1, <3>1
  <2>. QED  BY <1>12, <2>2 DEF FlushBody, Goto
<1>13. CASE FlushUnlockDecoder
  <2>1. UNCHANGED <<freed, mark, decoded>>
    BY <1>13 DEF FlushUnlockDecoder, Goto, threadVars, workerVars, historyVars
  <2>. QED  BY <1>13, <2>1, LostSame DEF FlushUnlockDecoder, Goto, threadVars,
     workerVars, historyVars
<1>14. CASE FlushUnlock
  <2>1. UNCHANGED <<freed, mark, decoded>>
    BY <1>14 DEF FlushUnlock, Goto, Return, threadVars, workerVars, historyVars
  <2>. QED  BY <1>14, <2>1, LostSame DEF FlushUnlock, Goto, Return, threadVars,
     workerVars, historyVars
<1>15. CASE ResetState
  <2>1. UNCHANGED <<freed, mark, decoded>>
    BY <1>15 DEF ResetState, Return, threadVars, workerVars, historyVars
  <2>. QED  BY <1>15, <2>1, LostSame DEF ResetState, Return, threadVars,
     workerVars, historyVars
<1>16. CASE CloseWake
  <2>1. UNCHANGED <<freed, mark, decoded>>
    BY <1>16 DEF CloseWake, Goto, WakeWorker, threadVars, historyVars
  <2>. QED  BY <1>16, <2>1, LostSame DEF CloseWake, Goto, WakeWorker, threadVars,
     historyVars
<1>17. CASE CloseStop
  <2>1. UNCHANGED <<freed, mark, decoded>>
    BY <1>17 DEF CloseStop, Goto, workerVars, historyVars
  <2>. QED  BY <1>17, <2>1, LostSame DEF CloseStop, Goto, workerVars, historyVars
<1>18. CASE CloseJoin
  <2>1. UNCHANGED <<freed, mark, decoded>>
    BY <1>18 DEF CloseJoin, Goto, historyVars
  <2>. QED  BY <1>18, <2>1, LostSame DEF CloseJoin, Goto, historyVars
<1>19. CASE CloseDecoder
  <2>1. UNCHANGED <<freed, mark, decoded>>
    BY <1>19 DEF CloseDecoder, Goto, Return, threadVars, workerVars, historyVars
  <2>. QED  BY <1>19, <2>1, LostSame DEF CloseDecoder, Goto, Return, threadVars,
     workerVars, historyVars
<1>20. CASE OpenDecoder
  <2>1. UNCHANGED <<freed, mark, decoded>>
    BY <1>20 DEF OpenDecoder, Goto, threadVars, workerVars, historyVars
  <2>. QED  BY <1>20, <2>1, LostSame DEF OpenDecoder, Goto, threadVars,
     workerVars, historyVars
<1>21. CASE OpenThread
  <2>1. UNCHANGED <<freed, mark, decoded>>
    BY <1>21 DEF OpenThread, Return, threadVars, historyVars
  <2>. QED  BY <1>21, <2>1, LostSame DEF OpenThread, Return, threadVars,
     historyVars
<1>22. CASE ProcessLock
  <2>1. UNCHANGED <<freed, mark, decoded>>
    BY <1>22 DEF ProcessLock, WorkerGoto, threadVars, clientVars, historyVars
  <2>. QED  BY <1>22, <2>1, LostSame DEF ProcessLock, WorkerGoto, threadVars,
     clientVars, historyVars
<1>23. CASE ProcessTest
  <2>1. UNCHANGED <<freed, mark, decoded>>
    BY <1>23 DEF ProcessTest, WorkerGoto, threadVars, clientVars, historyVars
  <2>. QED  BY <1>23, <2>1, LostSame DEF ProcessTest, WorkerGoto, threadVars,
     clientVars, historyVars
<1>24. CASE ProcessRelock
  <2>1. UNCHANGED <<freed, mark, decoded>>
    BY <1>24 DEF ProcessRelock, WorkerGoto, threadVars, clientVars, historyVars
  <2>. QED  BY <1>24, <2>1, LostSame DEF ProcessRelock, WorkerGoto, threadVars,
     clientVars, historyVars
<1>25. CASE ProcessTake
  <2>1. CASE UNCHANGED freed
    <3>1. UNCHANGED <<freed, mark, decoded, flushReq, mpc>> /\ (flush' => flush)
      BY <1>25, <2>1 DEF ProcessTake, DropHand, clientVars
    <3>. QED  BY <3>1, LostSame
  <2>2. CASE flush /\ DropHand
    <3>1. /\ UNCHANGED <<mark, decoded, flushReq, mpc>> /\ ~flush'
          /\ freed' = freed \cup InHand
      BY <1>25, <2>2 DEF ProcessTake, DropHand, FreeHand, clientVars
    <3>. QED  BY <2>2, <3>1, LostOne
  <2>. QED  BY <1>25, <2>1, <2>2 DEF ProcessTake, FlushHitsHand
<1>26. CASE ProcessLockDecoder
  <2>1. UNCHANGED <<freed, mark, decoded>>
    BY <1>26 DEF ProcessLockDecoder, WorkerGoto, threadVars, clientVars,
       historyVars
  <2>. QED  BY <1>26, <2>1, LostSame DEF ProcessLockDecoder, WorkerGoto,
     threadVars, clientVars, historyVars
<1>27. CASE ProcessChoose
  <2>1. CASE UNCHANGED freed
    <3>1. UNCHANGED <<freed, mark, decoded, flushReq, mpc>> /\ (flush' => flush)
      BY <1>27, <2>1 DEF ProcessChoose, DropHand, clientVars
    <3>. QED  BY <3>1, LostSame
  <2>2. CASE flush /\ DropHand
    <3>1. /\ UNCHANGED <<mark, decoded, flushReq, mpc>> /\ ~flush'
          /\ freed' = freed \cup InHand
      BY <1>27, <2>2 DEF ProcessChoose, DropHand, FreeHand, clientVars
    <3>. QED  BY <2>2, <3>1, LostOne
  <2>. QED  BY <1>27, <2>1, <2>2 DEF ProcessChoose, FlushHitsHand
<1>28. CASE DecodePacket
  <2>1. /\ freed' = freed \cup {hand} /\ decoded' = Append(decoded, hand)
        /\ UNCHANGED <<mark, flushReq, flush, mpc>> /\ hand \in Packets
    BY <1>28 DEF DecodePacket, FreeHand, InHand, clientVars
  <2>2. Lost' \subseteq Lost
    <3>1. SUFFICES ASSUME NEW p \in Lost' PROVE p \in Lost
      OBVIOUS
    <3>2. decoded'[Len(decoded) + 1] = hand /\ Len(decoded') = Len(decoded) + 1
          /\ \A i \in 1 .. Len(decoded) : decoded'[i] = decoded[i]
      BY <2>1, AppendQueue
    <3>3. /\ p \in freed' /\ p >= mark'
          /\ \A i \in 1 .. Len(decoded') : decoded'[i] # p
      BY DEF Lost
    <3>4. Len(decoded) \in Nat
      OBVIOUS
    <3>. QED  BY <2>1, <3>2, <3>3, <3>4 DEF Lost
  <2>. QED  BY <2>1, <2>2
<1>29. CASE DecodeSleep
  <2>1. UNCHANGED <<freed, mark, decoded>>
    BY <1>29 DEF DecodeSleep, WorkerGoto, HasRoom, threadVars, clientVars,
       historyVars
  <2>. QED  BY <1>29, <2>1, LostSame DEF DecodeSleep, WorkerGoto, HasRoom,
     threadVars, clientVars, historyVars
<1>30. CASE DecodeAwake
  <2>1. CASE flushReq
    BY <1>30, <2>1 DEF DecodeAwake, clientVars
  <2>2. CASE ~flushReq
    <3>1. UNCHANGED <<freed, mark, decoded, flushReq, flush, mpc>>
      BY <1>30, <2>2 DEF DecodeAwake, clientVars
    <3>. QED  BY <3>1, LostSame
  <2>. QED  BY <2>1, <2>2
<1>31. CASE ProcessUnlockDecoder
  <2>1. UNCHANGED <<freed, mark, decoded>>
    BY <1>31 DEF ProcessUnlockDecoder, WorkerGoto, threadVars, clientVars,
       historyVars
  <2>. QED  BY <1>31, <2>1, LostSame DEF ProcessUnlockDecoder, WorkerGoto,
     threadVars, clientVars, historyVars
<1>32. CASE ProcessExit
  <2>1. UNCHANGED <<freed, mark, decoded, flushReq, flush, mpc>>
    BY <1>32 DEF ProcessExit, FreeHand, InHand, clientVars
  <2>. QED  BY <2>1, LostSame
<1>33. CASE SpuriousWakeup
  <2>1. UNCHANGED <<freed, mark, decoded>>
    BY <1>33 DEF SpuriousWakeup, WorkerGoto, threadVars, clientVars, historyVars
  <2>. QED  BY <1>33, <2>1, LostSame DEF SpuriousWakeup, WorkerGoto, threadVars,
     clientVars, historyVars
<1>34. CASE DecoderConsumes
  <2>1. UNCHANGED <<freed, mark, decoded>>
    BY <1>34 DEF DecoderConsumes, threadVars, clientVars, workerVars, historyVars
  <2>. QED  BY <1>34, <2>1, LostSame DEF DecoderConsumes, threadVars, clientVars,
     workerVars, historyVars
<1>35. CASE UNCHANGED vars
  <2>1. UNCHANGED <<freed, mark, decoded>>
    BY <1>35 DEF vars, threadVars, clientVars, workerVars, historyVars
  <2>. QED  BY <1>35, <2>1, LostSame DEF vars, threadVars, clientVars,
     workerVars, historyVars
<1>. QED
  BY <1>1, <1>2, <1>3, <1>4, <1>5, <1>6, <1>7, <1>8, <1>9, <1>10, <1>11, <1>12,
     <1>13, <1>14, <1>15, <1>16, <1>17, <1>18, <1>19, <1>20, <1>21, <1>22,
     <1>23, <1>24, <1>25, <1>26, <1>27, <1>28, <1>29, <1>30, <1>31, <1>32,
     <1>33, <1>34, <1>35
  DEF Next, ClientCall, ClientStep, WorkerStep

LEMMA InitCloseInv == Init => CloseInv
<1> SUFFICES ASSUME Init PROVE CloseInv
  OBVIOUS
<1>1. CallInv /\ EmptyInv /\ DownInv
  BY DEF Init, CallInv, EmptyInv, DownInv
<1>2. CountInv
  BY BytesOfNone DEF Init, CountInv, QueuedBytes
<1>3. LostInv
  BY DEF Init, LostInv, Lost
<1>. QED  BY <1>1, <1>2, <1>3 DEF CloseInv

LEMMA CloseInductive == Spec => [](IInv /\ PacketInv /\ CloseInv)
<1>1. IInv /\ PacketInv /\ CloseInv /\ [Next]_vars => CloseInv'
  BY CallStep, EmptyStep, DownStep, CountStep, LostStep DEF CloseInv
<1>. QED  BY InitCloseInv, PacketInductive, <1>1, PTL DEF Spec

\* While there is a worker m_cached_size is the number of bytes queued, and they
\* stay below the limit: the test that AddPacket makes without the lock is still
\* true when it appends, since only the worker has changed the counter meanwhile,
\* and the assignments of Reset and Open meet an empty queue.
THEOREM CounterIsExact == Spec => []CachedExact
<1>1. IInv /\ CloseInv => CachedExact
  BY DEF CloseInv, CountInv, Failed, CachedExact
<1>. QED  BY <1>1, CloseInductive, PTL

\* However Flush, Reset, Close and the worker interleave, every accepted packet is in exactly
\* one place, so none leaks and none is freed twice.  When Close has returned, or an Open that
\* failed, and until Reset or Open, there is no thread and no decoder, and every packet
\* accepted is freed.
THEOREM NoPacketLost == Spec => []PacketAccounting
<1>1. ASSUME IInv, PacketInv, CloseInv, mpc = "idle", abort
      PROVE  /\ ~thread /\ ppc = "none" /\ ~decoder
             /\ freed = 1 .. next - 1
  <2>1. ~thread /\ ~decoder /\ packets = <<>>
    BY <1>1 DEF CloseInv, CallInv, DownInv
  <2>2. ppc = "none" /\ hand = NoPacket
    BY <1>1, <2>1 DEF IInv, ThreadInv, HandInv
  <2>3. next - 1 \in Int /\ Gone = next - 1
    BY <1>1, <2>1, Constants DEF IInv, TypeOK, DataOK, Gone, Packets
  <2>. QED
    BY <1>1, <2>1, <2>2, <2>3 DEF PacketInv, FreedInv, NoPacket
<1>2. IInv /\ PacketInv /\ CloseInv => PacketAccounting
  BY <1>1, PacketHasPlace DEF PacketAccounting
<1>. QED  BY <1>2, CloseInductive, PTL

\* A Flush costs the client at most one of the packets that it submits after the
\* queue was emptied: the one that Process has in hand when it meets m_flush.
THEOREM FlushCostsOne == Spec => []AtMostOneLostPerFlush
<1>1. ASSUME \A p, q \in Lost : p = q PROVE Cardinality(Lost) <= 1
  <2>1. CASE Lost = {}
    BY <2>1, FS_EmptySet
  <2>2. CASE Lost # {}
    <3>1. PICK p : Lost = {p}
      BY <1>1, <2>2
    <3>2. Cardinality(Lost) = 1
      BY <3>1, FS_Singleton
    <3>. QED  BY <3>2
  <2>. QED  BY <2>1, <2>2
<1>2. CloseInv => AtMostOneLostPerFlush
  BY <1>1 DEF CloseInv, LostInv, AtMostOneLostPerFlush
<1>. QED  BY <1>2, CloseInductive, PTL

-----------------------------------------------------------------------------
(***************************************************************************)
(* VideoPlayer implements PacketChannel: what the client sees of the queue *)
(* and of the packet in the worker's hand is one first-in-first-out        *)
(* channel, which loses packets only while a Flush, a Reset or a Close, or *)
(* the m_flush that it leaves behind, is pending.                          *)
(***************************************************************************)

\* The refinement mapping of Channel.
Accepted == next - 1
Held     == IF hand = NoPacket THEN <<>> ELSE <<hand>>
Pending  == Held \o packets
Dropping == flush \/ flushReq \/ abort

\* Flush empties the queue while m_flush_requested is set.
RequestInv == mpc \in {"flushLock", "flushLockDecoder", "flushBody"} => flushReq

\* What the channel's operators do to a queue with one packet before it.
LEMMA Before ==
    ASSUME NEW S, NEW e \in S, NEW q \in Seq(S)
    PROVE  /\ <<e>> \o q \in Seq(S) /\ <<e>> \o q # <<>>
           /\ Len(<<e>> \o q) = Len(q) + 1
           /\ Head(<<e>> \o q) = e
           /\ Tail(<<e>> \o q) = q
           /\ \A x \in S : Append(<<e>> \o q, x) = <<e>> \o Append(q, x)
           /\ SubSeq(<<e>> \o q, 2, Len(<<e>> \o q)) = q
           /\ SubSeq(<<e>> \o q, 1, 1) = <<e>>
           /\ <<e>> \o <<>> = <<e>>
<1>1. SubSeq(<<e>> \o q, 1, 1) = <<e>>
  <2>1. /\ SubSeq(<<e>> \o q, 1, 1) \in Seq(S)
        /\ Len(SubSeq(<<e>> \o q, 1, 1)) = 1
        /\ SubSeq(<<e>> \o q, 1, 1)[1] = e
    OBVIOUS
  <2>2. ASSUME NEW s \in Seq(S), Len(s) = 1, s[1] = e PROVE s = <<e>>
    BY <2>2
  <2>. QED  BY <2>1, <2>2
<1>2. SubSeq(<<e>> \o q, 2, Len(<<e>> \o q)) = q
  OBVIOUS
<1>3. <<e>> \o q \in Seq(S) /\ <<e>> \o q # <<>> /\ Len(<<e>> \o q) = Len(q) + 1
  OBVIOUS
<1>4. Head(<<e>> \o q) = e /\ Tail(<<e>> \o q) = q
  OBVIOUS
<1>5. \A x \in S : Append(<<e>> \o q, x) = <<e>> \o Append(q, x)
  OBVIOUS
<1>6. <<e>> \o <<>> = <<e>>
  OBVIOUS
<1>. QED  BY <1>1, <1>2, <1>3, <1>4, <1>5, <1>6

\* No Flush is under way initially.
LEMMA InitRequestInv == Init => RequestInv
  BY DEF Init, RequestInv

\* m_flush_requested is cleared only where no Flush has set it since.
LEMMA StepRequestInv == IInv /\ RequestInv /\ [Next]_vars => RequestInv'
<1> SUFFICES ASSUME IInv, RequestInv, [Next]_vars PROVE RequestInv'
  OBVIOUS
<1>1. CASE CallAddPacket
  BY <1>1 DEF CallAddPacket, Start, RequestInv
<1>2. CASE CallFlush
  BY <1>2 DEF CallFlush, Start, RequestInv
<1>3. CASE CallReset
  BY <1>3 DEF CallReset, Start, RequestInv
<1>4. CASE CallClose
  BY <1>4 DEF CallClose, Start, RequestInv
<1>5. CASE CallOpen
  BY <1>5 DEF CallOpen, Start, RequestInv
<1>6. CASE AddLock
  BY <1>6 DEF AddLock, Goto, RequestInv
<1>7. CASE AddPush
  BY <1>7 DEF AddPush, RequestInv
<1>8. CASE AddBroadcast
  BY <1>8 DEF AddBroadcast, Return, RequestInv
<1>9. CASE FlushRequest
  BY <1>9 DEF FlushRequest, Goto, RequestInv
<1>10. CASE FlushLock
  BY <1>10 DEF FlushLock, Goto, RequestInv
<1>11. CASE FlushLockDecoder
  BY <1>11 DEF FlushLockDecoder, Goto, RequestInv
<1>12. CASE FlushBody
  BY <1>12 DEF FlushBody, Goto, RequestInv
<1>13. CASE FlushUnlockDecoder
  BY <1>13 DEF FlushUnlockDecoder, Goto, RequestInv
<1>14. CASE FlushUnlock
  BY <1>14 DEF FlushUnlock, Goto, Return, RequestInv
<1>15. CASE ResetState
  BY <1>15 DEF ResetState, Return, RequestInv
<1>16. CASE CloseWake
  BY <1>16 DEF CloseWake, Goto, RequestInv
<1>17. CASE CloseStop
  BY <1>17 DEF CloseStop, Goto, RequestInv
<1>18. CASE CloseJoin
  BY <1>18 DEF CloseJoin, Goto, RequestInv
<1>19. CASE CloseDecoder
  BY <1>19 DEF CloseDecoder, Goto, Return, RequestInv
<1>20. CASE OpenDecoder
  BY <1>20 DEF OpenDecoder, Goto, RequestInv
<1>21. CASE OpenThread
  BY <1>21 DEF OpenThread, Return, RequestInv
<1>22. CASE ProcessLock
  BY <1>22 DEF ProcessLock, clientVars, RequestInv
<1>23. CASE ProcessTest
  BY <1>23 DEF ProcessTest, clientVars, RequestInv
<1>24. CASE ProcessRelock
  BY <1>24 DEF ProcessRelock, clientVars, RequestInv
<1>25. CASE ProcessTake
  BY <1>25 DEF ProcessTake, clientVars, RequestInv
<1>26. CASE ProcessLockDecoder
  BY <1>26 DEF ProcessLockDecoder, clientVars, RequestInv
<1>27. CASE ProcessChoose
  BY <1>27 DEF ProcessChoose, clientVars, RequestInv
<1>28. CASE DecodePacket
  BY <1>28 DEF DecodePacket, clientVars, RequestInv
<1>29. CASE DecodeSleep
  BY <1>29 DEF DecodeSleep, clientVars, RequestInv
<1>30. CASE DecodeAwake
  BY <1>30 DEF DecodeAwake, clientVars, RequestInv
<1>31. CASE ProcessUnlockDecoder
  BY <1>31 DEF ProcessUnlockDecoder, clientVars, RequestInv
<1>32. CASE ProcessExit
  BY <1>32 DEF ProcessExit, clientVars, RequestInv
<1>33. CASE SpuriousWakeup
  BY <1>33 DEF SpuriousWakeup, clientVars, RequestInv
<1>34. CASE DecoderConsumes
  BY <1>34 DEF DecoderConsumes, clientVars, RequestInv
<1>35. CASE UNCHANGED vars
  BY <1>35 DEF vars, clientVars, RequestInv
<1>. QED
  BY <1>1, <1>2, <1>3, <1>4, <1>5, <1>6, <1>7, <1>8, <1>9, <1>10, <1>11, <1>12,
     <1>13, <1>14, <1>15, <1>16, <1>17, <1>18, <1>19, <1>20, <1>21, <1>22,
     <1>23, <1>24, <1>25, <1>26, <1>27, <1>28, <1>29, <1>30, <1>31, <1>32,
     <1>33, <1>34, <1>35
  DEF Next, ClientCall, ClientStep, WorkerStep

\* The steps of the channel, in terms of the mapping.
Unseen == UNCHANGED <<next, hand, packets, decoded, flush, flushReq, abort>>

\* A step that touches none of these is a stuttering step of the channel.
LEMMA UnseenStutters == Unseen => UNCHANGED Channel!vars
  BY DEF Unseen, Channel!vars

\* Setting m_flush_requested, m_flush or m_bAbort is a request to drop.
LEMMA Requests ==
    UNCHANGED <<next, hand, packets, decoded>> /\ Dropping' = TRUE => Channel!Next
  BY DEF Dropping, Channel!Next, Channel!Request

\* Clearing all three settles it.
LEMMA Settles ==
    UNCHANGED <<next, hand, packets, decoded>> /\ Dropping' = FALSE => Channel!Next
  BY DEF Dropping, Channel!Next, Channel!Settle

\* The packet in hand is dropped.
LEMMA DropsHand ==
    ASSUME IInv, Dropping, hand # NoPacket, hand' = NoPacket,
           UNCHANGED <<next, packets, decoded>>
    PROVE  Channel!Next
<1>1. packets \in Seq(Packets) /\ hand \in Packets
  BY DEF IInv, TypeOK, DataOK
<1>2. /\ Pending = <<hand>> \o packets /\ Pending' = packets
      /\ Len(Pending) = Len(packets) + 1
  BY <1>1, Before DEF Pending, Held
<1>3. Pending' = SubSeq(Pending, 2, Len(Pending))
  BY <1>1, <1>2, Before
<1>4. 2 \in 1 .. Len(Pending) + 1 /\ Len(Pending) \in 0 .. Len(Pending)
  BY <1>1, <1>2
<1>5. Dropping' \in BOOLEAN
  BY DEF Dropping
<1>. QED
  BY <1>3, <1>4, <1>5
  DEF Channel!Next, Channel!Drop, Pending, Held, Dropping

\* The initial state is the channel's.
LEMMA InitRefines == Init => Channel!Init
  BY DEF Init, Channel!Init, NoPacket

\* Every step is a step of the channel, or one that it does not see.
LEMMA StepRefines ==
    IInv /\ RequestInv /\ [Next]_vars => [Channel!Next]_Channel!vars
<1> SUFFICES ASSUME IInv, RequestInv, [Next]_vars
             PROVE  [Channel!Next]_Channel!vars
  OBVIOUS
<1>1. CASE CallAddPacket
  BY <1>1, UnseenStutters DEF CallAddPacket, Start, workerVars, historyVars,
     Unseen
<1>2. CASE CallFlush
  BY <1>2, UnseenStutters DEF CallFlush, Start, workerVars, historyVars,
     Unseen
<1>3. CASE CallReset
  BY <1>3, UnseenStutters DEF CallReset, Start, workerVars, historyVars,
     Unseen
<1>4. CASE CallClose
  BY <1>4, Requests DEF CallClose, Start, workerVars, historyVars, Dropping
<1>5. CASE CallOpen
  <2>1. CASE thread
    BY <1>5, <2>1, Requests DEF CallOpen, Start, workerVars, historyVars, Dropping
  <2>2. CASE ~thread
    BY <1>5, <2>2, UnseenStutters DEF CallOpen, Start, workerVars, historyVars, Unseen
  <2>. QED  BY <2>1, <2>2
<1>6. CASE AddLock
  BY <1>6, UnseenStutters DEF AddLock, Goto, workerVars, historyVars, Unseen
<1>7. CASE AddPush
  <2>1. next \in Packets /\ packets \in Seq(Packets)
    BY <1>7 DEF AddPush, IInv, ThreadInv, TypeOK, DataOK
  <2>2. /\ next' = next + 1 /\ packets' = Append(packets, next)
        /\ UNCHANGED <<hand, decoded, flush, flushReq, abort>>
    BY <1>7 DEF AddPush, workerVars, historyVars
  <2>3. Pending' = Append(Pending, next)
    <3>1. CASE hand = NoPacket
      BY <2>1, <2>2, <3>1 DEF Pending, Held
    <3>2. CASE hand # NoPacket
      <4>1. hand \in Packets
        BY <3>2 DEF IInv, TypeOK, DataOK
      <4>. QED  BY <2>1, <2>2, <3>2, <4>1, Before DEF Pending, Held
    <3>. QED  BY <3>1, <3>2
  <2>4. Accepted' = Accepted + 1 /\ next = Accepted + 1
    BY <2>1, <2>2 DEF Accepted, Packets
  <2>. QED
    BY <2>2, <2>3, <2>4
    DEF Channel!Next, Channel!Accept, Pending, Held, Accepted
<1>8. CASE AddBroadcast
  BY <1>8, UnseenStutters DEF AddBroadcast, Return, WakeWorker, historyVars,
     Unseen
<1>9. CASE FlushRequest
  BY <1>9, Requests DEF FlushRequest, Goto, workerVars, historyVars, Dropping
<1>10. CASE FlushLock
  BY <1>10, UnseenStutters DEF FlushLock, Goto, workerVars, historyVars,
     Unseen
<1>11. CASE FlushLockDecoder
  BY <1>11, UnseenStutters DEF FlushLockDecoder, Goto, workerVars,
     historyVars, Unseen
<1>12. CASE FlushBody
  <2>1. /\ packets' = <<>> /\ Dropping' = TRUE
        /\ UNCHANGED <<next, hand, decoded>>
    BY <1>12 DEF FlushBody, Goto, workerVars, Dropping
  <2>2. Dropping
    BY <1>12 DEF FlushBody, RequestInv, Dropping
  <2>3. packets \in Seq(Packets)
    BY DEF IInv, TypeOK, DataOK
  <2>4. PICK last \in 0 .. Len(Pending) : Pending' = SubSeq(Pending, 1, last)
    <3>1. CASE hand = NoPacket
      <4>1. Pending = packets /\ Pending' = <<>>
        BY <2>1, <2>3, <3>1 DEF Pending, Held
      <4>2. SubSeq(Pending, 1, 0) = <<>> /\ 0 \in 0 .. Len(Pending)
        BY <2>3, <4>1
      <4>. QED  BY <4>1, <4>2
    <3>2. CASE hand # NoPacket
      <4>1. hand \in Packets
        BY <3>2 DEF IInv, TypeOK, DataOK
      <4>2. /\ Pending = <<hand>> \o packets /\ Pending' = <<hand>>
            /\ Len(Pending) = Len(packets) + 1
        BY <2>1, <2>3, <3>2, <4>1, Before DEF Pending, Held
      <4>3. Pending' = SubSeq(Pending, 1, 1) /\ 1 \in 0 .. Len(Pending)
        BY <2>3, <4>1, <4>2, Before
      <4>. QED  BY <4>3
    <3>. QED  BY <3>1, <3>2
  <2>5. 1 \in 1 .. Len(Pending) + 1
    BY <2>4
  <2>. QED
    BY <2>1, <2>2, <2>4, <2>5
    DEF Channel!Next, Channel!Drop, Pending, Held, Dropping
<1>13. CASE FlushUnlockDecoder
  BY <1>13, UnseenStutters DEF FlushUnlockDecoder, Goto, workerVars,
     historyVars, Unseen
<1>14. CASE FlushUnlock
  BY <1>14, UnseenStutters DEF FlushUnlock, Goto, Return, workerVars,
     historyVars, Unseen
<1>15. CASE ResetState
  BY <1>15, Settles DEF ResetState, Return, workerVars, historyVars, Dropping
<1>16. CASE CloseWake
  BY <1>16, UnseenStutters DEF CloseWake, Goto, WakeWorker, historyVars,
     Unseen
<1>17. CASE CloseStop
  BY <1>17, UnseenStutters DEF CloseStop, Goto, workerVars, historyVars,
     Unseen
<1>18. CASE CloseJoin
  BY <1>18, UnseenStutters DEF CloseJoin, Goto, historyVars, Unseen
<1>19. CASE CloseDecoder
  BY <1>19, UnseenStutters DEF CloseDecoder, Goto, Return, workerVars,
     historyVars, Unseen
<1>20. CASE OpenDecoder
  <2>1. UNCHANGED <<next, hand, packets, decoded>>
    BY <1>20 DEF OpenDecoder, Goto, workerVars, historyVars
  <2>2. Dropping' \in BOOLEAN
    BY DEF Dropping
  <2>. QED  BY <2>1, <2>2, Requests, Settles
<1>21. CASE OpenThread
  BY <1>21, UnseenStutters DEF OpenThread, Return, historyVars, Unseen
<1>22. CASE ProcessLock
  BY <1>22, UnseenStutters DEF ProcessLock, WorkerGoto, clientVars,
     historyVars, Unseen
<1>23. CASE ProcessTest
  BY <1>23, UnseenStutters DEF ProcessTest, WorkerGoto, clientVars,
     historyVars, Unseen
<1>24. CASE ProcessRelock
  BY <1>24, UnseenStutters DEF ProcessRelock, WorkerGoto, clientVars,
     historyVars, Unseen
<1>25. CASE ProcessTake
  <2>1. hand = NoPacket
    BY <1>25 DEF ProcessTake, IInv, HandInv
  <2>2. CASE ~(stop \/ abort) /\ packets # <<>>
    <3>1. /\ hand' = Head(packets) /\ packets' = Tail(packets)
          /\ UNCHANGED <<next, decoded, flush, flushReq, abort>>
      BY <1>25, <2>1, <2>2
      DEF ProcessTake, FlushHitsHand, TakeFirst, clientVars
    <3>2. packets \in Seq(Packets)
      BY DEF IInv, TypeOK, DataOK
    <3>3. hand' # NoPacket
      BY <2>2, <3>1, <3>2, TailQueue, Constants
    <3>4. <<Head(packets)>> \o Tail(packets) = packets /\ <<>> \o packets = packets
      BY <2>2, <3>2
    <3>5. Pending' = Pending
      BY <2>1, <3>1, <3>3, <3>4 DEF Pending, Held
    <3>. QED  BY <3>1, <3>5 DEF Channel!vars, Pending, Held
  <2>3. CASE stop \/ abort \/ packets = <<>>
    BY <1>25, <2>1, <2>3, UnseenStutters
    DEF ProcessTake, FlushHitsHand, WorkerGoto, clientVars, Unseen
  <2>. QED  BY <2>2, <2>3
<1>26. CASE ProcessLockDecoder
  BY <1>26, UnseenStutters DEF ProcessLockDecoder, WorkerGoto, clientVars,
     historyVars, Unseen
<1>27. CASE ProcessChoose
  <2>1. CASE FlushHitsHand
    <3>1. /\ hand # NoPacket /\ hand' = NoPacket /\ Dropping
          /\ UNCHANGED <<next, packets, decoded>>
      BY <1>27, <2>1
      DEF ProcessChoose, FlushHitsHand, DropHand, FreeHand, clientVars, Dropping
    <3>. QED  BY <3>1, DropsHand
  <2>2. CASE ~FlushHitsHand
    BY <1>27, <2>2, UnseenStutters DEF ProcessChoose, WorkerGoto, clientVars, Unseen
  <2>. QED  BY <2>1, <2>2
<1>28. CASE DecodePacket
  <2>1. hand \in Packets /\ hand # NoPacket /\ packets \in Seq(Packets)
    BY <1>28, Constants DEF DecodePacket, IInv, HandInv, TypeOK, DataOK
  <2>2. /\ hand' = NoPacket /\ decoded' = Append(decoded, hand)
        /\ UNCHANGED <<next, packets, flush, flushReq, abort>>
    BY <1>28 DEF DecodePacket, FreeHand, clientVars
  <2>3. /\ Pending # <<>> /\ Head(Pending) = hand
        /\ Pending' = Tail(Pending)
    BY <2>1, <2>2, Before DEF Pending, Held
  <2>. QED
    BY <2>2, <2>3 DEF Channel!Next, Channel!Deliver, Pending, Held
<1>29. CASE DecodeSleep
  BY <1>29, UnseenStutters DEF DecodeSleep, WorkerGoto, clientVars,
     historyVars, Unseen
<1>30. CASE DecodeAwake
  <2>1. CASE flushReq
    <3>1. /\ hand # NoPacket /\ hand' = NoPacket /\ Dropping
          /\ UNCHANGED <<next, packets, decoded>>
      BY <1>30, <2>1 DEF DecodeAwake, FreeHand, clientVars, Dropping, IInv, HandInv
    <3>. QED  BY <3>1, DropsHand
  <2>2. CASE ~flushReq
    BY <1>30, <2>2, UnseenStutters DEF DecodeAwake, WorkerGoto, clientVars, Unseen
  <2>. QED  BY <2>1, <2>2
<1>31. CASE ProcessUnlockDecoder
  BY <1>31, UnseenStutters DEF ProcessUnlockDecoder, WorkerGoto, clientVars,
     historyVars, Unseen
<1>32. CASE ProcessExit
  <2>1. hand = NoPacket
    BY <1>32 DEF ProcessExit, IInv, HandInv
  <2>. QED
    BY <1>32, <2>1, UnseenStutters DEF ProcessExit, FreeHand, clientVars, Unseen
<1>33. CASE SpuriousWakeup
  BY <1>33, UnseenStutters DEF SpuriousWakeup, WorkerGoto, clientVars,
     historyVars, Unseen
<1>34. CASE DecoderConsumes
  BY <1>34, UnseenStutters DEF DecoderConsumes, clientVars, workerVars,
     historyVars, Unseen
<1>35. CASE UNCHANGED vars
  BY <1>35, UnseenStutters DEF vars, clientVars, workerVars, historyVars,
     Unseen
<1>. QED
  BY <1>1, <1>2, <1>3, <1>4, <1>5, <1>6, <1>7, <1>8, <1>9, <1>10, <1>11, <1>12,
     <1>13, <1>14, <1>15, <1>16, <1>17, <1>18, <1>19, <1>20, <1>21, <1>22,
     <1>23, <1>24, <1>25, <1>26, <1>27, <1>28, <1>29, <1>30, <1>31, <1>32,
     <1>33, <1>34, <1>35
  DEF Next, ClientCall, ClientStep, WorkerStep

\* The player is a channel, for any packets and any calls of the client.
THEOREM PlayerImplementsChannel == Spec => ImplementsChannel
<1>1. IInv /\ RequestInv /\ [Next]_vars => (IInv /\ RequestInv)'
  BY StepIInv, StepRequestInv
<1>2. Spec => [](IInv /\ RequestInv)
  BY InitIInv, InitRequestInv, <1>1, PTL DEF Spec
<1>. QED
  BY InitRefines, StepRefines, <1>2, PTL DEF Spec, ImplementsChannel, Channel!Spec
=============================================================================
