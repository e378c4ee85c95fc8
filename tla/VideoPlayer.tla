------------------------------ MODULE VideoPlayer ------------------------------
(***************************************************************************)
(* OMXPlayerVideo (OMXTranscoderVideo.cpp) on top of OMXThread: the        *)
(* client's thread calls Open, AddPacket, Flush, Reset and Close one after *)
(* the other; the worker thread runs Process, which takes the packets off  *)
(* m_packets and gives them to the decoder.  The two threads share two     *)
(* mutexes, a condition variable and four flags, some of them read or      *)
(* written without a lock.                                                 *)
(*                                                                         *)
(* One step is one access to shared state, or one critical section whose   *)
(* accesses are all to state that its mutex protects.  Packets are the     *)
(* numbers 1, 2, ... in the order in which the client submits them; all of *)
(* a packet that matters here is its number and its size.  Timestamps, the *)
(* frame rate, m_stream_id and m_open, which no method reads to decide     *)
(* anything, are left out.                                                 *)
(***************************************************************************)
EXTENDS Integers, Sequences, FiniteSets

CONSTANTS
    NumPackets,      \* how many packets the client has (bounds the run)
    Size,            \* OMXPacket::size of each packet
    QueueLimit,      \* m_config.queue_size * 1024 * 1024
    FifoSize,        \* total size of the decoder's input buffers
    Calls            \* the calls that the client makes

Packets == 1 .. NumPackets
AllCalls == {"open", "add", "flush", "reset", "close", "reopen"}

ASSUME PlayerAssumption ==
    /\ NumPackets \in Nat
    /\ Size \in [Packets -> Nat \ {0}]
    /\ QueueLimit \in Nat
    /\ FifoSize \in Nat
    /\ Calls \subseteq AllCalls

VARIABLES
    lock,        \* owner of m_lock
    decLock,     \* owner of m_lock_decoder
    abort,       \* m_bAbort
    stop,        \* m_bStop
    running,     \* m_running
    thread,      \* ThreadHandle() # 0: there is a thread to join
    flush,       \* m_flush
    flushReq,    \* m_flush_requested
    cached,      \* m_cached_size
    packets,     \* m_packets
    decoder,     \* m_decoder # NULL
    used,        \* bytes in the decoder's input buffers
    mpc,         \* where the client's thread is
    call,        \* the call that it executes
    ppc,         \* where the worker thread is
    hand,        \* Process's local variable omx_pkt
    next,        \* the next packet that the client submits
    decoded,     \* history: packets given to the decoder, in order
    freed,       \* history: packets released with OMXReader::FreePacket
    mark         \* history: packets before it were submitted before the
                 \* latest Flush emptied the queue

clientVars  == <<mpc, call, next>>
workerVars  == <<ppc, hand>>
threadVars  == <<stop, running, thread>>
historyVars == <<decoded, freed, mark>>
vars == <<lock, decLock, abort, threadVars, flush, flushReq, cached, packets,
          decoder, used, clientVars, workerVars, historyVars>>

Client   == "client"
Worker   == "worker"
Nobody   == "nobody"
NoPacket == 0

\* The positions of the client's thread, call by call, and of the worker.
ClientPC == {"idle", "addLock", "addPush", "addBroadcast",
             "flushRequest", "flushLock", "flushLockDecoder", "flushBody",
             "flushUnlockDecoder", "flushUnlock", "resetState",
             "closeWake", "closeStop", "closeJoin", "closeDecoder",
             "openDecoder", "openThread"}
WorkerPC == {"none", "lock", "test", "wait", "relock", "take", "lockDecoder",
             "choose", "space", "sleep", "unlockDecoder", "exit", "done"}

\* The packets that sit in m_packets, as a set.
Queued == {packets[i] : i \in 1 .. Len(packets)}
InHand == {hand} \ {NoPacket}

\* The sizes of the packets in q together, and what m_cached_size is meant to
\* count.
Bytes(q) ==
    LET sum[n \in 0 .. Len(q)] ==
            IF n = 0 THEN 0 ELSE sum[n - 1] + Size[q[n]]
    IN  sum[Len(q)]

QueuedBytes == Bytes(packets)

Init ==
    /\ lock = Nobody /\ decLock = Nobody
    /\ abort = FALSE /\ stop = FALSE /\ running = FALSE /\ thread = FALSE
    /\ flush = FALSE /\ flushReq = FALSE
    /\ cached = 0 /\ packets = <<>>
    /\ decoder = FALSE /\ used = 0
    /\ mpc = "idle" /\ call = "none"
    /\ ppc = "none" /\ hand = NoPacket
    /\ next = 1
    /\ decoded = <<>> /\ freed = {} /\ mark = 1

-----------------------------------------------------------------------------
(***************************************************************************)
(* The client's thread.  It makes one call at a time.  call says which one *)
(* it executes, and so where a nested Flush or Close returns to.           *)
(***************************************************************************)

Goto(at) == mpc' = at /\ UNCHANGED <<call, next>>
Return   == mpc' = "idle" /\ call' = "none" /\ UNCHANGED next

\* The client starts a call whose first step is at.
Start(name, at) ==
    /\ mpc = "idle"
    /\ name \in Calls
    /\ mpc' = at /\ call' = name
    /\ UNCHANGED next

\* AddPacket: the tests before Lock().  m_cached_size is read without the
\* lock.  A rejected packet changes nothing (a stuttering step): the client
\* keeps it and calls again.  The client calls it only after an Open.
CallAddPacket ==
    /\ Start("add", "addLock")
    /\ next \in Packets
    /\ decoder \/ abort
    /\ ~(stop \/ abort)
    /\ cached + Size[next] < QueueLimit
    /\ UNCHANGED <<lock, decLock, abort, threadVars, flush, flushReq, cached,
                   packets, decoder, used, workerVars, historyVars>>

AddLock ==
    /\ mpc = "addLock"
    /\ lock = Nobody
    /\ lock' = Client
    /\ Goto("addPush")
    /\ UNCHANGED <<decLock, abort, threadVars, flush, flushReq, cached,
                   packets, decoder, used, workerVars, historyVars>>

AddPush ==
    /\ mpc = "addPush"
    /\ cached' = cached + Size[next]
    /\ packets' = Append(packets, next)
    /\ next' = next + 1
    /\ lock' = Nobody
    /\ mpc' = "addBroadcast" /\ UNCHANGED call
    /\ UNCHANGED <<decLock, abort, threadVars, flush, flushReq, decoder, used,
                   workerVars, historyVars>>

\* Mutant: no broadcast.
WakeNobody == UNCHANGED <<ppc, hand>>

\* pthread_cond_broadcast: a worker that waits has to take m_lock again.
WakeWorker ==
    /\ ppc' = IF ppc = "wait" THEN "relock" ELSE ppc
    /\ UNCHANGED hand

AddBroadcast ==
    /\ mpc = "addBroadcast"
    /\ WakeWorker
    /\ Return
    /\ UNCHANGED <<lock, decLock, abort, threadVars, flush, flushReq, cached,
                   packets, decoder, used, historyVars>>

CallFlush ==
    /\ Start("flush", "flushRequest")
    /\ UNCHANGED <<lock, decLock, abort, threadVars, flush, flushReq, cached,
                   packets, decoder, used, workerVars, historyVars>>

CallReset ==
    /\ Start("reset", "flushRequest")
    /\ UNCHANGED <<lock, decLock, abort, threadVars, flush, flushReq, cached,
                   packets, decoder, used, workerVars, historyVars>>

\* Close sets m_bAbort before anything else, without a lock.
CallClose ==
    /\ Start("close", "flushRequest")
    /\ abort' = TRUE
    /\ UNCHANGED <<lock, decLock, threadVars, flush, flushReq, cached, packets,
                   decoder, used, workerVars, historyVars>>

\* Open on a player that has a thread closes it first.  A client whose calls
\* do not include "reopen" opens the player once, as main does.
CallOpen ==
    /\ "reopen" \in Calls \/ ~(decoder \/ abort)
    /\ IF thread THEN Start("open", "flushRequest") /\ abort' = TRUE
                 ELSE Start("open", "openDecoder") /\ UNCHANGED abort
    /\ UNCHANGED <<lock, decLock, threadVars, flush, flushReq, cached, packets,
                   decoder, used, workerVars, historyVars>>

\* Flush, one step for each access that the worker can see.
FlushRequest ==
    /\ mpc = "flushRequest"
    /\ flushReq' = TRUE
    /\ Goto("flushLock")
    /\ UNCHANGED <<lock, decLock, abort, threadVars, flush, cached, packets,
                   decoder, used, workerVars, historyVars>>

FlushLock ==
    /\ mpc = "flushLock"
    /\ lock = Nobody
    /\ lock' = Client
    /\ Goto("flushLockDecoder")
    /\ UNCHANGED <<decLock, abort, threadVars, flush, flushReq, cached,
                   packets, decoder, used, workerVars, historyVars>>

FlushLockDecoder ==
    /\ mpc = "flushLockDecoder"
    /\ decLock = Nobody
    /\ decLock' = Client
    /\ Goto("flushBody")
    /\ UNCHANGED <<lock, abort, threadVars, flush, flushReq, cached, packets,
                   decoder, used, workerVars, historyVars>>

\* Under both locks.  m_decoder->Reset() takes the decoder's input back, except
\* after an error of the component, when it leaves it alone.
FlushBody ==
    /\ mpc = "flushBody"
    /\ flushReq' = FALSE
    /\ flush' = TRUE
    /\ packets' = <<>>
    /\ freed' = freed \cup Queued
    /\ cached' = 0
    /\ used' \in IF decoder THEN {0, used} ELSE {used}
    /\ mark' = next
    /\ Goto("flushUnlockDecoder")
    /\ UNCHANGED <<lock, decLock, abort, threadVars, decoder, workerVars,
                   decoded>>

FlushUnlockDecoder ==
    /\ mpc = "flushUnlockDecoder"
    /\ decLock' = Nobody
    /\ Goto("flushUnlock")
    /\ UNCHANGED <<lock, abort, threadVars, flush, flushReq, cached, packets,
                   decoder, used, workerVars, historyVars>>

\* The end of Flush: back to the client, to Reset or to Close.
FlushUnlock ==
    /\ mpc = "flushUnlock"
    /\ lock' = Nobody
    /\ CASE call = "flush" -> Return
         [] call = "reset" -> Goto("resetState")
         [] OTHER -> Goto(IF thread THEN "closeWake" ELSE "closeDecoder")
    /\ UNCHANGED <<decLock, abort, threadVars, flush, flushReq, cached,
                   packets, decoder, used, workerVars, historyVars>>

\* The assignments of Reset after Flush, none of them under a lock.  Only the
\* one to m_flush changes anything while a worker runs.
ResetState ==
    /\ mpc = "resetState"
    /\ abort' = FALSE
    /\ flush' = FALSE
    /\ flushReq' = FALSE
    /\ cached' = 0
    /\ Return
    /\ UNCHANGED <<lock, decLock, threadVars, packets, decoder, used,
                   workerVars, historyVars>>

\* Close after Flush: Lock, broadcast, UnLock ...
CloseWake ==
    /\ mpc = "closeWake"
    /\ lock = Nobody
    /\ WakeWorker
    /\ Goto("closeStop")
    /\ UNCHANGED <<lock, decLock, abort, threadVars, flush, flushReq, cached,
                   packets, decoder, used, historyVars>>

\* Mutant: the thread is told to stop and not joined.
CloseStopOnly ==
    /\ mpc = "closeStop"
    /\ stop' = TRUE
    /\ Goto("closeDecoder")
    /\ UNCHANGED <<lock, decLock, abort, running, thread, flush, flushReq,
                   cached, packets, decoder, used, workerVars, historyVars>>

\* ... OMXThread::StopThread, which returns at once when m_running is unset ...
CloseStop ==
    /\ mpc = "closeStop"
    /\ IF running THEN stop' = TRUE /\ Goto("closeJoin")
                  ELSE UNCHANGED stop /\ Goto("closeDecoder")
    /\ UNCHANGED <<lock, decLock, abort, running, thread, flush, flushReq,
                   cached, packets, decoder, used, workerVars, historyVars>>

CloseJoin ==
    /\ mpc = "closeJoin"
    /\ ppc = "done"
    /\ ppc' = "none"
    /\ running' = FALSE
    /\ thread' = FALSE
    /\ Goto("closeDecoder")
    /\ UNCHANGED <<lock, decLock, abort, stop, flush, flushReq, cached,
                   packets, decoder, used, hand, historyVars>>

\* ... and CloseDecoder.  Close returns to its caller, which may be Open: at
\* its start, or ("failed") after OpenDecoder failed.
CloseDecoder ==
    /\ mpc = "closeDecoder"
    /\ decoder' = FALSE
    /\ used' = 0
    /\ IF call = "open" THEN Goto("openDecoder") ELSE Return
    /\ UNCHANGED <<lock, decLock, abort, threadVars, flush, flushReq, cached,
                   packets, workerVars, historyVars>>

\* Open: the state that it sets, and OpenDecoder; when that fails, Close.
OpenDecoder ==
    /\ mpc = "openDecoder"
    /\ flush' = FALSE
    /\ cached' = 0
    /\ used' = 0
    /\ \/ /\ decoder' = TRUE
          /\ abort' = FALSE
          /\ Goto("openThread")
       \/ /\ decoder' = FALSE
          /\ abort' = TRUE
          /\ mpc' = "flushRequest" /\ call' = "failed" /\ UNCHANGED next
    /\ UNCHANGED <<lock, decLock, threadVars, flushReq, packets, workerVars,
                   historyVars>>

\* OMXThread::Create: refuses when m_running is set.  The result of
\* pthread_create is not looked at: when it fails, m_running is set and
\* m_thread is not.
OpenThread ==
    /\ mpc = "openThread"
    /\ IF running
       THEN UNCHANGED <<threadVars, ppc>>
       ELSE /\ stop' = FALSE
            /\ running' = TRUE
            /\ \/ thread' = TRUE /\ ppc' = "lock"
               \/ UNCHANGED <<thread, ppc>>
    /\ Return
    /\ UNCHANGED <<lock, decLock, abort, flush, flushReq, cached, packets,
                   decoder, used, hand, historyVars>>

ClientStep ==
    \/ AddLock \/ AddPush \/ AddBroadcast
    \/ FlushRequest \/ FlushLock \/ FlushLockDecoder \/ FlushBody
    \/ FlushUnlockDecoder \/ FlushUnlock \/ ResetState
    \/ CloseWake \/ CloseStop \/ CloseJoin \/ CloseDecoder
    \/ OpenDecoder \/ OpenThread

ClientCall ==
    CallAddPacket \/ CallFlush \/ CallReset \/ CallClose \/ CallOpen

-----------------------------------------------------------------------------
(***************************************************************************)
(* The worker thread: OMXPlayerVideo::Process and Decode.                  *)
(***************************************************************************)

WorkerGoto(at) == ppc' = at /\ UNCHANGED hand

\* Mutant: omx_pkt is not set to NULL.
FreeHandKeep == freed' = freed \cup InHand /\ UNCHANGED hand

\* OMXReader::FreePacket(omx_pkt); omx_pkt = NULL
FreeHand == freed' = freed \cup InHand /\ hand' = NoPacket

\* Mutant: a flush does not look at the packet in hand.
FlushMissesHand == FALSE

\* if(m_flush && omx_pkt)
FlushHitsHand == flush /\ hand # NoPacket

\* Mutant: m_flush is not reset.
DropHandAgain == FreeHand /\ UNCHANGED flush

DropHand == FreeHand /\ flush' = FALSE

\* Mutants: pop without the update of m_cached_size; from the wrong end.
TakeUncounted ==
    /\ hand' = Head(packets)
    /\ packets' = Tail(packets)
    /\ UNCHANGED cached

TakeLast ==
    /\ hand' = packets[Len(packets)]
    /\ packets' = SubSeq(packets, 1, Len(packets) - 1)
    /\ cached' = cached - Size[hand']

TakeFirst ==
    /\ hand' = Head(packets)
    /\ packets' = Tail(packets)
    /\ cached' = cached - Size[Head(packets)]

ProcessLock ==
    /\ ppc = "lock"
    /\ lock = Nobody
    /\ lock' = Worker
    /\ WorkerGoto("test")
    /\ UNCHANGED <<decLock, abort, threadVars, flush, flushReq, cached,
                   packets, decoder, used, clientVars, historyVars>>

\* The test before pthread_cond_wait, which gives m_lock up.  m_bStop and
\* m_bAbort are written without the lock, so they may change after it.
ProcessTest ==
    /\ ppc = "test"
    /\ IF ~(stop \/ abort) /\ packets = <<>>
       THEN lock' = Nobody /\ WorkerGoto("wait")
       ELSE UNCHANGED lock /\ WorkerGoto("take")
    /\ UNCHANGED <<decLock, abort, threadVars, flush, flushReq, cached,
                   packets, decoder, used, clientVars, historyVars>>

\* pthread_cond_wait may return without a broadcast; the caller does not loop.
SpuriousWakeup ==
    /\ ppc = "wait"
    /\ WorkerGoto("relock")
    /\ UNCHANGED <<lock, decLock, abort, threadVars, flush, flushReq, cached,
                   packets, decoder, used, clientVars, historyVars>>

ProcessRelock ==
    /\ ppc = "relock"
    /\ lock = Nobody
    /\ lock' = Worker
    /\ WorkerGoto("take")
    /\ UNCHANGED <<decLock, abort, threadVars, flush, flushReq, cached,
                   packets, decoder, used, clientVars, historyVars>>

\* The rest of the first critical section: leave, drop the packet in hand, or
\* take the first one off the queue.
ProcessTake ==
    /\ ppc = "take"
    /\ lock' = Nobody
    /\ IF stop \/ abort
       THEN /\ WorkerGoto("exit")
            /\ UNCHANGED <<flush, cached, packets, freed>>
       ELSE /\ ppc' = "lockDecoder"
            /\ IF FlushHitsHand
               THEN DropHand /\ UNCHANGED <<cached, packets>>
               ELSE /\ IF hand = NoPacket /\ packets # <<>>
                       THEN TakeFirst
                       ELSE UNCHANGED <<hand, cached, packets>>
                    /\ UNCHANGED <<flush, freed>>
    /\ UNCHANGED <<decLock, abort, threadVars, flushReq, decoder, used,
                   clientVars, decoded, mark>>

ProcessLockDecoder ==
    /\ ppc = "lockDecoder"
    /\ decLock = Nobody
    /\ decLock' = Worker
    /\ WorkerGoto("choose")
    /\ UNCHANGED <<lock, abort, threadVars, flush, flushReq, cached, packets,
                   decoder, used, clientVars, historyVars>>

\* Under m_lock_decoder: a flush drops the packet in hand and is over.
ProcessChoose ==
    /\ ppc = "choose"
    /\ IF FlushHitsHand
       THEN DropHand /\ ppc' = "unlockDecoder"
       ELSE /\ WorkerGoto(IF hand = NoPacket THEN "unlockDecoder" ELSE "space")
            /\ UNCHANGED <<flush, freed>>
    /\ UNCHANGED <<lock, decLock, abort, threadVars, flushReq, cached, packets,
                   decoder, used, clientVars, decoded, mark>>

\* Decode: wait for room; then m_decoder->Decode, whose result is ignored and
\* which may have placed any part of the packet.
\* Mutant: room for something is taken for room for the packet.
HasSomeRoom == used < FifoSize

HasRoom == used + Size[hand] <= FifoSize

DecodePacket ==
    /\ ppc = "space"
    /\ HasRoom
    /\ decoded' = Append(decoded, hand)
    /\ \E placed \in 0 .. Size[hand] : used' = used + placed
    /\ FreeHand
    /\ ppc' = "unlockDecoder"
    /\ UNCHANGED <<lock, decLock, abort, threadVars, flush, flushReq, cached,
                   packets, decoder, clientVars, mark>>

DecodeSleep ==
    /\ ppc = "space"
    /\ ~HasRoom
    /\ WorkerGoto("sleep")
    /\ UNCHANGED <<lock, decLock, abort, threadVars, flush, flushReq, cached,
                   packets, decoder, used, clientVars, historyVars>>

\* Mutants: Decode gives up in any case; in none.
DecodeGivesUp ==
    /\ ppc = "sleep"
    /\ FreeHand
    /\ ppc' = "unlockDecoder"
    /\ UNCHANGED <<lock, decLock, abort, threadVars, flush, flushReq, cached,
                   packets, decoder, used, clientVars, decoded, mark>>

DecodeInsists ==
    /\ ppc = "sleep"
    /\ WorkerGoto("space")
    /\ UNCHANGED <<lock, decLock, abort, threadVars, flush, flushReq, cached,
                   packets, decoder, used, clientVars, historyVars>>

\* m_flush_requested makes Decode give up; Process then frees the packet.
DecodeAwake ==
    /\ ppc = "sleep"
    /\ IF flushReq THEN FreeHand /\ ppc' = "unlockDecoder"
                   ELSE WorkerGoto("space") /\ UNCHANGED freed
    /\ UNCHANGED <<lock, decLock, abort, threadVars, flush, flushReq, cached,
                   packets, decoder, used, clientVars, decoded, mark>>

ProcessUnlockDecoder ==
    /\ ppc = "unlockDecoder"
    /\ decLock' = Nobody
    /\ WorkerGoto("lock")
    /\ UNCHANGED <<lock, abort, threadVars, flush, flushReq, cached, packets,
                   decoder, used, clientVars, historyVars>>

ProcessExit ==
    /\ ppc = "exit"
    /\ FreeHand
    /\ ppc' = "done"
    /\ UNCHANGED <<lock, decLock, abort, threadVars, flush, flushReq, cached,
                   packets, decoder, used, clientVars, decoded, mark>>

WorkerStep ==
    \/ ProcessLock \/ ProcessTest \/ ProcessRelock \/ ProcessTake
    \/ ProcessLockDecoder \/ ProcessChoose
    \/ DecodePacket \/ DecodeSleep \/ DecodeAwake
    \/ ProcessUnlockDecoder \/ ProcessExit

\* The decoder consumes input.
DecoderConsumes ==
    /\ decoder /\ used > 0
    /\ \E left \in 0 .. used - 1 : used' = left
    /\ UNCHANGED <<lock, decLock, abort, threadVars, flush, flushReq, cached,
                   packets, decoder, clientVars, workerVars, historyVars>>

Next == ClientCall \/ ClientStep \/ WorkerStep \/ SpuriousWakeup \/ DecoderConsumes

Spec == Init /\ [][Next]_vars

\* Both threads keep running, a call once begun is carried out, and the decoder
\* consumes what it was given; condition variables do not wake up spuriously
\* for ever.  The client does not go on flushing, closing and opening for ever
\* (main never does in its loop): mutexes are not fair, and a client that takes
\* them again and again could keep the worker out.
Fairness ==
    /\ WF_vars(ClientStep)
    /\ WF_vars(WorkerStep)
    /\ WF_vars(DecoderConsumes)
    /\ <>[][~SpuriousWakeup]_vars
    /\ <>[][~(CallFlush \/ CallReset \/ CallClose \/ CallOpen)]_vars

FairSpec == Spec /\ Fairness

-----------------------------------------------------------------------------
(***************************************************************************)
(* Properties                                                              *)
(***************************************************************************)

FlagsOK ==
    {abort, stop, running, thread, flush, flushReq, decoder} \subseteq BOOLEAN

DataOK ==
    /\ lock \in {Nobody, Client, Worker}
    /\ decLock \in {Nobody, Client, Worker}
    /\ cached \in Int
    /\ packets \in Seq(Packets)
    /\ used \in 0 .. FifoSize
    /\ mpc \in ClientPC
    /\ call \in Calls \cup {"none", "failed"}
    /\ ppc \in WorkerPC
    /\ hand \in Packets \cup {NoPacket}
    /\ next \in 1 .. NumPackets + 1
    /\ decoded \in Seq(Packets)
    /\ freed \subseteq Packets
    /\ mark \in 1 .. NumPackets + 1

\* Every variable has its type; in particular the decoder's buffers never hold
\* more than they have room for.
TypeOK == FlagsOK /\ DataOK

\* The worker touches m_decoder only while it exists and while no Flush resets
\* it: Close deletes the decoder only when no Decode can be under way.
DecoderSafe ==
    ppc \in {"space", "sleep"} =>
        decoder /\ mpc \notin {"flushBody", "openDecoder", "openThread"}

\* Every packet that AddPacket accepted is in exactly one place: in the queue,
\* in the worker's hand, or freed.  So none is leaked and none is used or freed
\* after it was freed.  When Close has returned all are freed, and there is
\* neither thread nor decoder.
PacketAccounting ==
    /\ Queued \cup InHand \cup freed = 1 .. next - 1
    /\ Queued \cap InHand = {}
    /\ (Queued \cup InHand) \cap freed = {}
    /\ Cardinality(Queued) = Len(packets)
    /\ mpc = "idle" /\ abort =>
          /\ freed = 1 .. next - 1
          /\ ~thread /\ ppc = "none" /\ ~decoder

\* While there is a worker, m_cached_size - which AddPacket reads without the
\* lock, and which Flush, Reset and Open set to 0 - is the number of bytes
\* queued and stays below the limit: no update is lost, the unsigned counter
\* never wraps.
CachedExact ==
    thread => cached = QueuedBytes /\ (cached > 0 => cached < QueueLimit)

\* The decoder receives packets in the order of submission, each at most once.
DecodedInOrder ==
    \A i, j \in 1 .. Len(decoded) : i < j => decoded[i] < decoded[j]

\* The packets submitted since the latest Flush emptied the queue that were
\* freed and not decoded.
Lost == {p \in freed : p >= mark /\ \A i \in 1 .. Len(decoded) : decoded[i] # p}

\* m_flush stays set when no packet was in hand, so a Flush can cost the client
\* a packet that it submits afterwards; it costs at most one, until the next
\* Flush or Close asks for more.
AtMostOneLostPerFlush == ~flushReq => Cardinality(Lost) <= 1

\* A packet submitted before the latest Flush emptied the queue is never given
\* to the decoder after it.
NoStaleDecode == [][decoded' # decoded => hand >= mark]_vars

\* Every call returns: in particular Flush and Close get past a Decode that
\* waits for room, and the join in Close past a worker that waits for packets.
CallReturns == (mpc # "idle") ~> (mpc = "idle")

\* Where there is a worker, it misses no wakeup: every accepted packet is freed
\* in the end, unless one that is larger than all the decoder's buffers keeps
\* the worker waiting.
AcceptedIsFreed ==
    \A p \in Packets :
        (thread /\ p < next) ~>
            (p \in freed \/ (hand # NoPacket /\ Size[hand] > FifoSize))

\* The queue and the packet in hand are one first-in-first-out channel that
\* loses packets only when a Flush, a Close or their after-effect is pending.
Channel == INSTANCE PacketChannel WITH
    accepted  <- next - 1,
    pending   <- (IF hand = NoPacket THEN <<>> ELSE <<hand>>) \o packets,
    delivered <- decoded,
    dropping  <- flush \/ flushReq \/ abort

ImplementsChannel == Channel!Spec

=============================================================================
