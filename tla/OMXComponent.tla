----------------------------- MODULE OMXComponent -----------------------------
(***************************************************************************)
(* COMXCoreComponent (OMXCore.cpp): the wrapper around one OpenMAX IL      *)
(* component with an input and an output port.  The client's thread (the   *)
(* methods of COMXVideo, one at a time under m_critSection) allocates      *)
(* buffers, takes them, hands them to the component, flushes the ports and *)
(* takes the component down.  The component's own thread returns buffers   *)
(* and reports events through the callbacks.                               *)
(*                                                                         *)
(* A call of the client is a script of steps: commands sent, waits for     *)
(* their completion, and the accesses to the buffer lists.  Each step and  *)
(* each part of a callback is atomic: what a step touches is protected by  *)
(* one of the mutexes, or is a single flag.  The input and the output half *)
(* of the code are the same but for names, so a port is a parameter.       *)
(*                                                                         *)
(* Initialize does not ask whether the wrapper still has a handle.  After  *)
(* a set-up that failed COMXVideo::PortSettingsChanged initializes the     *)
(* encoder again: the component behind the old handle is left to itself,   *)
(* with its commands, its callbacks still reach this object, and its       *)
(* buffers stay in the lists.                                              *)
(* SendCommand, GetState and the rest of the component behind the handle   *)
(* are external, modelled as OpenMAX IL and this code's use of it demand.  *)
(***************************************************************************)
EXTENDS Naturals, Sequences, FiniteSets, SequencesExt

CONSTANTS
    Count,           \* nBufferCountActual of each port
    Errors,          \* the kinds of error event that the component may raise
    MaxHandles,      \* how often Initialize may obtain a handle (bound)
    MaxPending,      \* the client flushes a port, or sets the state, while
                     \* fewer commands are unfinished, and initializes a live
                     \* component while no more are (bound)
    MaxBusy,         \* how many buffers the client and the component have at a
                     \* time (bound)
    MaxFaults        \* how many things may go wrong (bound): a command
                     \* refused, an allocation failed, an error event, a wait
                     \* that times out while the component could go on,
                     \* another call of the set-up failed

In  == "in"
Out == "out"
Ports  == {In, Out}
States == {"loaded", "idle", "executing"}
AllErrors == {"resource", "sameState", "other"}

ASSUME ComponentAssumption ==
    /\ Count \in [Ports -> Nat \ {0}]
    /\ Errors \subseteq AllErrors
    /\ MaxHandles \in Nat /\ MaxPending \in Nat /\ MaxBusy \in Nat
    /\ MaxFaults \in Nat

VARIABLES
    handle,      \* m_handle # NULL
    exiting,     \* m_exit
    resErr,      \* m_resource_error
    flushing,    \* m_flush_input, m_flush_output
    all,         \* m_omx_input_buffers, m_omx_output_buffers
    avail,       \* m_omx_input_avaliable, m_omx_output_available
    held,        \* buffers that the client took and has not handed on
    events,      \* m_omx_events
    script,      \* the steps left of the call that the client executes
    aborted,     \* an assert failed: the process is gone
    generation,  \* counts the handles, to tell their buffers apart
    state,       \* external: the component's state
    enabled,     \* external: bEnabled of the ports
    alive,       \* external: buffers allocated with the handle and not freed
    device,      \* external: buffers that the component works on
    cmds,        \* external: commands that it has not completed
    late,        \* external: commands that components behind handles which
                 \* were overwritten have not completed
    cb,          \* the callback that it is in
    dropped,     \* history: buffers that a callback dropped
    faults,      \* history: how many things have gone wrong
    home,        \* history: no buffer was out when Deinitialize began
    owed         \* history: commands whose completion may come when nobody
                 \* waits for it any more: a wait for it was given up, or
                 \* its handle overwritten

bufferVars  == <<all, avail, held, dropped>>
flagVars    == <<handle, exiting, resErr, flushing, generation>>
deviceVars  == <<state, enabled, alive, device, cmds>>
lateVars    == <<late, owed>>
vars == <<flagVars, bufferVars, events, script, aborted, deviceVars, cb,
          lateVars, faults, home>>

Buffers == (1 .. MaxHandles) \X Nat
Home(p) == held[p] = {} /\ device[p] = {} /\ dropped[p] = {}
CbIdle  == [at |-> "idle"]
InCallback(p) ==
    IF cb.at \in {"enter", "push"} /\ cb.port = p THEN {cb.buf} ELSE {}

\* The steps of the scripts.
Send(c, a, fail) == [do |-> "send", cmd |-> c, arg |-> a, fail |-> fail]
Wait(c, a)       == [do |-> "wait", cmd |-> c, arg |-> a]
Need(c, a)       == [do |-> "need", cmd |-> c, arg |-> a]
Do(what, p)      == [do |-> what, arg |-> p]

Init ==
    /\ handle = FALSE /\ exiting = FALSE /\ resErr = FALSE
    /\ flushing = [p \in Ports |-> FALSE]
    /\ all = [p \in Ports |-> {}]
    /\ avail = [p \in Ports |-> <<>>]
    /\ held = [p \in Ports |-> {}]
    /\ events = <<>> /\ script = <<>>
    /\ aborted = FALSE /\ generation = 0
    /\ state = "loaded"
    /\ enabled = [p \in Ports |-> TRUE]
    /\ alive = [p \in Ports |-> {}]
    /\ device = [p \in Ports |-> {}]
    /\ cmds = <<>> /\ cb = CbIdle
    /\ dropped = [p \in Ports |-> {}]
    /\ faults = 0 /\ home = TRUE /\ late = {} /\ owed = {}

Fault   == faults < MaxFaults /\ faults' = faults + 1
NoFault == UNCHANGED faults

-----------------------------------------------------------------------------
(***************************************************************************)
(* Events: m_omx_events, in order of arrival, no event twice.              *)
(***************************************************************************)

Complete(c, a) == [type |-> "complete", cmd |-> c, arg |-> a]
Error(e)       == [type |-> "error", err |-> e]

\* Mutant: the event is not removed before it is added.
AddEventAgain(e) == events' = Append(events, e)

\* RemoveEvent: the loop that erases every event equal to e.
Without(s, e) ==
    LET kept[i \in 0 .. Len(s)] ==
            IF i = 0 THEN <<>>
            ELSE IF s[i] = e THEN kept[i - 1]
            ELSE Append(kept[i - 1], s[i])
    IN  kept[Len(s)]

\* AddEvent: an equal event that is still queued is removed first.
AddEvent(e) == events' = Append(Without(events, e), e)

\* What ends a WaitForCommand: an error, whatever it belongs to, or the
\* completion.
Concerns(e, c, a) == e.type = "error" \/ e = Complete(c, a)

Awaited(c, a) == {i \in 1 .. Len(events) : Concerns(events[i], c, a)}
FirstAwaited(c, a) ==
    CHOOSE i \in Awaited(c, a) : \A j \in Awaited(c, a) : i <= j

Populated(p) == Cardinality(alive[p]) = Count[p]

\* The component can complete a command: it completes the commands for one port,
\* and those that change its state, in order.
CanComplete(i) ==
  LET cmd == cmds[i] IN
  /\ \A j \in 1 .. i - 1 : cmds[j].arg # cmd.arg /\ {cmds[j].arg, cmd.arg} \cap Ports # {}
  /\ CASE cmd.cmd = "flush"   -> device[cmd.arg] = {}
      [] cmd.cmd = "disable" -> device[cmd.arg] = {} /\ alive[cmd.arg] = {}
      [] cmd.cmd = "enable"  -> Populated(cmd.arg)
      [] OTHER -> /\ (state = "idle" /\ cmd.arg = "loaded") =>
                        \A p \in Ports : alive[p] = {}
                  /\ (state = "loaded" /\ cmd.arg = "idle") =>
                        \A p \in Ports : enabled[p] => Populated(p)

Stuck ==
    /\ cb = CbIdle
    /\ \A i \in 1 .. Len(cmds) :
          /\ ~CanComplete(i)
          /\ cmds[i].arg \in Ports => device[cmds[i].arg] = {}

-----------------------------------------------------------------------------
(***************************************************************************)
(* Calls of the client.                                                    *)
(***************************************************************************)

Idle == script = <<>> /\ ~aborted

\* A port that cannot be disabled ends the loop.
DisableAllPorts == << Send("disable", In, "go on"), Need("disable", In),
                      Send("disable", Out, "go on"), Need("disable", Out) >>

\* Mutant: the events of the earlier handle stay.
KeepEvents == UNCHANGED events

\* m_omx_events.clear(), without the mutex: an event that a component left
\* behind adds at the same time comes before it or after it.
ClearEvents == events' = <<>>

\* The only caller that has a handle is PortSettingsChanged, when the set-up
\* failed before: at one of the calls modelled here, or at another, a parameter
\* that is refused.  Decode has not used a buffer of the encoder then.
SetUpFailed ==
    /\ Len(cmds) <= MaxPending
    /\ \A p \in Ports : Home(p) /\ InCallback(p) = {}
    /\ IF faults > 0 THEN NoFault ELSE Fault

\* Initialize; DisableAllPorts is its script.  m_handle is overwritten, and what
\* the component behind it has not completed may still be reported.  When
\* OMX_GetHandle fails, Deinitialize, without a handle, only sets the flags.
Initialize ==
    /\ Idle /\ generation < MaxHandles
    /\ IF handle THEN SetUpFailed ELSE NoFault
    /\ resErr' = FALSE /\ ClearEvents
    /\ cmds' = <<>> /\ state' = "loaded"
    /\ enabled' = [p \in Ports |-> TRUE]
    /\ alive' = [p \in Ports |-> {}]
    /\ late' = late \cup Range(cmds) /\ owed' = late'
    /\ \/ /\ handle' = TRUE
          /\ generation' = generation + 1
          /\ exiting' = FALSE
          /\ flushing' = [p \in Ports |-> FALSE]
          /\ script' = DisableAllPorts
       \/ /\ handle' = FALSE
          /\ exiting' = TRUE
          /\ flushing' = [p \in Ports |-> TRUE]
          /\ UNCHANGED <<generation, script>>
    /\ UNCHANGED <<bufferVars, aborted, device, cb, home>>

Call(steps) ==
    /\ Idle /\ handle
    /\ script' = steps
    /\ UNCHANGED <<bufferVars, events, aborted, deviceVars, cb, lateVars, faults>>

\* No buffer of the port was allocated with this handle.
NoneAllocated(p) == \A b \in all[p] : b[1] # generation

SetState(s) == << Send("state", s, "skip"), Wait("state", s) >>

\* SetStateForComponent, with which the callers start the component once they
\* have allocated.  The test for the same state compares with OMX_StateMax and
\* never holds; no caller asks for the state that the component is in.
SetStateForComponent(s) ==
    /\ s # state /\ \E p \in Ports : ~NoneAllocated(p)
    /\ Len(cmds) < MaxPending
    /\ Call(SetState(s))
    /\ UNCHANGED <<flagVars, home>>

SendEnable(p) ==
    IF enabled[p] THEN <<>> ELSE << Send("enable", p, "return") >>

\* EnablePort: of the decoder, whose input buffers Open has allocated; the input
\* port of the encoder is enabled when it is called.
EnablePort(p) ==
    /\ SendEnable(p) # <<>> /\ ~NoneAllocated(In)
    /\ Call(SendEnable(p))
    /\ UNCHANGED <<flagVars, home>>

\* AllocInputBuffers, AllocOutputBuffers: the callers allocate once per handle;
\* the lists may hold buffers of a handle that was overwritten.
\* The results of SetStateForComponent are not looked at.
ToIdle ==
    CASE state = "idle"   -> <<>>
      [] state = "loaded" -> SetState("idle")
      [] OTHER            -> SetState("loaded") \o SetState("idle")

AllocBuffers(p) ==
    /\ NoneAllocated(p)
    /\ Call(ToIdle \o SendEnable(p) \o
            << Do("alloc", p), Need("enable", p), Do("ready", p) >>)
    /\ UNCHANGED <<flagVars, home>>

Busy == Cardinality(held[In] \cup device[In])
            + Cardinality(held[Out] \cup device[Out])

\* Mutant: the buffer stays at the head of the queue.
PeekAvailable(p) == UNCHANGED avail

PopAvailable(p) == avail' = [avail EXCEPT ![p] = Tail(@)]

\* GetInputBuffer, GetOutputBuffer when there is a buffer; the callers have
\* allocated before.  Without one the call returns NULL in the end and changes
\* nothing.
GetBuffer(p) ==
    /\ Idle /\ handle
    /\ ~flushing[p] /\ ~resErr
    /\ ~NoneAllocated(p)
    /\ Busy < MaxBusy
    /\ avail[p] # <<>>
    /\ held' = [held EXCEPT ![p] = @ \cup {Head(avail[p])}]
    /\ PopAvailable(p)
    /\ UNCHANGED <<flagVars, all, dropped, events, script, aborted, deviceVars,
                   cb, lateVars, faults, home>>

\* EmptyThisBuffer, FillThisBuffer; when the component refuses the buffer the
\* callers give it back through DecoderEmptyBufferDone, DecoderFillBufferDone.
SubmitBuffer(p, b) ==
    /\ Idle /\ handle
    /\ b \in held[p]
    /\ held' = [held EXCEPT ![p] = @ \ {b}]
    /\ \/ /\ device' = [device EXCEPT ![p] = @ \cup {b}]
          /\ UNCHANGED avail
       \/ /\ avail' = [avail EXCEPT ![p] = Append(@, b)]
          /\ UNCHANGED device
    /\ UNCHANGED <<flagVars, all, dropped, events, script, aborted, state,
                   enabled, alive, cmds, cb, lateVars, faults, home>>

\* Mutants: no flush; the command and the port swapped.
NoFlushSteps(p) == <<>>
SwappedFlushSteps(p) ==
    IF resErr THEN <<>> ELSE << Send(p, "flush", "go on"), Wait("flush", p) >>

FlushSteps(p) ==
    IF resErr THEN <<>> ELSE << Send("flush", p, "go on"), Wait("flush", p) >>

\* FlushInput, FlushOutput.
FlushPort(p) ==
    /\ FlushSteps(p) # <<>>
    /\ Len(cmds) < MaxPending
    /\ Call(FlushSteps(p))
    /\ UNCHANGED <<flagVars, home>>

\* Deinitialize: from here on the callbacks drop what the component returns.
Deinitialize ==
    /\ Call(<< Do("flush", In), Do("flush", Out), Do("free", Out),
               Do("free", In), Do("toIdle", Out), Do("toLoaded", Out),
               Do("freeHandle", Out) >>)
    /\ exiting' = TRUE
    /\ flushing' = [p \in Ports |-> TRUE]
    /\ home' = (cb = CbIdle /\ \A p \in Ports : Home(p))
    /\ UNCHANGED <<handle, resErr, generation>>

-----------------------------------------------------------------------------
(***************************************************************************)
(* The steps of the scripts.                                               *)
(***************************************************************************)

At(what) == script # <<>> /\ ~aborted /\ Head(script).do = what
Step     == Head(script)
Advance  == script' = Tail(script)

\* OMX_SendCommand.  On failure the caller goes on to its wait all the same,
\* skips it (SetStateForComponent), or returns (EnablePort in Alloc).
SendStep ==
    /\ At("send")
    /\ \/ /\ NoFault
          /\ cmds' = Append(cmds, [cmd |-> Step.cmd, arg |-> Step.arg])
          /\ enabled' = IF Step.cmd \in {"enable", "disable"}
                        THEN [enabled EXCEPT ![Step.arg] = Step.cmd = "enable"]
                        ELSE enabled
          /\ Advance
       \/ /\ Fault
          /\ script' = CASE Step.fail = "go on" -> Tail(script)
                         [] Step.fail = "skip"  -> Tail(Tail(script))
                         [] OTHER -> <<>>
          /\ UNCHANGED <<cmds, enabled>>
    /\ UNCHANGED <<flagVars, bufferVars, events, aborted, state, alive, device,
                   cb, lateVars, home>>

\* A wait whose result its caller looks at ends the call when it fails.
Return(ok) ==
    IF ok \/ Step.do = "wait" THEN Advance ELSE script' = <<>>

\* The wait is over, and the completion of its command may still come.
GiveUp == owed' = owed \cup {[cmd |-> Step.cmd, arg |-> Step.arg]}

\* WaitForCommand finds an event.  A "same state" error counts as success.
WaitEvent ==
    /\ At("wait") \/ At("need")
    /\ Awaited(Step.cmd, Step.arg) # {}
    /\ LET i == FirstAwaited(Step.cmd, Step.arg)
           e == events[i]
       IN  /\ events' = RemoveAt(events, i)
           /\ Return(e.type = "complete" \/ e = Error("sameState"))
           /\ IF e.type = "error" THEN GiveUp ELSE UNCHANGED owed
    /\ UNCHANGED <<flagVars, bufferVars, aborted, deviceVars, cb, late, faults,
                   home>>

\* WaitForCommand finds none: it succeeds after a resource error, and times out
\* otherwise.
WaitOver ==
    /\ At("wait") \/ At("need")
    /\ Awaited(Step.cmd, Step.arg) = {}
    /\ IF resErr \/ Stuck THEN NoFault ELSE Fault
    /\ Return(resErr)
    /\ GiveUp
    /\ UNCHANGED <<flagVars, bufferVars, events, aborted, deviceVars, cb, late,
                   home>>

\* The loop of Alloc: it stops at the first OMX_AllocateBuffer that fails.
AllocStep ==
    /\ At("alloc")
    /\ \E n \in 0 .. Count[Step.arg] :
          LET new == [i \in 1 .. n |-> <<generation, i>>]
          IN  /\ all' = [all EXCEPT ![Step.arg] = @ \cup Range(new)]
              /\ avail' = [avail EXCEPT ![Step.arg] = @ \o new]
              /\ alive' = [alive EXCEPT ![Step.arg] = @ \cup Range(new)]
              /\ IF n = Count[Step.arg] THEN Advance /\ NoFault
                                        ELSE script' = <<>> /\ Fault
    /\ UNCHANGED <<flagVars, held, dropped, events, aborted, state, enabled,
                   device, cmds, cb, lateVars, home>>

ReadyStep ==
    /\ At("ready")
    /\ flushing' = [flushing EXCEPT ![Step.arg] = FALSE]
    /\ Advance
    /\ UNCHANGED <<handle, exiting, resErr, generation, bufferVars, events,
                   aborted, deviceVars, cb, lateVars, faults, home>>

\* FreeInputBuffers, FreeOutputBuffers; DisablePort sends nothing to a port that
\* is disabled, and is waited for all the same.
FreeBuffers(p) ==
    IF all[p] = {} THEN <<>>
    ELSE (IF enabled[p] THEN << Send("disable", p, "go on") >> ELSE <<>>) \o
         << Do("release", p), Wait("disable", p), Do("check", p) >>

\* The two halves of TransitionToStateLoaded.
ToLoaded(half) ==
    CASE half = "toIdle"   /\ state = "executing" -> SetState("idle")
      [] half = "toLoaded" /\ state # "loaded"    -> SetState("loaded")
      [] OTHER -> <<>>

\* The calls inside Deinitialize look at the state when they are reached.
ExpandStep ==
    /\ At("flush") \/ At("toIdle") \/ At("toLoaded") \/ At("free")
    /\ script' = (CASE Step.do = "flush" -> FlushSteps(Step.arg)
                    [] Step.do = "free"  -> FreeBuffers(Step.arg)
                    [] OTHER -> ToLoaded(Step.do)) \o Tail(script)
    /\ UNCHANGED <<flagVars, bufferVars, events, aborted, deviceVars, cb,
                   lateVars, faults, home>>

\* OMX_FreeBuffer on every buffer of the port; those of a handle that was
\* overwritten are refused or freed, neither of which changes the component.
ReleaseStep ==
    /\ At("release")
    /\ alive' = [alive EXCEPT ![Step.arg] = {}]
    /\ Advance
    /\ UNCHANGED <<flagVars, bufferVars, events, aborted, state, enabled,
                   device, cmds, cb, lateVars, faults, home>>

\* Mutant: the assert counts m_input_buffer_count, not the buffers there are.
CountHome(p) == Count[p] = Len(avail[p])

\* Mutant: a build with NDEBUG, in which the assert is not evaluated.
NotAsserted(p) == TRUE

\* The operands of the assert.
AllHome(p) == Cardinality(all[p]) = Len(avail[p])

\* m_input_buffer_count, m_output_buffer_count.
BufferCount(p) == IF NoneAllocated(p) THEN 0 ELSE Count[p]

\* WaitForInputDone, WaitForOutputDone return: the count is reached, or a
\* resource error or the timeout ends the wait.  Only a timeout while the
\* component could still return a buffer counts as a fault.
WaitForDone(p) ==
    IF \/ Len(avail[p]) = BufferCount(p)
       \/ resErr
       \/ cb = CbIdle /\ device[p] = {}
    THEN NoFault ELSE Fault

\* The lists are emptied.
ClearLists(p) ==
    /\ all' = [all EXCEPT ![p] = {}]
    /\ avail' = [avail EXCEPT ![p] = <<>>]

\* The wait, whose result is ignored, the assert, and the lists cleared.
CheckStep ==
    /\ At("check")
    /\ LET p == Step.arg IN
       /\ WaitForDone(p)
       /\ IF AllHome(p)
          THEN /\ ClearLists(p)
               /\ Advance
               /\ UNCHANGED aborted
          ELSE /\ aborted' = TRUE
               /\ UNCHANGED <<all, avail, script>>
    /\ UNCHANGED <<flagVars, held, dropped, events, deviceVars, cb, lateVars,
                   home>>

\* OMX_FreeHandle ends the component behind the handle and its callbacks.
FreeHandleStep ==
    /\ At("freeHandle")
    /\ cb = CbIdle
    /\ handle' = FALSE /\ resErr' = FALSE
    /\ cmds' = <<>>
    /\ Advance
    /\ UNCHANGED <<exiting, flushing, generation, bufferVars, events, aborted,
                   state, enabled, alive, device, cb, lateVars, faults, home>>

-----------------------------------------------------------------------------
(***************************************************************************)
(* The component and its callbacks.                                        *)
(***************************************************************************)

Running == handle /\ ~aborted /\ cb = CbIdle

\* The component is done with a buffer: DecoderEmptyBufferDone or
\* DecoderFillBufferDone begins.
DeviceReturns(p, b) ==
    /\ Running
    /\ b \in device[p]
    /\ device' = [device EXCEPT ![p] = @ \ {b}]
    /\ cb' = [at |-> "enter", port |-> p, buf |-> b]
    /\ UNCHANGED <<flagVars, bufferVars, events, script, aborted, state,
                   enabled, alive, cmds, lateVars, faults, home>>

\* if(m_exit) return: the buffer goes nowhere.
BufferDoneEnter ==
    /\ cb.at = "enter" /\ ~aborted
    /\ IF exiting
       THEN /\ dropped' = [dropped EXCEPT ![cb.port] = @ \cup {cb.buf}]
            /\ cb' = CbIdle
       ELSE cb' = [cb EXCEPT !.at = "push"] /\ UNCHANGED dropped
    /\ UNCHANGED <<flagVars, all, avail, held, events, script, aborted,
                   deviceVars, lateVars, faults, home>>

BufferDonePush ==
    /\ cb.at = "push" /\ ~aborted
    /\ avail' = [avail EXCEPT ![cb.port] = Append(@, cb.buf)]
    /\ cb' = CbIdle
    /\ UNCHANGED <<flagVars, all, held, dropped, events, script, aborted,
                   deviceVars, lateVars, faults, home>>

\* A step between two states that OpenMAX IL does not allow is an error.
Allowed(s) == {state, s} \in {{"loaded", "idle"}, {"idle", "executing"}}

DeviceCompletes ==
    /\ Running
    /\ \E i \in 1 .. Len(cmds) : LET cmd == cmds[i] IN
       /\ CanComplete(i)
       /\ cmds' = RemoveAt(cmds, i)
       /\ IF cmd.cmd = "state" /\ ~Allowed(cmd.arg)
          THEN AddEvent(Error("other")) /\ UNCHANGED state
          ELSE /\ AddEvent(Complete(cmd.cmd, cmd.arg))
               /\ state' = IF cmd.cmd = "state" THEN cmd.arg ELSE state
    /\ UNCHANGED <<flagVars, bufferVars, script, aborted, enabled, alive,
                   device, cb, lateVars, faults, home>>

\* A component whose handle was overwritten completes one of its commands: the
\* event is added to the list of the component in use.
LateCompletion(c) ==
    /\ ~aborted /\ cb = CbIdle
    /\ late' = late \ {c}
    /\ AddEvent(Complete(c.cmd, c.arg))
    /\ UNCHANGED <<flagVars, bufferVars, script, aborted, deviceVars, cb, owed,
                   faults, home>>

\* DecoderEventHandler for an error: AddEvent, and then m_resource_error.
DeviceError(e) ==
    /\ Running /\ Fault
    /\ AddEvent(Error(e))
    /\ cb' = IF e = "resource" THEN [at |-> "error"] ELSE cb
    /\ UNCHANGED <<flagVars, bufferVars, script, aborted, deviceVars, lateVars,
                   home>>

ResourceError ==
    /\ cb.at = "error" /\ ~aborted
    /\ resErr' = TRUE
    /\ cb' = CbIdle
    /\ UNCHANGED <<handle, exiting, flushing, generation, bufferVars, events,
                   script, aborted, deviceVars, lateVars, faults, home>>

-----------------------------------------------------------------------------

ClientCall ==
    \/ Initialize
    \/ SetStateForComponent("executing")
    \/ EnablePort(Out)
    \/ \E p \in Ports :
          \/ AllocBuffers(p) \/ GetBuffer(p) \/ FlushPort(p)
          \/ \E b \in held[p] : SubmitBuffer(p, b)
    \/ Deinitialize

ClientStep ==
    \/ SendStep \/ WaitEvent \/ WaitOver \/ AllocStep \/ ReadyStep
    \/ ExpandStep \/ ReleaseStep \/ CheckStep \/ FreeHandleStep

DeviceStep ==
    \/ \E p \in Ports : \E b \in device[p] : DeviceReturns(p, b)
    \/ BufferDoneEnter \/ BufferDonePush
    \/ DeviceCompletes
    \/ \E c \in late : LateCompletion(c)
    \/ \E e \in Errors : DeviceError(e)
    \/ ResourceError

Next == ClientCall \/ ClientStep \/ DeviceStep

Spec == Init /\ [][Next]_vars

-----------------------------------------------------------------------------
(***************************************************************************)
(* Properties                                                              *)
(***************************************************************************)

PortCommands == {"flush", "enable", "disable"}
OnFailure    == {"go on", "skip", "return"}

Commands == [cmd : PortCommands, arg : Ports]
                \cup [cmd : {"state"}, arg : States]
Steps ==
    [do : {"send"}, cmd : PortCommands, arg : Ports, fail : OnFailure]
        \cup [do : {"send"}, cmd : {"state"}, arg : States, fail : OnFailure]
        \cup [do : {"wait", "need"}, cmd : PortCommands, arg : Ports]
        \cup [do : {"wait", "need"}, cmd : {"state"}, arg : States]
        \cup [do : {"alloc", "ready", "flush", "free", "release", "check",
                    "toIdle", "toLoaded", "freeHandle"}, arg : Ports]
Events == [type : {"complete"}, cmd : PortCommands, arg : Ports]
              \cup [type : {"complete"}, cmd : {"state"}, arg : States]
              \cup [type : {"error"}, err : AllErrors]

\* Types.  The lists hold buffers, the queues of events and commands hold what
\* the component may be told and may answer: no step of a script sends a
\* command that the component does not know.
TypeOK ==
    /\ handle \in BOOLEAN /\ exiting \in BOOLEAN /\ resErr \in BOOLEAN
    /\ flushing \in [Ports -> BOOLEAN]
    /\ all \in [Ports -> SUBSET Buffers] /\ held \in [Ports -> SUBSET Buffers]
    /\ device \in [Ports -> SUBSET Buffers]
    /\ dropped \in [Ports -> SUBSET Buffers]
    /\ alive \in [Ports -> SUBSET Buffers]
    /\ avail \in [Ports -> Seq(Buffers)]
    /\ script \in Seq(Steps)
    /\ events \in Seq(Events)
    /\ cmds \in Seq(Commands)
    /\ aborted \in BOOLEAN /\ home \in BOOLEAN
    /\ late \subseteq Commands /\ owed \subseteq Commands
    /\ generation \in 0 .. MaxHandles /\ faults \in 0 .. MaxFaults
    /\ state \in States
    /\ enabled \in [Ports -> BOOLEAN]
    /\ cb \in {CbIdle, [at |-> "error"]}
              \cup [at : {"enter", "push"}, port : Ports, buf : Buffers]

\* Every buffer of a port is in one place: queued as available, taken by the
\* client, at the component, in a callback, or dropped by a callback after
\* m_exit; and there is no other buffer in any of them.  So no buffer is handed
\* out twice, and none of an earlier handle survives Deinitialize; when
\* Initialize overwrote a handle, its buffers are still here and still have one
\* owner, among those of the new handle.
BufferOwnership ==
    \A p \in Ports :
        /\ all[p] = Range(avail[p]) \cup held[p] \cup device[p]
                       \cup dropped[p] \cup InCallback(p)
        /\ Cardinality(all[p]) =
              Len(avail[p]) + Cardinality(held[p]) + Cardinality(device[p])
              + Cardinality(dropped[p]) + Cardinality(InCallback(p))

\* The buffers of a port are a pool: handed out first in, first out, each to one
\* user at a time, none lost before Deinitialize, none taken during it, and the
\* lists emptied only when every buffer is back.
Pool == INSTANCE BufferPool
    WITH Size    <- Count,
         members <- all,
         free    <- avail,
         taken   <- held,
         working <- [p \in Ports |-> device[p] \cup InCallback(p)],
         lost    <- dropped,
         closing <- exiting

ImplementsPool == Pool!Spec

\* No event is queued twice: completions that nobody waits for, and errors, do
\* not pile up.
NoDuplicateEvents ==
    \A i, j \in 1 .. Len(events) : i # j => events[i] # events[j]

\* A wait that ends with the completion of its command while that command is
\* still unfinished was answered by a late one: an earlier wait for the same
\* command, with the same handle, was given up (it timed out, met an error or a
\* resource error), or a handle that Initialize overwrote owed the completion.
\* No other command's fault has that effect, and none is left over from a
\* handle that was freed.
WaitMeansDone ==
    [][WaitEvent /\ UNCHANGED owed =>
          LET c == [cmd |-> Step.cmd, arg |-> Step.arg]
          IN  c \in Range(cmds) => c \in owed]_vars

FlushOf(p) == [cmd |-> "flush", arg |-> p]

\* FreeInputBuffers and FreeOutputBuffers free every buffer at once, without
\* asking for them back first.  A buffer is freed that the component still works
\* on only if a wait for the flush of that very port was given up, its
\* completion was owed by an overwritten handle, or a resource error made
\* Deinitialize skip the flushes.
FreedIsBack ==
    [][ReleaseStep /\ ~resErr /\ FlushOf(Step.arg) \notin owed =>
          device[Step.arg] = {} /\ InCallback(Step.arg) = {}]_vars

\* The asserts of FreeInputBuffers and FreeOutputBuffers hold whenever all
\* buffers were back when Deinitialize began, whatever fails afterwards.
CleanShutdown == aborted => ~home

\* assert(m_omx_input_buffers.size() == m_omx_input_avaliable.size()) and
\* assert(m_omx_output_buffers.size() == m_omx_output_available.size()), for a
\* client that kept no buffer of the port.
AssertHolds == aborted => \E p \in Ports : held[p] # {}
=============================================================================
