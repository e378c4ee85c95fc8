--------------------------------- MODULE Tunnel ---------------------------------
(***************************************************************************)
(* COMXCoreTunel (OMXCore.cpp): a tunnel from an output port of one        *)
(* component to an input port of another.  The chain of OMXVideo is built  *)
(* with NON_TUNNEL, where Deestablish finds no components and nothing is   *)
(* established; with a tunnel, OMXVideo calls Initialize and               *)
(* Establish(false, false) and, in Close, Deestablish.                     *)
(*                                                                         *)
(* The ports are switched by commands that the components carry out in     *)
(* their own time.  EnablePort and DisablePort send nothing to a port that *)
(* is already as it should be, and WaitForCommand waits all the same.      *)
(***************************************************************************)
EXTENDS FiniteSets

VARIABLES
    named,       \* m_src_component and m_dst_component are not NULL
    tunnelSet,   \* m_tunnel_set
    pc,          \* where the call under way is
    op,          \* the call: "up" is Establish, "down" is Deestablish
    enable,      \* enable_ports
    result,      \* what the last call has returned
    handles,     \* external: the ends whose component has a handle
    enabled,     \* external: the ends whose port is enabled
    connected,   \* external: the ends that the tunnel is set on
    pending,     \* external: the commands that a component carries out
    events,      \* m_omx_events of the components, those that matter here
    resErr,      \* the ends whose m_resource_error is set
    wasOn,       \* history: the ends whose port was enabled when the call began
    excused,     \* history: the ends on which the call did not have to wait
    left         \* history: the ends that went away, or that a failed Establish
                 \* has cut off, since the tunnel was set

callVars == <<pc, op, enable, result>>
portVars == <<enabled, pending, events, resErr>>
histVars == <<wasOn, excused, left>>
vars == <<named, tunnelSet, callVars, handles, connected, portVars, histVars>>

Ends == {"src", "dst"}
Commands == {"on", "off"}          \* OMX_CommandPortEnable, OMX_CommandPortDisable

Init ==
    /\ named = FALSE /\ tunnelSet = FALSE
    /\ pc = "idle" /\ op = "none" /\ enable = FALSE /\ result = "ok"
    /\ handles = {} /\ enabled = {} /\ connected = {}
    /\ pending = [e \in Ends |-> {}] /\ events = [e \in Ends |-> {}] /\ resErr = {}
    /\ wasOn = {} /\ excused = {} /\ left = {}

Return(r) == pc' = "idle" /\ result' = r /\ UNCHANGED <<op, enable>>
Go(step)  == pc' = step /\ UNCHANGED <<op, enable, result>>

-----------------------------------------------------------------------------
(***************************************************************************)
(* The calls.                                                              *)
(***************************************************************************)

Initialize ==
    /\ pc = "idle"
    /\ named' = TRUE
    /\ UNCHANGED <<tunnelSet, callVars, handles, connected, portVars, histVars>>

\* DisablePort or EnablePort of both ends, which send a command where the port is
\* not as it should be, unless it is refused; Deestablish ignores that.
SendTo(es, c) == pending' = [e \in Ends |-> pending[e] \cup (IF e \in es THEN {c} ELSE {})]

Start(call) ==
    /\ op' = call /\ result' = result
    /\ wasOn' = enabled
    /\ excused' = (Ends \ handles) \cup {e \in Ends : "off" \in events[e] \cup pending[e]}
    /\ UNCHANGED left

DisablePorts == \E es \in SUBSET (handles \cap enabled) : SendTo(es, "off")

\* Without components, or without a tunnel, Deestablish does nothing.
Deestablish ==
    /\ pc = "idle" /\ named /\ tunnelSet
    /\ pc' = "offSrc" /\ enable' = FALSE
    /\ Start("down")
    /\ DisablePorts
    /\ UNCHANGED <<named, tunnelSet, handles, connected, enabled, events, resErr>>

Establish ==
    /\ pc = "idle" /\ named
    /\ enable' \in BOOLEAN
    /\ Start("up")
    /\ \/ pc' = "join" /\ UNCHANGED pending
       \/ pc' = "offSrc" /\ DisablePorts                  \* disable_ports
    /\ UNCHANGED <<named, tunnelSet, handles, connected, enabled, events, resErr>>

\* WaitForCommand at end e, which is skipped without a handle.  It ends well with
\* the command, with a "same state" error, or after a resource error; otherwise
\* with another error or in time.
Wait(e, c, next) ==
    \/ /\ e \notin handles
       /\ Go(next)
       /\ UNCHANGED <<events, excused>>
    \/ /\ e \in handles
       /\ \/ /\ \E ev \in events[e] \cap {c, "sameState"} :
                   /\ events' = [events EXCEPT ![e] = @ \ {ev}]
                   /\ excused' = IF ev = c THEN excused ELSE excused \cup {e}
             /\ Go(next)
          \/ /\ "error" \in events[e]
             /\ events' = [events EXCEPT ![e] = @ \ {"error"}]
             /\ Return("error")
             /\ UNCHANGED excused
          \/ /\ events[e] \cap {c, "sameState", "error"} = {}
             /\ IF e \in resErr THEN Go(next) /\ excused' = excused \cup {e}
                                ELSE Return("timeout") /\ UNCHANGED excused
             /\ UNCHANGED events

WaitStep(step, e, c, next) ==
    /\ pc = step
    /\ Wait(e, c, next)
    /\ UNCHANGED <<named, tunnelSet, handles, connected, enabled, pending, resErr,
                   wasOn, left>>

WaitSrcOff == WaitStep("offSrc", "src", "off", "offDst")
WaitDstOff == WaitStep("offDst", "dst", "off", IF op = "down" THEN "unset" ELSE "join")
WaitDstOn  == WaitStep("onDst", "dst", "on", "onSrc")
WaitSrcOn  == WaitStep("onSrc", "src", "on", "done")

Done ==
    /\ pc = "done"
    /\ Return("ok")
    /\ UNCHANGED <<named, tunnelSet, handles, connected, portVars, histVars>>

\* The end of Deestablish: OMX_SetupTunnel to NULL, whose failure is ignored.
Unset ==
    /\ pc = "unset"
    /\ \E es \in SUBSET handles : connected' = connected \ es
    /\ tunnelSet' = FALSE
    /\ Return("ok")
    /\ UNCHANGED <<named, handles, portVars, histVars>>

\* Without both components, or when OMX_SetupTunnel fails: what it leaves of an
\* earlier tunnel is up to the components, and m_tunnel_set stays as it is.
JoinFails ==
    /\ pc = "join"
    /\ Return("error")
    /\ \E es \in IF handles = Ends THEN SUBSET Ends ELSE {{}} :
          connected' = connected \ es /\ left' = left \cup es
    /\ UNCHANGED <<named, tunnelSet, handles, portVars, wasOn, excused>>

\* OMX_SetupTunnel of both ends, and the commands that enable the ports: one that
\* is refused ends the call.
Join ==
    /\ pc = "join" /\ handles = Ends
    /\ connected' = Ends /\ left' = {}
    /\ tunnelSet' = TRUE
    /\ IF ~enable THEN Go("done") /\ UNCHANGED pending
       ELSE \/ SendTo(Ends \ enabled, "on") /\ Go("onDst")
            \/ SendTo({}, "on") /\ Return("error")
            \/ SendTo({"src"} \ enabled, "on") /\ Return("error")
    /\ UNCHANGED <<named, handles, enabled, events, resErr, wasOn, excused>>

-----------------------------------------------------------------------------
(***************************************************************************)
(* The components and their owner, who is not in a call of the tunnel.     *)
(***************************************************************************)

Completes(e) ==
    \E c \in pending[e] :
       /\ pending' = [pending EXCEPT ![e] = @ \ {c}]
       /\ enabled' = IF c = "on" THEN enabled \cup {e} ELSE enabled \ {e}
       /\ events'  = [events EXCEPT ![e] = @ \cup {c}]
       /\ UNCHANGED <<named, tunnelSet, callVars, handles, connected, resErr, histVars>>

Error(e) ==
    /\ e \in handles
    /\ \E ev \in {"sameState", "error"} : events' = [events EXCEPT ![e] = @ \cup {ev}]
    /\ resErr' \in {resErr, resErr \cup {e}}
    /\ UNCHANGED <<named, tunnelSet, callVars, handles, connected, enabled, pending, histVars>>

\* Initialize of a component disables its ports.
Appears(e) ==
    /\ pc = "idle" /\ e \notin handles
    /\ handles' = handles \cup {e}
    /\ UNCHANGED <<named, tunnelSet, callVars, connected, portVars, histVars>>

\* Its Deinitialize.
GoesAway(e) ==
    /\ pc = "idle" /\ e \in handles
    /\ handles' = handles \ {e} /\ connected' = connected \ {e} /\ enabled' = enabled \ {e}
    /\ pending' = [pending EXCEPT ![e] = {}] /\ events' = [events EXCEPT ![e] = {}]
    /\ resErr' = resErr \ {e}
    /\ left' = left \cup {e}
    /\ UNCHANGED <<named, tunnelSet, callVars, wasOn, excused>>

\* The owner allocates or frees the buffers of the port.
Switches(e) ==
    /\ pc = "idle" /\ e \in handles /\ pending[e] = {}
    /\ enabled' \in {enabled \cup {e}, enabled \ {e}}
    /\ UNCHANGED <<named, tunnelSet, callVars, handles, connected, pending, events, resErr,
                   histVars>>

Call ==
    \/ Initialize \/ Deestablish \/ Establish \/ Join \/ JoinFails \/ Unset \/ Done
    \/ WaitSrcOff \/ WaitDstOff \/ WaitDstOn \/ WaitSrcOn

Next ==
    \/ Call
    \/ \E e \in Ends : Completes(e) \/ Error(e) \/ Appears(e) \/ GoesAway(e) \/ Switches(e)

Spec == Init /\ [][Next]_vars

-----------------------------------------------------------------------------
(***************************************************************************)
(* Properties.                                                             *)
(***************************************************************************)

\* While m_tunnel_set is set and no call is under way, the tunnel is set on both
\* ports, but for a component that has been taken down or a second Establish whose
\* OMX_SetupTunnel has failed meanwhile: a Deestablish that fails does so before
\* it has unset anything.
SetMeansConnected == pc = "idle" /\ tunnelSet => Ends \subseteq connected \cup left

\* Deestablish succeeds only when both ports are enabled as it begins, or when an
\* earlier command or an error gives WaitForCommand an answer: DisablePort sends
\* nothing to a disabled port.  After Establish(false, false) it takes enabled
\* ports from elsewhere.
DownNeedsPorts == pc = "idle" /\ op = "down" /\ result = "ok" => Ends \subseteq wasOn \cup excused
=============================================================================
