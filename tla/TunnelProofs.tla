------------------------------ MODULE TunnelProofs ------------------------------
(***************************************************************************)
(* Proofs about the tunnel between two components.                         *)
(***************************************************************************)
EXTENDS Tunnel, TLAPS

TypeOK ==
    /\ pc \in {"idle", "offSrc", "offDst", "unset", "join", "onDst", "onSrc", "done"}
    /\ pending \in [Ends -> SUBSET Commands]
    /\ events \in [Ends -> SUBSET (Commands \cup {"sameState", "error"})]
    /\ enabled \subseteq Ends /\ handles \subseteq Ends

\* The tunnel is set on both ports.
Connected == tunnelSet => Ends \subseteq connected \cup left

\* Where Deestablish has waited for an end, the port of that end was enabled.
Waited ==
    LET answered == wasOn \cup excused
    IN /\ pc \in {"join", "onDst", "onSrc", "done"} => op = "up"
       /\ pc = "unset" => op = "down"
       /\ pc \in {"offSrc", "offDst"} /\ op = "down" =>
             Ends \ handles \subseteq answered
       /\ pc \in {"offSrc", "offDst"} /\ op = "down" =>
             \A e \in Ends : "off" \in events[e] \cup pending[e] => e \in answered
       /\ pc \in {"offDst", "unset"} /\ op = "down" => "src" \in answered
       /\ pc = "unset" => "dst" \in answered
       /\ pc = "idle" /\ op = "down" /\ result = "ok" => Ends \subseteq answered

IInv == TypeOK /\ Connected /\ Waited

-----------------------------------------------------------------------------

LEMMA Types == TypeOK /\ [Next]_vars => TypeOK'
<1> SUFFICES ASSUME TypeOK, [Next]_vars PROVE TypeOK'
    OBVIOUS
<1> USE DEF TypeOK, Ends, Commands
<1>1. CASE Initialize \/ Done \/ JoinFails \/ Unset
    BY <1>1 DEF Initialize, Done, JoinFails, Unset, Return, callVars, portVars, histVars
<1>2. CASE Deestablish \/ Establish
    <2>1. UNCHANGED <<handles, enabled, events>> /\ pc' \in {"offSrc", "join"}
        BY <1>2 DEF Deestablish, Establish
    <2>2. pending' \in [Ends -> SUBSET Commands]
        BY <1>2 DEF Deestablish, Establish, DisablePorts, SendTo
    <2> QED BY <2>1, <2>2
<1>3. CASE Join
    BY <1>3 DEF Join, Go, Return, SendTo
<1>4. ASSUME NEW e \in Ends, NEW c \in Commands, NEW step,
             NEW next \in {"offDst", "unset", "join", "onSrc", "done"}, WaitStep(step, e, c, next)
      PROVE  TypeOK'
    BY <1>4 DEF WaitStep, Wait, Go, Return
<1>5. CASE WaitSrcOff \/ WaitDstOff \/ WaitDstOn \/ WaitSrcOn
    BY <1>4, <1>5 DEF WaitSrcOff, WaitDstOff, WaitDstOn, WaitSrcOn
<1>6. ASSUME NEW e \in Ends, Completes(e) \/ Error(e) \/ Appears(e) \/ GoesAway(e) \/ Switches(e)
      PROVE  TypeOK'
    <2>1. CASE Completes(e)
        BY <2>1 DEF Completes, callVars
    <2>2. CASE Error(e)
        BY <2>2 DEF Error, callVars
    <2>3. CASE Appears(e)
        BY <2>3 DEF Appears, callVars, portVars
    <2>4. CASE GoesAway(e) \/ Switches(e)
        BY <2>4 DEF GoesAway, Switches, callVars
    <2> QED BY <1>6, <2>1, <2>2, <2>3, <2>4
<1>7. CASE UNCHANGED vars
    BY <1>7 DEF vars, callVars, portVars
<1> QED BY <1>1, <1>2, <1>3, <1>5, <1>6, <1>7 DEF Next, Call

\* m_tunnel_set says that the tunnel is set on both ports (COMXCoreTunel::Establish
\* and Deestablish), whatever fails in either of them, but for a component that was
\* taken down and a tunnel that a failed OMX_SetupTunnel ended.
THEOREM TunnelIsSet == Spec => []SetMeansConnected
<1>1. Init => Connected
    BY DEF Init, Connected
<1>2. Connected /\ [Next]_vars => Connected'
    BY DEF Connected, Next, Call, Initialize, Deestablish, Establish, Start, Join, JoinFails, Unset,
           Done, WaitSrcOff, WaitDstOff, WaitDstOn, WaitSrcOn, WaitStep, Completes, Error, Appears,
           GoesAway, Switches, vars, histVars
<1>3. Connected => SetMeansConnected
    BY DEF Connected, SetMeansConnected
<1> QED BY <1>1, <1>2, <1>3, PTL DEF Spec

\* A step of Deestablish's waits keeps Waited.
LEMMA WaitKeeps ==
    ASSUME TypeOK, Waited, NEW e \in Ends, NEW step \in {"offSrc", "offDst"}, NEW next,
           WaitStep(step, e, "off", next),
           \/ step = "offSrc" /\ e = "src" /\ next = "offDst"
           \/ step = "offDst" /\ e = "dst" /\ next = IF op = "down" THEN "unset" ELSE "join",
           op \in {"up", "down"}
    PROVE  Waited'
<1> USE DEF TypeOK, Ends, Commands
<1>1. /\ pending' = pending /\ wasOn' = wasOn /\ op' = op
      /\ handles' = handles /\ pc = step /\ excused \subseteq excused'
      /\ \A f \in Ends : events'[f] \subseteq events[f]
    BY DEF WaitStep, Wait, Go, Return
<1>2. CASE pc' = "idle"
    BY <1>1, <1>2 DEF WaitStep, Wait, Go, Return, Waited
<1>3. CASE pc' = next
    <2>1. op = "down" => e \in wasOn \cup excused'
        BY <1>1, <1>3 DEF WaitStep, Wait, Go, Return, Waited
    <2> QED BY <1>1, <1>3, <2>1 DEF Waited
<1> QED BY <1>2, <1>3 DEF WaitStep, Wait, Go, Return

\* Deestablish succeeds only on ports that were enabled, or with an answer that
\* is not about this call (COMXCoreTunel::Deestablish with DisablePort and
\* WaitForCommand).
THEOREM DownTakesPorts == Spec => []DownNeedsPorts
<1> DEFINE Op == pc # "idle" => op \in {"up", "down"}
<1>1. Init => TypeOK /\ Waited /\ Op
    BY DEF Init, TypeOK, Waited, Ends, Commands
<1>2. TypeOK /\ Waited /\ Op /\ [Next]_vars => TypeOK' /\ Waited' /\ Op'
    <2> SUFFICES ASSUME TypeOK, Waited, Op, [Next]_vars PROVE Waited' /\ Op'
        BY Types
    <2>1. CASE Initialize \/ Done \/ JoinFails \/ Unset
        BY <2>1 DEF Initialize, Done, JoinFails, Unset, Return, callVars, portVars, histVars, Waited,
                    TypeOK, Ends
    <2>2. CASE Deestablish
        BY <2>2 DEF Deestablish, Start, DisablePorts, SendTo, Waited, TypeOK, Ends
    <2>3. CASE Establish
        BY <2>3 DEF Establish, Start, Waited
    <2>4. CASE Join
        BY <2>4 DEF Join, Go, Return, Waited
    <2>5. CASE WaitSrcOff
        <3>1. Waited'
            BY <2>5, WaitKeeps DEF WaitSrcOff, Ends, WaitStep
        <3> QED BY <2>5, <3>1 DEF WaitSrcOff, WaitStep, Wait, Go, Return
    <2>6. CASE WaitDstOff
        <3>1. Waited'
            BY <2>6, WaitKeeps DEF WaitDstOff, Ends, WaitStep
        <3> QED BY <2>6, <3>1 DEF WaitDstOff, WaitStep, Wait, Go, Return
    <2>7. CASE WaitDstOn \/ WaitSrcOn
        BY <2>7 DEF WaitDstOn, WaitSrcOn, WaitStep, Wait, Go, Return, Waited
    <2>8. ASSUME NEW e \in Ends, Completes(e) \/ Error(e)
          PROVE  Waited' /\ Op'
        <3>1. /\ UNCHANGED <<callVars, histVars, handles>>
              /\ \A f \in Ends : "off" \in events'[f] \cup pending'[f] =>
                                    "off" \in events[f] \cup pending[f]
            BY <2>8 DEF Completes, Error, TypeOK, Commands
        <3> QED BY <3>1 DEF Waited, callVars, histVars
    <2>9. ASSUME NEW e \in Ends, Appears(e) \/ GoesAway(e) \/ Switches(e)
          PROVE  Waited' /\ Op'
        BY <2>9 DEF Appears, GoesAway, Switches, callVars, histVars, Waited
    <2>10. CASE UNCHANGED vars
        BY <2>10 DEF vars, callVars, portVars, histVars, Waited
    <2> QED BY <2>1, <2>2, <2>3, <2>4, <2>5, <2>6, <2>7, <2>8, <2>9, <2>10 DEF Next, Call
<1>3. Waited => DownNeedsPorts
    BY DEF Waited, DownNeedsPorts
<1> QED BY <1>1, <1>2, <1>3, PTL DEF Spec
=============================================================================
