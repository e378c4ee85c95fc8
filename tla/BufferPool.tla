------------------------------ MODULE BufferPool ------------------------------
(***************************************************************************)
(* What COMXCoreComponent promises about the buffers of its ports: each    *)
(* port has a pool that hands its free buffers out first in, first out,    *)
(* each to one user at a time.  A buffer goes missing only while the pools *)
(* are being closed, and a pool is emptied only when none of its buffers   *)
(* is missing or in use.  The buffers of a component that was left behind  *)
(* may still be in the pool when new ones come.                            *)
(***************************************************************************)
EXTENDS Naturals, Sequences, FiniteSets, Functions

CONSTANTS
    Ports,       \* one pool for each
    Buffers,     \* the buffers there may ever be
    Size         \* how many each pool gets at a time

VARIABLES
    members,     \* the buffers of each pool
    free,        \* those that nobody uses, oldest first
    taken,       \* those that the client has
    working,     \* those that it has handed to the component
    lost,        \* those that will not be free again
    closing      \* the pools are being closed

vars == <<members, free, taken, working, lost, closing>>

Init ==
    /\ members = [p \in Ports |-> {}]
    /\ free    = [p \in Ports |-> <<>>]
    /\ taken   = [p \in Ports |-> {}]
    /\ working = [p \in Ports |-> {}]
    /\ lost    = [p \in Ports |-> {}]
    /\ closing = FALSE

\* A pool gets new buffers, all of them free, behind the free ones it has.
Populate(p) ==
    /\ ~closing
    /\ \E n \in 0 .. Size[p] :
          LET new == [i \in 1 .. n |-> free'[p][Len(free[p]) + i]]
          IN  /\ Len(free'[p]) = Len(free[p]) + n
              /\ new \in Seq(Buffers) /\ IsInjective(new)
              /\ Range(new) \cap members[p] = {}
              /\ members' = [members EXCEPT ![p] = @ \cup Range(new)]
              /\ free' = [free EXCEPT ![p] = @ \o new]
    /\ UNCHANGED <<taken, working, lost, closing>>

Take(p) ==
    /\ ~closing /\ free[p] # <<>>
    /\ taken' = [taken EXCEPT ![p] = @ \cup {Head(free[p])}]
    /\ free' = [free EXCEPT ![p] = Tail(@)]
    /\ UNCHANGED <<members, working, lost, closing>>

\* The buffer is the newest of the free ones again.
Free(p, b) == free' = [free EXCEPT ![p] = Append(@, b)]

\* The component accepts the buffer, or refuses it.
Submit(p, b) ==
    /\ taken' = [taken EXCEPT ![p] = @ \ {b}]
    /\ \/ working' = [working EXCEPT ![p] = @ \cup {b}] /\ UNCHANGED free
       \/ Free(p, b) /\ UNCHANGED working
    /\ UNCHANGED <<members, lost, closing>>

Return(p, b) ==
    /\ working' = [working EXCEPT ![p] = @ \ {b}]
    /\ \/ Free(p, b) /\ UNCHANGED lost
       \/ closing /\ lost' = [lost EXCEPT ![p] = @ \cup {b}] /\ UNCHANGED free
    /\ UNCHANGED <<members, taken, closing>>

Close ==
    /\ closing' = TRUE
    /\ UNCHANGED <<members, free, taken, working, lost>>

Empty(p) ==
    /\ closing
    /\ taken[p] = {} /\ working[p] = {} /\ lost[p] = {}
    /\ members' = [members EXCEPT ![p] = {}]
    /\ free' = [free EXCEPT ![p] = <<>>]
    /\ UNCHANGED <<taken, working, lost, closing>>

\* A pool that was not emptied is taken over as it is, with every buffer free.
Reopen ==
    /\ \A p \in Ports : taken[p] = {} /\ working[p] = {} /\ lost[p] = {}
    /\ closing' = FALSE
    /\ UNCHANGED <<members, free, taken, working, lost>>

Next ==
    \/ \E p \in Ports :
          \/ Populate(p) \/ Take(p) \/ Empty(p)
          \/ \E b \in taken[p] : Submit(p, b)
          \/ \E b \in working[p] : Return(p, b)
    \/ Close \/ Reopen

Spec == Init /\ [][Next]_vars
=============================================================================
