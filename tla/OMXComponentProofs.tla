--------------------------- MODULE OMXComponentProofs ---------------------------
(***************************************************************************)
(* Proofs about OMXComponent, for any number of buffers, any error events  *)
(* and any bounds: every buffer has one owner, no event is queued twice,   *)
(* the asserts of the shutdown hold when all buffers were home, only the   *)
(* late completion of a command answers a wait for it early, and only a    *)
(* port whose flush was given up or skipped is freed under the component.  *)
(***************************************************************************)
EXTENDS OMXComponent, FiniteSetTheorems, SequenceTheorems, TLAPS

-----------------------------------------------------------------------------
(***************************************************************************)
(* The inductive invariant, in named parts.                                *)
(***************************************************************************)

Sends(x, c)     == x.do = "send" /\ x.cmd = c
Awaits(x, c, a) == x.do \in {"wait", "need"} /\ x.cmd = c /\ x.arg = a
Flushes(x, p)   == \/ x.do = "flush" /\ x.arg = p
                   \/ Sends(x, "flush") /\ x.arg = p
                   \/ Awaits(x, "flush", p)

\* The steps that only Deinitialize brings into a script.
Shutdown == {"flush", "free", "release", "check", "toIdle", "toLoaded",
             "freeHandle"}
Leaving  == \E i \in 1 .. Len(script) : script[i].do \in Shutdown

Distinct(s) == \A i, j \in 1 .. Len(s) : i # j => s[i] # s[j]

\* A command is followed by the wait for it, perhaps with FreeBuffers'
\* release in between; only the enabling of a port is waited for later.
Paired(s) ==
    \A i \in 1 .. Len(s) :
        s[i].do = "send" /\ (s[i].cmd # "enable" \/ s[i].fail = "skip") =>
            \/ i < Len(s) /\ Awaits(s[i + 1], s[i].cmd, s[i].arg)
            \/ /\ i + 1 < Len(s) /\ s[i + 1].do = "release"
               /\ Awaits(s[i + 2], s[i].cmd, s[i].arg)

\* A script allocates once, and one that enables a port enables only that and
\* disables none.
Once(s) ==
    \A i, j \in 1 .. Len(s) :
        /\ s[i].do = "alloc" /\ s[j].do = "alloc" => i = j
        /\ Sends(s[i], "enable") /\ (Sends(s[j], "enable") \/ Sends(s[j], "disable"))
              => i = j

\* The flushes of Deinitialize come before the first buffer is freed.
FlushFirst(s) ==
    \A i, j \in 1 .. Len(s), p \in Ports :
        s[i].do \in {"free", "release"} /\ Flushes(s[j], p) => j < i

\* Nothing ends the script of Deinitialize early, or follows OMX_FreeHandle.
Lasting(s) ==
    (\E i \in 1 .. Len(s) : s[i].do \in Shutdown) =>
        /\ s[Len(s)].do = "freeHandle"
        /\ \A i \in 1 .. Len(s) :
              /\ s[i].do \notin {"need", "alloc", "ready"}
              /\ s[i].do = "freeHandle" => i = Len(s)
              /\ s[i].do = "send" =>
                    /\ s[i].cmd # "enable" /\ s[i].fail # "return"
                    /\ s[i].cmd = "flush" => s[i].fail = "go on"

\* It allocates once with a handle, and enables a port that is disabled.
Fits ==
    \A i \in 1 .. Len(script) :
        /\ script[i].do = "alloc" => NoneAllocated(script[i].arg)
        /\ Sends(script[i], "enable") => ~enabled[script[i].arg]

ScriptInv ==
    /\ Paired(script) /\ Once(script) /\ FlushFirst(script) /\ Lasting(script)
    /\ Fits

\* Scripts and commands need a handle.
HandleInv ==
    /\ script # <<>> => handle
    /\ handle => generation \in 1 .. MaxHandles
    /\ ~handle => cmds = <<>>

\* The buffers a are the ones in the queue q and in the sets, each in one.
Owned(a, q, h, d, x, c) ==
    /\ IsFiniteSet(a)
    /\ a = Range(q) \cup h \cup d \cup x \cup c
    /\ Distinct(q)
    /\ Range(q) \cap (h \cup d \cup x \cup c) = {}
    /\ h \cap (d \cup x \cup c) = {}
    /\ d \cap (x \cup c) = {}
    /\ x \cap c = {}

\* A buffer of the port has one owner, and only buffers of the port have.
OwnerInv ==
    \A p \in Ports :
        Owned(all[p], avail[p], held[p], device[p], dropped[p], InCallback(p))

\* While Deinitialize runs, buffers that were home stay there.
HomeInv ==
    Leaving /\ home => \A p \in Ports : Home(p) /\ InCallback(p) = {}

\* A command that was sent and not waited for: unfinished, or answered.
Unfinished(c) == \E i \in 1 .. Len(cmds) : cmds[i] = c
Answered(c)   == \E i \in 1 .. Len(events) : events[i] = Complete(c.cmd, c.arg)
Open(c)       == Unfinished(c) \/ Answered(c)
Expected(c) ==
    \E k \in 1 .. Len(script) :
        /\ Awaits(script[k], c.cmd, c.arg)
        /\ k # 1 => k = 2 /\ script[1].do = "release"

EnableOf(p) == [cmd |-> "enable", arg |-> p]

\* A command whose completion nobody can owe any more, in what follows.
Punctual == Commands \ owed

\* It is unfinished once at most.
UnfinishedOnce(c) ==
    \A i, j \in 1 .. Len(cmds) : cmds[i] = c /\ cmds[j] = c => i = j

\* It is open once at most.
OpenOnce ==
    \A c \in Punctual : UnfinishedOnce(c) /\ ~(Unfinished(c) /\ Answered(c))

\* The client is about to wait for it.
OpenAwaited == \A c \in Punctual : Open(c) /\ c.cmd # "enable" => Expected(c)

\* The enabling of a port may stay open, but then the client does not enable or
\* disable the port before Deinitialize.
EnableLasts ==
    \A p \in Ports : handle /\ EnableOf(p) \in Punctual /\ Open(EnableOf(p)) =>
        \/ Leaving
        \/ enabled[p] /\ \A i \in 1 .. Len(script) : ~Sends(script[i], "disable")

OpenInv == late \subseteq owed /\ OpenOnce /\ OpenAwaited /\ EnableLasts

\* The flush of a port is still to come, or to be answered.
FlushDue(p) ==
    \E i \in 1 .. Len(script) :
        Flushes(script[i], p)
            /\ (script[i].do \in {"wait", "need"} => ~Answered(FlushOf(p)))

FlushInv ==
    Leaving /\ ~resErr =>
        \A p \in Ports : FlushOf(p) \in Punctual /\ ~FlushDue(p) =>
            device[p] = {} /\ InCallback(p) = {}

IInv == TypeOK /\ ScriptInv /\ HandleInv /\ OwnerInv /\ HomeInv
            /\ NoDuplicateEvents /\ OpenInv /\ FlushInv

-----------------------------------------------------------------------------
(***************************************************************************)
(* What the operators on the queues and the sets of buffers do.            *)
(***************************************************************************)

\* Induction, for a set of numbers.
LEMMA NatSetInduction ==
    ASSUME NEW S, 0 \in S, \A n \in Nat : n \in S => n + 1 \in S
    PROVE  Nat \subseteq S
<1> DEFINE T == Nat \ S
<1> SUFFICES ASSUME T # {} PROVE FALSE
  OBVIOUS
<1>1. PICK x \in T : \A y \in T : ~ (<<y, x>> \in OpToRel(<, Nat))
  BY WFMin, NatLessThanWellFounded
<1>2. x \in Nat /\ x # 0
  OBVIOUS
<1>3. x - 1 \in T /\ x - 1 < x
  BY <1>2
<1>4. <<x - 1, x>> \in OpToRel(<, Nat)
  BY <1>2, <1>3 DEF OpToRel
<1>. QED  BY <1>1, <1>3, <1>4

\* The first of the numbers in a set.
LEMMA LeastOf ==
    ASSUME NEW T \in SUBSET Nat, T # {}
    PROVE  \E x \in T : \A y \in T : x <= y
<1>1. PICK x \in T : \A y \in T : ~ (<<y, x>> \in OpToRel(<, Nat))
  BY WFMin, NatLessThanWellFounded
<1>2. ASSUME NEW y \in T, y < x PROVE FALSE
  <2>1. <<y, x>> \in OpToRel(<, Nat)
    BY <1>2 DEF OpToRel
  <2>. QED  BY <1>1, <2>1
<1>. QED  BY <1>2

\* The loop of RemoveEvent, over the first n events.
IsKept(f, s, e, n) ==
    /\ f = [i \in 0 .. n |-> f[i]]
    /\ f[0] = <<>>
    /\ \A i \in 1 .. n : f[i] = IF s[i] = e THEN f[i - 1]
                                ELSE Append(f[i - 1], s[i])

LEMMA KeptExists ==
    ASSUME NEW S, NEW s \in Seq(S), NEW e
    PROVE  \E f : IsKept(f, s, e, Len(s))
<1> DEFINE N == {n \in Nat : n <= Len(s) => \E f : IsKept(f, s, e, n)}
<1>1. 0 \in N
  <2>. DEFINE f == [i \in 0 .. 0 |-> <<>>]
  <2>1. IsKept(f, s, e, 0)
    BY DEF IsKept
  <2>. QED  BY <2>1
<1>2. ASSUME NEW n \in Nat, n \in N PROVE n + 1 \in N
  <2>. SUFFICES ASSUME n + 1 <= Len(s) PROVE \E f : IsKept(f, s, e, n + 1)
    OBVIOUS
  <2>1. PICK f : IsKept(f, s, e, n)
    BY <1>2
  <2>. DEFINE last == IF s[n + 1] = e THEN f[n] ELSE Append(f[n], s[n + 1])
              g == [i \in 0 .. n + 1 |-> IF i = n + 1 THEN last ELSE f[i]]
  <2>2. \A i \in 0 .. n : g[i] = f[i]
    OBVIOUS
  <2>3. g[n + 1] = last
    OBVIOUS
  <2>4. IsKept(g, s, e, n + 1)
    <3>1. g = [i \in 0 .. n + 1 |-> g[i]]
      OBVIOUS
    <3>2. g[0] = <<>>
      BY <2>1, <2>2 DEF IsKept
    <3>3. ASSUME NEW i \in 1 .. n + 1
          PROVE  g[i] = IF s[i] = e THEN g[i - 1] ELSE Append(g[i - 1], s[i])
      <4>1. CASE i = n + 1
        BY <4>1, <2>2, <2>3
      <4>2. CASE i \in 1 .. n
        <5>. HIDE DEF g, last
        <5>1. g[i] = f[i] /\ g[i - 1] = f[i - 1]
          BY <4>2, <2>2
        <5>2. f[i] = IF s[i] = e THEN f[i - 1] ELSE Append(f[i - 1], s[i])
          BY <4>2, <2>1 DEF IsKept
        <5>. QED  BY <5>1, <5>2
      <4>. QED  BY <4>1, <4>2
    <3>. HIDE DEF g
    <3>. QED  BY <3>1, <3>2, <3>3 DEF IsKept
  <2>. QED  BY <2>4
<1>. HIDE DEF N
<1>3. Len(s) \in N
  BY <1>1, <1>2, NatSetInduction
<1>. QED  BY <1>3 DEF N

LEMMA KeptProperties ==
    ASSUME NEW S, NEW s \in Seq(S), NEW e, NEW f, IsKept(f, s, e, Len(s)),
           NEW n \in 0 .. Len(s)
    PROVE  /\ f[n] \in Seq(S)
           /\ \A k \in 1 .. Len(f[n]) : f[n][k] # e /\ \E i \in 1 .. n : s[i] = f[n][k]
           /\ Distinct(s) => Distinct(f[n])
<1> DEFINE P(m) == /\ f[m] \in Seq(S)
                   /\ \A k \in 1 .. Len(f[m]) :
                         f[m][k] # e /\ \E i \in 1 .. m : s[i] = f[m][k]
                   /\ Distinct(s) => Distinct(f[m])
           N == {m \in Nat : m <= Len(s) => P(m)}
<1>1. 0 \in N
  BY DEF IsKept, Distinct
<1>2. ASSUME NEW m \in Nat, m \in N PROVE m + 1 \in N
  <2>. SUFFICES ASSUME m + 1 <= Len(s) PROVE P(m + 1)
    OBVIOUS
  <2>. DEFINE q == f[m]
  <2>1. /\ q \in Seq(S)
        /\ \A k \in 1 .. Len(q) : q[k] # e /\ \E i \in 1 .. m : s[i] = q[k]
        /\ Distinct(s) => Distinct(q)
    <3>1. P(m)
      <4>. HIDE DEF P
      <4>. QED  BY <1>2
    <3>. QED  BY <3>1
  <2>2. f[m + 1] = IF s[m + 1] = e THEN q ELSE Append(q, s[m + 1])
    BY SMTT(30) DEF IsKept
  <2>3. s[m + 1] \in S /\ m + 1 \in 1 .. Len(s)
    OBVIOUS
  <2>. HIDE DEF q
  <2>4. CASE s[m + 1] = e
    BY <2>1, <2>2, <2>4
  <2>5. CASE s[m + 1] # e
    <3>. DEFINE r == Append(q, s[m + 1])
    <3>1. /\ r \in Seq(S) /\ Len(r) = Len(q) + 1
          /\ r[Len(q) + 1] = s[m + 1]
          /\ \A k \in 1 .. Len(q) : r[k] = q[k]
      BY <2>1, <2>3, AppendProperties
    <3>2. f[m + 1] = r
      BY <2>2, <2>5
    <3>. HIDE DEF r
    <3>3. ASSUME NEW k \in 1 .. Len(r)
          PROVE  r[k] # e /\ \E i \in 1 .. m + 1 : s[i] = r[k]
      <4>1. CASE k = Len(q) + 1
        BY <4>1, <3>1, <2>3, <2>5
      <4>2. CASE k \in 1 .. Len(q)
        BY <4>2, <3>1, <2>1, SMTT(30)
      <4>. QED  BY <4>1, <4>2, <3>1, <2>1
    <3>4. ASSUME Distinct(s) PROVE Distinct(r)
      <4>. SUFFICES ASSUME NEW i \in 1 .. Len(r), NEW j \in 1 .. Len(r), i < j
                    PROVE  r[i] # r[j]
        BY <3>1 DEF Distinct
      <4>1. i \in 1 .. Len(q)
        BY <3>1, <2>1
      <4>2. CASE j \in 1 .. Len(q)
        BY <4>1, <4>2, <3>1, <2>1, <3>4 DEF Distinct
      <4>3. CASE j = Len(q) + 1
        <5>1. PICK h \in 1 .. m : s[h] = q[i]
          BY <4>1, <2>1
        <5>2. s[h] # s[m + 1]
          BY <2>3, <3>4 DEF Distinct
        <5>. QED  BY <5>1, <5>2, <4>1, <4>3, <3>1
      <4>4. Len(q) \in Nat
        BY <2>1
      <4>. QED  BY <4>2, <4>3, <4>4, <3>1, SMTT(30)
    <3>. QED  BY <3>1, <3>2, <3>3, <3>4
  <2>. QED  BY <2>4, <2>5
<1>3. n \in N
  <2>. HIDE DEF N
  <2>. QED  BY <1>1, <1>2, NatSetInduction
<1>4. P(n)
  <2>. HIDE DEF P
  <2>. QED  BY <1>3
<1>. QED  BY <1>4

LEMMA WithoutProperties ==
    ASSUME NEW S, NEW s \in Seq(S), NEW e
    PROVE  /\ Without(s, e) \in Seq(S)
           /\ \A k \in 1 .. Len(Without(s, e)) :
                 /\ Without(s, e)[k] # e
                 /\ \E i \in 1 .. Len(s) : s[i] = Without(s, e)[k]
           /\ Distinct(s) => Distinct(Without(s, e))
<1> DEFINE body(f) == [i \in 0 .. Len(s) |->
                          IF i = 0 THEN <<>>
                          ELSE IF s[i] = e THEN f[i - 1]
                          ELSE Append(f[i - 1], s[i])]
           kept == CHOOSE f : f = body(f)
<1>1. \A f : f = body(f) <=> IsKept(f, s, e, Len(s))
  <2>. SUFFICES ASSUME NEW f PROVE f = body(f) <=> IsKept(f, s, e, Len(s))
    OBVIOUS
  <2>1. ASSUME f = body(f) PROVE IsKept(f, s, e, Len(s))
    <3>1. \A i \in 0 .. Len(s) : f[i] = IF i = 0 THEN <<>>
                          ELSE IF s[i] = e THEN f[i - 1]
                          ELSE Append(f[i - 1], s[i])
      BY <2>1
    <3>2. f = [i \in 0 .. Len(s) |-> f[i]]
      BY <2>1
    <3>. QED  BY <3>1, <3>2 DEF IsKept
  <2>2. ASSUME IsKept(f, s, e, Len(s)) PROVE f = body(f)
    BY <2>2, SMTT(30) DEF IsKept
  <2>. QED  BY <2>1, <2>2
<1>2. \E f : f = body(f)
  BY <1>1, KeptExists
<1>3. kept = body(kept)
  BY <1>2
<1>4. Without(s, e) = kept[Len(s)]
  BY DEF Without
<1>5. IsKept(kept, s, e, Len(s))
  BY <1>1, <1>3
<1>. HIDE DEF kept
<1>. QED  BY <1>4, <1>5, KeptProperties

\* m_omx_events.erase(it).
LEMMA RemoveAtProperties ==
    ASSUME NEW S, NEW q \in Seq(S), NEW i \in 1 .. Len(q)
    PROVE  /\ RemoveAt(q, i) \in Seq(S)
           /\ Len(RemoveAt(q, i)) = Len(q) - 1
           /\ \A k \in 1 .. Len(q) - 1 :
                 RemoveAt(q, i)[k] = IF k < i THEN q[k] ELSE q[k + 1]
<1> DEFINE a == SubSeq(q, 1, i - 1)
           b == SubSeq(q, i + 1, Len(q))
<1>1. /\ a \in Seq(S) /\ Len(a) = i - 1
      /\ \A k \in 1 .. i - 1 : a[k] = q[k]
  OBVIOUS
<1>2. /\ b \in Seq(S) /\ Len(b) = Len(q) - i
      /\ \A k \in 1 .. Len(q) - i : b[k] = q[k + i]
  OBVIOUS
<1>3. RemoveAt(q, i) = a \o b
  BY DEF RemoveAt
<1>. HIDE DEF a, b
<1>4. a \o b \in Seq(S) /\ Len(a \o b) = Len(q) - 1
  <2>1. a \o b \in Seq(S) /\ Len(a \o b) = Len(a) + Len(b)
    BY <1>1, <1>2, ConcatProperties
  <2>2. i \in Int /\ Len(q) \in Int
    OBVIOUS
  <2>. QED  BY <1>1, <1>2, <2>1, <2>2
<1>5. ASSUME NEW k \in 1 .. Len(q) - 1
      PROVE  (a \o b)[k] = IF k < i THEN q[k] ELSE q[k + 1]
  <2>1. CASE k < i
    BY <2>1, <1>1, <1>2
  <2>2. CASE k >= i
    <3>1. (a \o b)[k] = b[k - (i - 1)]
      BY <2>2, <1>1, <1>2
    <3>2. b[k - (i - 1)] = q[k + 1]
      BY <2>2, <1>2
    <3>. QED  BY <2>2, <3>1, <3>2
  <2>3. k < i \/ k >= i
    OBVIOUS
  <2>. QED  BY <2>1, <2>2, <2>3, Zenon
<1>. QED  BY <1>3, <1>4, <1>5

\* What is left of a queue in which nothing was twice.
LEMMA RemoveAtDistinct ==
    ASSUME NEW S, NEW q \in Seq(S), NEW i \in 1 .. Len(q), Distinct(q)
    PROVE  /\ Distinct(RemoveAt(q, i))
           /\ \A k \in 1 .. Len(RemoveAt(q, i)) :
                 /\ RemoveAt(q, i)[k] # q[i]
                 /\ \E j \in 1 .. Len(q) : q[j] = RemoveAt(q, i)[k]
<1> DEFINE r == RemoveAt(q, i)
<1>1. /\ r \in Seq(S) /\ Len(r) = Len(q) - 1 /\ Len(q) \in Nat
      /\ \A k \in 1 .. Len(q) - 1 : r[k] = IF k < i THEN q[k] ELSE q[k + 1]
  BY RemoveAtProperties
<1>. HIDE DEF r
<1>2. Distinct(r)
  BY <1>1 DEF Distinct
<1>3. \A k \in 1 .. Len(r) : r[k] # q[i] /\ \E j \in 1 .. Len(q) : q[j] = r[k]
  <2>. TAKE k \in 1 .. Len(r)
  <2>1. CASE k < i
    BY <2>1, <1>1 DEF Distinct
  <2>2. CASE k >= i
    BY <2>2, <1>1 DEF Distinct
  <2>. QED  BY <2>1, <2>2, <1>1
<1>. QED  BY <1>2, <1>3 DEF r

\* WaitForCommand finds the first event that concerns it.
LEMMA FirstAwaitedProperties ==
    ASSUME NEW c, NEW a, Awaited(c, a) # {}
    PROVE  FirstAwaited(c, a) \in 1 .. Len(events)
           /\ Concerns(events[FirstAwaited(c, a)], c, a)
<1>1. Awaited(c, a) \in SUBSET Nat
  BY DEF Awaited
<1>2. PICK x \in Awaited(c, a) : \A y \in Awaited(c, a) : x <= y
  BY <1>1, LeastOf
<1>3. FirstAwaited(c, a) \in Awaited(c, a)
  BY <1>2 DEF FirstAwaited
<1>. QED  BY <1>3 DEF Awaited

LEMMA DisjointUnion ==
    ASSUME NEW A, NEW B, IsFiniteSet(A), IsFiniteSet(B), A \cap B = {}
    PROVE  /\ IsFiniteSet(A \cup B)
           /\ Cardinality(A \cup B) = Cardinality(A) + Cardinality(B)
           /\ Cardinality(A) \in Nat /\ Cardinality(B) \in Nat
<1>1. Cardinality(A) \in Nat /\ Cardinality(B) \in Nat
  BY FS_CardinalityType
<1>2. IsFiniteSet(A \cup B)
  BY FS_Union
<1>3. Cardinality(A \cup B) = Cardinality(A) + Cardinality(B) - Cardinality({})
  BY FS_Union
<1>4. Cardinality({}) = 0
  BY FS_EmptySet
<1>. QED  BY <1>1, <1>2, <1>3, <1>4

\* A queue in which nothing is twice has as many elements as its length.
LEMMA DistinctCount ==
    ASSUME NEW S, NEW q \in Seq(S), Distinct(q)
    PROVE  IsFiniteSet(Range(q)) /\ Cardinality(Range(q)) = Len(q)
<1>1. q \in [1 .. Len(q) -> Range(q)] /\ DOMAIN q = 1 .. Len(q)
  BY DEF Range
<1>2. q \in Injection(1 .. Len(q), Range(q))
  BY <1>1 DEF Injection, IsInjective, Distinct
<1>3. q \in Surjection(1 .. Len(q), Range(q))
  BY <1>1 DEF Surjection, Range
<1>4. ExistsBijection(1 .. Len(q), Range(q))
  BY <1>2, <1>3 DEF ExistsBijection, Bijection
<1>5. IsFiniteSet(1 .. Len(q)) /\ Cardinality(1 .. Len(q)) = Len(q)
  <2>1. Len(q) \in Nat /\ 1 \in Int
    OBVIOUS
  <2>2. IsFiniteSet(1 .. Len(q))
    BY <2>1, FS_Interval
  <2>3. Cardinality(1 .. Len(q)) = IF 1 > Len(q) THEN 0 ELSE Len(q) - 1 + 1
    BY <2>1, FS_Interval, SMTT(30)
  <2>. QED  BY <2>1, <2>2, <2>3
<1>. QED  BY <1>4, <1>5, FS_Bijection

-----------------------------------------------------------------------------
(***************************************************************************)
(* The scripts.                                                            *)
(***************************************************************************)

GoodScript(s) ==
    s \in Seq(Steps) /\ Paired(s) /\ Once(s) /\ FlushFirst(s) /\ Lasting(s)

\* What the kinds of steps say of their fields.
LEMMA StepFields ==
    ASSUME NEW x \in Steps
    PROVE  /\ x.do \in {"send", "wait", "need", "alloc", "ready"} \cup Shutdown
           /\ x.do \in {"send", "wait", "need"} =>
                 /\ [cmd |-> x.cmd, arg |-> x.arg] \in Commands
                 /\ Complete(x.cmd, x.arg) \in Events
                 /\ x.cmd \in PortCommands \cup {"state"}
                 /\ x.cmd # "state" => x.arg \in Ports
           /\ x.do = "send" => x.fail \in OnFailure
           /\ x.do \notin {"send", "wait", "need"} => x.arg \in Ports
BY DEF Steps, Shutdown, Commands, Events, Complete

\* What the constructors of steps make.
LEMMA StepsMade ==
    ASSUME NEW a, NEW f \in OnFailure
    PROVE  /\ a \in Ports => \A c \in PortCommands :
                 {Send(c, a, f), Wait(c, a), Need(c, a)} \subseteq Steps
           /\ a \in States =>
                 {Send("state", a, f), Wait("state", a)} \subseteq Steps
           /\ a \in Ports => \A d \in {"alloc", "ready"} \cup Shutdown :
                 Do(d, a) \in Steps
BY DEF Steps, Shutdown, Send, Wait, Need, Do

LEMMA Joined ==
    ASSUME NEW S, NEW a \in Seq(S), NEW b \in Seq(S)
    PROVE  /\ a \o b \in Seq(S) /\ Len(a) \in Nat /\ Len(b) \in Nat
           /\ Len(a \o b) = Len(a) + Len(b)
           /\ \A i \in 1 .. Len(a) : (a \o b)[i] = a[i]
           /\ \A i \in 1 .. Len(b) : (a \o b)[Len(a) + i] = b[i]
           /\ \A i \in 1 .. Len(a \o b) :
                 \/ i \in 1 .. Len(a) /\ (a \o b)[i] = a[i]
                 \/ i - Len(a) \in 1 .. Len(b) /\ (a \o b)[i] = b[i - Len(a)]
OBVIOUS

LEMMA TailOf ==
    ASSUME NEW S, NEW q \in Seq(S), q # <<>>
    PROVE  /\ Tail(q) \in Seq(S) /\ Head(q) = q[1] /\ Head(q) \in S
           /\ Len(q) \in Nat \ {0}
           /\ Len(Tail(q)) = Len(q) - 1
           /\ \A i \in 1 .. Len(Tail(q)) : Tail(q)[i] = q[i + 1]
OBVIOUS

LEMMA TailScript ==
    ASSUME NEW s, GoodScript(s), s # <<>>
    PROVE  GoodScript(Tail(s))
<1> DEFINE t == Tail(s)
<1>1. /\ t \in Seq(Steps) /\ Len(s) \in Nat \ {0} /\ Len(t) = Len(s) - 1
      /\ \A i \in 1 .. Len(t) : t[i] = s[i + 1]
  BY TailOf DEF GoodScript
<1>. HIDE DEF t
<1>a. \A i \in 1 .. Len(t) : i + 1 \in 1 .. Len(s)
  BY <1>1
<1>2. Paired(t)
  <2>. SUFFICES ASSUME NEW i \in 1 .. Len(t), t[i].do = "send",
                       t[i].cmd # "enable" \/ t[i].fail = "skip"
                PROVE  \/ i < Len(t) /\ Awaits(t[i + 1], t[i].cmd, t[i].arg)
                       \/ /\ i + 1 < Len(t) /\ t[i + 1].do = "release"
                          /\ Awaits(t[i + 2], t[i].cmd, t[i].arg)
    BY DEF Paired
  <2>. DEFINE k == i + 1
  <2>1. k \in 1 .. Len(s) /\ t[i] = s[k] /\ k = i + 1
    BY <1>1, <1>a
  <2>. HIDE DEF k
  <2>2. \/ k < Len(s) /\ Awaits(s[k + 1], s[k].cmd, s[k].arg)
        \/ /\ k + 1 < Len(s) /\ s[k + 1].do = "release"
           /\ Awaits(s[k + 2], s[k].cmd, s[k].arg)
    BY <2>1 DEF Paired, GoodScript
  <2>3. CASE k < Len(s) /\ Awaits(s[k + 1], s[k].cmd, s[k].arg)
    <3>1. i < Len(t) /\ t[i + 1] = s[k + 1]
      BY <1>1, <2>1, <2>3
    <3>. QED  BY <2>1, <2>3, <3>1
  <2>4. CASE /\ k + 1 < Len(s) /\ s[k + 1].do = "release"
             /\ Awaits(s[k + 2], s[k].cmd, s[k].arg)
    <3>1. i + 1 < Len(t) /\ t[i + 1] = s[k + 1] /\ t[i + 2] = s[k + 2]
      BY <1>1, <2>1, <2>4
    <3>. QED  BY <2>1, <2>4, <3>1
  <2>. QED  BY <2>2, <2>3, <2>4
<1>3. Once(t)
  <2>. SUFFICES ASSUME NEW i \in 1 .. Len(t), NEW j \in 1 .. Len(t)
       PROVE  /\ t[i].do = "alloc" /\ t[j].do = "alloc" => i = j
              /\ Sends(t[i], "enable")
                    /\ (Sends(t[j], "enable") \/ Sends(t[j], "disable"))
                    => i = j
    BY DEF Once
  <2>1. /\ s[i + 1].do = "alloc" /\ s[j + 1].do = "alloc" => i + 1 = j + 1
        /\ Sends(s[i + 1], "enable")
              /\ (Sends(s[j + 1], "enable") \/ Sends(s[j + 1], "disable"))
              => i + 1 = j + 1
    BY <1>a DEF Once, GoodScript
  <2>2. t[i] = s[i + 1] /\ t[j] = s[j + 1] /\ (i + 1 = j + 1 => i = j)
    BY <1>1
  <2>. QED  BY <2>1, <2>2
<1>4. FlushFirst(t)
  <2>. SUFFICES ASSUME NEW i \in 1 .. Len(t), NEW j \in 1 .. Len(t),
                       NEW p \in Ports, t[i].do \in {"free", "release"},
                       Flushes(t[j], p)
                PROVE  j < i
    BY DEF FlushFirst
  <2>1. t[i] = s[i + 1] /\ t[j] = s[j + 1]
    BY <1>1
  <2>2. j + 1 < i + 1
    BY <1>a, <2>1 DEF FlushFirst, GoodScript
  <2>. QED  BY <1>1, <2>2
<1>5. Lasting(t)
  <2>. SUFFICES ASSUME NEW h \in 1 .. Len(t), t[h].do \in Shutdown
                PROVE  /\ t[Len(t)].do = "freeHandle"
                       /\ \A i \in 1 .. Len(t) :
                             /\ t[i].do \notin {"need", "alloc", "ready"}
                             /\ t[i].do = "freeHandle" => i = Len(t)
                             /\ t[i].do = "send" =>
                                   /\ t[i].cmd # "enable"
                                   /\ t[i].fail # "return"
                                   /\ t[i].cmd = "flush" => t[i].fail = "go on"
    BY DEF Lasting
  <2>1. t[Len(t)] = s[Len(s)]
    BY <1>1
  <2>2. \E i \in 1 .. Len(s) : s[i].do \in Shutdown
    BY <1>1, <1>a
  <2>3. \A i \in 1 .. Len(s) :
           /\ s[i].do \notin {"need", "alloc", "ready"}
           /\ s[i].do = "freeHandle" => i = Len(s)
           /\ s[i].do = "send" => /\ s[i].cmd # "enable" /\ s[i].fail # "return"
                                  /\ s[i].cmd = "flush" => s[i].fail = "go on"
    BY <2>2 DEF Lasting, GoodScript
  <2>4. s[Len(s)].do = "freeHandle"
    BY <2>2 DEF Lasting, GoodScript
  <2>5. \A i \in 1 .. Len(t) : i + 1 = Len(s) => i = Len(t)
    BY <1>1
  <2>. QED  BY <1>1, <1>a, <2>1, <2>3, <2>4, <2>5
<1>. QED  BY <1>1, <1>2, <1>3, <1>4, <1>5 DEF t, GoodScript

LEMMA PairedJoined ==
    ASSUME NEW a \in Seq(Steps), NEW b \in Seq(Steps), Paired(a), Paired(b)
    PROVE  Paired(a \o b)
<1> DEFINE s == a \o b
<1>1. /\ Len(s) = Len(a) + Len(b) /\ Len(a) \in Nat /\ Len(b) \in Nat
      /\ \A i \in 1 .. Len(a) : s[i] = a[i]
      /\ \A i \in 1 .. Len(b) : s[Len(a) + i] = b[i]
  BY Joined
<1>. HIDE DEF s
<1>2. SUFFICES ASSUME NEW i \in 1 .. Len(s), s[i].do = "send",
                      s[i].cmd # "enable" \/ s[i].fail = "skip"
               PROVE  \/ i < Len(s) /\ Awaits(s[i + 1], s[i].cmd, s[i].arg)
                      \/ /\ i + 1 < Len(s) /\ s[i + 1].do = "release"
                         /\ Awaits(s[i + 2], s[i].cmd, s[i].arg)
  BY DEF Paired, s
<1>3. CASE i \in 1 .. Len(a)
  <2>1. \/ i < Len(a) /\ Awaits(a[i + 1], a[i].cmd, a[i].arg)
        \/ /\ i + 1 < Len(a) /\ a[i + 1].do = "release"
           /\ Awaits(a[i + 2], a[i].cmd, a[i].arg)
    BY <1>1, <1>2, <1>3 DEF Paired
  <2>2. CASE i < Len(a) /\ Awaits(a[i + 1], a[i].cmd, a[i].arg)
    BY <1>1, <1>3, <2>2
  <2>3. CASE /\ i + 1 < Len(a) /\ a[i + 1].do = "release"
             /\ Awaits(a[i + 2], a[i].cmd, a[i].arg)
    BY <1>1, <1>3, <2>3, SMTT(30)
  <2>. QED  BY <2>1, <2>2, <2>3
<1>4. CASE i > Len(a)
  <2>. DEFINE k == i - Len(a)
  <2>1. k \in 1 .. Len(b) /\ i = Len(a) + k
    BY <1>1, <1>4
  <2>. HIDE DEF k
  <2>2. s[i] = b[k]
    BY <1>1, <2>1
  <2>3. \/ k < Len(b) /\ Awaits(b[k + 1], b[k].cmd, b[k].arg)
        \/ /\ k + 1 < Len(b) /\ b[k + 1].do = "release"
           /\ Awaits(b[k + 2], b[k].cmd, b[k].arg)
    BY <1>2, <2>1, <2>2 DEF Paired
  <2>4. CASE k < Len(b) /\ Awaits(b[k + 1], b[k].cmd, b[k].arg)
    <3>1. s[i + 1] = b[k + 1] /\ i < Len(s)
      <4>1. k + 1 \in 1 .. Len(b) /\ i + 1 = Len(a) + (k + 1)
        BY <1>1, <2>1, <2>4
      <4>2. s[i + 1] = b[k + 1]
        BY <1>1, <4>1
      <4>. QED  BY <1>1, <2>1, <2>4, <4>2
    <3>. QED  BY <2>2, <2>4, <3>1
  <2>5. CASE /\ k + 1 < Len(b) /\ b[k + 1].do = "release"
             /\ Awaits(b[k + 2], b[k].cmd, b[k].arg)
    <3>1. s[i + 1] = b[k + 1] /\ s[i + 2] = b[k + 2] /\ i + 1 < Len(s)
      BY <1>1, <2>1, <2>5
    <3>. QED  BY <2>2, <2>5, <3>1
  <2>. QED  BY <2>3, <2>4, <2>5
<1>. QED  BY <1>1, <1>3, <1>4

\* No step of the script is one of Deinitialize's, or of these.
Calm(s) == \A i \in 1 .. Len(s) : s[i].do \notin Shutdown

LEMMA CalmScript ==
    ASSUME NEW s \in Seq(Steps), Paired(s), Once(s), Calm(s)
    PROVE  GoodScript(s)
BY DEF GoodScript, FlushFirst, Lasting, Calm, Shutdown

\* SetStateForComponent's steps, and none but these.
StateOnly(s) ==
    /\ s \in Seq(Steps) /\ Paired(s)
    /\ \A i \in 1 .. Len(s) : s[i].do \in {"send", "wait"} /\ s[i].cmd = "state"
          /\ (s[i].do = "send" => s[i].fail = "skip")

LEMMA SetStateScript ==
    ASSUME NEW a \in States
    PROVE  StateOnly(SetState(a)) /\ SetState(a) # <<>>
<1>1. Send("state", a, "skip") \in Steps /\ Wait("state", a) \in Steps
  BY StepsMade DEF OnFailure
<1>2. SetState(a) \in Seq(Steps) /\ Len(SetState(a)) = 2
      /\ SetState(a)[1] = Send("state", a, "skip")
      /\ SetState(a)[2] = Wait("state", a)
  BY <1>1 DEF SetState
<1>. QED  BY <1>2 DEF StateOnly, Paired, Awaits, Send, Wait

LEMMA StateOnlyJoined ==
    ASSUME NEW a, NEW b, StateOnly(a), StateOnly(b)
    PROVE  StateOnly(a \o b)
<1>1. a \o b \in Seq(Steps) /\ Paired(a \o b)
  BY PairedJoined, Joined DEF StateOnly
<1>2. ASSUME NEW i \in 1 .. Len(a \o b)
      PROVE  \/ i \in 1 .. Len(a) /\ (a \o b)[i] = a[i]
             \/ i - Len(a) \in 1 .. Len(b) /\ (a \o b)[i] = b[i - Len(a)]
  BY Joined DEF StateOnly
<1>. HIDE DEF StateOnly
<1>3. ASSUME NEW i \in 1 .. Len(a \o b)
      PROVE  /\ (a \o b)[i].do \in {"send", "wait"} /\ (a \o b)[i].cmd = "state"
             /\ (a \o b)[i].do = "send" => (a \o b)[i].fail = "skip"
  <2>1. CASE i \in 1 .. Len(a) /\ (a \o b)[i] = a[i]
    BY <2>1 DEF StateOnly
  <2>2. CASE i - Len(a) \in 1 .. Len(b) /\ (a \o b)[i] = b[i - Len(a)]
    BY <2>2 DEF StateOnly
  <2>. QED  BY <1>2, <2>1, <2>2
<1>. QED  BY <1>1, <1>3 DEF StateOnly

LEMMA StateOnlyEmpty == StateOnly(<<>>)
BY DEF StateOnly, Paired

\* A script that first brings the component into a state.
LEMMA AfterState ==
    ASSUME NEW a, StateOnly(a), NEW b \in Seq(Steps), Paired(b), Once(b), Calm(b)
    PROVE  GoodScript(a \o b) /\ Calm(a \o b)
<1> DEFINE s == a \o b
<1>1. s \in Seq(Steps) /\ Paired(s)
  BY PairedJoined, Joined DEF StateOnly
<1>2. ASSUME NEW i \in 1 .. Len(s)
      PROVE  \/ i \in 1 .. Len(a) /\ s[i] = a[i]
             \/ i - Len(a) \in 1 .. Len(b) /\ s[i] = b[i - Len(a)]
  BY Joined DEF StateOnly
<1>3. Len(a) \in Nat
  BY DEF StateOnly
<1>. HIDE DEF s
<1>4. Calm(s)
  BY <1>2 DEF Calm, StateOnly, Shutdown
<1>5. ASSUME NEW i \in 1 .. Len(s), s[i].do = "alloc" \/ Sends(s[i], "enable")
                                   \/ Sends(s[i], "disable")
      PROVE  i - Len(a) \in 1 .. Len(b) /\ s[i] = b[i - Len(a)]
  BY <1>2, <1>5 DEF StateOnly, Sends
<1>6. Once(s)
  <2>. SUFFICES ASSUME NEW i \in 1 .. Len(s), NEW j \in 1 .. Len(s)
       PROVE  /\ s[i].do = "alloc" /\ s[j].do = "alloc" => i = j
              /\ Sends(s[i], "enable")
                    /\ (Sends(s[j], "enable") \/ Sends(s[j], "disable"))
                    => i = j
    BY DEF Once
  <2>1. i - Len(a) = j - Len(a) => i = j
    BY <1>3
  <2>2. s[i].do = "alloc" /\ s[j].do = "alloc" => i = j
    BY <1>5, <2>1 DEF Once
  <2>3. Sends(s[i], "enable")
          /\ (Sends(s[j], "enable") \/ Sends(s[j], "disable")) => i = j
    BY <1>5, <2>1 DEF Once
  <2>. QED  BY <2>2, <2>3
<1>. QED  BY <1>1, <1>4, <1>6, CalmScript DEF s

LEMMA StateScriptGood ==
    ASSUME NEW a, StateOnly(a)
    PROVE  GoodScript(a) /\ Calm(a)
BY DEF StateOnly, GoodScript, Once, FlushFirst, Lasting, Calm, Shutdown, Sends

LEMMA EmptyScript == GoodScript(<<>>) /\ Calm(<<>>) /\ Len(<<>>) = 0
BY DEF GoodScript, Paired, Once, FlushFirst, Lasting, Calm

LEMMA SendEnableScript ==
    ASSUME NEW p \in Ports
    PROVE  /\ GoodScript(SendEnable(p)) /\ Calm(SendEnable(p))
           /\ \A i \in 1 .. Len(SendEnable(p)) :
                 SendEnable(p)[i] = Send("enable", p, "return") /\ ~enabled[p]
<1>1. CASE enabled[p]
  <2>1. SendEnable(p) = <<>>
    BY <1>1 DEF SendEnable
  <2>. QED  BY <2>1, EmptyScript
<1>2. CASE ~enabled[p]
  <2> DEFINE x == Send("enable", p, "return")
             s == << x >>
  <2>0. x \in Steps
    BY StepsMade DEF PortCommands, OnFailure
  <2>1. s \in Seq(Steps) /\ Len(s) = 1 /\ s[1] = Send("enable", p, "return")
    <3>. HIDE DEF x
    <3>1. s \in Seq(Steps) /\ Len(s) = 1 /\ s[1] = x
      BY <2>0
    <3>. QED  BY <3>1 DEF x
  <2>2. SendEnable(p) = s
    BY <1>2 DEF SendEnable
  <2>. HIDE DEF s
  <2>3. Paired(s) /\ Once(s) /\ Calm(s)
    BY <2>1 DEF Paired, Once, Calm, Send, Shutdown
  <2>4. GoodScript(s)
    BY <2>1, <2>3, CalmScript
  <2>5. \A i \in 1 .. Len(s) : s[i] = Send("enable", p, "return")
    BY <2>1
  <2>. QED  BY <1>2, <2>2, <2>3, <2>4, <2>5
<1>. QED  BY <1>1, <1>2

LEMMA DisableAllPortsScript ==
    GoodScript(DisableAllPorts) /\ Calm(DisableAllPorts) /\ DisableAllPorts # <<>>
    /\ \A i \in 1 .. Len(DisableAllPorts) :
          DisableAllPorts[i].do # "alloc" /\ ~Sends(DisableAllPorts[i], "enable")
<1> DEFINE a == Send("disable", In, "go on")
           b == Need("disable", In)
           c == Send("disable", Out, "go on")
           d == Need("disable", Out)
<1>1. In \in Ports /\ Out \in Ports
  BY DEF Ports
<1>2. \A p \in Ports : /\ Send("disable", p, "go on") \in Steps
                        /\ Need("disable", p) \in Steps
  BY StepsMade DEF PortCommands, OnFailure
<1>3. a \in Steps /\ b \in Steps /\ c \in Steps /\ d \in Steps
  BY <1>1, <1>2
<1>4. /\ a.do = "send" /\ a.cmd = "disable" /\ a.arg = In
      /\ b.do = "need" /\ b.cmd = "disable" /\ b.arg = In
      /\ c.do = "send" /\ c.cmd = "disable" /\ c.arg = Out
      /\ d.do = "need" /\ d.cmd = "disable" /\ d.arg = Out
  BY DEF Send, Need
<1>5. PICK s : s = << a, b, c, d >>
  OBVIOUS
<1>6. DisableAllPorts = s
  BY <1>5 DEF DisableAllPorts
<1>. HIDE DEF a, b, c, d
<1>7. /\ s \in Seq(Steps) /\ Len(s) = 4 /\ s # <<>>
      /\ s[1] = a /\ s[2] = b /\ s[3] = c /\ s[4] = d
  BY <1>3, <1>5
<1>8. \A i \in 1 .. Len(s) : i = 1 \/ i = 2 \/ i = 3 \/ i = 4
  BY <1>7
<1>9. Paired(s)
  BY <1>4, <1>7, <1>8 DEF Paired, Awaits
<1>10. \A i \in 1 .. Len(s) :
          /\ s[i].do \in {"send", "need"} /\ ~Sends(s[i], "enable")
  BY <1>4, <1>7, <1>8 DEF Sends
<1>11. Once(s) /\ Calm(s)
  BY <1>10 DEF Once, Calm, Shutdown
<1>. QED  BY <1>6, <1>7, <1>9, <1>10, <1>11, CalmScript

LEMMA ToIdleScript ==
    ASSUME state \in States
    PROVE  StateOnly(ToIdle)
BY SetStateScript, StateOnlyJoined, StateOnlyEmpty DEF ToIdle, States

\* What AllocInputBuffers and AllocOutputBuffers do.
AllocatesFor(s, p) ==
    \A i \in 1 .. Len(s) :
        /\ s[i].do = "alloc" => s[i].arg = p
        /\ Sends(s[i], "enable") => s[i].arg = p /\ ~enabled[p]
        /\ ~Sends(s[i], "disable")

LEMMA AllocScript ==
    ASSUME state \in States, NEW p \in Ports,
           NEW s, s = ToIdle \o SendEnable(p) \o
                        << Do("alloc", p), Need("enable", p), Do("ready", p) >>
    PROVE  GoodScript(s) /\ Calm(s) /\ AllocatesFor(s, p)
<1> DEFINE x == Do("alloc", p)
           y == Need("enable", p)
           z == Do("ready", p)
           e == SendEnable(p)
           w == Send("enable", p, "return")
           a == ToIdle
<1>1. x \in Steps /\ y \in Steps /\ z \in Steps
  BY StepsMade DEF PortCommands, OnFailure
<1>2. /\ x.do = "alloc" /\ x.arg = p
      /\ y.do = "need" /\ y.cmd = "enable" /\ z.do = "ready"
      /\ w.do = "send" /\ w.cmd = "enable" /\ w.arg = p /\ w.fail = "return"
  BY DEF Do, Need, Send
<1>3. PICK c : c = << x, y, z >>
  OBVIOUS
<1>4. /\ GoodScript(e) /\ Calm(e)
      /\ \A i \in 1 .. Len(e) : e[i] = w /\ ~enabled[p]
      /\ Len(e) \in {0, 1}
  <2>1. Len(e) \in {0, 1}
    BY DEF SendEnable
  <2>. QED  BY <2>1, SendEnableScript
<1>5. StateOnly(a)
  BY ToIdleScript
<1>6. s = (a \o e) \o c
  BY <1>3
<1>. HIDE DEF x, y, z, w, e, a
<1>7. /\ c \in Seq(Steps) /\ Len(c) = 3
      /\ c[1] = x /\ c[2] = y /\ c[3] = z
  BY <1>1, <1>3
<1>8. \A i \in 1 .. Len(c) : i = 1 \/ i = 2 \/ i = 3
  BY <1>7
<1>9. Paired(c)
  BY <1>2, <1>7, <1>8 DEF Paired
<1> DEFINE b == e \o c
<1>10. /\ b \in Seq(Steps) /\ Paired(b)
       /\ Len(b) = Len(e) + 3
       /\ \A i \in 1 .. Len(b) :
             \/ i \in 1 .. Len(e) /\ b[i] = w
             \/ i - Len(e) \in 1 .. 3 /\ b[i] = c[i - Len(e)]
  <2>1. e \in Seq(Steps) /\ Paired(e)
    BY <1>4 DEF GoodScript
  <2>2. b \in Seq(Steps) /\ Paired(b) /\ Len(b) = Len(e) + Len(c)
    <3>1. c \in Seq(Steps)
      BY <1>7
    <3>2. Paired(e \o c)
      BY ONLY <2>1, <3>1, <1>9, PairedJoined
    <3>3. e \o c \in Seq(Steps) /\ Len(e \o c) = Len(e) + Len(c)
      BY ONLY <2>1, <3>1, Joined
    <3>. QED  BY ONLY <3>2, <3>3
  <2>3. \A i \in 1 .. Len(b) :
          \/ i \in 1 .. Len(e) /\ b[i] = e[i]
          \/ i - Len(e) \in 1 .. Len(c) /\ b[i] = c[i - Len(e)]
    <3>1. c \in Seq(Steps)
      BY <1>7
    <3>. QED  BY ONLY <2>1, <3>1, Joined
  <2>. HIDE DEF b
  <2>. QED  BY <2>2, <2>3, <1>4, <1>7
<1>11. s = a \o b
  <2>1. a \in Seq(Steps) /\ e \in Seq(Steps)
    BY <1>5, <1>4 DEF StateOnly, GoodScript
  <2>2. (a \o e) \o c = a \o (e \o c)
    <3>1. c \in Seq(Steps)
      BY <1>7
    <3>. QED  BY <2>1, <3>1, ConcatAssociative, SMTT(20)
  <2>. QED  BY <2>2, <1>6
<1>. HIDE DEF b
<1>12. \A i \in 1 .. Len(b) :
         \/ i \in 1 .. Len(e) /\ b[i] = w
         \/ i = Len(e) + 1 /\ b[i] = x
         \/ i = Len(e) + 2 /\ b[i] = y
         \/ i = Len(e) + 3 /\ b[i] = z
  BY <1>4, <1>7, <1>10
<1>13. Once(b)
  <2>1. \A i \in 1 .. Len(b) : b[i].do = "alloc" => i = Len(e) + 1
    BY <1>2, <1>12
  <2>2. \A i \in 1 .. Len(b) : ~Sends(b[i], "disable")
    BY <1>2, <1>12 DEF Sends
  <2>3. \A i \in 1 .. Len(b) : Sends(b[i], "enable") => i = 1
    BY <1>2, <1>4, <1>12, SMTT(30) DEF Sends
  <2>. QED  BY <2>1, <2>2, <2>3 DEF Once
<1>14. Calm(b)
  BY <1>2, <1>12 DEF Calm, Shutdown
<1>15. \A i \in 1 .. Len(s) :
          \/ i \in 1 .. Len(a) /\ s[i] = a[i]
          \/ i - Len(a) \in 1 .. Len(b) /\ s[i] = b[i - Len(a)]
  <2>1. a \in Seq(Steps) /\ b \in Seq(Steps)
    BY <1>5, <1>10 DEF StateOnly
  <2>2. \A i \in 1 .. Len(a \o b) :
          \/ i \in 1 .. Len(a) /\ (a \o b)[i] = a[i]
          \/ i - Len(a) \in 1 .. Len(b) /\ (a \o b)[i] = b[i - Len(a)]
    BY ONLY <2>1, Joined
  <2>. QED  BY ONLY <2>2, <1>11
<1>16. ASSUME NEW i \in 1 .. Len(s)
       PROVE  /\ s[i].do = "alloc" => s[i].arg = p
              /\ Sends(s[i], "enable") => s[i].arg = p /\ ~enabled[p]
              /\ ~Sends(s[i], "disable")
  <2>1. CASE i \in 1 .. Len(a) /\ s[i] = a[i]
    BY <2>1, <1>5 DEF StateOnly, Sends
  <2>2. CASE i - Len(a) \in 1 .. Len(b) /\ s[i] = b[i - Len(a)]
    BY <2>2, <1>2, <1>4, <1>12 DEF Sends
  <2>. QED  BY <2>1, <2>2, <1>15
<1>. QED  BY <1>5, <1>10, <1>11, <1>13, <1>14, <1>16, AfterState DEF AllocatesFor

LEMMA FlushScript ==
    ASSUME NEW p \in Ports
    PROVE  /\ GoodScript(FlushSteps(p)) /\ Calm(FlushSteps(p))
           /\ \A i \in 1 .. Len(FlushSteps(p)) :
                 \/ FlushSteps(p)[i] = Send("flush", p, "go on")
                 \/ FlushSteps(p)[i] = Wait("flush", p)
           /\ ~resErr => /\ 1 \in 1 .. Len(FlushSteps(p))
                         /\ FlushSteps(p)[1] = Send("flush", p, "go on")
<1> DEFINE x == Send("flush", p, "go on")
           y == Wait("flush", p)
<1>1. x \in Steps /\ y \in Steps
  BY StepsMade DEF PortCommands, OnFailure
<1>2. /\ x.do = "send" /\ x.cmd = "flush" /\ x.arg = p
      /\ y.do = "wait" /\ y.cmd = "flush" /\ y.arg = p
  BY DEF Send, Wait
<1>3. PICK s : s = FlushSteps(p)
  OBVIOUS
<1>4. CASE resErr
  <2>1. s = <<>>
    BY <1>3, <1>4 DEF FlushSteps
  <2>. QED  BY <1>3, <1>4, <2>1, EmptyScript
<1>5. CASE ~resErr
  <2>1. s = <<x, y>>
    BY <1>3, <1>5 DEF FlushSteps
  <2>. HIDE DEF x, y
  <2>2. /\ s \in Seq(Steps) /\ Len(s) = 2 /\ s[1] = x /\ s[2] = y
    BY <1>1, <2>1
  <2>3. \A i \in 1 .. Len(s) : i = 1 \/ i = 2
    BY <2>2
  <2>4. Paired(s) /\ Once(s) /\ Calm(s)
    BY <1>2, <2>2, <2>3 DEF Paired, Once, Calm, Awaits, Sends, Shutdown
  <2>5. GoodScript(s)
    BY <2>2, <2>4, CalmScript
  <2>6. (\A i \in 1 .. Len(s) : s[i] = x \/ s[i] = y) /\ 1 \in 1 .. Len(s)
    BY <2>2, <2>3
  <2>. QED  BY <1>3, <1>5, <2>2, <2>4, <2>5, <2>6 DEF x, y
<1>. QED  BY <1>4, <1>5

\* What Deinitialize does.
LEMMA DeinitializeScript ==
    ASSUME NEW s, s = << Do("flush", In), Do("flush", Out), Do("free", Out),
                         Do("free", In), Do("toIdle", Out), Do("toLoaded", Out),
                         Do("freeHandle", Out) >>
    PROVE  /\ GoodScript(s)
           /\ \A i \in 1 .. Len(s) : s[i].do \in Shutdown
           /\ \A p \in Ports : \E i \in 1 .. Len(s) :
                 s[i].do = "flush" /\ s[i].arg = p
<1> DEFINE a == Do("flush", In)
           b == Do("flush", Out)
           c == Do("free", Out)
           d == Do("free", In)
           e == Do("toIdle", Out)
           f == Do("toLoaded", Out)
           g == Do("freeHandle", Out)
<1>1. In \in Ports /\ Out \in Ports /\ \A p \in Ports : p = In \/ p = Out
  BY DEF Ports
<1>2. \A p \in Ports : \A w \in Shutdown : Do(w, p) \in Steps
  BY StepsMade DEF OnFailure
<1>3. {a, b, c, d, e, f, g} \subseteq Steps
  BY <1>1, <1>2 DEF Shutdown
<1>4. /\ a.do = "flush" /\ a.arg = In /\ b.do = "flush" /\ b.arg = Out
      /\ c.do = "free" /\ d.do = "free" /\ e.do = "toIdle"
      /\ f.do = "toLoaded" /\ g.do = "freeHandle"
  BY DEF Do
<1>. HIDE DEF a, b, c, d, e, f, g
<1>5. s = << a, b, c, d, e, f, g >>
  BY DEF a, b, c, d, e, f, g
<1>6. /\ s \in Seq(Steps) /\ Len(s) = 7
      /\ s[1] = a /\ s[2] = b /\ s[3] = c /\ s[4] = d /\ s[5] = e
      /\ s[6] = f /\ s[7] = g
  BY <1>3, <1>5
<1>7. \A i \in 1 .. Len(s) : \/ i = 1 \/ i = 2 \/ i = 3 \/ i = 4 \/ i = 5
                             \/ i = 6 \/ i = 7
  BY <1>6
<1>8. \A i \in 1 .. Len(s) : s[i].do \in Shutdown
  BY <1>4, <1>6, <1>7 DEF Shutdown
<1>9. Paired(s) /\ Once(s)
  BY <1>8 DEF Paired, Once, Sends, Shutdown
<1>10. FlushFirst(s)
  <2>1. ASSUME NEW i \in 1 .. Len(s), s[i].do \in {"free", "release"} PROVE i > 2
    BY <1>4, <1>6, <1>7, <2>1
  <2>2. ASSUME NEW j \in 1 .. Len(s), NEW p \in Ports, Flushes(s[j], p) PROVE j <= 2
    BY <1>4, <1>6, <1>7, <2>2 DEF Flushes, Sends, Awaits
  <2>. QED  BY <2>1, <2>2 DEF FlushFirst
<1>11. Lasting(s)
  <2>1. s[Len(s)].do = "freeHandle"
    BY <1>4, <1>6
  <2>2. \A i \in 1 .. Len(s) : s[i].do = "freeHandle" => i = Len(s)
    BY <1>4, <1>6, <1>7
  <2>3. \A w \in Shutdown : w \notin {"need", "alloc", "ready", "send"}
    BY ONLY DEF Shutdown
  <2>. QED  BY ONLY <1>8, <2>1, <2>2, <2>3 DEF Lasting
<1>12. \A p \in Ports : \E i \in 1 .. Len(s) : s[i].do = "flush" /\ s[i].arg = p
  BY <1>1, <1>4, <1>6
<1>. QED  BY <1>6, <1>8, <1>9, <1>10, <1>11, <1>12 DEF GoodScript

\* What the calls inside Deinitialize come to, when they are reached.
Expanded(x) ==
    CASE x.do = "flush" -> FlushSteps(x.arg)
      [] x.do = "free"  -> FreeBuffers(x.arg)
      [] OTHER          -> ToLoaded(x.do)

LEMMA FreeScript ==
    ASSUME NEW p \in Ports, NEW s, s = FreeBuffers(p)
    PROVE  /\ s \in Seq(Steps) /\ Paired(s)
           /\ \A i \in 1 .. Len(s) :
                 /\ s[i].do \in {"send", "wait", "release", "check"}
                 /\ s[i].do \in {"send", "wait"} => s[i].cmd = "disable"
                 /\ s[i].do = "send" => s[i].fail = "go on"
                 /\ s[i].do = "release" => s[i].arg = p
<1> DEFINE x == Send("disable", p, "go on")
           a == Do("release", p)
           b == Wait("disable", p)
           c == Do("check", p)
           d == IF enabled[p] THEN <<x>> ELSE <<>>
<1>1. x \in Steps /\ a \in Steps /\ b \in Steps /\ c \in Steps
  BY StepsMade DEF PortCommands, OnFailure, Shutdown
<1>2. /\ x.do = "send" /\ x.cmd = "disable" /\ x.arg = p /\ x.fail = "go on"
      /\ a.do = "release" /\ a.arg = p
      /\ b.do = "wait" /\ b.cmd = "disable" /\ b.arg = p /\ c.do = "check"
  BY DEF Send, Do, Wait
<1>3. s = IF all[p] = {} THEN <<>> ELSE d \o <<a, b, c>>
  BY DEF FreeBuffers
<1>. HIDE DEF x, a, b, c
<1>4. CASE s = <<>>
  BY <1>4 DEF Paired
<1>5. CASE s = <<>> \o <<a, b, c>>
  <2>1. s \in Seq(Steps) /\ Len(s) = 3 /\ s[1] = a /\ s[2] = b /\ s[3] = c
    BY <1>1, <1>5
  <2>2. \A i \in 1 .. Len(s) : i = 1 \/ i = 2 \/ i = 3
    BY <2>1
  <2>. QED  BY <1>2, <2>1, <2>2 DEF Paired
<1>6. CASE s = <<x>> \o <<a, b, c>>
  <2>1. /\ s \in Seq(Steps) /\ Len(s) = 4
        /\ s[1] = x /\ s[2] = a /\ s[3] = b /\ s[4] = c
    BY <1>1, <1>6
  <2>2. \A i \in 1 .. Len(s) : i = 1 \/ i = 2 \/ i = 3 \/ i = 4
    BY <2>1
  <2>3. Paired(s)
    <3>1. 1 + 1 < Len(s) /\ s[1 + 1].do = "release"
          /\ Awaits(s[1 + 2], s[1].cmd, s[1].arg)
      <4>1. Awaits(b, x.cmd, x.arg)
        BY <1>2 DEF Awaits
      <4>2. s[1 + 1] = a /\ s[1 + 2] = b /\ 1 + 1 < Len(s)
        BY <2>1
      <4>. QED  BY <1>2, <2>1, <4>1, <4>2
    <3>2. \A i \in 1 .. Len(s) : s[i].do = "send" => i = 1
      BY <1>2, <2>1, <2>2
    <3>. QED  BY <3>1, <3>2 DEF Paired
  <2>. QED  BY <1>2, <2>1, <2>2, <2>3
<1>. QED  BY <1>3, <1>4, <1>5, <1>6

LEMMA ExpandedScript ==
    ASSUME NEW x \in Steps, x.do \in {"flush", "free", "toIdle", "toLoaded"},
           NEW s, s = Expanded(x)
    PROVE  /\ s \in Seq(Steps) /\ Paired(s)
           /\ \A i \in 1 .. Len(s) :
                 /\ s[i].do \in {"send", "wait", "release", "check"}
                 /\ s[i].do = "send" => /\ s[i].cmd # "enable" /\ s[i].fail # "return"
                                        /\ s[i].cmd = "flush" => s[i].fail = "go on"
                 /\ \A p \in Ports : Flushes(s[i], p) => x.do = "flush" /\ x.arg = p
                 /\ s[i].do = "release" => x.do = "free"
<1>1. CASE x.do = "flush"
  <2>1. s = FlushSteps(x.arg) /\ x.arg \in Ports
    BY <1>1, StepFields DEF Expanded
  <2>2. /\ s \in Seq(Steps) /\ Paired(s)
        /\ \A i \in 1 .. Len(s) : \/ s[i] = Send("flush", x.arg, "go on")
                                   \/ s[i] = Wait("flush", x.arg)
    BY <2>1, FlushScript DEF GoodScript
  <2>3. ASSUME NEW i \in 1 .. Len(s)
        PROVE  /\ s[i].do \in {"send", "wait"} /\ s[i].cmd = "flush"
               /\ s[i].arg = x.arg
               /\ s[i].do = "send" => s[i].fail = "go on"
    <3>1. CASE s[i] = Send("flush", x.arg, "go on")
      <4>1. \A a : /\ Send("flush", a, "go on").do = "send"
                   /\ Send("flush", a, "go on").cmd = "flush"
                   /\ Send("flush", a, "go on").arg = a
                   /\ Send("flush", a, "go on").fail = "go on"
        BY DEF Send
      <4>. QED  BY <3>1, <4>1
    <3>2. CASE s[i] = Wait("flush", x.arg)
      BY <3>2 DEF Wait
    <3>. QED  BY <2>2, <3>1, <3>2
  <2>. QED  BY <1>1, <2>2, <2>3 DEF Flushes, Sends, Awaits
<1>2. CASE x.do = "free"
  <2>1. s = FreeBuffers(x.arg) /\ x.arg \in Ports
    BY <1>2, StepFields DEF Expanded
  <2>2. /\ s \in Seq(Steps) /\ Paired(s)
        /\ \A i \in 1 .. Len(s) :
              /\ s[i].do \in {"send", "wait", "release", "check"}
              /\ s[i].do \in {"send", "wait"} => s[i].cmd = "disable"
              /\ s[i].do = "send" => s[i].fail = "go on"
    BY <2>1, FreeScript
  <2>. QED  BY <1>2, <2>2 DEF Flushes, Sends, Awaits
<1>3. CASE x.do \in {"toIdle", "toLoaded"}
  <2>1. s = ToLoaded(x.do)
    BY <1>3 DEF Expanded
  <2>2. StateOnly(s)
    BY <2>1, SetStateScript, StateOnlyEmpty DEF ToLoaded, States
  <2>. QED  BY <2>2 DEF StateOnly, Flushes, Sends, Awaits
<1>. QED  BY <1>1, <1>2, <1>3

\* A call inside Deinitialize takes the place of its step.
LEMMA ExpandScript ==
    ASSUME NEW s, GoodScript(s), s # <<>>,
           Head(s).do \in {"flush", "free", "toIdle", "toLoaded"}
    PROVE  /\ GoodScript(Expanded(Head(s)) \o Tail(s))
           /\ \E i \in 1 .. Len(Expanded(Head(s)) \o Tail(s)) :
                 (Expanded(Head(s)) \o Tail(s))[i].do \in Shutdown
<1> DEFINE x == Head(s)
           e == Expanded(x)
           t == Tail(s)
           r == e \o t
<1>1. /\ x \in Steps /\ x = s[1] /\ t \in Seq(Steps) /\ GoodScript(t)
      /\ Len(s) \in Nat \ {0} /\ Len(t) = Len(s) - 1
      /\ \A i \in 1 .. Len(t) : t[i] = s[i + 1] /\ i + 1 \in 1 .. Len(s)
  BY TailScript, TailOf DEF GoodScript
<1>2. /\ e \in Seq(Steps) /\ Paired(e)
      /\ \A i \in 1 .. Len(e) :
            /\ e[i].do \in {"send", "wait", "release", "check"}
            /\ e[i].do = "send" => /\ e[i].cmd # "enable" /\ e[i].fail # "return"
                                   /\ e[i].cmd = "flush" => e[i].fail = "go on"
            /\ \A p \in Ports : Flushes(e[i], p) => x.do = "flush" /\ x.arg = p
            /\ e[i].do = "release" => x.do = "free"
  BY <1>1, ExpandedScript
<1>3. x.do \in {"flush", "free", "toIdle", "toLoaded"}
  OBVIOUS
<1>. HIDE DEF x, e, t
<1>4. /\ r \in Seq(Steps) /\ Len(r) = Len(e) + Len(t) /\ Len(e) \in Nat
      /\ \A i \in 1 .. Len(t) : r[Len(e) + i] = t[i]
      /\ \A i \in 1 .. Len(r) :
            \/ i \in 1 .. Len(e) /\ r[i] = e[i]
            \/ i - Len(e) \in 1 .. Len(t) /\ r[i] = t[i - Len(e)]
  <2>1. e \in Seq(Steps) /\ t \in Seq(Steps)
    BY <1>1, <1>2
  <2>. QED  BY <2>1, Joined
<1>5. Paired(r)
  BY <1>1, <1>2, PairedJoined DEF GoodScript
<1>. HIDE DEF r
<1>6. /\ s[Len(s)].do = "freeHandle"
      /\ \A i \in 1 .. Len(s) :
            /\ s[i].do \notin {"need", "alloc", "ready"}
            /\ s[i].do = "freeHandle" => i = Len(s)
            /\ s[i].do = "send" => /\ s[i].cmd # "enable" /\ s[i].fail # "return"
                                   /\ s[i].cmd = "flush" => s[i].fail = "go on"
  <2>1. 1 \in 1 .. Len(s) /\ s[1].do \in Shutdown
    BY <1>1, <1>3 DEF Shutdown
  <2>. QED  BY <2>1 DEF GoodScript, Lasting
<1>7. \A i \in 1 .. Len(r) :
         /\ r[i].do \notin {"need", "alloc", "ready"}
         /\ r[i].do = "send" => /\ r[i].cmd # "enable" /\ r[i].fail # "return"
                                /\ r[i].cmd = "flush" => r[i].fail = "go on"
  <2>. TAKE i \in 1 .. Len(r)
  <2>1. CASE i \in 1 .. Len(e) /\ r[i] = e[i]
    BY <1>2, <2>1
  <2>2. CASE i - Len(e) \in 1 .. Len(t) /\ r[i] = t[i - Len(e)]
    <3>1. PICK k \in 1 .. Len(s) : r[i] = s[k]
      BY <1>1, <2>2
    <3>. QED  BY <1>6, <3>1
  <2>. QED  BY <1>4, <2>1, <2>2
<1>8. Once(r)
  BY <1>7 DEF Once, Sends
<1>9. Len(t) \in Nat \ {0} /\ Len(r) \in 1 .. Len(r) /\ r[Len(r)].do = "freeHandle"
  <2>1. Len(s) # 1
    BY <1>1, <1>3, <1>6
  <2>2. Len(t) \in Nat \ {0}
    BY <1>1, <2>1
  <2>3. r[Len(e) + Len(t)] = t[Len(t)] /\ t[Len(t)] = s[Len(s)]
    BY <1>1, <1>4, <2>2, SMTT(30)
  <2>4. Len(r) = Len(e) + Len(t) /\ Len(r) \in 1 .. Len(r)
    BY <1>4, <2>2
  <2>. QED  BY <1>6, <2>2, <2>3, <2>4
<1>10. Lasting(r)
  <2>1. ASSUME NEW i \in 1 .. Len(r), r[i].do = "freeHandle" PROVE i = Len(r)
    <3>1. i - Len(e) \in 1 .. Len(t) /\ r[i] = t[i - Len(e)]
      BY <1>2, <1>4, <2>1
    <3>2. i - Len(e) + 1 \in 1 .. Len(s) /\ s[i - Len(e) + 1] = r[i]
      BY <1>1, <3>1
    <3>3. i - Len(e) + 1 = Len(s)
      BY <1>6, <2>1, <3>2
    <3>. QED  BY <1>1, <1>4, <3>3
  <2>. QED  BY <1>7, <1>9, <2>1 DEF Lasting
<1>11. FlushFirst(r)
  <2>. SUFFICES ASSUME NEW i \in 1 .. Len(r), NEW j \in 1 .. Len(r), NEW p \in Ports,
                       r[i].do \in {"free", "release"}, Flushes(r[j], p), ~(j < i)
                PROVE  FALSE
    BY DEF FlushFirst
  <2>1. CASE i \in 1 .. Len(e) /\ r[i] = e[i]
    <3>1. x.do = "free"
      BY <1>2, <2>1
    <3>2. CASE j \in 1 .. Len(e) /\ r[j] = e[j]
      BY <1>2, <3>1, <3>2
    <3>3. CASE j - Len(e) \in 1 .. Len(t) /\ r[j] = t[j - Len(e)]
      <4>1. PICK k \in 1 .. Len(s) : k > 1 /\ Flushes(s[k], p)
        BY <1>1, <3>3, SMTT(30)
      <4>2. 1 \in 1 .. Len(s) /\ s[1].do \in {"free", "release"}
        BY <1>1, <3>1
      <4>. QED  BY <4>1, <4>2 DEF GoodScript, FlushFirst
    <3>. QED  BY <1>4, <3>2, <3>3
  <2>2. CASE i - Len(e) \in 1 .. Len(t) /\ r[i] = t[i - Len(e)]
    <3>1. j - Len(e) \in 1 .. Len(t) /\ r[j] = t[j - Len(e)]
      BY <1>4, <2>2
    <3>2. j - Len(e) < i - Len(e)
      BY <1>1, <2>2, <3>1 DEF GoodScript, FlushFirst
    <3>. QED  BY <1>4, <3>2
  <2>. QED  BY <1>4, <2>1, <2>2
<1>12. r[Len(r)].do \in Shutdown
  BY <1>9 DEF Shutdown
<1>. QED  BY <1>4, <1>5, <1>8, <1>9, <1>10, <1>11, <1>12 DEF GoodScript, r, e, t, x

-----------------------------------------------------------------------------
(***************************************************************************)
(* Types.                                                                  *)
(***************************************************************************)

LEMMA InitInv == Init => IInv
<1>. SUFFICES ASSUME Init PROVE IInv
  OBVIOUS
<1>1. TypeOK
  <2>1. /\ generation \in 0 .. MaxHandles /\ faults \in 0 .. MaxFaults
        /\ state \in States
    BY ComponentAssumption DEF Init, States
  <2>2. /\ all \in [Ports -> SUBSET Buffers] /\ held \in [Ports -> SUBSET Buffers]
        /\ device \in [Ports -> SUBSET Buffers] /\ dropped \in [Ports -> SUBSET Buffers]
        /\ alive \in [Ports -> SUBSET Buffers] /\ avail \in [Ports -> Seq(Buffers)]
    BY DEF Init
  <2>3. script \in Seq(Steps) /\ events \in Seq(Events) /\ cmds \in Seq(Commands)
    BY DEF Init
  <2>4. flushing \in [Ports -> BOOLEAN] /\ enabled \in [Ports -> BOOLEAN]
    BY DEF Init
  <2>. QED  BY <2>1, <2>2, <2>3, <2>4 DEF Init, TypeOK
<1>2. ScriptInv
  BY EmptyScript DEF Init, ScriptInv, Fits, GoodScript
<1>3. HandleInv /\ HomeInv /\ NoDuplicateEvents /\ FlushInv
  BY DEF Init, HandleInv, HomeInv, NoDuplicateEvents, FlushInv, Leaving
<1>4. OwnerInv
  BY FS_EmptySet DEF Init, OwnerInv, Owned, CbIdle, InCallback, Range, Distinct
<1>5. OpenInv
  BY DEF Init, OpenInv, OpenOnce, OpenAwaited, EnableLasts, UnfinishedOnce, Open,
     Unfinished, Answered
<1>. QED  BY <1>1, <1>2, <1>3, <1>4, <1>5 DEF IInv

\* The first step of a script.
LEMMA HeadStep ==
    ASSUME TypeOK, ScriptInv, script # <<>>
    PROVE  /\ Step \in Steps /\ Step = script[1]
           /\ 1 \in 1 .. Len(script) /\ Len(script) \in Nat \ {0}
           /\ Tail(script) \in Seq(Steps) /\ Len(Tail(script)) = Len(script) - 1
           /\ \A i \in 1 .. Len(Tail(script)) :
                 Tail(script)[i] = script[i + 1] /\ i + 1 \in 1 .. Len(script)
           /\ Step.do = "send" /\ Step.fail = "skip" => Tail(script) # <<>>
<1>1. /\ Step \in Steps /\ Step = script[1]
      /\ 1 \in 1 .. Len(script) /\ Len(script) \in Nat \ {0}
      /\ Tail(script) \in Seq(Steps) /\ Len(Tail(script)) = Len(script) - 1
      /\ \A i \in 1 .. Len(Tail(script)) :
            Tail(script)[i] = script[i + 1] /\ i + 1 \in 1 .. Len(script)
  BY TailOf DEF TypeOK, Step
<1>2. ASSUME Step.do = "send", Step.fail = "skip" PROVE Len(script) # 1
  BY <1>1, <1>2 DEF ScriptInv, Paired
<1>3. Len(Tail(script)) # 0 => Tail(script) # <<>>
  <2>1. Len(<<>>) = 0
    OBVIOUS
  <2>. QED  BY <2>1, Zenon
<1>4. Len(script) # 1 => Len(Tail(script)) # 0
  BY <1>1
<1>. QED  BY <1>1, <1>2, <1>3, <1>4

LEMMA EventAdded ==
    ASSUME events \in Seq(Events), NEW e \in Events, AddEvent(e)
    PROVE  /\ events' \in Seq(Events)
           /\ \A i \in 1 .. Len(events') :
                 events'[i] = e \/ \E j \in 1 .. Len(events) : events[j] = events'[i]
           /\ Distinct(events) => Distinct(events')
<1> DEFINE q == Without(events, e)
<1>1. /\ q \in Seq(Events)
      /\ \A k \in 1 .. Len(q) : q[k] # e /\ \E i \in 1 .. Len(events) : events[i] = q[k]
      /\ Distinct(events) => Distinct(q)
  BY WithoutProperties
<1>2. events' = Append(q, e)
  BY DEF AddEvent
<1>. HIDE DEF q
<1>3. /\ events' \in Seq(Events) /\ Len(events') = Len(q) + 1 /\ Len(q) \in Nat
      /\ events'[Len(q) + 1] = e
      /\ \A i \in 1 .. Len(q) : events'[i] = q[i]
  BY <1>1, <1>2, AppendProperties
<1>4. \A i \in 1 .. Len(events') : i = Len(q) + 1 \/ i \in 1 .. Len(q)
  BY <1>3
<1>5. ASSUME Distinct(q) PROVE Distinct(events')
  BY <1>1, <1>3, <1>4, <1>5 DEF Distinct
<1>. QED  BY <1>1, <1>3, <1>4, <1>5

LEMMA TypeStep == IInv /\ [Next]_vars => TypeOK'
<1>. SUFFICES ASSUME IInv, [Next]_vars PROVE TypeOK'
  OBVIOUS
<1>. USE DEF IInv, flagVars, bufferVars, deviceVars, lateVars
<1>0. /\ In \in Ports /\ Out \in Ports /\ "loaded" \in States
      /\ "idle" \in States /\ "executing" \in States
  BY DEF Ports, States
<1>a. \A S : <<>> \in Seq(S)
  OBVIOUS
<1>1. CASE Initialize
  <2>1. /\ resErr' \in BOOLEAN /\ exiting' \in BOOLEAN /\ handle' \in BOOLEAN
        /\ events' \in Seq(Events) /\ cmds' \in Seq(Commands)
    BY <1>1, <1>a, Zenon DEF TypeOK, Initialize, ClearEvents
  <2>2. flushing' \in [Ports -> BOOLEAN] /\ enabled' \in [Ports -> BOOLEAN]
        /\ alive' \in [Ports -> SUBSET Buffers] /\ state' \in States
    BY <1>0, <1>1 DEF TypeOK, Initialize
  <2>3. generation' \in 0 .. MaxHandles
    BY <1>1, ComponentAssumption DEF TypeOK, Initialize
  <2>4. script' \in Seq(Steps)
    BY <1>1, DisableAllPortsScript DEF TypeOK, Initialize, GoodScript
  <2>5. faults' \in 0 .. MaxFaults
    <3>1. faults' = faults \/ (faults < MaxFaults /\ faults' = faults + 1)
      BY <1>1 DEF Initialize, SetUpFailed, Fault, NoFault
    <3>. QED  BY <3>1, ComponentAssumption DEF TypeOK
  <2>6. late' \subseteq Commands /\ owed' \subseteq Commands
    <3>1. Range(cmds) \subseteq Commands /\ late \subseteq Commands
      BY DEF TypeOK, Range
    <3>2. late' = late \cup Range(cmds) /\ owed' = late'
      BY <1>1 DEF Initialize
    <3>. QED  BY <3>1, <3>2
  <2>7. /\ UNCHANGED <<all, held, device, dropped, avail, aborted, home, cb>>
    BY <1>1 DEF Initialize
  <2>. QED  BY <2>1, <2>2, <2>3, <2>4, <2>5, <2>6, <2>7 DEF TypeOK
<1>2. ASSUME NEW steps \in Seq(Steps), Call(steps),
             UNCHANGED <<flagVars, home>>
      PROVE  TypeOK'
  BY <1>2 DEF TypeOK, Call
<1>3. CASE SetStateForComponent("executing")
  <2>1. SetState("executing") \in Seq(Steps)
    BY <1>0, SetStateScript DEF StateOnly
  <2>. QED  BY <1>2, <1>3, <2>1 DEF SetStateForComponent
<1>4. ASSUME NEW p \in Ports, EnablePort(p) PROVE TypeOK'
  BY <1>2, <1>4, SendEnableScript DEF EnablePort, GoodScript
<1>5. ASSUME NEW p \in Ports, AllocBuffers(p) PROVE TypeOK'
  <2>1. ToIdle \o SendEnable(p) \o << Do("alloc", p), Need("enable", p), Do("ready", p) >>
           \in Seq(Steps)
    BY AllocScript DEF TypeOK, GoodScript
  <2>. QED  BY <1>2, <1>5, <2>1 DEF AllocBuffers
<1>6. ASSUME NEW p \in Ports, GetBuffer(p) PROVE TypeOK'
  <2>1. Head(avail[p]) \in Buffers /\ Tail(avail[p]) \in Seq(Buffers)
    BY <1>6, TailOf DEF TypeOK, GetBuffer
  <2>. QED  BY <1>6, <2>1 DEF TypeOK, GetBuffer, PopAvailable
<1>7. ASSUME NEW p \in Ports, FlushPort(p) PROVE TypeOK'
  BY <1>2, <1>7, FlushScript DEF FlushPort, GoodScript
<1>8. ASSUME NEW p \in Ports, NEW b \in held[p], SubmitBuffer(p, b) PROVE TypeOK'
  <2>1. b \in Buffers /\ Append(avail[p], b) \in Seq(Buffers)
    BY DEF TypeOK
  <2>2. held' \in [Ports -> SUBSET Buffers]
    BY <1>8 DEF TypeOK, SubmitBuffer
  <2>3. device' \in [Ports -> SUBSET Buffers]
    <3>1. [device EXCEPT ![p] = @ \cup {b}] \in [Ports -> SUBSET Buffers]
      BY <2>1 DEF TypeOK
    <3>. QED  BY <1>8, <3>1 DEF TypeOK, SubmitBuffer
  <2>4. avail' \in [Ports -> Seq(Buffers)]
    <3>1. [avail EXCEPT ![p] = Append(@, b)] \in [Ports -> Seq(Buffers)]
      BY <2>1 DEF TypeOK
    <3>. QED  BY <1>8, <3>1 DEF TypeOK, SubmitBuffer
  <2>. QED  BY <1>8, <2>2, <2>3, <2>4 DEF TypeOK, SubmitBuffer
<1>9. CASE Deinitialize
  <2>1. << Do("flush", In), Do("flush", Out), Do("free", Out), Do("free", In),
           Do("toIdle", Out), Do("toLoaded", Out), Do("freeHandle", Out) >> \in Seq(Steps)
    BY DeinitializeScript DEF GoodScript
  <2>2. home' \in BOOLEAN
    BY <1>9 DEF Deinitialize
  <2>. QED  BY <1>9, <2>1, <2>2 DEF TypeOK, Deinitialize, Call
<1>10. CASE SendStep
  <2>1. /\ Step \in Steps /\ Tail(script) \in Seq(Steps) /\ Step.fail \in OnFailure
        /\ [cmd |-> Step.cmd, arg |-> Step.arg] \in Commands
        /\ Step.cmd \in {"enable", "disable"} => Step.arg \in Ports
        /\ Step.fail = "skip" => Tail(Tail(script)) \in Seq(Steps)
    <3>1. Step.do = "send" /\ script # <<>>
      BY <1>10 DEF SendStep, At, Step
    <3>2. Step \in Steps /\ Tail(script) \in Seq(Steps)
      BY <3>1, HeadStep
    <3>3. Step.fail = "skip" => Tail(Tail(script)) \in Seq(Steps)
      BY <3>1, <3>2, HeadStep, TailOf
    <3>. QED  BY <3>1, <3>2, <3>3, StepFields
  <2>2. cmds' \in Seq(Commands)
    <3>1. Append(cmds, [cmd |-> Step.cmd, arg |-> Step.arg]) \in Seq(Commands)
      BY <2>1 DEF TypeOK
    <3>. QED  BY <1>10, <3>1, Zenon DEF SendStep, TypeOK
  <2>3. enabled' \in [Ports -> BOOLEAN]
    <3>1. \A b \in BOOLEAN : Step.cmd \in {"enable", "disable"} =>
             [enabled EXCEPT ![Step.arg] = b] \in [Ports -> BOOLEAN]
      BY <2>1 DEF TypeOK
    <3>2. (Step.cmd = "enable") \in BOOLEAN
      OBVIOUS
    <3>3. enabled \in [Ports -> BOOLEAN]
      BY DEF TypeOK
    <3>. QED  BY <1>10, <3>1, <3>2, <3>3, Zenon DEF SendStep
  <2>4. script' \in Seq(Steps)
    <3>1. CASE Advance
      BY <2>1, <3>1 DEF Advance
    <3>2. CASE script' = CASE Step.fail = "go on" -> Tail(script)
                           [] Step.fail = "skip"  -> Tail(Tail(script))
                           [] OTHER -> <<>>
      <4>1. \/ script' = Tail(script) \/ script' = <<>>
            \/ Step.fail = "skip" /\ script' = Tail(Tail(script))
        <5>1. CASE Step.fail = "go on"
          BY <3>2, <5>1
        <5>2. CASE Step.fail = "skip"
          BY <3>2, <5>2
        <5>3. CASE Step.fail = "return"
          BY <3>2, <5>3
        <5>. QED  BY <2>1, <5>1, <5>2, <5>3 DEF OnFailure
      <4>. QED  BY <1>a, <2>1, <4>1, Zenon
    <3>. QED  BY <1>10, <3>1, <3>2 DEF SendStep
  <2>5. faults' \in 0 .. MaxFaults
    <3>1. faults' = faults \/ (faults < MaxFaults /\ faults' = faults + 1)
      <4>1. NoFault \/ Fault
        BY <1>10 DEF SendStep
      <4>. QED  BY <4>1 DEF Fault, NoFault
    <3>. QED  BY <3>1, ComponentAssumption DEF TypeOK
  <2>. QED  BY <1>10, <2>2, <2>3, <2>4, <2>5 DEF TypeOK, SendStep
<1>b. ASSUME At("wait") \/ At("need")
      PROVE  owed \cup {[cmd |-> Step.cmd, arg |-> Step.arg]} \subseteq Commands
  <2>1. script # <<>> /\ Step.do \in {"wait", "need"}
    BY <1>b DEF At, Step
  <2>2. [cmd |-> Step.cmd, arg |-> Step.arg] \in Commands
    BY <2>1, HeadStep, StepFields
  <2>. QED  BY <2>2 DEF TypeOK
<1>11. CASE WaitEvent
  <2>1. script # <<>>
    BY <1>11 DEF WaitEvent, At
  <2>2. FirstAwaited(Step.cmd, Step.arg) \in 1 .. Len(events)
    BY <1>11, FirstAwaitedProperties DEF WaitEvent
  <2>3. events' \in Seq(Events)
    BY <1>11, <2>2, RemoveAtProperties DEF TypeOK, WaitEvent
  <2>4. script' \in Seq(Steps)
    <3>1. script' = Tail(script) \/ script' = <<>>
      BY <1>11 DEF WaitEvent, Return, Advance
    <3>2. Tail(script) \in Seq(Steps)
      BY <2>1, HeadStep
    <3>. QED  BY <1>a, <3>1, <3>2, Zenon
  <2>5. owed' \subseteq Commands
    <3>1. owed \cup {[cmd |-> Step.cmd, arg |-> Step.arg]} \subseteq Commands
      BY <1>11, <1>b DEF WaitEvent
    <3>2. GiveUp \/ UNCHANGED owed
      BY <1>11 DEF WaitEvent
    <3>. QED  BY <3>1, <3>2 DEF TypeOK, GiveUp
  <2>. QED  BY <1>11, <2>3, <2>4, <2>5 DEF TypeOK, WaitEvent
<1>12. CASE WaitOver
  <2>1. script' \in Seq(Steps)
    <3>1. script' = Tail(script) \/ script' = <<>>
      BY <1>12 DEF WaitOver, Return, Advance
    <3>2. script # <<>>
      BY <1>12 DEF WaitOver, At
    <3>3. Tail(script) \in Seq(Steps)
      BY <3>2, HeadStep
    <3>. QED  BY <1>a, <3>1, <3>3, Zenon
  <2>2. faults' \in 0 .. MaxFaults
    BY <1>12, ComponentAssumption DEF WaitOver, TypeOK, Fault, NoFault
  <2>3. owed' \subseteq Commands
    BY <1>12, <1>b DEF WaitOver, GiveUp
  <2>. QED  BY <1>12, <2>1, <2>2, <2>3 DEF TypeOK, WaitOver
<1>13. CASE AllocStep
  <2>. USE DEF AllocStep, At
  <2>1. /\ Step \in Steps /\ Tail(script) \in Seq(Steps) /\ Step.arg \in Ports
        /\ generation \in 1 .. MaxHandles
    <3>1. Step.do = "alloc" /\ script # <<>>
      BY <1>13 DEF Step
    <3>. QED  BY <3>1, HeadStep, StepFields DEF HandleInv
  <2>2. PICK n \in 0 .. Count[Step.arg] :
          LET new == [i \in 1 .. n |-> <<generation, i>>]
          IN  /\ all' = [all EXCEPT ![Step.arg] = @ \cup Range(new)]
              /\ avail' = [avail EXCEPT ![Step.arg] = @ \o new]
              /\ alive' = [alive EXCEPT ![Step.arg] = @ \cup Range(new)]
              /\ IF n = Count[Step.arg] THEN Advance /\ NoFault
                                        ELSE script' = <<>> /\ Fault
    BY <1>13
  <2>. DEFINE new == [i \in 1 .. n |-> <<generation, i>>]
  <2>3. new \in Seq(Buffers) /\ Range(new) \subseteq Buffers
    <3>1. n \in Nat
      BY <2>1, ComponentAssumption
    <3>2. \A i \in 1 .. n : <<generation, i>> \in Buffers
      BY <2>1, <3>1 DEF Buffers
    <3>. QED  BY <3>1, <3>2 DEF Range
  <2>. HIDE DEF new
  <2>4. all' \in [Ports -> SUBSET Buffers] /\ alive' \in [Ports -> SUBSET Buffers]
    BY <2>2, <2>3 DEF TypeOK, new
  <2>5. avail' \in [Ports -> Seq(Buffers)]
    BY <2>1, <2>2, <2>3 DEF TypeOK, new
  <2>6. script' \in Seq(Steps) /\ faults' \in 0 .. MaxFaults
    <3>1. \/ script' = Tail(script) /\ faults' = faults
          \/ script' = <<>> /\ faults < MaxFaults /\ faults' = faults + 1
      BY <2>2 DEF Advance, Fault, NoFault
    <3>2. script' \in Seq(Steps)
      BY <1>a, <2>1, <3>1, Zenon
    <3>3. faults' \in 0 .. MaxFaults
      BY <3>1, ComponentAssumption DEF TypeOK
    <3>. QED  BY <3>2, <3>3
  <2>. QED  BY <1>13, <2>4, <2>5, <2>6 DEF TypeOK
<1>14. CASE ReadyStep
  <2>1. script' \in Seq(Steps)
    BY <1>14, HeadStep DEF ReadyStep, At, Advance
  <2>. QED  BY <1>14, <2>1 DEF TypeOK, ReadyStep
<1>15. CASE ExpandStep
  <2>1. script' \in Seq(Steps)
    BY <1>15, ExpandScript DEF TypeOK, ScriptInv, ExpandStep, At, GoodScript, Expanded, Step
  <2>. QED  BY <1>15, <2>1 DEF TypeOK, ExpandStep
<1>16. CASE ReleaseStep
  <2>1. script' \in Seq(Steps)
    BY <1>16, HeadStep DEF ReleaseStep, At, Advance
  <2>. QED  BY <1>16, <2>1 DEF TypeOK, ReleaseStep
<1>17. CASE CheckStep
  <2>1. script' \in Seq(Steps) /\ aborted' \in BOOLEAN
    BY <1>17, HeadStep DEF CheckStep, At, Advance, TypeOK
  <2>2. faults' \in 0 .. MaxFaults
    BY <1>17, ComponentAssumption DEF TypeOK, CheckStep, WaitForDone, Fault, NoFault
  <2>3. all' \in [Ports -> SUBSET Buffers] /\ avail' \in [Ports -> Seq(Buffers)]
    <3>1. \A p : /\ [all EXCEPT ![p] = {}] \in [Ports -> SUBSET Buffers]
                 /\ [avail EXCEPT ![p] = <<>>] \in [Ports -> Seq(Buffers)]
      <4>1. \A p : [all EXCEPT ![p] = {}] \in [Ports -> SUBSET Buffers]
        BY DEF TypeOK
      <4>2. \A p : [avail EXCEPT ![p] = <<>>] \in [Ports -> Seq(Buffers)]
        BY <1>a DEF TypeOK
      <4>. QED  BY <4>1, <4>2
    <3>2. \/ UNCHANGED <<all, avail>>
          \/ \E p : all' = [all EXCEPT ![p] = {}] /\ avail' = [avail EXCEPT ![p] = <<>>]
      BY <1>17 DEF CheckStep, ClearLists
    <3>3. CASE UNCHANGED <<all, avail>>
      BY <3>3 DEF TypeOK
    <3>. QED  BY <3>1, <3>2, <3>3
  <2>. QED  BY <1>17, <2>1, <2>2, <2>3 DEF TypeOK, CheckStep
<1>18. CASE FreeHandleStep
  <2>1. script' \in Seq(Steps)
    BY <1>18, HeadStep DEF FreeHandleStep, At, Advance
  <2>2. cmds' \in Seq(Commands) /\ handle' \in BOOLEAN /\ resErr' \in BOOLEAN
    BY <1>18, <1>a, Zenon DEF FreeHandleStep
  <2>. QED  BY <1>18, <2>1, <2>2 DEF TypeOK, FreeHandleStep
<1>19. ASSUME NEW p \in Ports, NEW b \in device[p], DeviceReturns(p, b) PROVE TypeOK'
  <2>1. b \in Buffers
    BY DEF TypeOK
  <2>2. cb' \in [at : {"enter", "push"}, port : Ports, buf : Buffers]
    BY <1>19, <2>1 DEF DeviceReturns
  <2>. QED  BY <1>19, <2>2 DEF TypeOK, DeviceReturns
<1>20. CASE BufferDoneEnter \/ BufferDonePush
  <2>1. /\ cb \in [at : {"enter", "push"}, port : Ports, buf : Buffers]
    BY <1>20 DEF TypeOK, BufferDoneEnter, BufferDonePush, CbIdle
  <2>2. CASE BufferDoneEnter
    <3>1. [cb EXCEPT !.at = "push"] \in [at : {"enter", "push"}, port : Ports, buf : Buffers]
      BY <2>1
    <3>2. cb' = CbIdle \/ cb' \in [at : {"enter", "push"}, port : Ports, buf : Buffers]
      BY <2>2, <3>1 DEF BufferDoneEnter
    <3>3. dropped' \in [Ports -> SUBSET Buffers]
      <4>1. [dropped EXCEPT ![cb.port] = @ \cup {cb.buf}] \in [Ports -> SUBSET Buffers]
        BY <2>1 DEF TypeOK
      <4>. QED  BY <2>2, <4>1 DEF TypeOK, BufferDoneEnter
    <3>. QED  BY <2>2, <3>2, <3>3 DEF TypeOK, BufferDoneEnter
  <2>3. CASE BufferDonePush
    <3>1. avail' \in [Ports -> Seq(Buffers)]
      BY <2>1, <2>3 DEF TypeOK, BufferDonePush
    <3>. QED  BY <2>3, <3>1 DEF TypeOK, BufferDonePush
  <2>. QED  BY <1>20, <2>2, <2>3
<1>21. CASE DeviceCompletes
  <2>1. PICK i \in 1 .. Len(cmds) :
          /\ cmds' = RemoveAt(cmds, i)
          /\ IF cmds[i].cmd = "state" /\ ~Allowed(cmds[i].arg)
             THEN AddEvent(Error("other")) /\ UNCHANGED state
             ELSE /\ AddEvent(Complete(cmds[i].cmd, cmds[i].arg))
                  /\ state' = IF cmds[i].cmd = "state" THEN cmds[i].arg ELSE state
    BY <1>21 DEF DeviceCompletes
  <2>2. /\ cmds[i] \in Commands
        /\ Complete(cmds[i].cmd, cmds[i].arg) \in Events /\ Error("other") \in Events
    BY DEF TypeOK, Commands, Complete, Error, Events, AllErrors
  <2>3. events' \in Seq(Events)
    BY <2>1, <2>2, EventAdded DEF TypeOK
  <2>4. cmds' \in Seq(Commands)
    BY <2>1, RemoveAtProperties DEF TypeOK
  <2>5. state' \in States
    BY <2>1, <2>2 DEF TypeOK, Commands, PortCommands
  <2>. QED  BY <1>21, <2>3, <2>4, <2>5 DEF TypeOK, DeviceCompletes
<1>22. ASSUME NEW e \in Errors, DeviceError(e) PROVE TypeOK'
  <2>1. Error(e) \in Events
    BY ComponentAssumption DEF Error, Events
  <2>2. events' \in Seq(Events)
    BY <1>22, <2>1, EventAdded DEF TypeOK, DeviceError
  <2>3. faults' \in 0 .. MaxFaults
    BY <1>22, ComponentAssumption DEF TypeOK, DeviceError, Fault
  <2>. QED  BY <1>22, <2>2, <2>3 DEF TypeOK, DeviceError
<1>23. CASE ResourceError
  BY <1>23 DEF TypeOK, ResourceError
<1>24. ASSUME NEW c \in late, LateCompletion(c) PROVE TypeOK'
  <2>1. Complete(c.cmd, c.arg) \in Events
    BY DEF TypeOK, Commands, Complete, Events
  <2>2. events' \in Seq(Events)
    BY <1>24, <2>1, EventAdded DEF TypeOK, LateCompletion
  <2>. QED  BY <1>24, <2>2 DEF TypeOK, LateCompletion
<1>25. CASE UNCHANGED vars
  BY <1>25 DEF TypeOK, vars
<1>26. Out \in Ports
  BY DEF Ports
<1>. QED
  BY <1>1, <1>3, <1>4, <1>5, <1>6, <1>7, <1>8, <1>9, <1>10, <1>11, <1>12, <1>13,
     <1>14, <1>15, <1>16, <1>17, <1>18, <1>19, <1>20, <1>21, <1>22, <1>23, <1>24,
     <1>25, <1>26
  DEF Next, ClientCall, ClientStep, DeviceStep

-----------------------------------------------------------------------------
(***************************************************************************)
(* What a step does to the script.                                         *)
(***************************************************************************)

\* The steps left are among those after the first.
Shortened ==
    /\ script # <<>> /\ GoodScript(script')
    /\ \A i \in 1 .. Len(script') : \E j \in 2 .. Len(script) : script'[i] = script[j]

LEMMA AdvanceShortens ==
    ASSUME TypeOK, ScriptInv, script # <<>>, script' = Tail(script)
    PROVE  Shortened
<1>1. GoodScript(script)
  BY DEF TypeOK, ScriptInv, GoodScript
<1>2. GoodScript(Tail(script))
  BY <1>1, TailScript
<1>3. \A i \in 1 .. Len(Tail(script)) :
         Tail(script)[i] = script[i + 1] /\ i + 1 \in 2 .. Len(script)
  BY HeadStep
<1>. QED  BY <1>2, <1>3 DEF Shortened

LEMMA SkipShortens ==
    ASSUME TypeOK, ScriptInv, script # <<>>, Tail(script) # <<>>,
           script' = Tail(Tail(script))
    PROVE  Shortened
<1> DEFINE t == Tail(script)
<1>1. GoodScript(script)
  BY DEF TypeOK, ScriptInv, GoodScript
<1>2. GoodScript(t)
  BY <1>1, TailScript
<1>3. \A i \in 1 .. Len(t) : t[i] = script[i + 1] /\ i + 1 \in 1 .. Len(script)
  BY HeadStep
<1>4. t \in Seq(Steps) /\ t # <<>>
  BY HeadStep
<1>. HIDE DEF t
<1>5. \A i \in 1 .. Len(Tail(t)) : Tail(t)[i] = t[i + 1] /\ i + 1 \in 1 .. Len(t)
  BY <1>4, TailOf
<1>6. GoodScript(Tail(t))
  BY <1>2, <1>4, TailScript
<1>7. script' = Tail(t)
  BY DEF t
<1>8. \A i \in 1 .. Len(Tail(t)) : /\ Tail(t)[i] = script[i + 1 + 1]
                                   /\ i + 1 + 1 \in 2 .. Len(script)
  BY <1>3, <1>5
<1>. QED  BY <1>6, <1>7, <1>8 DEF Shortened

LEMMA EndShortens ==
    ASSUME script # <<>>, script' = <<>>
    PROVE  Shortened
BY EmptyScript DEF Shortened

LEMMA ScriptMoves ==
    ASSUME TypeOK, ScriptInv
    PROVE  /\ SendStep => Shortened
           /\ WaitEvent => Shortened
           /\ WaitOver => Shortened
           /\ AllocStep => Shortened
           /\ ReadyStep => Shortened
           /\ ReleaseStep => Shortened
           /\ CheckStep => Shortened \/ UNCHANGED <<script, all>>
           /\ FreeHandleStep => Shortened
           /\ ExpandStep => /\ GoodScript(script')
                            /\ \E i \in 1 .. Len(script') : script'[i].do \in Shutdown
<1>1. ASSUME SendStep PROVE Shortened
  <2>1. script # <<>> /\ Step.do = "send"
    BY <1>1 DEF SendStep, At, Step
  <2>2. \/ script' = Tail(script) \/ script' = <<>>
        \/ (Step.fail = "skip" /\ script' = Tail(Tail(script)))
    <3>1. CASE Advance
      BY <3>1 DEF Advance
    <3>2. CASE script' = CASE Step.fail = "go on" -> Tail(script)
                           [] Step.fail = "skip"  -> Tail(Tail(script))
                           [] OTHER -> <<>>
      <4>1. CASE Step.fail = "go on"
        BY <3>2, <4>1
      <4>2. CASE Step.fail = "skip"
        BY <3>2, <4>2
      <4>3. CASE Step.fail \notin {"go on", "skip"}
        BY <3>2, <4>3
      <4>. QED  BY <4>1, <4>2, <4>3
    <3>. QED  BY <1>1, <3>1, <3>2 DEF SendStep
  <2>3. CASE Step.fail = "skip" /\ script' = Tail(Tail(script))
    BY <2>1, <2>3, HeadStep, SkipShortens
  <2>. QED  BY <2>1, <2>2, <2>3, AdvanceShortens, EndShortens
<1>2. ASSUME NEW ok, Return(ok), script # <<>> PROVE Shortened
  BY <1>2, AdvanceShortens, EndShortens DEF Return, Advance
<1>3. ASSUME WaitEvent PROVE Shortened
  <2>1. script # <<>> /\ \E ok : Return(ok)
    BY <1>3 DEF WaitEvent, At
  <2>. QED  BY <1>2, <2>1
<1>4. ASSUME WaitOver PROVE Shortened
  <2>1. script # <<>> /\ \E ok : Return(ok)
    BY <1>4 DEF WaitOver, At
  <2>. QED  BY <1>2, <2>1
<1>5. ASSUME AllocStep PROVE Shortened
  <2>1. script # <<>> /\ (Advance \/ script' = <<>>)
    BY <1>5 DEF AllocStep, At
  <2>. QED  BY <2>1, AdvanceShortens, EndShortens DEF Advance
<1>6. ASSUME ReadyStep \/ ReleaseStep \/ FreeHandleStep PROVE Shortened
  BY <1>6, AdvanceShortens DEF ReadyStep, ReleaseStep, FreeHandleStep, Advance, At
<1>7. ASSUME CheckStep PROVE Shortened \/ UNCHANGED <<script, all>>
  BY <1>7, AdvanceShortens DEF CheckStep, Advance, At
<1>8. ASSUME ExpandStep
      PROVE  /\ GoodScript(script')
             /\ \E i \in 1 .. Len(script') : script'[i].do \in Shutdown
  <2>1. GoodScript(script)
    BY DEF TypeOK, ScriptInv, GoodScript
  <2>2. /\ script # <<>> /\ script' = Expanded(Head(script)) \o Tail(script)
        /\ Head(script).do \in {"flush", "free", "toIdle", "toLoaded"}
    BY <1>8 DEF ExpandStep, At, Step, Expanded
  <2>. QED  BY <2>1, <2>2, ExpandScript
<1>. QED  BY <1>1, <1>3, <1>4, <1>5, <1>6, <1>7, <1>8

\* A call begins, other than Initialize and Deinitialize.
Begun ==
    /\ script = <<>> /\ handle /\ GoodScript(script') /\ Calm(script')
    /\ \A i \in 1 .. Len(script') :
          /\ script'[i].do = "alloc" => NoneAllocated(script'[i].arg)
          /\ Sends(script'[i], "enable") => ~enabled[script'[i].arg]
          /\ ~Sends(script'[i], "disable")
    /\ UNCHANGED <<flagVars, bufferVars, events, aborted, deviceVars, cb, lateVars,
                   faults, home>>

LEMMA CallBegins ==
    ASSUME TypeOK
    PROVE  /\ SetStateForComponent("executing") \/ EnablePort(Out) => Begun
           /\ \A p \in Ports : EnablePort(p) \/ AllocBuffers(p) \/ FlushPort(p) => Begun
<1> DEFINE Apt(s) == \A i \in 1 .. Len(s) :
                        /\ s[i].do = "alloc" => NoneAllocated(s[i].arg)
                        /\ Sends(s[i], "enable") => ~enabled[s[i].arg]
                        /\ ~Sends(s[i], "disable")
<1>1. ASSUME NEW s, GoodScript(s), Calm(s), Apt(s), Call(s),
             UNCHANGED <<flagVars, home>>
      PROVE  Begun
  BY <1>1 DEF Begun, Call, Idle
<1>. HIDE DEF Apt
<1>2. ASSUME SetStateForComponent("executing") PROVE Begun
  <2>1. StateOnly(SetState("executing"))
    BY SetStateScript DEF States
  <2>2. Apt(SetState("executing"))
    BY <2>1 DEF StateOnly, Apt, Sends
  <2>. QED  BY <1>1, <1>2, <2>1, <2>2, StateScriptGood DEF SetStateForComponent
<1>3. ASSUME NEW p \in Ports, EnablePort(p) PROVE Begun
  <2>1. Apt(SendEnable(p))
    <3>1. \A a : /\ Send("enable", a, "return").do = "send"
                 /\ Send("enable", a, "return").cmd = "enable"
                 /\ Send("enable", a, "return").arg = a
      BY DEF Send
    <3>. QED  BY <3>1, SendEnableScript DEF Apt, Sends
  <2>. QED  BY <1>1, <1>3, <2>1, SendEnableScript DEF EnablePort
<1>4. ASSUME NEW p \in Ports, AllocBuffers(p) PROVE Begun
  <2>. DEFINE s == ToIdle \o SendEnable(p) \o
                     << Do("alloc", p), Need("enable", p), Do("ready", p) >>
  <2>1. Call(s)
    BY <1>4 DEF AllocBuffers
  <2>2. Apt(s) /\ GoodScript(s) /\ Calm(s)
    <3>1. state \in States /\ NoneAllocated(p)
      BY <1>4 DEF AllocBuffers, TypeOK
    <3>2. GoodScript(s) /\ Calm(s) /\ AllocatesFor(s, p)
      BY <3>1, AllocScript
    <3>. HIDE DEF s
    <3>3. Apt(s)
      BY <3>1, <3>2 DEF Apt, AllocatesFor
    <3>. QED  BY <3>2, <3>3
  <2>. HIDE DEF s
  <2>. QED  BY <1>1, <1>4, <2>1, <2>2 DEF AllocBuffers
<1>5. ASSUME NEW p \in Ports, FlushPort(p) PROVE Begun
  <2>1. Apt(FlushSteps(p))
    <3>1. \A a : /\ Send("flush", a, "go on").do = "send" /\ Wait("flush", a).do = "wait"
                 /\ Send("flush", a, "go on").cmd = "flush"
      BY DEF Send, Wait
    <3>. QED  BY <3>1, FlushScript DEF Apt, Sends
  <2>. QED  BY <1>1, <1>5, <2>1, FlushScript DEF FlushPort
<1>. QED  BY <1>2, <1>3, <1>4, <1>5 DEF Ports
LEMMA ScriptStep == IInv /\ [Next]_vars => ScriptInv'
<1>. SUFFICES ASSUME IInv, [Next]_vars PROVE ScriptInv'
  OBVIOUS
<1>. USE DEF IInv, flagVars, bufferVars, deviceVars, lateVars
<1>1. ASSUME GoodScript(script'), Fits' PROVE ScriptInv'
  BY <1>1 DEF ScriptInv, GoodScript
<1>2. ASSUME UNCHANGED <<script, all, generation, enabled>> PROVE ScriptInv'
  BY <1>2 DEF ScriptInv, Fits, NoneAllocated
<1>3. ASSUME Shortened, UNCHANGED <<all, generation, enabled>> PROVE ScriptInv'
  <2>1. Fits'
    BY <1>3, SMTT(30) DEF ScriptInv, Fits, Shortened, NoneAllocated
  <2>. QED  BY <1>1, <1>3, <2>1 DEF Shortened
<1>4. CASE Initialize
  <2>1. CASE script' = DisableAllPorts
    <3>1. Fits'
      BY <2>1, DisableAllPortsScript DEF Fits
    <3>. QED  BY <1>1, <2>1, <3>1, DisableAllPortsScript
  <2>2. CASE script' = script /\ script = <<>>
    <3>1. Fits'
      BY <2>2 DEF Fits
    <3>. QED  BY <1>1, <2>2, <3>1, EmptyScript
  <2>. QED  BY <1>4, <2>1, <2>2 DEF Initialize, Idle
<1>5. ASSUME Begun PROVE ScriptInv'
  <2>1. Fits'
    BY <1>5 DEF Begun, Fits, NoneAllocated
  <2>. QED  BY <1>1, <1>5, <2>1 DEF Begun
<1>6. ASSUME NEW p \in Ports, GetBuffer(p) PROVE ScriptInv'
  BY <1>2, <1>6 DEF GetBuffer
<1>7. ASSUME NEW p \in Ports, NEW b \in held[p], SubmitBuffer(p, b) PROVE ScriptInv'
  BY <1>2, <1>7 DEF SubmitBuffer
<1>8. CASE Deinitialize
  <2>1. PICK s : s = << Do("flush", In), Do("flush", Out), Do("free", Out),
                        Do("free", In), Do("toIdle", Out), Do("toLoaded", Out),
                        Do("freeHandle", Out) >>
    OBVIOUS
  <2>2. GoodScript(s) /\ \A i \in 1 .. Len(s) : s[i].do \in Shutdown
    BY <2>1, DeinitializeScript
  <2>3. script' = s
    BY <1>8, <2>1 DEF Deinitialize, Call
  <2>4. Fits'
    BY <2>2, <2>3 DEF Fits, Shutdown, Sends
  <2>. QED  BY <1>1, <2>2, <2>3, <2>4
<1>9. CASE SendStep
  <2>1. Shortened /\ script # <<>> /\ Step = script[1] /\ Len(script) \in Nat \ {0}
        /\ Step.do = "send" /\ UNCHANGED <<all, generation>>
    BY <1>9, ScriptMoves, HeadStep DEF SendStep, At, Step
  <2>2. \/ UNCHANGED enabled
        \/ /\ Step.cmd \in {"enable", "disable"}
           /\ enabled' = [enabled EXCEPT ![Step.arg] = Step.cmd = "enable"]
    BY <1>9 DEF SendStep
  <2>3. ASSUME NEW i \in 1 .. Len(script')
        PROVE  /\ (script[i].do = "alloc" => NoneAllocated(script[i].arg))'
               /\ Sends(script'[i], "enable") => ~enabled'[script'[i].arg]
    <3>1. PICK j \in 2 .. Len(script) : script'[i] = script[j]
      BY <2>1 DEF Shortened
    <3>2. j \in 1 .. Len(script) /\ 1 \in 1 .. Len(script) /\ j # 1
      BY <2>1
    <3>3. ~ (Sends(script[j], "enable") /\ Step.cmd \in {"enable", "disable"})
      BY <2>1, <3>2 DEF ScriptInv, Once, Sends
    <3>4. /\ script[j].do = "alloc" => NoneAllocated(script[j].arg)
          /\ Sends(script[j], "enable") => ~enabled[script[j].arg]
      BY <3>2 DEF ScriptInv, Fits
    <3>. QED  BY <2>1, <2>2, <3>1, <3>3, <3>4 DEF NoneAllocated
  <2>4. Fits'
    BY <2>3 DEF Fits
  <2>. QED  BY <1>1, <2>1, <2>4 DEF Shortened
<1>10. CASE WaitEvent \/ WaitOver \/ ReadyStep \/ ReleaseStep \/ FreeHandleStep
  BY <1>3, <1>10, ScriptMoves
     DEF WaitEvent, WaitOver, ReadyStep, ReleaseStep, FreeHandleStep
<1>11. CASE AllocStep
  <2>1. Shortened /\ script # <<>> /\ Step = script[1] /\ Len(script) \in Nat \ {0}
        /\ Step.do = "alloc" /\ UNCHANGED enabled
    BY <1>11, ScriptMoves, HeadStep DEF AllocStep, At, Step
  <2>2. ASSUME NEW i \in 1 .. Len(script')
        PROVE  /\ script'[i].do # "alloc"
               /\ Sends(script'[i], "enable") => ~enabled'[script'[i].arg]
    <3>1. PICK j \in 2 .. Len(script) : script'[i] = script[j]
      BY <2>1 DEF Shortened
    <3>2. j \in 1 .. Len(script) /\ 1 \in 1 .. Len(script) /\ j # 1
      BY <2>1
    <3>. QED  BY <2>1, <3>1, <3>2 DEF ScriptInv, Once, Fits
  <2>3. Fits'
    BY <2>2 DEF Fits
  <2>. QED  BY <1>1, <2>1, <2>3 DEF Shortened
<1>12. CASE ExpandStep
  <2>1. /\ GoodScript(script')
        /\ \E i \in 1 .. Len(script') : script'[i].do \in Shutdown
    BY <1>12, ScriptMoves
  <2>2. Fits'
    BY <2>1 DEF GoodScript, Lasting, Fits, Sends
  <2>. QED  BY <1>1, <2>1, <2>2
<1>13. CASE CheckStep
  <2>1. Shortened \/ UNCHANGED <<script, all>>
    BY <1>13, ScriptMoves
  <2>2. UNCHANGED <<enabled, generation>>
        /\ \A q \in Ports : all'[q] = all[q] \/ all'[q] = {}
    <3>1. all' = all \/ \E q : all' = [all EXCEPT ![q] = {}]
      BY <1>13 DEF CheckStep, ClearLists
    <3>. QED  BY <1>13, <3>1 DEF TypeOK, CheckStep
  <2>3. ASSUME Shortened PROVE Fits'
    <3>1. \A i \in 1 .. Len(script') : \E j \in 1 .. Len(script) :
             script'[i] = script[j] /\ script[j] \in Steps
      <4>1. script \in Seq(Steps)
        BY DEF TypeOK
      <4>2. \A i \in 1 .. Len(script') : \E j \in 1 .. Len(script) :
               script'[i] = script[j]
        <5>1. Len(script) \in Nat
          BY <4>1
        <5>. QED  BY <2>3, <5>1 DEF Shortened
      <4>3. \A j \in 1 .. Len(script) : script[j] \in Steps
        BY ONLY <4>1
      <4>. QED  BY ONLY <4>2, <4>3
    <3>2. \A x \in Steps : x.do = "alloc" => x.arg \in Ports
      BY StepFields
    <3>3. ASSUME NEW i \in 1 .. Len(script')
          PROVE  /\ (script[i].do = "alloc" => NoneAllocated(script[i].arg))'
                 /\ Sends(script'[i], "enable") => ~enabled'[script'[i].arg]
      <4>1. PICK j \in 1 .. Len(script) : script'[i] = script[j] /\ script[j] \in Steps
        BY <3>1
      <4>2. /\ script[j].do = "alloc" => NoneAllocated(script[j].arg)
            /\ Sends(script[j], "enable") => ~enabled[script[j].arg]
        BY DEF ScriptInv, Fits
      <4>. QED  BY <2>2, <3>2, <4>1, <4>2 DEF NoneAllocated
    <3>. QED  BY <3>3 DEF Fits
  <2>. QED  BY <1>1, <1>2, <2>1, <2>2, <2>3 DEF Shortened
<1>14. CASE DeviceStep
  BY <1>2, <1>14 DEF DeviceStep, DeviceReturns, BufferDoneEnter, BufferDonePush,
     DeviceCompletes, LateCompletion, DeviceError, ResourceError
<1>15. CASE UNCHANGED vars
  BY <1>2, <1>15 DEF vars
<1>. QED
  BY <1>4, <1>5, <1>6, <1>7, <1>8, <1>9, <1>10, <1>11, <1>12, <1>13, <1>14, <1>15,
     CallBegins
  DEF Next, ClientCall, ClientStep

LEMMA HandleStep == IInv /\ [Next]_vars => HandleInv'
<1>. SUFFICES ASSUME IInv, [Next]_vars PROVE HandleInv'
  OBVIOUS
<1>. USE DEF IInv, flagVars, bufferVars, deviceVars, lateVars
<1>1. ASSUME UNCHANGED <<handle, generation>>, handle \/ UNCHANGED <<cmds, script>>
      PROVE  HandleInv'
  BY <1>1 DEF HandleInv
<1>2. CASE Initialize
  <2>1. generation + 1 \in 1 .. MaxHandles
    BY <1>2, ComponentAssumption DEF Initialize, TypeOK
  <2>2. \/ handle' /\ generation' = generation + 1
        \/ ~handle' /\ script' = <<>> /\ cmds' = <<>>
    BY <1>2 DEF Initialize, Idle
  <2>. QED  BY <2>1, <2>2 DEF HandleInv
<1>3. CASE Begun
  BY <1>3 DEF Begun, HandleInv
<1>4. CASE Deinitialize
  BY <1>1, <1>4 DEF Deinitialize, Call
<1>5. ASSUME NEW p \in Ports, GetBuffer(p) PROVE HandleInv'
  BY <1>1, <1>5 DEF GetBuffer
<1>6. ASSUME NEW p \in Ports, NEW b \in held[p], SubmitBuffer(p, b) PROVE HandleInv'
  BY <1>1, <1>6 DEF SubmitBuffer
<1>7. CASE SendStep \/ WaitEvent \/ WaitOver \/ AllocStep \/ ReadyStep \/ ExpandStep
           \/ ReleaseStep \/ CheckStep
  <2>1. handle
    BY <1>7 DEF HandleInv, SendStep, WaitEvent, WaitOver, AllocStep, ReadyStep,
       ExpandStep, ReleaseStep, CheckStep, At
  <2>2. UNCHANGED <<handle, generation>>
    BY <1>7 DEF SendStep, WaitEvent, WaitOver, AllocStep, ReadyStep, ExpandStep,
       ReleaseStep, CheckStep
  <2>. QED  BY <1>1, <2>1, <2>2
<1>8. CASE FreeHandleStep
  <2>1. script # <<>> /\ Step.do = "freeHandle" /\ script' = Tail(script)
        /\ ~handle' /\ cmds' = <<>>
    BY <1>8 DEF FreeHandleStep, At, Step, Advance
  <2>2. 1 \in 1 .. Len(script) /\ Step = script[1]
        /\ Tail(script) \in Seq(Steps) /\ Len(Tail(script)) = Len(script) - 1
    BY <2>1, HeadStep
  <2>3. Len(script) = 1
    BY <2>1, <2>2 DEF ScriptInv, Lasting, Shutdown
  <2>4. script' = <<>>
    BY <2>1, <2>2, <2>3
  <2>. QED  BY <2>1, <2>4 DEF HandleInv
<1>9. CASE DeviceStep
  <2>1. UNCHANGED <<handle, generation, script>> /\ (handle \/ UNCHANGED cmds)
    BY <1>9 DEF DeviceStep, DeviceReturns, BufferDoneEnter, BufferDonePush,
       DeviceCompletes, LateCompletion, DeviceError, ResourceError, Running
  <2>. QED  BY <1>1, <2>1
<1>10. CASE UNCHANGED vars
  BY <1>1, <1>10 DEF vars
<1>. QED
  BY <1>2, <1>3, <1>4, <1>5, <1>6, <1>7, <1>8, <1>9, <1>10, CallBegins
  DEF Next, ClientCall, ClientStep

-----------------------------------------------------------------------------
(***************************************************************************)
(* The events and the owners of the buffers.                               *)
(***************************************************************************)

LEMMA EventsStep == IInv /\ [Next]_vars => NoDuplicateEvents'
<1>. SUFFICES ASSUME IInv, [Next]_vars PROVE NoDuplicateEvents'
  OBVIOUS
<1>1. Distinct(events) /\ events \in Seq(Events)
  BY DEF IInv, NoDuplicateEvents, Distinct, TypeOK
<1>2. ASSUME Distinct(events') PROVE NoDuplicateEvents'
  BY <1>2 DEF NoDuplicateEvents, Distinct
<1>3. ASSUME UNCHANGED events PROVE Distinct(events')
  BY <1>1, <1>3
<1>4. ASSUME NEW e \in Events, AddEvent(e) PROVE Distinct(events')
  BY <1>1, <1>4, EventAdded
<1>5. CASE Initialize
  BY <1>2, <1>5 DEF Initialize, ClearEvents, Distinct
<1>6. CASE Begun \/ Deinitialize
  BY <1>2, <1>3, <1>6 DEF Begun, Deinitialize, Call
<1>7. ASSUME NEW p \in Ports, GetBuffer(p) \/ \E b \in held[p] : SubmitBuffer(p, b)
      PROVE  NoDuplicateEvents'
  BY <1>2, <1>3, <1>7 DEF GetBuffer, SubmitBuffer
<1>8. CASE WaitEvent
  <2>1. FirstAwaited(Step.cmd, Step.arg) \in 1 .. Len(events)
    BY <1>8, FirstAwaitedProperties DEF WaitEvent
  <2>2. events' = RemoveAt(events, FirstAwaited(Step.cmd, Step.arg))
    BY <1>8 DEF WaitEvent
  <2>. QED  BY <1>1, <1>2, <2>1, <2>2, RemoveAtDistinct
<1>9. CASE SendStep \/ WaitOver \/ AllocStep \/ ReadyStep \/ ExpandStep \/ ReleaseStep
           \/ CheckStep \/ FreeHandleStep
  BY <1>2, <1>3, <1>9 DEF SendStep, WaitOver, AllocStep, ReadyStep, ExpandStep,
     ReleaseStep, CheckStep, FreeHandleStep
<1>10. CASE DeviceCompletes
  <2>1. PICK i \in 1 .. Len(cmds) : \/ AddEvent(Error("other"))
                                    \/ AddEvent(Complete(cmds[i].cmd, cmds[i].arg))
    BY <1>10 DEF DeviceCompletes
  <2>2. /\ cmds[i] \in Commands
        /\ Complete(cmds[i].cmd, cmds[i].arg) \in Events /\ Error("other") \in Events
    BY DEF IInv, TypeOK, Commands, Complete, Error, Events, AllErrors
  <2>. QED  BY <1>2, <1>4, <2>1, <2>2
<1>11. ASSUME NEW e \in Errors, DeviceError(e) PROVE NoDuplicateEvents'
  <2>1. Error(e) \in Events
    BY ComponentAssumption DEF Error, Events
  <2>. QED  BY <1>2, <1>4, <1>11, <2>1 DEF DeviceError
<1>12. CASE (\E p \in Ports : \E b \in device[p] : DeviceReturns(p, b))
            \/ BufferDoneEnter \/ BufferDonePush \/ ResourceError
  BY <1>2, <1>3, <1>12 DEF DeviceReturns, BufferDoneEnter, BufferDonePush, ResourceError
<1>13. CASE UNCHANGED vars
  BY <1>2, <1>3, <1>13 DEF vars
<1>14. ASSUME NEW c \in late, LateCompletion(c) PROVE NoDuplicateEvents'
  <2>1. Complete(c.cmd, c.arg) \in Events
    BY DEF IInv, TypeOK, Commands, Complete, Events
  <2>. QED  BY <1>2, <1>4, <1>14, <2>1 DEF LateCompletion
<1>. QED
  BY <1>5, <1>6, <1>7, <1>8, <1>9, <1>10, <1>11, <1>12, <1>13, <1>14, CallBegins
  DEF IInv, Next, ClientCall, ClientStep, DeviceStep

LEMMA RangeAppend ==
    ASSUME NEW S, NEW q \in Seq(S), NEW b \in S
    PROVE  /\ Append(q, b) \in Seq(S) /\ Range(Append(q, b)) = Range(q) \cup {b}
           /\ Distinct(q) /\ b \notin Range(q) => Distinct(Append(q, b))
<1> DEFINE r == Append(q, b)
<1>1. /\ r \in Seq(S) /\ Len(r) = Len(q) + 1 /\ Len(q) \in Nat
      /\ DOMAIN r = 1 .. Len(r) /\ DOMAIN q = 1 .. Len(q)
      /\ r[Len(q) + 1] = b /\ \A k \in 1 .. Len(q) : r[k] = q[k]
  BY AppendProperties
<1>. HIDE DEF r
<1>2. \A k \in 1 .. Len(r) : k = Len(q) + 1 \/ k \in 1 .. Len(q)
  BY <1>1
<1>3. Range(r) = Range(q) \cup {b}
  <2>1. Len(q) + 1 \in 1 .. Len(r) /\ 1 .. Len(q) \subseteq 1 .. Len(r)
    BY <1>1
  <2>. QED  BY <1>1, <1>2, <2>1 DEF Range
<1>4. ASSUME Distinct(q), b \notin Range(q) PROVE Distinct(r)
  BY <1>1, <1>2, <1>4 DEF Distinct, Range
<1>. QED  BY <1>1, <1>3, <1>4 DEF r

LEMMA RangeTail ==
    ASSUME NEW S, NEW q \in Seq(S), q # <<>>
    PROVE  /\ Tail(q) \in Seq(S) /\ Range(q) = {Head(q)} \cup Range(Tail(q))
           /\ Distinct(q) => Distinct(Tail(q)) /\ Head(q) \notin Range(Tail(q))
<1> DEFINE t == Tail(q)
           h == Head(q)
<1>1. /\ t \in Seq(S) /\ h = q[1] /\ Len(q) \in Nat \ {0} /\ Len(t) = Len(q) - 1
      /\ \A i \in 1 .. Len(t) : t[i] = q[i + 1]
      /\ DOMAIN t = 1 .. Len(t) /\ DOMAIN q = 1 .. Len(q)
  BY TailOf
<1>. HIDE DEF t, h
<1>2. \A i \in 1 .. Len(t) : i + 1 \in 1 .. Len(q) /\ i + 1 # 1
  BY <1>1
<1>3. \A i \in 1 .. Len(q) : i = 1 \/ (i - 1 \in 1 .. Len(t) /\ t[i - 1] = q[i])
  BY <1>1
<1>4. Range(q) = {h} \cup Range(t)
  <2>1. ASSUME NEW y \in Range(q) PROVE y \in {h} \cup Range(t)
    BY <1>1, <1>3, SMTT(30) DEF Range
  <2>2. ASSUME NEW y \in {h} \cup Range(t) PROVE y \in Range(q)
    BY <1>1, <1>2 DEF Range
  <2>. QED  BY <2>1, <2>2
<1>5. ASSUME Distinct(q) PROVE Distinct(t) /\ h \notin Range(t)
  <2>1. ASSUME NEW i \in 1 .. Len(t), NEW j \in 1 .. Len(t), i # j PROVE t[i] # t[j]
    <3>1. i + 1 # j + 1
      BY <2>1
    <3>. QED  BY <1>1, <1>2, <1>5, <3>1 DEF Distinct
  <2>2. ASSUME NEW i \in 1 .. Len(t) PROVE t[i] # h
    BY <1>1, <1>2, <1>5 DEF Distinct
  <2>. QED  BY <1>1, <2>1, <2>2 DEF Distinct, Range
<1>. QED  BY <1>1, <1>4, <1>5 DEF t, h

LEMMA OwnedCount ==
    ASSUME NEW a, NEW q \in Seq(Buffers), NEW h, NEW d, NEW x, NEW c,
           Owned(a, q, h, d, x, c)
    PROVE  /\ Cardinality(a) = Len(q) + Cardinality(h) + Cardinality(d)
                                  + Cardinality(x) + Cardinality(c)
           /\ Cardinality(a) = Len(q) => h = {} /\ d = {} /\ x = {} /\ c = {}
<1>1. IsFiniteSet(Range(q)) /\ Cardinality(Range(q)) = Len(q) /\ Len(q) \in Nat
  BY DistinctCount DEF Owned
<1>2. IsFiniteSet(h) /\ IsFiniteSet(d) /\ IsFiniteSet(x) /\ IsFiniteSet(c)
  <2>1. h \subseteq a /\ d \subseteq a /\ x \subseteq a /\ c \subseteq a /\ IsFiniteSet(a)
    BY DEF Owned
  <2>. QED  BY <2>1, FS_Subset
<1>3. /\ Range(q) \cap h = {} /\ (Range(q) \cup h) \cap d = {}
      /\ (Range(q) \cup h \cup d) \cap x = {}
      /\ (Range(q) \cup h \cup d \cup x) \cap c = {}
      /\ a = Range(q) \cup h \cup d \cup x \cup c
  BY DEF Owned
<1> DEFINE A == Range(q) \cup h
           B == A \cup d
           C == B \cup x
<1>4. /\ IsFiniteSet(A) /\ Cardinality(A) = Cardinality(Range(q)) + Cardinality(h)
      /\ Cardinality(h) \in Nat
  BY <1>1, <1>2, <1>3, DisjointUnion
<1>5. /\ IsFiniteSet(B) /\ Cardinality(B) = Cardinality(A) + Cardinality(d)
      /\ Cardinality(d) \in Nat
  <2>. HIDE DEF A
  <2>1. A \cap d = {}
    BY <1>3 DEF A
  <2>. QED  BY <1>2, <1>4, <2>1, DisjointUnion
<1>6. /\ IsFiniteSet(C) /\ Cardinality(C) = Cardinality(B) + Cardinality(x)
      /\ Cardinality(x) \in Nat
  <2>. HIDE DEF B
  <2>1. B \cap x = {}
    BY <1>3 DEF B
  <2>. QED  BY <1>2, <1>5, <2>1, DisjointUnion
<1>7. /\ Cardinality(a) = Cardinality(C) + Cardinality(c) /\ Cardinality(c) \in Nat
  <2>. HIDE DEF C
  <2>1. C \cap c = {} /\ a = C \cup c
    BY <1>3 DEF C
  <2>. QED  BY <1>2, <1>6, <2>1, DisjointUnion
<1>. HIDE DEF A, B, C
<1>8. Cardinality(a) = Len(q) + Cardinality(h) + Cardinality(d)
                                  + Cardinality(x) + Cardinality(c)
  BY <1>1, <1>4, <1>5, <1>6, <1>7
<1>9. ASSUME Cardinality(a) = Len(q)
      PROVE  /\ Cardinality(h) = 0 /\ Cardinality(d) = 0
             /\ Cardinality(x) = 0 /\ Cardinality(c) = 0
  BY <1>1, <1>4, <1>5, <1>6, <1>7, <1>8, <1>9, SMTT(30)
<1>10. \A y : IsFiniteSet(y) /\ Cardinality(y) = 0 => y = {}
  BY FS_EmptySet
<1>. QED  BY <1>2, <1>8, <1>9, <1>10

\* The head of the queue goes to the client.
LEMMA OwnedTaken ==
    ASSUME NEW a, NEW q \in Seq(Buffers), NEW h, NEW d, NEW x, NEW c,
           Owned(a, q, h, d, x, c), q # <<>>
    PROVE  Owned(a, Tail(q), h \cup {Head(q)}, d, x, c)
BY RangeTail DEF Owned

\* A buffer comes back to the queue, from the client or from a callback.
LEMMA OwnedQueued ==
    ASSUME NEW a, NEW q \in Seq(Buffers), NEW h, NEW d, NEW x, NEW c,
           Owned(a, q, h, d, x, c), NEW b \in Buffers
    PROVE  /\ b \in h => Owned(a, Append(q, b), h \ {b}, d, x, c)
           /\ c = {b} => Owned(a, Append(q, b), h, d, x, {})
<1>1. /\ Append(q, b) \in Seq(Buffers) /\ Range(Append(q, b)) = Range(q) \cup {b}
      /\ Distinct(q) /\ b \notin Range(q) => Distinct(Append(q, b))
  BY RangeAppend
<1>. QED  BY <1>1 DEF Owned

\* A buffer goes to the component, back into a callback, or is dropped.
LEMMA OwnedMoved ==
    ASSUME NEW a, NEW q, NEW h, NEW d, NEW x, NEW c, Owned(a, q, h, d, x, c), NEW b
    PROVE  /\ b \in h => Owned(a, q, h \ {b}, d \cup {b}, x, c)
           /\ b \in d /\ c = {} => Owned(a, q, h, d \ {b}, x, {b})
           /\ c = {b} => Owned(a, q, h, d, x \cup {b}, {})
BY DEF Owned

LEMMA RangeConcat ==
    ASSUME NEW S, NEW q \in Seq(S), NEW r \in Seq(S)
    PROVE  /\ q \o r \in Seq(S) /\ Range(q \o r) = Range(q) \cup Range(r)
           /\ Distinct(q) /\ Distinct(r) /\ Range(q) \cap Range(r) = {}
                 => Distinct(q \o r)
<1> DEFINE s == q \o r
<1>1. /\ s \in Seq(S) /\ Len(q) \in Nat /\ Len(r) \in Nat /\ Len(s) = Len(q) + Len(r)
      /\ \A i \in 1 .. Len(q) : s[i] = q[i]
      /\ \A i \in 1 .. Len(r) : s[Len(q) + i] = r[i]
      /\ \A i \in 1 .. Len(s) :
            \/ i \in 1 .. Len(q) /\ s[i] = q[i]
            \/ i - Len(q) \in 1 .. Len(r) /\ s[i] = r[i - Len(q)]
  BY Joined
<1>2. DOMAIN s = 1 .. Len(s) /\ DOMAIN q = 1 .. Len(q) /\ DOMAIN r = 1 .. Len(r)
  BY <1>1
<1>. HIDE DEF s
<1>3. Range(s) = Range(q) \cup Range(r)
  <2>1. ASSUME NEW y \in Range(s) PROVE y \in Range(q) \cup Range(r)
    BY <1>1, <1>2 DEF Range
  <2>2. ASSUME NEW i \in 1 .. Len(q) PROVE q[i] \in Range(s)
    <3>1. i \in 1 .. Len(s) /\ s[i] = q[i]
      BY <1>1
    <3>. QED  BY <1>2, <3>1 DEF Range
  <2>3. ASSUME NEW i \in 1 .. Len(r) PROVE r[i] \in Range(s)
    <3>1. Len(q) + i \in 1 .. Len(s) /\ s[Len(q) + i] = r[i]
      BY <1>1
    <3>. QED  BY <1>2, <3>1 DEF Range
  <2>4. Range(q) \subseteq Range(s) /\ Range(r) \subseteq Range(s)
    BY <1>2, <2>2, <2>3 DEF Range
  <2>. QED  BY <2>1, <2>4
<1>4. ASSUME Distinct(q), Distinct(r), Range(q) \cap Range(r) = {} PROVE Distinct(s)
  <2>. SUFFICES ASSUME NEW i \in 1 .. Len(s), NEW j \in 1 .. Len(s), s[i] = s[j]
                PROVE  i = j
    BY DEF Distinct
  <2>1. ASSUME NEW h \in 1 .. Len(q), NEW k \in 1 .. Len(r) PROVE q[h] # r[k]
    <3>1. q[h] \in Range(q) /\ r[k] \in Range(r)
      BY <1>2 DEF Range
    <3>. QED  BY <1>4, <3>1
  <2>2. CASE i \in 1 .. Len(q) /\ s[i] = q[i]
    <3>1. j \in 1 .. Len(q) /\ s[j] = q[j]
      BY <1>1, <2>1, <2>2
    <3>. QED  BY <1>4, <2>2, <3>1 DEF Distinct
  <2>3. CASE i - Len(q) \in 1 .. Len(r) /\ s[i] = r[i - Len(q)]
    <3>1. j - Len(q) \in 1 .. Len(r) /\ s[j] = r[j - Len(q)]
      BY <1>1, <2>1, <2>3
    <3>2. i - Len(q) = j - Len(q)
      BY <1>4, <2>3, <3>1 DEF Distinct
    <3>. QED  BY <1>1, <3>2
  <2>. QED  BY <1>1, <2>2, <2>3
<1>. QED  BY <1>1, <1>3, <1>4 DEF s

\* What Alloc makes.
LEMMA FreshBuffers ==
    ASSUME NEW g \in 1 .. MaxHandles, NEW n \in Nat,
           NEW new, new = [i \in 1 .. n |-> <<g, i>>]
    PROVE  /\ new \in Seq(Buffers) /\ Len(new) = n /\ Distinct(new)
           /\ \A b \in Range(new) : b[1] = g
<1>1. DOMAIN new = 1 .. n /\ \A i \in 1 .. n : new[i] = <<g, i>>
  OBVIOUS
<1>2. \A i \in 1 .. n : <<g, i>> \in Buffers
  BY DEF Buffers
<1>3. new \in Seq(Buffers) /\ Len(new) = n
  BY <1>1, <1>2
<1>. QED  BY <1>1, <1>3 DEF Distinct, Range

\* Buffers are allocated, and forgotten.
LEMMA OwnedFresh ==
    ASSUME NEW a, NEW q \in Seq(Buffers), NEW h, NEW d, NEW x, NEW c,
           Owned(a, q, h, d, x, c),
           NEW new \in Seq(Buffers), Distinct(new), Range(new) \cap a = {}
    PROVE  Owned(a \cup Range(new), q \o new, h, d, x, c)
<1>1. Range(q) \cap Range(new) = {}
  BY DEF Owned
<1>2. Range(q \o new) = Range(q) \cup Range(new) /\ Distinct(q \o new)
  BY <1>1, RangeConcat DEF Owned
<1>3. IsFiniteSet(a \cup Range(new))
  <2>1. IsFiniteSet(Range(new)) /\ IsFiniteSet(a)
    BY DistinctCount DEF Owned
  <2>. QED  BY <2>1, FS_Union
<1>. QED  BY <1>2, <1>3 DEF Owned

LEMMA OwnedNothing == Owned({}, <<>>, {}, {}, {}, {})
BY FS_EmptySet DEF Owned, Range, Distinct

LEMMA OwnerStep == IInv /\ [Next]_vars => OwnerInv'
<1>. SUFFICES ASSUME IInv, [Next]_vars, NEW p \in Ports
              PROVE  Owned(all'[p], avail'[p], held'[p], device'[p], dropped'[p],
                           InCallback(p)')
  BY DEF OwnerInv
<1> DEFINE Same(q) == /\ all'[q] = all[q] /\ avail'[q] = avail[q]
                      /\ held'[q] = held[q] /\ device'[q] = device[q]
                      /\ dropped'[q] = dropped[q] /\ InCallback(q)' = InCallback(q)
           Goal(q) == Owned(all'[q], avail'[q], held'[q], device'[q], dropped'[q],
                            InCallback(q)')
<1>. USE DEF flagVars, bufferVars, deviceVars, lateVars
<1>a. /\ Owned(all[p], avail[p], held[p], device[p], dropped[p], InCallback(p))
      /\ avail[p] \in Seq(Buffers)
      /\ all \in [Ports -> SUBSET Buffers] /\ held \in [Ports -> SUBSET Buffers]
      /\ device \in [Ports -> SUBSET Buffers] /\ dropped \in [Ports -> SUBSET Buffers]
      /\ avail \in [Ports -> Seq(Buffers)]
  BY DEF IInv, OwnerInv, TypeOK
<1>1. ASSUME Same(p) PROVE Goal(p)
  BY <1>a, <1>1
<1>2. ASSUME UNCHANGED <<bufferVars, device, cb>> PROVE Goal(p)
  <2>1. Same(p)
    BY <1>2 DEF InCallback
  <2>. QED  BY <1>1, <2>1
<1>3. CASE Initialize
  BY <1>2, <1>3 DEF Initialize
<1>4. CASE Begun \/ Deinitialize
  BY <1>2, <1>4 DEF Begun, Deinitialize, Call
<1>5. ASSUME NEW q \in Ports, GetBuffer(q) PROVE Goal(p)
  <2>1. UNCHANGED <<all, device, dropped, cb>> /\ avail[q] # <<>>
        /\ held' = [held EXCEPT ![q] = @ \cup {Head(avail[q])}]
        /\ avail' = [avail EXCEPT ![q] = Tail(@)]
    BY <1>5 DEF GetBuffer, PopAvailable
  <2>2. InCallback(p)' = InCallback(p)
    BY <2>1 DEF InCallback
  <2>3. CASE p # q
    BY <1>1, <1>a, <2>1, <2>2, <2>3
  <2>4. CASE p = q
    <3>1. /\ all'[p] = all[p] /\ device'[p] = device[p] /\ dropped'[p] = dropped[p]
          /\ held'[p] = held[p] \cup {Head(avail[p])} /\ avail'[p] = Tail(avail[p])
      BY <1>a, <2>1, <2>4
    <3>. QED  BY <1>a, <2>1, <2>2, <2>4, <3>1, OwnedTaken
  <2>. QED  BY <2>3, <2>4
<1>6. ASSUME NEW q \in Ports, NEW b \in held[q], SubmitBuffer(q, b) PROVE Goal(p)
  <2>1. UNCHANGED <<all, dropped, cb>> /\ held' = [held EXCEPT ![q] = @ \ {b}]
        /\ \/ /\ device' = [device EXCEPT ![q] = @ \cup {b}]
              /\ UNCHANGED avail
           \/ /\ avail' = [avail EXCEPT ![q] = Append(@, b)]
              /\ UNCHANGED device
    BY <1>6 DEF SubmitBuffer
  <2>2. InCallback(p)' = InCallback(p)
    BY <2>1 DEF InCallback
  <2>3. CASE p # q
    BY <1>1, <1>a, <2>1, <2>2, <2>3
  <2>4. CASE p = q
    <3>1. /\ all'[p] = all[p] /\ dropped'[p] = dropped[p] /\ held'[p] = held[p] \ {b}
          /\ \/ device'[p] = device[p] \cup {b} /\ avail'[p] = avail[p]
             \/ device'[p] = device[p] /\ avail'[p] = Append(avail[p], b)
      BY <1>a, <2>1, <2>4
    <3>2. b \in Buffers /\ b \in held[p]
      BY <1>a, <2>4
    <3>3. /\ Owned(all[p], avail[p], held[p] \ {b}, device[p] \cup {b}, dropped[p],
                   InCallback(p))
          /\ Owned(all[p], Append(avail[p], b), held[p] \ {b}, device[p], dropped[p],
                   InCallback(p))
      BY <1>a, <3>2, OwnedMoved, OwnedQueued
    <3>. QED  BY <2>2, <3>1, <3>3
  <2>. QED  BY <2>3, <2>4
<1>7. CASE SendStep \/ WaitEvent \/ WaitOver \/ ReadyStep \/ ExpandStep \/ ReleaseStep
           \/ FreeHandleStep
  <2>1. UNCHANGED <<bufferVars, device, cb>>
    BY <1>7 DEF SendStep, WaitEvent, WaitOver, ReadyStep, ExpandStep, ReleaseStep,
       FreeHandleStep
  <2>. QED  BY <1>2, <2>1
<1>8. CASE AllocStep
  <2>1. Step \in Steps /\ Step.do = "alloc" /\ Step.arg \in Ports
        /\ NoneAllocated(Step.arg) /\ handle
    <3>1. script # <<>> /\ Step.do = "alloc"
      BY <1>8 DEF AllocStep, At, Step
    <3>2. Step \in Steps /\ Step = script[1] /\ 1 \in 1 .. Len(script)
      BY <3>1, HeadStep DEF IInv
    <3>. QED  BY <3>1, <3>2, StepFields DEF IInv, ScriptInv, Fits, HandleInv
  <2>2. PICK n \in 0 .. Count[Step.arg] :
          LET new == [i \in 1 .. n |-> <<generation, i>>]
          IN  /\ all' = [all EXCEPT ![Step.arg] = @ \cup Range(new)]
              /\ avail' = [avail EXCEPT ![Step.arg] = @ \o new]
    BY <1>8 DEF AllocStep
  <2>3. UNCHANGED <<held, device, dropped>> /\ InCallback(p)' = InCallback(p)
    BY <1>8 DEF AllocStep, InCallback
  <2>4. CASE p # Step.arg
    BY <1>1, <1>a, <2>1, <2>2, <2>3, <2>4
  <2>5. CASE p = Step.arg
    <3>1. n \in Nat
      BY <2>1, ComponentAssumption
    <3>. PICK new : new = [i \in 1 .. n |-> <<generation, i>>]
      OBVIOUS
    <3>2. /\ new \in Seq(Buffers) /\ Distinct(new)
          /\ \A b \in Range(new) : b[1] = generation
      <4>1. generation \in 1 .. MaxHandles
        BY <2>1 DEF IInv, HandleInv
      <4>. QED  BY <3>1, <4>1, FreshBuffers
    <3>3. Range(new) \cap all[p] = {}
      BY <2>1, <2>5, <3>2 DEF NoneAllocated
    <3>4. Owned(all[p] \cup Range(new), avail[p] \o new, held[p], device[p],
                dropped[p], InCallback(p))
      <4>. PICK c : c = InCallback(p)
        OBVIOUS
      <4>. HIDE DEF InCallback
      <4>. QED  BY <1>a, <3>2, <3>3, OwnedFresh
    <3>5. all'[p] = all[p] \cup Range(new) /\ avail'[p] = avail[p] \o new
      BY <1>a, <2>1, <2>2, <2>5
    <3>. QED  BY <2>3, <3>4, <3>5
  <2>. QED  BY <2>4, <2>5
<1>9. CASE CheckStep
  <2>1. UNCHANGED <<held, device, dropped>> /\ InCallback(p)' = InCallback(p)
    BY <1>9 DEF CheckStep, InCallback
  <2>2. \/ UNCHANGED <<all, avail>>
        \/ /\ AllHome(Step.arg)
           /\ all' = [all EXCEPT ![Step.arg] = {}]
           /\ avail' = [avail EXCEPT ![Step.arg] = <<>>]
    BY <1>9 DEF CheckStep, ClearLists
  <2>3. CASE UNCHANGED <<all, avail>> \/ p # Step.arg
    BY <1>1, <1>a, <2>1, <2>2, <2>3
  <2>4. CASE /\ p = Step.arg /\ AllHome(Step.arg)
             /\ all' = [all EXCEPT ![Step.arg] = {}]
             /\ avail' = [avail EXCEPT ![Step.arg] = <<>>]
    <3>1. held[p] = {} /\ device[p] = {} /\ dropped[p] = {} /\ InCallback(p) = {}
      BY <1>a, <2>4, OwnedCount DEF AllHome
    <3>2. all'[p] = {} /\ avail'[p] = <<>>
      BY <1>a, <2>4
    <3>. QED  BY <2>1, <3>1, <3>2, OwnedNothing
  <2>. QED  BY <2>2, <2>3, <2>4
<1>10. ASSUME NEW q \in Ports, NEW b \in device[q], DeviceReturns(q, b) PROVE Goal(p)
  <2>1. /\ UNCHANGED bufferVars /\ cb = CbIdle
        /\ device' = [device EXCEPT ![q] = @ \ {b}]
        /\ cb' = [at |-> "enter", port |-> q, buf |-> b]
    BY <1>10 DEF DeviceReturns, Running
  <2>2. InCallback(p) = {} /\ InCallback(p)' = IF p = q THEN {b} ELSE {}
    BY <2>1 DEF InCallback, CbIdle
  <2>3. CASE p # q
    BY <1>1, <1>a, <2>1, <2>2, <2>3
  <2>4. CASE p = q
    <3>1. device'[p] = device[p] \ {b} /\ b \in device[p]
      BY <1>a, <2>1, <2>4
    <3>2. Owned(all[p], avail[p], held[p], device[p] \ {b}, dropped[p], {b})
      BY <1>a, <2>2, <3>1, OwnedMoved
    <3>. QED  BY <2>1, <2>2, <2>4, <3>1, <3>2
  <2>. QED  BY <2>3, <2>4
<1>11. CASE BufferDoneEnter \/ BufferDonePush
  <2>1. cb \in [at : {"enter", "push"}, port : Ports, buf : Buffers]
    BY <1>11 DEF IInv, TypeOK, BufferDoneEnter, BufferDonePush, CbIdle
  <2>2. InCallback(p) = IF cb.port = p THEN {cb.buf} ELSE {}
    BY <2>1 DEF InCallback
  <2>3. UNCHANGED <<all, held, device>>
    BY <1>11 DEF BufferDoneEnter, BufferDonePush
  <2>4. \/ /\ cb' = [cb EXCEPT !.at = "push"] /\ UNCHANGED <<avail, dropped>>
        \/ /\ cb' = CbIdle /\ UNCHANGED avail
           /\ dropped' = [dropped EXCEPT ![cb.port] = @ \cup {cb.buf}]
        \/ /\ cb' = CbIdle /\ UNCHANGED dropped
           /\ avail' = [avail EXCEPT ![cb.port] = Append(@, cb.buf)]
    BY <1>11 DEF BufferDoneEnter, BufferDonePush
  <2>5. CASE cb' = [cb EXCEPT !.at = "push"] /\ UNCHANGED <<avail, dropped>>
    <3>1. InCallback(p)' = InCallback(p)
      BY <2>1, <2>2, <2>5 DEF InCallback
    <3>. QED  BY <1>1, <2>3, <2>5, <3>1
  <2>6. ASSUME cb' = CbIdle PROVE InCallback(p)' = {}
    BY <2>6 DEF InCallback, CbIdle
  <2>7. CASE /\ cb' = CbIdle /\ UNCHANGED avail
             /\ dropped' = [dropped EXCEPT ![cb.port] = @ \cup {cb.buf}]
    <3>1. CASE p # cb.port
      BY <1>1, <1>a, <2>2, <2>3, <2>6, <2>7, <3>1
    <3>2. CASE p = cb.port
      <4>1. dropped'[p] = dropped[p] \cup {cb.buf} /\ InCallback(p) = {cb.buf}
        BY <1>a, <2>2, <2>7, <3>2
      <4>2. Owned(all[p], avail[p], held[p], device[p], dropped[p] \cup {cb.buf}, {})
        BY <1>a, <4>1, OwnedMoved
      <4>. QED  BY <2>3, <2>6, <2>7, <4>1, <4>2
    <3>. QED  BY <3>1, <3>2
  <2>8. CASE /\ cb' = CbIdle /\ UNCHANGED dropped
             /\ avail' = [avail EXCEPT ![cb.port] = Append(@, cb.buf)]
    <3>1. CASE p # cb.port
      BY <1>1, <1>a, <2>2, <2>3, <2>6, <2>8, <3>1
    <3>2. CASE p = cb.port
      <4>1. avail'[p] = Append(avail[p], cb.buf) /\ InCallback(p) = {cb.buf}
            /\ cb.buf \in Buffers
        BY <1>a, <2>1, <2>2, <2>8, <3>2
      <4>2. Owned(all[p], Append(avail[p], cb.buf), held[p], device[p], dropped[p], {})
        BY <1>a, <4>1, OwnedQueued
      <4>. QED  BY <2>3, <2>6, <2>8, <4>1, <4>2
    <3>. QED  BY <3>1, <3>2
  <2>. QED  BY <2>4, <2>5, <2>7, <2>8
<1>12. CASE DeviceCompletes
  BY <1>2, <1>12 DEF DeviceCompletes
<1>13. ASSUME NEW e \in Errors, DeviceError(e) PROVE Goal(p)
  <2>1. UNCHANGED <<bufferVars, device>> /\ cb = CbIdle
        /\ (cb' = CbIdle \/ cb' = [at |-> "error"])
    BY <1>13 DEF DeviceError, Running
  <2>2. InCallback(p)' = InCallback(p)
    BY <2>1 DEF InCallback, CbIdle
  <2>. QED  BY <1>1, <2>1, <2>2
<1>14. CASE ResourceError
  <2>1. UNCHANGED <<bufferVars, device>> /\ cb.at = "error" /\ cb' = CbIdle
    BY <1>14 DEF ResourceError
  <2>2. InCallback(p)' = InCallback(p)
    BY <2>1 DEF InCallback, CbIdle
  <2>. QED  BY <1>1, <2>1, <2>2
<1>15. CASE UNCHANGED vars
  BY <1>2, <1>15 DEF vars
<1>16. ASSUME NEW c \in late, LateCompletion(c) PROVE Goal(p)
  BY <1>2, <1>16 DEF LateCompletion
<1>. QED
  BY <1>3, <1>4, <1>5, <1>6, <1>7, <1>8, <1>9, <1>10, <1>11, <1>12, <1>13, <1>14, <1>15,
     <1>16, CallBegins
  DEF IInv, Next, ClientCall, ClientStep, DeviceStep

-----------------------------------------------------------------------------
(***************************************************************************)
(* Shutdown with every buffer home.                                        *)
(***************************************************************************)

LEMMA LeavingMoves ==
    ASSUME TypeOK, ScriptInv
    PROVE  /\ script = <<>> => ~Leaving
           /\ Calm(script') => ~Leaving'
           /\ Shortened => (Leaving' => Leaving)
           /\ UNCHANGED script => (Leaving' => Leaving)
           /\ script # <<>> /\ Step.do \in Shutdown => Leaving
<1>1. script = <<>> => ~Leaving
  BY DEF Leaving
<1>2. Calm(script') => ~Leaving'
  BY DEF Leaving, Calm
<1>3. ASSUME Shortened, Leaving' PROVE Leaving
  <2>1. PICK i \in 1 .. Len(script') : script'[i].do \in Shutdown
    BY <1>3 DEF Leaving
  <2>2. PICK j \in 2 .. Len(script) : script'[i] = script[j]
    BY <1>3 DEF Shortened
  <2>3. j \in 1 .. Len(script)
    BY <1>3, HeadStep DEF Shortened
  <2>. QED  BY <2>1, <2>2, <2>3 DEF Leaving
<1>4. UNCHANGED script => (Leaving' => Leaving)
  BY DEF Leaving
<1>5. script # <<>> /\ Step.do \in Shutdown => Leaving
  BY HeadStep DEF Leaving
<1>. QED  BY <1>1, <1>2, <1>3, <1>4, <1>5

\* The steps of a call, but for those that put another script in its place.
LEMMA StepMoves ==
    ASSUME TypeOK, ScriptInv
    PROVE  /\ SendStep \/ WaitEvent \/ WaitOver \/ AllocStep \/ ReadyStep \/ ReleaseStep
                 \/ FreeHandleStep \/ CheckStep \/ ExpandStep => (Leaving' => Leaving)
<1>1. ASSUME ExpandStep PROVE Leaving
  <2>1. script # <<>> /\ Step.do \in Shutdown
    BY <1>1 DEF ExpandStep, At, Step, Shutdown
  <2>. QED  BY <2>1, LeavingMoves
<1>2. ASSUME CheckStep, Leaving' PROVE Leaving
  <2>1. Shortened \/ UNCHANGED script
    BY <1>2, ScriptMoves
  <2>. QED  BY <1>2, <2>1, LeavingMoves
<1>3. ASSUME SendStep \/ WaitEvent \/ WaitOver \/ AllocStep \/ ReadyStep \/ ReleaseStep
                \/ FreeHandleStep
      PROVE  Shortened
  BY <1>3, ScriptMoves
<1>. QED  BY <1>1, <1>2, <1>3, LeavingMoves

LEMMA HomeStep == IInv /\ [Next]_vars => HomeInv'
<1>. SUFFICES ASSUME IInv, [Next]_vars, Leaving', home', NEW p \in Ports
              PROVE  Home(p)' /\ InCallback(p)' = {}
  BY DEF HomeInv
<1>. USE DEF flagVars, bufferVars, deviceVars, lateVars
<1>a. TypeOK /\ ScriptInv
  BY DEF IInv
<1>b. Leaving /\ home => Home(p) /\ InCallback(p) = {}
  BY DEF IInv, HomeInv
<1>1. ASSUME UNCHANGED <<held, device, dropped, cb, home>>, Leaving
      PROVE  Home(p)' /\ InCallback(p)' = {}
  BY <1>b, <1>1 DEF Home, InCallback
<1>2. CASE Initialize
  <2>1. script' = DisableAllPorts \/ (script' = script /\ script = <<>>)
    BY <1>2 DEF Initialize, Idle
  <2>. QED  BY <1>a, <2>1, LeavingMoves, DisableAllPortsScript
<1>3. CASE Begun
  BY <1>3, <1>a, LeavingMoves DEF Begun
<1>4. CASE Deinitialize
  <2>1. cb = CbIdle /\ Home(p) /\ UNCHANGED <<held, device, dropped, cb>>
    BY <1>4 DEF Deinitialize, Call
  <2>. QED  BY <2>1 DEF Home, InCallback, CbIdle
<1>5. ASSUME NEW q \in Ports, GetBuffer(q) \/ \E b \in held[q] : SubmitBuffer(q, b)
      PROVE  FALSE
  BY <1>5, <1>a, LeavingMoves DEF GetBuffer, SubmitBuffer, Idle
<1>6. CASE SendStep \/ WaitEvent \/ WaitOver \/ AllocStep \/ ReadyStep \/ ReleaseStep
           \/ FreeHandleStep \/ CheckStep \/ ExpandStep
  <2>1. Leaving
    BY <1>6, <1>a, StepMoves
  <2>2. UNCHANGED <<held, device, dropped, cb, home>>
    BY <1>6 DEF SendStep, WaitEvent, WaitOver, AllocStep, ReadyStep, ReleaseStep,
       FreeHandleStep, CheckStep, ExpandStep
  <2>. QED  BY <1>1, <2>1, <2>2
<1>7. CASE DeviceStep
  <2>1. UNCHANGED <<script, home>>
    BY <1>7 DEF DeviceStep, DeviceReturns, BufferDoneEnter, BufferDonePush,
       DeviceCompletes, LateCompletion, DeviceError, ResourceError
  <2>2. Leaving /\ home /\ \A q \in Ports : Home(q) /\ InCallback(q) = {}
    BY <1>a, <2>1, LeavingMoves DEF IInv, HomeInv
  <2>3. ASSUME NEW q \in Ports, NEW b \in device[q] PROVE FALSE
    BY <2>2 DEF Home
  <2>4. ASSUME BufferDoneEnter \/ BufferDonePush PROVE FALSE
    <3>0. cb.at \in {"enter", "push"}
      BY <2>4 DEF BufferDoneEnter, BufferDonePush
    <3>1. cb \in [at : {"enter", "push"}, port : Ports, buf : Buffers]
      BY <1>a, <3>0 DEF TypeOK, CbIdle
    <3>2. InCallback(cb.port) = {cb.buf} /\ cb.port \in Ports
      BY <3>1 DEF InCallback
    <3>. QED  BY <2>2, <3>2
  <2>5. CASE DeviceCompletes
    BY <1>1, <2>2, <2>5 DEF DeviceCompletes
  <2>6. ASSUME NEW e \in Errors, DeviceError(e) PROVE Home(p)' /\ InCallback(p)' = {}
    <3>1. UNCHANGED <<held, device, dropped>> /\ (cb' = CbIdle \/ cb' = [at |-> "error"])
      BY <2>6 DEF DeviceError, Running
    <3>. QED  BY <2>2, <3>1 DEF Home, InCallback, CbIdle
  <2>7. CASE ResourceError
    BY <2>2, <2>7 DEF ResourceError, Home, InCallback, CbIdle
  <2>8. ASSUME NEW c \in late, LateCompletion(c) PROVE Home(p)' /\ InCallback(p)' = {}
    BY <1>1, <2>2, <2>8 DEF LateCompletion
  <2>. QED  BY <1>7, <2>3, <2>4, <2>5, <2>6, <2>7, <2>8 DEF DeviceStep
<1>8. CASE UNCHANGED vars
  <2>1. Leaving
    BY <1>a, <1>8, LeavingMoves DEF vars
  <2>. QED  BY <1>1, <1>8, <2>1 DEF vars
<1>. QED
  BY <1>2, <1>3, <1>4, <1>5, <1>6, <1>7, <1>8, CallBegins
  DEF IInv, Next, ClientCall, ClientStep

LEMMA CleanStep == IInv /\ CleanShutdown /\ [Next]_vars => CleanShutdown'
<1>. SUFFICES ASSUME IInv, CleanShutdown, [Next]_vars, aborted', home' PROVE FALSE
  BY DEF CleanShutdown
<1>. USE DEF flagVars, bufferVars, deviceVars, lateVars
<1>1. CASE CheckStep
  <2>1. /\ script # <<>> /\ Step.do = "check" /\ home /\ ~AllHome(Step.arg)
    BY <1>1 DEF CheckStep, At, Step, CleanShutdown
  <2>2. Leaving /\ Step \in Steps
    BY <2>1, LeavingMoves, HeadStep DEF IInv, Shutdown
  <2>. DEFINE p == Step.arg
  <2>3. p \in Ports
    BY <2>1, <2>2, StepFields
  <2>4. Home(p) /\ InCallback(p) = {}
    BY <2>1, <2>2, <2>3 DEF IInv, HomeInv
  <2>5. /\ Owned(all[p], avail[p], {}, {}, {}, {}) /\ avail[p] \in Seq(Buffers)
    BY <2>3, <2>4 DEF IInv, OwnerInv, Home, TypeOK
  <2>6. all[p] = Range(avail[p]) /\ Distinct(avail[p])
    BY <2>5 DEF Owned
  <2>. QED  BY <2>1, <2>5, <2>6, DistinctCount DEF AllHome
<1>2. CASE ~CheckStep
  <2>1. aborted /\ (UNCHANGED home \/ Idle)
    BY <1>2
    DEF Next, ClientCall, ClientStep, DeviceStep, Initialize, SetStateForComponent,
        EnablePort, AllocBuffers, GetBuffer, FlushPort, SubmitBuffer, Deinitialize, Call,
        SendStep, WaitEvent, WaitOver, AllocStep, ReadyStep, ExpandStep, ReleaseStep,
        FreeHandleStep, DeviceReturns, BufferDoneEnter, BufferDonePush, DeviceCompletes,
        LateCompletion, DeviceError, ResourceError, vars
  <2>. QED  BY <2>1 DEF CleanShutdown, Idle
<1>. QED  BY <1>1, <1>2

-----------------------------------------------------------------------------
(***************************************************************************)
(* Commands sent and not waited for.                                       *)
(***************************************************************************)

LEMMA CommandOfEvent ==
    /\ \A c, d \in Commands : Complete(c.cmd, c.arg) = Complete(d.cmd, d.arg) => c = d
    /\ \A c \in Commands, e \in AllErrors : Complete(c.cmd, c.arg) # Error(e)
    /\ \A c \in Commands : c = [cmd |-> c.cmd, arg |-> c.arg]
<1>1. \A c \in Commands : c = [cmd |-> c.cmd, arg |-> c.arg]
  BY DEF Commands
<1>2. \A c, d : Complete(c.cmd, c.arg) = Complete(d.cmd, d.arg)
                   => c.cmd = d.cmd /\ c.arg = d.arg
  BY DEF Complete
<1>3. \A c, e : Complete(c.cmd, c.arg).type = "complete" /\ Error(e).type = "error"
  BY DEF Complete, Error
<1>4. ASSUME NEW c \in Commands, NEW d \in Commands,
             Complete(c.cmd, c.arg) = Complete(d.cmd, d.arg)
      PROVE  c = d
  <2>1. c.cmd = d.cmd /\ c.arg = d.arg
    BY <1>2, <1>4
  <2>. QED  BY <1>1, <2>1
<1>. QED  BY <1>1, <1>3, <1>4

LEMMA EventTaken ==
    ASSUME events \in Seq(Events), NoDuplicateEvents, NEW i \in 1 .. Len(events),
           events' = RemoveAt(events, i), NEW c, Answered(c)'
    PROVE  Answered(c) /\ Complete(c.cmd, c.arg) # events[i]
<1>1. Distinct(events)
  BY DEF NoDuplicateEvents, Distinct
<1>2. PICK k \in 1 .. Len(events') : events'[k] = Complete(c.cmd, c.arg)
  BY DEF Answered
<1>3. events'[k] # events[i] /\ \E j \in 1 .. Len(events) : events[j] = events'[k]
  BY <1>1, <1>2, RemoveAtDistinct
<1>. QED  BY <1>2, <1>3 DEF Answered

LEMMA EventQueued ==
    ASSUME events \in Seq(Events), NEW e \in Events, AddEvent(e), NEW c, Answered(c)'
    PROVE  Answered(c) \/ Complete(c.cmd, c.arg) = e
<1>1. PICK k \in 1 .. Len(events') : events'[k] = Complete(c.cmd, c.arg)
  BY DEF Answered
<1>2. events'[k] = e \/ \E j \in 1 .. Len(events) : events[j] = events'[k]
  BY <1>1, EventAdded
<1>. QED  BY <1>1, <1>2 DEF Answered

LEMMA CommandCompleted ==
    ASSUME cmds \in Seq(Commands), NEW i \in 1 .. Len(cmds),
           cmds' = RemoveAt(cmds, i)
    PROVE  \A c : /\ Unfinished(c)' => Unfinished(c)
                  /\ UnfinishedOnce(c) => UnfinishedOnce(c)'
                  /\ UnfinishedOnce(c) /\ c = cmds[i] => ~Unfinished(c)'
<1>1. /\ Len(cmds') = Len(cmds) - 1 /\ Len(cmds) \in Nat
      /\ \A k \in 1 .. Len(cmds) - 1 :
            cmds'[k] = IF k < i THEN cmds[k] ELSE cmds[k + 1]
  <2>1. PICK q \in Seq(Commands) : q = cmds
    OBVIOUS
  <2>2. PICK t : t = RemoveAt(q, i)
    OBVIOUS
  <2>3. /\ t \in Seq(Commands) /\ Len(t) = Len(q) - 1
        /\ \A k \in 1 .. Len(q) - 1 : t[k] = IF k < i THEN q[k] ELSE q[k + 1]
    BY <2>1, <2>2, RemoveAtProperties
  <2>. QED  BY <2>1, <2>2, <2>3
<1> DEFINE old(k) == IF k < i THEN k ELSE k + 1
<1>2. \A k \in 1 .. Len(cmds') :
         old(k) \in 1 .. Len(cmds) /\ cmds'[k] = cmds[old(k)] /\ old(k) # i
  BY <1>1
<1>3. \A h, k \in 1 .. Len(cmds') : old(h) = old(k) => h = k
  BY <1>1
<1>. HIDE DEF old
<1>. TAKE c
<1>4. Unfinished(c)' => Unfinished(c)
  BY <1>2 DEF Unfinished
<1>5. UnfinishedOnce(c) => UnfinishedOnce(c)'
  BY <1>2, <1>3 DEF UnfinishedOnce
<1>6. UnfinishedOnce(c) /\ c = cmds[i] => ~Unfinished(c)'
  BY <1>2 DEF UnfinishedOnce, Unfinished
<1>. QED  BY <1>4, <1>5, <1>6

\* Only a step that waits, or one that frees buffers before it waits, finds a
\* command open, but for the enabling of a port.
LEMMA NoneExpected ==
    ASSUME TypeOK, ScriptInv, OpenInv,
           script = <<>> \/ Step.do \notin {"wait", "need", "release"},
           NEW c \in Punctual, Open(c)
    PROVE  c.cmd = "enable"
<1>. SUFFICES ASSUME Expected(c) PROVE FALSE
  BY DEF OpenInv, OpenAwaited
<1>1. script # <<>>
  BY DEF Expected
<1>2. Step = script[1] /\ Step.do \notin {"wait", "need", "release"}
  BY <1>1, HeadStep
<1>. QED  BY <1>2 DEF Expected, Awaits

\* The rest of a shutdown goes on to its end.
LEMMA LeavingLasts ==
    ASSUME TypeOK, ScriptInv, Leaving, script # <<>>,
           script' = Tail(script), Step.do # "freeHandle"
    PROVE  Leaving'
<1>1. script[Len(script)].do = "freeHandle"
  BY DEF Leaving, ScriptInv, Lasting
<1>2. /\ Step = script[1] /\ Len(script) \in Nat \ {0}
      /\ Len(script') = Len(script) - 1
      /\ \A i \in 1 .. Len(script') : script'[i] = script[i + 1]
  BY HeadStep
<1>3. Len(script) # 1
  BY <1>1, <1>2
<1>4. Len(script) - 1 \in 1 .. Len(script') /\ script'[Len(script) - 1] = script[Len(script)]
  BY <1>2, <1>3
<1>. QED  BY <1>1, <1>4 DEF Leaving, Shutdown

\* Where the enabling of a port was open it may stay so.
LEMMA EnableMoves ==
    ASSUME TypeOK, EnableLasts, handle' => handle, UNCHANGED enabled,
           owed \subseteq owed',
           \A p \in Ports : Open(EnableOf(p))' => Open(EnableOf(p)),
           \A i \in 1 .. Len(script') : \E j \in 1 .. Len(script) : script'[i] = script[j],
           Leaving => Leaving'
    PROVE  EnableLasts'
BY DEF EnableLasts, Punctual

\* A command goes out: nothing but the enabling of a port was open.
LEMMA SendOpens ==
    ASSUME IInv, SendStep
    PROVE  OpenOnce' /\ OpenAwaited' /\ EnableLasts'
<1>. USE DEF IInv
<1>0. PICK c0 : c0 = [cmd |-> Step.cmd, arg |-> Step.arg]
  OBVIOUS
<1>1. /\ script # <<>> /\ Step.do = "send" /\ Step = script[1] /\ Step \in Steps
      /\ 1 \in 1 .. Len(script) /\ Len(script) \in Nat \ {0}
      /\ c0 \in Commands /\ Step.fail \in OnFailure /\ handle
      /\ UNCHANGED <<events, handle, owed>> /\ Shortened /\ Punctual' = Punctual
  <2>1. script # <<>> /\ Step.do = "send" /\ UNCHANGED <<events, handle, owed>>
    BY DEF SendStep, At, Step, flagVars, lateVars
  <2>. QED  BY <1>0, <2>1, HeadStep, StepFields, ScriptMoves DEF HandleInv, Punctual
<1>2. OpenOnce /\ OpenAwaited /\ EnableLasts
  BY DEF OpenInv
<1>3. \A c \in Punctual : Open(c) => c.cmd = "enable"
  BY <1>1, NoneExpected
<1>4. \A c : Answered(c)' = Answered(c)
  BY <1>1 DEF Answered
<1>5. c0.cmd = Step.cmd /\ c0.arg = Step.arg
  BY <1>0
<1>6. CASE UNCHANGED <<cmds, enabled>>
  <2>1. \A c : Unfinished(c)' = Unfinished(c)
    BY <1>6 DEF Unfinished
  <2>2. \A c : Open(c)' = Open(c)
    BY <1>4, <2>1 DEF Open
  <2>3. OpenOnce' /\ OpenAwaited'
    BY <1>1, <1>2, <1>3, <1>4, <1>6, <2>1, <2>2
       DEF OpenOnce, OpenAwaited, UnfinishedOnce
  <2>4. ASSUME Leaving PROVE Leaving'
    <3>1. CASE script' = Tail(script)
      BY <1>1, <2>4, <3>1, LeavingLasts
    <3>2. CASE script' # Tail(script)
      <4>1. \/ Step.fail = "skip" /\ script' = Tail(Tail(script))
            \/ Step.fail = "return"
        <5>1. Advance \/ script' = CASE Step.fail = "go on" -> Tail(script)
                                     [] Step.fail = "skip"  -> Tail(Tail(script))
                                     [] OTHER -> <<>>
          BY DEF SendStep
        <5>2. script' = Tail(script) \/ Step.fail = "return" \/ script' = Tail(Tail(script))
          <6>1. CASE Step.fail = "go on"
            BY <5>1, <6>1 DEF Advance
          <6>2. CASE Step.fail = "skip"
            BY <5>1, <6>2 DEF Advance
          <6>3. CASE Step.fail = "return"
            BY <6>3
          <6>. QED  BY <1>1, <6>1, <6>2, <6>3 DEF OnFailure
        <5>3. Step.fail # "go on"
          BY <5>1, <3>2 DEF Advance
        <5>. QED  BY <1>1, <3>2, <5>2, <5>3 DEF OnFailure
      <4>2. /\ Step.fail # "return" /\ script[Len(script)].do = "freeHandle"
        BY <1>1, <2>4 DEF Leaving, ScriptInv, Lasting
      <4>3. Len(script) > 2
        BY <1>1, <4>1, <4>2 DEF ScriptInv, Paired, Awaits
      <4>4. /\ Len(script') = Len(script) - 2
            /\ script'[Len(script) - 2] = script[Len(script)]
        <5>1. PICK t : t = Tail(script)
          OBVIOUS
        <5>2. /\ t \in Seq(Steps) /\ Len(t) = Len(script) - 1 /\ t # <<>>
              /\ \A i \in 1 .. Len(t) : t[i] = script[i + 1]
          BY <1>1, <4>1, <4>2, <5>1, HeadStep
        <5>3. /\ Len(Tail(t)) = Len(t) - 1
              /\ \A i \in 1 .. Len(Tail(t)) : Tail(t)[i] = t[i + 1]
          BY <5>2, TailOf
        <5>4. script' = Tail(t)
          BY <4>1, <4>2, <5>1
        <5>5. Len(script') = Len(script) - 2 /\ Len(script) - 2 \in 1 .. Len(Tail(t))
          BY <1>1, <4>3, <5>2, <5>3, <5>4
        <5>6. Tail(t)[Len(script) - 2] = t[Len(script) - 1]
          BY <1>1, <5>3, <5>5
        <5>7. t[Len(script) - 1] = script[Len(script)]
          BY <1>1, <4>3, <5>2
        <5>. QED  BY <5>4, <5>5, <5>6, <5>7
      <4>. QED  BY <1>1, <4>2, <4>3, <4>4 DEF Leaving, Shutdown
    <3>. QED  BY <3>1, <3>2
  <2>5. \A i \in 1 .. Len(script') : \E j \in 1 .. Len(script) : script'[i] = script[j]
    BY <1>1 DEF Shortened
  <2>6. EnableLasts'
    BY <1>1, <1>2, <1>6, <2>2, <2>4, <2>5, EnableMoves
  <2>. QED  BY <2>3, <2>6
<1>7. CASE ~UNCHANGED <<cmds, enabled>>
  <2>1. /\ cmds' = Append(cmds, c0) /\ script' = Tail(script)
        /\ enabled' = IF Step.cmd \in {"enable", "disable"}
                      THEN [enabled EXCEPT ![Step.arg] = Step.cmd = "enable"]
                      ELSE enabled
    BY <1>0, <1>7 DEF SendStep, Advance
  <2>2. c0 \in Punctual => ~Open(c0)
    <3>. SUFFICES ASSUME c0 \in Punctual PROVE ~Open(c0)
      OBVIOUS
    <3>1. CASE Step.cmd # "enable"
      BY <1>1, <1>3, <1>5, <3>1
    <3>2. CASE Step.cmd = "enable"
      <4>1. Step.arg \in Ports /\ c0 = EnableOf(Step.arg)
        BY <1>0, <1>1, <3>2, StepFields DEF EnableOf
      <4>2. ~Leaving
        BY <1>1, <3>2 DEF Leaving, ScriptInv, Lasting
      <4>3. ~enabled[Step.arg]
        BY <1>1, <3>2 DEF ScriptInv, Fits, Sends
      <4>. QED  BY <1>1, <1>2, <4>1, <4>2, <4>3 DEF EnableLasts
    <3>. QED  BY <3>1, <3>2
  <2>3. /\ cmds' \in Seq(Commands) /\ Len(cmds') = Len(cmds) + 1 /\ Len(cmds) \in Nat
        /\ cmds'[Len(cmds) + 1] = c0
        /\ \A k \in 1 .. Len(cmds) : cmds'[k] = cmds[k]
    BY <1>1, <2>1, AppendProperties DEF TypeOK
  <2>3a. \A k \in 1 .. Len(cmds') : k = Len(cmds) + 1 \/ k \in 1 .. Len(cmds)
    BY <2>3
  <2>4. \A c : Unfinished(c)' => Unfinished(c) \/ c = c0
    BY <2>3, <2>3a DEF Unfinished
  <2>5. \A c : Open(c)' => Open(c) \/ c = c0
    BY <1>4, <2>4 DEF Open
  <2>6. OpenOnce'
    <3>. SUFFICES ASSUME NEW c \in Punctual
                  PROVE  UnfinishedOnce(c)' /\ ~(Unfinished(c) /\ Answered(c))'
      BY <1>1 DEF OpenOnce
    <3>1. UnfinishedOnce(c) /\ ~(Unfinished(c) /\ Answered(c))
      BY <1>2 DEF OpenOnce
    <3>2. CASE c = c0
      <4>1. \A k \in 1 .. Len(cmds) : cmds[k] # c
        BY <2>2, <3>2 DEF Open, Unfinished
      <4>2. UnfinishedOnce(c)'
        BY <2>3, <2>3a, <4>1 DEF UnfinishedOnce
      <4>. QED  BY <1>4, <2>2, <3>2, <4>2 DEF Open
    <3>3. CASE c # c0
      <4>1. UnfinishedOnce(c)'
        BY <2>3, <2>3a, <3>1, <3>3 DEF UnfinishedOnce
      <4>. QED  BY <1>4, <2>4, <3>1, <3>3, <4>1
    <3>. QED  BY <3>2, <3>3
  <2>7. OpenAwaited'
    <3>. SUFFICES ASSUME c0.cmd # "enable" PROVE Expected(c0)'
      BY <1>1, <1>3, <2>5 DEF OpenAwaited
    <3>1. /\ Len(script') = Len(script) - 1
          /\ \A i \in 1 .. Len(script') : script'[i] = script[i + 1]
      BY <1>1, <2>1, HeadStep
    <3>2. \/ 1 < Len(script) /\ Awaits(script[2], c0.cmd, c0.arg)
          \/ /\ 2 < Len(script) /\ script[2].do = "release"
             /\ Awaits(script[3], c0.cmd, c0.arg)
      BY <1>1, <1>5 DEF ScriptInv, Paired
    <3>3. CASE 1 < Len(script) /\ Awaits(script[2], c0.cmd, c0.arg)
      <4>1. 1 \in 1 .. Len(script') /\ Awaits(script'[1], c0.cmd, c0.arg)
        BY <1>1, <3>1, <3>3
      <4>. QED  BY <4>1 DEF Expected
    <3>4. CASE /\ 2 < Len(script) /\ script[2].do = "release"
               /\ Awaits(script[3], c0.cmd, c0.arg)
      <4>1. /\ 2 \in 1 .. Len(script') /\ Awaits(script'[2], c0.cmd, c0.arg)
            /\ script'[1].do = "release"
        BY <1>1, <3>1, <3>4
      <4>. QED  BY <4>1 DEF Expected
    <3>. QED  BY <3>2, <3>3, <3>4
  <2>8. EnableLasts'
    <3>. SUFFICES ASSUME NEW q \in Ports, EnableOf(q) \in Punctual,
                         Open(EnableOf(q))', ~Leaving'
                  PROVE  /\ enabled'[q]
                         /\ \A i \in 1 .. Len(script') : ~Sends(script'[i], "disable")
      <4>1. \A q \in Ports : EnableOf(q)' = EnableOf(q)
        BY DEF EnableOf
      <4>. QED  BY <1>1, <4>1 DEF EnableLasts
    <3>1. ~Leaving
      BY <1>1, <2>1, LeavingLasts
    <3>2. \A i \in 1 .. Len(script') : \E j \in 1 .. Len(script) : script'[i] = script[j]
      BY <1>1 DEF Shortened
    <3>3. CASE Open(EnableOf(q))
      <4>1. enabled[q] /\ \A i \in 1 .. Len(script) : ~Sends(script[i], "disable")
        BY <1>1, <1>2, <3>1, <3>3 DEF EnableLasts
      <4>2. Step.cmd # "disable"
        BY <1>1, <4>1 DEF Sends
      <4>3. enabled'[q]
        BY <2>1, <4>1, <4>2 DEF TypeOK
      <4>. QED  BY <3>2, <4>1, <4>3
    <3>4. CASE EnableOf(q) = c0
      <4>1. Step.cmd = "enable" /\ Step.arg = q
        BY <1>5, <3>4 DEF EnableOf
      <4>2. enabled'[q]
        BY <2>1, <4>1 DEF TypeOK
      <4>3. \A j \in 1 .. Len(script) : ~Sends(script[j], "disable")
        BY <1>1, <4>1 DEF ScriptInv, Once, Sends
      <4>. QED  BY <3>2, <4>2, <4>3
    <3>. QED  BY <2>5, <3>3, <3>4
  <2>. QED  BY <2>6, <2>7, <2>8
<1>. QED  BY <1>6, <1>7

\* A wait that is not given up takes the answer to its own command, which the
\* component had completed if nobody else owed the completion.
LEMMA WaitAnswered ==
    ASSUME IInv, WaitEvent, NEW c0, c0 = [cmd |-> Step.cmd, arg |-> Step.arg]
    PROVE  /\ script # <<>> /\ Step = script[1] /\ Step.do \in {"wait", "need"}
           /\ c0 \in Commands /\ UNCHANGED <<cmds, enabled, handle>>
           /\ owed \subseteq owed' /\ owed' \subseteq owed \cup {c0}
           /\ \A c \in Commands : Answered(c)' => Answered(c)
           /\ c0 \in Punctual /\ c0 \notin owed' =>
                 /\ Answered(c0) /\ ~Unfinished(c0) /\ ~Answered(c0)'
                 /\ script' = Tail(script)
<1>. USE DEF IInv
<1> DEFINE i == FirstAwaited(Step.cmd, Step.arg)
<1>1. /\ script # <<>> /\ Step.do \in {"wait", "need"}
      /\ events' = RemoveAt(events, i)
      /\ Return(events[i].type = "complete" \/ events[i] = Error("sameState"))
      /\ IF events[i].type = "error" THEN GiveUp ELSE UNCHANGED owed
      /\ UNCHANGED <<cmds, enabled, handle>>
  BY DEF WaitEvent, At, Step, flagVars, deviceVars
<1>2. i \in 1 .. Len(events) /\ Concerns(events[i], Step.cmd, Step.arg)
  BY FirstAwaitedProperties DEF WaitEvent
<1>. HIDE DEF i
<1>3. Step = script[1] /\ Step \in Steps
  BY <1>1, HeadStep
<1>4. c0 \in Commands /\ c0.cmd = Step.cmd /\ c0.arg = Step.arg
  BY <1>1, <1>3, StepFields
<1>5. owed' = owed \/ owed' = owed \cup {c0}
  BY <1>1 DEF GiveUp
<1>6. \A c \in Commands : Answered(c)' =>
          Answered(c) /\ Complete(c.cmd, c.arg) # events[i]
  BY <1>1, <1>2, EventTaken DEF TypeOK
<1>7. ASSUME c0 \in Punctual, c0 \notin owed'
      PROVE  /\ Answered(c0) /\ ~Unfinished(c0) /\ ~Answered(c0)'
             /\ script' = Tail(script)
  <2>1. events[i].type # "error"
    BY <1>1, <1>7 DEF GiveUp
  <2>2. events[i] = Complete(c0.cmd, c0.arg)
    BY <1>2, <1>4, <2>1 DEF Concerns
  <2>3. Answered(c0)
    BY <1>2, <2>2 DEF Answered
  <2>4. ~Unfinished(c0)
    BY <1>7, <2>3 DEF OpenInv, OpenOnce
  <2>5. script' = Tail(script)
    <3>1. events[i].type = "complete"
      BY <2>2 DEF Complete
    <3>. QED  BY <1>1, <3>1 DEF Return, Advance
  <2>. QED  BY <1>4, <1>6, <2>2, <2>3, <2>4, <2>5
<1>. QED  BY <1>1, <1>3, <1>4, <1>5, <1>6, <1>7

\* After a wait its command is done, or owed.
LEMMA WaitCloses ==
    ASSUME IInv, WaitEvent \/ WaitOver
    PROVE  OpenOnce' /\ OpenAwaited' /\ EnableLasts' /\ owed \subseteq owed'
<1>. USE DEF IInv
<1>1. PICK c0 : c0 = [cmd |-> Step.cmd, arg |-> Step.arg]
  OBVIOUS
<1>2. /\ script # <<>> /\ Step = script[1] /\ Step.do \in {"wait", "need"}
      /\ c0 \in Commands /\ UNCHANGED <<cmds, enabled, handle>>
      /\ owed \subseteq owed'
      /\ \A c \in Commands : Answered(c)' => Answered(c)
      /\ c0 \in Punctual' => ~Unfinished(c0) /\ ~Answered(c0)'
  <2>1. CASE WaitEvent
    BY <1>1, <2>1, WaitAnswered DEF Punctual
  <2>2. CASE WaitOver
    <3>1. /\ script # <<>> /\ Step.do \in {"wait", "need"}
          /\ owed' = owed \cup {c0} /\ UNCHANGED <<cmds, enabled, handle, events>>
      BY <1>1, <2>2 DEF WaitOver, GiveUp, At, Step, flagVars, deviceVars
    <3>2. Step = script[1] /\ c0 \in Commands
      BY <1>1, <3>1, HeadStep, StepFields
    <3>. QED  BY <3>1, <3>2 DEF Answered, Punctual
  <2>. QED  BY <2>1, <2>2
<1>3. OpenOnce /\ OpenAwaited /\ EnableLasts
  BY DEF OpenInv
<1>4. \A c : Unfinished(c)' = Unfinished(c) /\ UnfinishedOnce(c)' = UnfinishedOnce(c)
  BY <1>2 DEF Unfinished, UnfinishedOnce
<1>5. \A c \in Punctual' : c \in Punctual /\ (Open(c)' => Open(c) /\ c # c0)
  BY <1>2, <1>4 DEF Open, Punctual
<1>6. OpenOnce'
  BY <1>2, <1>3, <1>4, <1>5 DEF OpenOnce, Punctual
<1>7. OpenAwaited'
  <2>. SUFFICES ASSUME NEW c \in Punctual', Open(c)', c.cmd # "enable" PROVE FALSE
    BY DEF OpenAwaited
  <2>1. Expected(c) /\ c # c0 /\ c \in Commands
    BY <1>3, <1>5 DEF OpenAwaited, Punctual
  <2>2. Awaits(Step, c.cmd, c.arg)
    BY <1>2, <2>1 DEF Expected
  <2>3. c = [cmd |-> c.cmd, arg |-> c.arg]
    BY <2>1, CommandOfEvent
  <2>. QED  BY <1>1, <2>1, <2>2, <2>3 DEF Awaits
<1>8. EnableLasts'
  <2>1. \A p \in Ports : EnableOf(p) \in Commands /\ EnableOf(p)' = EnableOf(p)
    BY DEF EnableOf, Commands, PortCommands
  <2>2. ASSUME NEW p \in Ports, Open(EnableOf(p))' PROVE Open(EnableOf(p))
    <3>1. PICK c : c = EnableOf(p)
      OBVIOUS
    <3>2. c \in Commands /\ Open(c)'
      BY <2>1, <2>2, <3>1
    <3>3. Open(c)
      BY <1>2, <1>4, <3>2 DEF Open
    <3>. QED  BY <3>1, <3>3
  <2>3. Leaving => Leaving'
    <3>. SUFFICES ASSUME Leaving PROVE Leaving'
      OBVIOUS
    <3>1. script' = Tail(script) /\ Step.do = "wait"
      <4>1. Step.do # "need" /\ \E ok : Return(ok)
        BY <1>2, HeadStep DEF WaitEvent, WaitOver, Leaving, ScriptInv, Lasting
      <4>. QED  BY <1>2, <4>1 DEF Return, Advance
    <3>. QED  BY <1>2, <3>1, LeavingLasts
  <2>4. \A i \in 1 .. Len(script') : \E j \in 1 .. Len(script) : script'[i] = script[j]
    <3>1. Shortened
      BY ScriptMoves
    <3>. QED  BY <1>2, <3>1, HeadStep DEF Shortened
  <2>. QED  BY <1>2, <1>3, <2>2, <2>3, <2>4, EnableMoves
<1>. QED  BY <1>2, <1>6, <1>7, <1>8

LEMMA OpenStep == IInv /\ [Next]_vars => OpenInv'
<1>. SUFFICES ASSUME IInv, [Next]_vars PROVE OpenInv'
  OBVIOUS
<1>. USE DEF flagVars, bufferVars, deviceVars, lateVars
<1>a. TypeOK /\ ScriptInv /\ HandleInv /\ NoDuplicateEvents
  BY DEF IInv
<1>b. OpenOnce /\ OpenAwaited /\ EnableLasts /\ late \subseteq owed
  BY DEF IInv, OpenInv
<1>c. ASSUME UNCHANGED <<cmds, events, owed>>
      PROVE  OpenOnce' /\ \A c : Open(c)' = Open(c)
  BY <1>b, <1>c DEF OpenOnce, Open, Unfinished, UnfinishedOnce, Answered, Punctual
<1>d. ASSUME script = <<>> \/ Step.do \notin {"wait", "need", "release"},
             NEW c \in Punctual, Open(c)
      PROVE  c.cmd = "enable"
  BY <1>d, <1>a, NoneExpected DEF IInv
<1>e. ASSUME UNCHANGED lateVars
      PROVE  /\ Punctual' = Punctual /\ owed \subseteq owed' /\ (late \subseteq owed)'
             /\ OpenOnce' /\ OpenAwaited' /\ EnableLasts' => OpenInv'
  BY <1>b, <1>e DEF Punctual, OpenInv
<1>1. CASE Initialize
  <2>1. events' = <<>> /\ cmds' = <<>> /\ owed' = late'
    BY <1>1 DEF Initialize, ClearEvents
  <2>2. \A c : ~Unfinished(c)' /\ ~Answered(c)' /\ UnfinishedOnce(c)'
    BY <2>1 DEF Unfinished, Answered, UnfinishedOnce
  <2>. QED  BY <2>1, <2>2 DEF OpenInv, OpenOnce, OpenAwaited, EnableLasts, Open
<1>2. CASE Begun
  <2>1. /\ script = <<>> /\ UNCHANGED <<cmds, events, enabled, handle, lateVars>>
        /\ \A i \in 1 .. Len(script') : ~Sends(script'[i], "disable")
    BY <1>2 DEF Begun
  <2>2. ~Leaving
    BY <1>a, <2>1, LeavingMoves
  <2>3. OpenOnce' /\ \A c : Open(c)' = Open(c)
    BY <1>c, <2>1
  <2>4. OpenAwaited'
    BY <1>d, <1>e, <2>1, <2>3 DEF OpenAwaited
  <2>5. EnableLasts'
    BY <1>b, <1>e, <2>1, <2>2, <2>3 DEF EnableLasts
  <2>. QED  BY <1>e, <2>1, <2>3, <2>4, <2>5
<1>3. CASE Deinitialize
  <2>1. script = <<>> /\ UNCHANGED <<cmds, events, enabled, handle, lateVars>>
    BY <1>3 DEF Deinitialize, Call, Idle
  <2>2. Leaving'
    <3>1. PICK s : s = << Do("flush", In), Do("flush", Out), Do("free", Out),
                          Do("free", In), Do("toIdle", Out), Do("toLoaded", Out),
                          Do("freeHandle", Out) >>
      OBVIOUS
    <3>2. script' = s
      BY <1>3, <3>1 DEF Deinitialize, Call
    <3>3. /\ \A i \in 1 .. Len(s) : s[i].do \in Shutdown
          /\ \A p \in Ports : \E i \in 1 .. Len(s) : s[i].do = "flush" /\ s[i].arg = p
      BY <3>1, DeinitializeScript
    <3>. QED  BY <3>2, <3>3 DEF Leaving, Ports
  <2>3. OpenOnce' /\ \A c : Open(c)' = Open(c)
    BY <1>c, <2>1
  <2>4. OpenAwaited'
    BY <1>d, <1>e, <2>1, <2>3 DEF OpenAwaited
  <2>. QED  BY <1>e, <2>1, <2>2, <2>3, <2>4 DEF EnableLasts
<1>4. ASSUME UNCHANGED <<cmds, events, enabled, handle, script, lateVars>>
      PROVE  OpenInv'
  <2>1. OpenOnce' /\ \A c : Open(c)' = Open(c)
    BY <1>c, <1>4
  <2>2. \A c : Expected(c)' = Expected(c)
    BY <1>4 DEF Expected
  <2>3. OpenAwaited'
    BY <1>b, <1>e, <1>4, <2>1, <2>2 DEF OpenAwaited
  <2>4. EnableLasts'
    BY <1>b, <1>e, <1>4, <2>1 DEF EnableLasts, Leaving
  <2>. QED  BY <1>e, <1>4, <2>1, <2>3, <2>4
<1>5. CASE \/ \E p \in Ports : GetBuffer(p) \/ \E b \in held[p] : SubmitBuffer(p, b)
           \/ \E p \in Ports : \E b \in device[p] : DeviceReturns(p, b)
           \/ BufferDoneEnter \/ BufferDonePush \/ ResourceError \/ UNCHANGED vars
  <2>1. UNCHANGED <<cmds, events, enabled, handle, script, lateVars>>
    BY <1>5 DEF GetBuffer, SubmitBuffer, DeviceReturns, BufferDoneEnter, BufferDonePush,
       ResourceError, vars
  <2>. QED  BY <1>4, <2>1
<1>6. CASE SendStep
  <2>1. UNCHANGED lateVars
    BY <1>6 DEF SendStep
  <2>. QED  BY <1>e, <1>6, <2>1, SendOpens
<1>7. CASE WaitEvent \/ WaitOver
  <2>1. UNCHANGED late
    BY <1>7 DEF WaitEvent, WaitOver
  <2>. QED  BY <1>b, <1>7, <2>1, WaitCloses DEF OpenInv
<1>9. CASE AllocStep \/ ReadyStep \/ CheckStep
  <2>1. /\ UNCHANGED <<cmds, events, enabled, handle, lateVars>> /\ script # <<>>
        /\ Step.do \in {"alloc", "ready", "check"}
        /\ Step.do = "check" => UNCHANGED script \/ script' = Tail(script)
    <3>1. CASE AllocStep
      BY <3>1 DEF AllocStep, At, Step
    <3>2. CASE ReadyStep
      BY <3>2 DEF ReadyStep, At, Step
    <3>3. CASE CheckStep
      BY <3>3 DEF CheckStep, Advance, At, Step
    <3>. QED  BY <1>9, <3>1, <3>2, <3>3
  <2>2. Shortened \/ UNCHANGED script
    BY <1>9, <1>a, ScriptMoves
  <2>3. CASE UNCHANGED script
    BY <1>4, <2>1, <2>3
  <2>4. CASE Shortened /\ ~UNCHANGED script
    <3>1. OpenOnce' /\ \A c : Open(c)' = Open(c)
      BY <1>c, <2>1
    <3>2. OpenAwaited'
      BY <1>d, <1>e, <2>1, <3>1 DEF OpenAwaited
    <3>3. Leaving => Leaving'
      <4>1. ASSUME Leaving PROVE Step.do = "check"
        BY <1>a, <2>1, <4>1, HeadStep DEF Leaving, ScriptInv, Lasting
      <4>. QED  BY <1>a, <2>1, <2>4, <4>1, LeavingLasts
    <3>4. \A i \in 1 .. Len(script') : \E j \in 1 .. Len(script) : script'[i] = script[j]
      BY <2>1, <2>4, HeadStep, <1>a DEF Shortened
    <3>5. EnableLasts'
      BY <1>a, <1>b, <1>e, <2>1, <3>1, <3>3, <3>4, EnableMoves
    <3>. QED  BY <1>e, <2>1, <3>1, <3>2, <3>5
  <2>. QED  BY <2>2, <2>3, <2>4
<1>10. CASE ExpandStep
  <2>1. /\ UNCHANGED <<cmds, events, enabled, handle, lateVars>> /\ script # <<>>
        /\ Step.do \notin {"wait", "need", "release"}
    BY <1>10 DEF ExpandStep, At, Step
  <2>2. Leaving'
    BY <1>10, <1>a, ScriptMoves DEF Leaving
  <2>3. OpenOnce' /\ \A c : Open(c)' = Open(c)
    BY <1>c, <2>1
  <2>4. OpenAwaited'
    BY <1>d, <1>e, <2>1, <2>3 DEF OpenAwaited
  <2>. QED  BY <1>e, <2>1, <2>2, <2>3, <2>4 DEF EnableLasts
<1>11. CASE ReleaseStep
  <2>1. /\ UNCHANGED <<cmds, events, enabled, handle, lateVars>> /\ script # <<>>
        /\ Step.do = "release" /\ script' = Tail(script)
    BY <1>11 DEF ReleaseStep, At, Step, Advance
  <2>2. /\ Step = script[1] /\ Len(script) \in Nat \ {0}
        /\ Len(script') = Len(script) - 1
        /\ \A i \in 1 .. Len(script') : script'[i] = script[i + 1]
                                        /\ i + 1 \in 1 .. Len(script)
    BY <1>a, <2>1, HeadStep
  <2>3. OpenOnce' /\ \A c : Open(c)' = Open(c)
    BY <1>c, <2>1
  <2>4. OpenAwaited'
    <3>. SUFFICES ASSUME NEW c \in Punctual, Open(c), c.cmd # "enable"
                  PROVE  Expected(c)'
      BY <1>e, <2>1, <2>3 DEF OpenAwaited
    <3>1. PICK k \in 1 .. Len(script) : Awaits(script[k], c.cmd, c.arg) /\ (k # 1 => k = 2)
      BY <1>b, <2>1 DEF OpenAwaited, Expected
    <3>2. k = 2
      BY <2>1, <2>2, <3>1 DEF Awaits
    <3>3. 1 \in 1 .. Len(script') /\ Awaits(script'[1], c.cmd, c.arg)
      BY <2>2, <3>1, <3>2
    <3>. QED  BY <3>3 DEF Expected
  <2>5. Leaving => Leaving'
    BY <1>a, <2>1, LeavingLasts
  <2>6. EnableLasts'
    BY <1>a, <1>b, <1>e, <2>1, <2>2, <2>3, <2>5, EnableMoves
  <2>. QED  BY <1>e, <2>1, <2>3, <2>4, <2>6
<1>12. CASE FreeHandleStep
  <2>1. /\ ~handle' /\ cmds' = <<>> /\ UNCHANGED <<events, lateVars>>
        /\ script # <<>> /\ Step.do = "freeHandle"
    BY <1>12 DEF FreeHandleStep, At, Step
  <2>2. \A c : ~Unfinished(c)' /\ Answered(c)' = Answered(c) /\ UnfinishedOnce(c)'
    BY <2>1 DEF Unfinished, Answered, UnfinishedOnce
  <2>3. OpenOnce'
    BY <2>2 DEF OpenOnce
  <2>4. OpenAwaited'
    BY <1>d, <1>e, <2>1, <2>2 DEF OpenAwaited, Open
  <2>. QED  BY <1>e, <2>1, <2>3, <2>4 DEF EnableLasts
<1>13. ASSUME UNCHANGED <<enabled, handle, script, owed>>, (late \subseteq owed)', OpenOnce',
              \A c \in Punctual : Open(c)' => Open(c)
       PROVE  OpenInv'
  <2>1. Punctual' = Punctual
    BY <1>13 DEF Punctual
  <2>2. \A c : Expected(c)' = Expected(c)
    BY <1>13 DEF Expected
  <2>3. OpenAwaited'
    BY <1>b, <1>13, <2>1, <2>2 DEF OpenAwaited
  <2>4. EnableLasts'
    <3>1. \A p \in Ports : EnableOf(p) \in Punctual /\ Open(EnableOf(p))' => Open(EnableOf(p))
      <4>. SUFFICES ASSUME NEW p \in Ports, EnableOf(p) \in Punctual, Open(EnableOf(p))'
                    PROVE  Open(EnableOf(p))
        OBVIOUS
      <4>1. PICK c : c = EnableOf(p)
        OBVIOUS
      <4>2. c \in Punctual /\ Open(c)'
        BY <4>1
      <4>. QED  BY <1>13, <4>1, <4>2
    <3>2. \A p \in Ports : EnableOf(p)' = EnableOf(p)
      BY DEF EnableOf
    <3>. QED  BY <1>b, <1>13, <2>1, <3>1, <3>2 DEF EnableLasts, Leaving
  <2>. QED  BY <1>13, <2>3, <2>4 DEF OpenInv
<1>14. ASSUME UNCHANGED <<cmds, enabled, handle, script, owed>>, late' \subseteq late,
              \A c \in Punctual : Answered(c)' => Answered(c)
       PROVE  OpenInv'
  <2>1. \A c : Unfinished(c)' = Unfinished(c) /\ UnfinishedOnce(c)' = UnfinishedOnce(c)
    BY <1>14 DEF Unfinished, UnfinishedOnce
  <2>2. OpenOnce' /\ (late \subseteq owed)'
    BY <1>b, <1>14, <2>1 DEF OpenOnce, Punctual
  <2>3. \A c \in Punctual : Open(c)' => Open(c)
    BY <1>14, <2>1 DEF Open
  <2>. QED  BY <1>13, <1>14, <2>2, <2>3
<1>15. CASE DeviceCompletes
  <2>1. UNCHANGED <<enabled, handle, script, lateVars>>
    BY <1>15 DEF DeviceCompletes
  <2>2. PICK i \in 1 .. Len(cmds) :
          /\ cmds' = RemoveAt(cmds, i)
          /\ \/ AddEvent(Error("other")) \/ AddEvent(Complete(cmds[i].cmd, cmds[i].arg))
    BY <1>15 DEF DeviceCompletes
  <2>3. PICK c0 \in Commands : c0 = cmds[i]
    BY <1>a DEF TypeOK
  <2>4. /\ Complete(c0.cmd, c0.arg) \in Events /\ Error("other") \in Events
        /\ "other" \in AllErrors
    BY <2>3 DEF Commands, Complete, Error, Events, AllErrors
  <2>5. \A c \in Punctual : /\ Unfinished(c)' => Unfinished(c) /\ c # c0
                            /\ UnfinishedOnce(c)'
    BY <1>a, <1>b, <2>2, <2>3, CommandCompleted DEF OpenOnce, TypeOK
  <2>6. \A c \in Commands : Answered(c)' => Answered(c) \/ c = c0
    <3>. TAKE c \in Commands
    <3>. HAVE Answered(c)'
    <3>1. Answered(c) \/ Complete(c.cmd, c.arg) \in {Error("other"), Complete(c0.cmd, c0.arg)}
      BY <1>a, <2>2, <2>3, <2>4, EventQueued DEF TypeOK
    <3>. QED  BY <2>4, <3>1, CommandOfEvent
  <2>7. Unfinished(c0)
    BY <2>2, <2>3 DEF Unfinished
  <2>8. OpenOnce'
    BY <1>b, <1>e, <2>1, <2>5, <2>6 DEF OpenOnce, Punctual
  <2>9. \A c \in Punctual : Open(c)' => Open(c)
    BY <2>5, <2>6, <2>7 DEF Open, Punctual
  <2>. QED  BY <1>e, <1>13, <2>1, <2>8, <2>9
<1>16. ASSUME NEW e \in Errors, DeviceError(e) PROVE OpenInv'
  <2>1. UNCHANGED <<cmds, enabled, handle, script, lateVars>> /\ AddEvent(Error(e))
    BY <1>16 DEF DeviceError
  <2>2. e \in AllErrors /\ Error(e) \in Events
    BY ComponentAssumption DEF Error, Events
  <2>3. \A c \in Punctual : Answered(c)' => Answered(c)
    <3>. TAKE c \in Punctual
    <3>. HAVE Answered(c)'
    <3>1. Answered(c) \/ Complete(c.cmd, c.arg) = Error(e)
      BY <1>a, <2>1, <2>2, EventQueued DEF TypeOK
    <3>. QED  BY <2>2, <3>1, CommandOfEvent DEF Punctual
  <2>. QED  BY <1>e, <2>1, <2>3, <1>14
<1>17. ASSUME NEW c0 \in late, LateCompletion(c0) PROVE OpenInv'
  <2>1. UNCHANGED <<cmds, enabled, handle, script, owed>> /\ AddEvent(Complete(c0.cmd, c0.arg))
        /\ late' \subseteq late
    BY <1>17 DEF LateCompletion
  <2>2. c0 \in Commands /\ c0 \notin Punctual
    BY <1>a, <1>b DEF TypeOK, Punctual
  <2>3. Complete(c0.cmd, c0.arg) \in Events
    BY <2>2 DEF Commands, Complete, Events
  <2>4. \A c \in Punctual : Answered(c)' => Answered(c)
    <3>. TAKE c \in Punctual
    <3>. HAVE Answered(c)'
    <3>1. Answered(c) \/ Complete(c.cmd, c.arg) = Complete(c0.cmd, c0.arg)
      BY <1>a, <2>1, <2>3, EventQueued DEF TypeOK
    <3>. QED  BY <2>2, <3>1, CommandOfEvent DEF Punctual
  <2>. QED  BY <1>b, <2>1, <2>4, <1>14
<1>. QED
  BY <1>1, <1>2, <1>3, <1>5, <1>6, <1>7, <1>9, <1>10, <1>11, <1>12, <1>15, <1>16, <1>17,
     <1>a, CallBegins
  DEF Next, ClientCall, ClientStep, DeviceStep

-----------------------------------------------------------------------------
(***************************************************************************)
(* The flushes of the shutdown.                                            *)
(***************************************************************************)

LEMMA Headless ==
    ASSUME TypeOK, ScriptInv, script # <<>>, script' = Tail(script), NEW p,
           FlushDue(p), ~Flushes(Step, p), Answered(FlushOf(p))' => Answered(FlushOf(p))
    PROVE  FlushDue(p)'
<1>1. PICK i \in 1 .. Len(script) :
         /\ Flushes(script[i], p)
         /\ script[i].do \in {"wait", "need"} => ~Answered(FlushOf(p))
  BY DEF FlushDue
<1>2. /\ Step = script[1] /\ Len(script) \in Nat \ {0}
      /\ Len(script') = Len(script) - 1
      /\ \A k \in 1 .. Len(script') : script'[k] = script[k + 1]
  BY HeadStep
<1>3. i - 1 \in 1 .. Len(script') /\ script'[i - 1] = script[i]
  BY <1>1, <1>2
<1>. QED  BY <1>1, <1>3 DEF FlushDue

\* Each step of a shutdown leaves due what was due, or waits for its end.
LEMMA SendDue ==
    ASSUME IInv, SendStep, Leaving, NEW p \in Ports, FlushOf(p) \in Punctual, FlushDue(p)
    PROVE  FlushDue(p)'
<1>. USE DEF IInv
<1>1. /\ script # <<>> /\ Step.do = "send" /\ UNCHANGED events
      /\ Step = script[1] /\ Len(script) \in Nat \ {0} /\ 1 \in 1 .. Len(script)
      /\ Step \in Steps /\ Step.fail \in OnFailure
      /\ Tail(script) \in Seq(Steps) /\ Len(Tail(script)) = Len(script) - 1
      /\ \A k \in 1 .. Len(Tail(script)) : Tail(script)[k] = script[k + 1]
  <2>1. script # <<>> /\ Step.do = "send" /\ UNCHANGED events
    BY DEF SendStep, At, Step
  <2>. QED  BY <2>1, HeadStep, StepFields
<1>2. \A c : Answered(c)' = Answered(c)
  BY <1>1 DEF Answered
<1>3. Step.fail # "return" /\ (Step.cmd = "flush" => Step.fail = "go on")
  BY <1>1 DEF Leaving, ScriptInv, Lasting
<1>4. CASE script' = Tail(script) /\ Flushes(Step, p)
  <2>1. Step.cmd = "flush" /\ Step.arg = p
    BY <1>1, <1>4 DEF Flushes, Sends, Awaits
  <2>2. ~Answered(FlushOf(p))
    <3>1. FlushOf(p).cmd = "flush"
      BY DEF FlushOf
    <3>. QED  BY <1>1, <3>1, NoneExpected DEF Open
  <2>3. \E k \in 2 .. Len(script) : Awaits(script[k], "flush", p)
    BY <1>1, <2>1 DEF ScriptInv, Paired
  <2>4. PICK k \in 1 .. Len(script') : Awaits(script'[k], "flush", p)
    <3>1. PICK k \in 2 .. Len(script) : Awaits(script[k], "flush", p)
      BY <2>3
    <3>2. k - 1 \in 1 .. Len(script') /\ script'[k - 1] = script[k]
      BY <1>1, <1>4
    <3>. QED  BY <3>1, <3>2
  <2>. QED  BY <1>2, <2>2, <2>4 DEF FlushDue, Flushes
<1>5. CASE script' = Tail(script) /\ ~Flushes(Step, p)
  <2>1. Answered(FlushOf(p))' => Answered(FlushOf(p))
    BY <1>1 DEF Answered, FlushOf
  <2>. QED  BY <1>1, <1>5, <2>1, Headless
<1>6. CASE script' # Tail(script)
  <2>1. Step.fail = "skip" /\ script' = Tail(Tail(script))
    <3>1. Advance \/ (/\ script' = CASE Step.fail = "go on" -> Tail(script)
                                     [] Step.fail = "skip"  -> Tail(Tail(script))
                                     [] OTHER -> <<>>)
      BY DEF SendStep
    <3>2. Step.fail # "go on"
      BY <1>6, <3>1 DEF Advance
    <3>3. Step.fail = "skip"
      BY <1>1, <1>3, <3>2 DEF OnFailure
    <3>. QED  BY <1>6, <3>1, <3>3 DEF Advance
  <2>2. Step.cmd # "flush"
    BY <1>3, <2>1
  <2>3. /\ 1 < Len(script)
        /\ Awaits(script[2], Step.cmd, Step.arg) \/ script[2].do = "release"
    BY <1>1, <2>1 DEF ScriptInv, Paired
  <2>4. ~Flushes(script[1], p) /\ ~Flushes(script[2], p)
    BY <1>1, <2>2, <2>3 DEF Flushes, Sends, Awaits
  <2>5. PICK i \in 1 .. Len(script) :
           /\ Flushes(script[i], p)
           /\ script[i].do \in {"wait", "need"} => ~Answered(FlushOf(p))
    BY DEF FlushDue
  <2>6. i > 2
    BY <2>4, <2>5
  <2>7. i - 2 \in 1 .. Len(script') /\ script'[i - 2] = script[i]
    <3>1. PICK t : t = Tail(script)
      OBVIOUS
    <3>1a. /\ t \in Seq(Steps) /\ Len(t) = Len(script) - 1 /\ Len(t) # 0
           /\ \A k \in 1 .. Len(t) : t[k] = script[k + 1]
      BY <1>1, <2>3, <3>1
    <3>2. /\ t \in Seq(Steps) /\ Len(t) = Len(script) - 1 /\ t # <<>>
          /\ \A k \in 1 .. Len(t) : t[k] = script[k + 1]
      BY <3>1a
    <3>3. /\ Len(Tail(t)) = Len(t) - 1
          /\ \A k \in 1 .. Len(Tail(t)) : Tail(t)[k] = t[k + 1]
      BY <3>2, TailOf
    <3>4. i - 2 \in 1 .. Len(Tail(t)) /\ i - 1 \in 1 .. Len(t)
      BY <1>1, <2>6, <3>2, <3>3
    <3>. QED  BY <2>1, <3>1, <3>2, <3>3, <3>4, SMTT(30)
  <2>8. Answered(FlushOf(p))' => Answered(FlushOf(p))
    BY <1>1 DEF Answered, FlushOf
  <2>. QED  BY <2>5, <2>7, <2>8 DEF FlushDue
<1>. QED  BY <1>4, <1>5, <1>6

LEMMA ExpandDue ==
    ASSUME IInv, ExpandStep, ~resErr, NEW p \in Ports, FlushDue(p)
    PROVE  FlushDue(p)'
<1>. USE DEF IInv
<1>1. /\ script # <<>> /\ Step.do \in {"flush", "free", "toIdle", "toLoaded"}
      /\ script' = Expanded(Step) \o Tail(script) /\ UNCHANGED events
  BY DEF ExpandStep, At, Step, Expanded
<1>2. /\ Step = script[1] /\ Len(script) \in Nat \ {0} /\ Step \in Steps
      /\ Tail(script) \in Seq(Steps) /\ Len(Tail(script)) = Len(script) - 1
      /\ \A k \in 1 .. Len(Tail(script)) : Tail(script)[k] = script[k + 1]
  BY <1>1, HeadStep
<1>3. Answered(FlushOf(p))' => Answered(FlushOf(p))
  BY <1>1 DEF Answered, FlushOf
<1>4. PICK i \in 1 .. Len(script) :
         /\ Flushes(script[i], p)
         /\ script[i].do \in {"wait", "need"} => ~Answered(FlushOf(p))
  BY DEF FlushDue
<1>5. PICK e : e = Expanded(Step)
  OBVIOUS
<1>6. PICK t : t = Tail(script)
  OBVIOUS
<1>7. e \in Seq(Steps)
  BY <1>1, <1>2, <1>5, ExpandedScript
<1>8. /\ Len(script') = Len(e) + Len(t) /\ Len(e) \in Nat /\ Len(t) \in Nat
      /\ \A k \in 1 .. Len(e) : script'[k] = e[k]
      /\ \A k \in 1 .. Len(t) : script'[Len(e) + k] = t[k]
  BY <1>1, <1>2, <1>5, <1>6, <1>7, Joined
<1>9. CASE i = 1
  <2>1. Step.do = "flush" /\ Step.arg = p
    BY <1>1, <1>2, <1>4, <1>9 DEF Flushes, Sends, Awaits
  <2>2. e = FlushSteps(p)
    BY <1>5, <2>1 DEF Expanded
  <2>3. 1 \in 1 .. Len(e) /\ e[1] = Send("flush", p, "go on")
    BY <2>2, FlushScript
  <2>4. 1 \in 1 .. Len(script') /\ script'[1] = e[1]
    <3>1. 1 \in 1 .. Len(e)
      BY <2>3
    <3>2. script'[1] = e[1]
      BY <1>8, <3>1
    <3>. QED  BY <1>8, <3>1, <3>2
  <2>5. e[1].do = "send" /\ e[1].cmd = "flush" /\ e[1].arg = p
    <3>1. PICK x : x = Send("flush", p, "go on")
      OBVIOUS
    <3>2. x.do = "send" /\ x.cmd = "flush" /\ x.arg = p
      BY <3>1 DEF Send
    <3>. QED  BY <2>3, <3>1, <3>2
  <2>. QED  BY <2>4, <2>5 DEF FlushDue, Flushes, Sends
<1>10. CASE i # 1
  <2>1. i - 1 \in 1 .. Len(t) /\ t[i - 1] = script[i]
    BY <1>2, <1>6, <1>10
  <2>2. Len(e) + (i - 1) \in 1 .. Len(script') /\ script'[Len(e) + (i - 1)] = script[i]
    BY <1>8, <2>1
  <2>. QED  BY <1>3, <1>4, <2>2 DEF FlushDue
<1>. QED  BY <1>9, <1>10

LEMMA FlushStep == IInv /\ [Next]_vars => FlushInv'
<1>. SUFFICES ASSUME IInv, [Next]_vars, Leaving', ~resErr',
                     NEW p \in Ports, FlushOf(p) \notin owed', ~FlushDue(p)'
              PROVE  (device[p])' = {} /\ InCallback(p)' = {}
  <2>1. \A p \in Ports : FlushOf(p)' = FlushOf(p)
    BY DEF FlushOf
  <2>. QED  BY <2>1 DEF FlushInv, Punctual
<1>. USE DEF flagVars, bufferVars, deviceVars, lateVars
<1>a. TypeOK /\ ScriptInv /\ HandleInv /\ NoDuplicateEvents
  BY DEF IInv
<1>b. FlushOf(p) \in Commands
  BY DEF FlushOf, Commands, PortCommands
<1>c. ASSUME Leaving, ~resErr, owed \subseteq owed', ~FlushDue(p)
      PROVE  device[p] = {} /\ InCallback(p) = {}
  BY <1>b, <1>c DEF IInv, FlushInv, Punctual
<1>1. ASSUME UNCHANGED <<device, cb>>, Leaving, ~resErr, owed \subseteq owed', ~FlushDue(p)
      PROVE  (device[p])' = {} /\ InCallback(p)' = {}
  BY <1>c, <1>1 DEF InCallback
<1>2. CASE Initialize
  <2>1. script' = DisableAllPorts \/ (script' = script /\ script = <<>>)
    BY <1>2 DEF Initialize, Idle
  <2>. QED  BY <1>a, <2>1, LeavingMoves, DisableAllPortsScript
<1>3. CASE Begun
  BY <1>3, <1>a, LeavingMoves DEF Begun
<1>4. CASE Deinitialize
  <2>1. PICK s : s = << Do("flush", In), Do("flush", Out), Do("free", Out),
                        Do("free", In), Do("toIdle", Out), Do("toLoaded", Out),
                        Do("freeHandle", Out) >>
    OBVIOUS
  <2>2. PICK i \in 1 .. Len(s) : s[i].do = "flush" /\ s[i].arg = p
    BY <2>1, DeinitializeScript
  <2>3. script' = s
    BY <1>4, <2>1 DEF Deinitialize, Call
  <2>. QED  BY <2>2, <2>3 DEF FlushDue, Flushes
<1>5. ASSUME NEW q \in Ports, GetBuffer(q) \/ \E b \in held[q] : SubmitBuffer(q, b)
      PROVE  FALSE
  BY <1>5, <1>a, LeavingMoves DEF GetBuffer, SubmitBuffer, Idle
<1>6. CASE SendStep
  <2>1. UNCHANGED <<device, cb, resErr, owed>>
    BY <1>6 DEF SendStep
  <2>2. Leaving
    BY <1>6, <1>a, StepMoves
  <2>3. ~FlushDue(p)
    BY <1>6, <1>b, <2>1, <2>2, SendDue DEF Punctual
  <2>. QED  BY <1>1, <2>1, <2>2, <2>3
<1>7. CASE WaitEvent \/ WaitOver
  <2>1. PICK c0 : c0 = [cmd |-> Step.cmd, arg |-> Step.arg]
    OBVIOUS
  <2>2. /\ UNCHANGED <<device, cb, resErr>> /\ script # <<>> /\ Step = script[1]
        /\ Step.do \in {"wait", "need"} /\ owed \subseteq owed'
        /\ \A c \in Commands : Answered(c)' => Answered(c)
        /\ c0 \in Punctual /\ c0 \notin owed' => Answered(c0) /\ ~Answered(c0)'
    <3>1. CASE WaitEvent
      <4>1. UNCHANGED <<device, cb, resErr>>
        BY <3>1 DEF WaitEvent
      <4>. QED  BY <2>1, <3>1, <4>1, WaitAnswered
    <3>2. CASE WaitOver
      <4>1. /\ UNCHANGED <<device, cb, resErr, events>> /\ script # <<>>
            /\ Step.do \in {"wait", "need"} /\ owed' = owed \cup {c0}
        BY <2>1, <3>2 DEF WaitOver, GiveUp, At, Step
      <4>. QED  BY <1>a, <4>1, HeadStep DEF Answered
    <3>. QED  BY <1>7, <3>1, <3>2
  <2>3. Leaving
    BY <1>7, <1>a, StepMoves
  <2>4. script' = Tail(script)
    <3>1. Step.do # "need" /\ \E ok : Return(ok)
      BY <1>7, <1>a, <2>2, <2>3, HeadStep
      DEF WaitEvent, WaitOver, Leaving, ScriptInv, Lasting
    <3>. QED  BY <2>2, <3>1 DEF Return, Advance
  <2>5. Answered(FlushOf(p))' => Answered(FlushOf(p))
    <3>1. PICK c : c = FlushOf(p)
      OBVIOUS
    <3>. QED  BY <1>b, <2>2, <3>1
  <2>6. ASSUME FlushDue(p) PROVE FALSE
    <3>1. CASE ~Flushes(Step, p)
      BY <1>a, <2>2, <2>4, <2>5, <2>6, <3>1, Headless
    <3>2. CASE Flushes(Step, p)
      <4>1. c0 = FlushOf(p)
        BY <2>1, <2>2, <3>2 DEF Flushes, Sends, Awaits, FlushOf
      <4>2. Answered(FlushOf(p))
        BY <1>b, <2>2, <4>1 DEF Punctual
      <4>3. PICK i \in 1 .. Len(script) :
               /\ Flushes(script[i], p)
               /\ script[i].do \in {"wait", "need"} => ~Answered(FlushOf(p))
        BY <2>6 DEF FlushDue
      <4>4. i # 1
        BY <2>2, <4>2, <4>3
      <4>5. /\ Len(script') = Len(script) - 1 /\ Len(script) \in Nat \ {0}
            /\ \A k \in 1 .. Len(script') : script'[k] = script[k + 1]
        BY <1>a, <2>2, <2>4, HeadStep
      <4>6. i - 1 \in 1 .. Len(script') /\ script'[i - 1] = script[i]
        BY <4>4, <4>5
      <4>. QED  BY <2>5, <4>3, <4>6 DEF FlushDue
    <3>. QED  BY <3>1, <3>2
  <2>. QED  BY <1>1, <2>2, <2>3, <2>6
<1>9. CASE AllocStep \/ ReadyStep
  <2>1. script # <<>> /\ Step.do \in {"alloc", "ready"}
    BY <1>9 DEF AllocStep, ReadyStep, At, Step
  <2>2. Leaving
    BY <1>9, <1>a, StepMoves
  <2>. QED  BY <1>a, <2>1, <2>2, HeadStep DEF Leaving, ScriptInv, Lasting
<1>10. CASE ExpandStep
  <2>1. UNCHANGED <<device, cb, resErr, owed>>
    BY <1>10 DEF ExpandStep
  <2>2. Leaving
    BY <1>10, <1>a, StepMoves
  <2>3. ~FlushDue(p)
    BY <1>10, <2>1, ExpandDue
  <2>. QED  BY <1>1, <2>1, <2>2, <2>3
<1>11. CASE ReleaseStep \/ CheckStep
  <2>1. /\ UNCHANGED <<device, cb, resErr, owed, events>> /\ script # <<>>
        /\ Step.do \in {"release", "check"}
        /\ UNCHANGED script \/ script' = Tail(script)
    <3>1. CASE ReleaseStep
      BY <3>1 DEF ReleaseStep, At, Step, Advance
    <3>2. CASE CheckStep
      BY <3>2 DEF CheckStep, At, Step, Advance
    <3>. QED  BY <1>11, <3>1, <3>2
  <2>2. Leaving
    BY <1>11, <1>a, StepMoves
  <2>3. Answered(FlushOf(p))' => Answered(FlushOf(p))
    BY <2>1 DEF Answered, FlushOf
  <2>4. ~FlushDue(p)
    <3>1. CASE UNCHANGED script
      BY <2>3, <3>1 DEF FlushDue
    <3>2. CASE script' = Tail(script)
      <4>1. ~Flushes(Step, p)
        BY <2>1 DEF Flushes, Sends, Awaits
      <4>. QED  BY <1>a, <2>1, <2>3, <3>2, <4>1, Headless
    <3>. QED  BY <2>1, <3>1, <3>2
  <2>. QED  BY <1>1, <2>1, <2>2, <2>4
<1>12. CASE FreeHandleStep
  <2>1. script # <<>> /\ Step.do = "freeHandle" /\ script' = Tail(script)
    BY <1>12 DEF FreeHandleStep, At, Step, Advance
  <2>2. /\ Step = script[1] /\ 1 \in 1 .. Len(script)
        /\ Len(script') = Len(script) - 1 /\ Len(script) \in Nat \ {0}
    BY <1>a, <2>1, HeadStep
  <2>3. Len(script) = 1
    BY <1>a, <2>1, <2>2 DEF ScriptInv, Lasting, Shutdown
  <2>. QED  BY <2>2, <2>3 DEF Leaving
<1>13. ASSUME UNCHANGED <<script, owed, resErr>>
       PROVE  Leaving /\ ~resErr /\ owed \subseteq owed'
  BY <1>13 DEF Leaving
<1>14. ASSUME UNCHANGED <<script, events>> PROVE ~FlushDue(p)
  BY <1>14 DEF FlushDue, Answered
<1>15. ASSUME NEW q \in Ports, NEW b \in device[q], DeviceReturns(q, b)
       PROVE  (device[p])' = {} /\ InCallback(p)' = {}
  <2>1. /\ UNCHANGED <<script, events, owed, resErr>>
        /\ device' = [device EXCEPT ![q] = @ \ {b}]
        /\ cb' = [at |-> "enter", port |-> q, buf |-> b]
    BY <1>15 DEF DeviceReturns
  <2>2. device[p] = {}
    BY <1>c, <1>13, <1>14, <2>1
  <2>3. p # q
    BY <2>2
  <2>4. (device[p])' = {}
    BY <1>a, <2>1, <2>2, <2>3 DEF TypeOK
  <2>5. InCallback(p)' = {}
    BY <2>1, <2>3 DEF InCallback
  <2>. QED  BY <2>4, <2>5
<1>16. CASE BufferDoneEnter \/ BufferDonePush
  <2>1. /\ UNCHANGED <<script, events, owed, resErr, device>>
        /\ cb.at \in {"enter", "push"}
        /\ cb' = CbIdle \/ cb' = [cb EXCEPT !.at = "push"]
    BY <1>16 DEF BufferDoneEnter, BufferDonePush
  <2>2. device[p] = {} /\ InCallback(p) = {}
    BY <1>c, <1>13, <1>14, <2>1
  <2>3. cb \in [at : {"enter", "push"}, port : Ports, buf : Buffers]
    BY <1>a, <2>1 DEF TypeOK, CbIdle
  <2>4. InCallback(p)' = {}
    BY <2>1, <2>2, <2>3 DEF InCallback, CbIdle
  <2>. QED  BY <2>1, <2>2, <2>4
<1>17. CASE DeviceCompletes
  <2>1. UNCHANGED <<script, owed, resErr, device, cb>> /\ cb = CbIdle
    BY <1>17 DEF DeviceCompletes, Running
  <2>2. InCallback(p)' = {}
    BY <2>1 DEF InCallback, CbIdle
  <2>3. PICK i \in 1 .. Len(cmds) :
          /\ CanComplete(i)
          /\ \/ AddEvent(Error("other")) \/ AddEvent(Complete(cmds[i].cmd, cmds[i].arg))
    BY <1>17 DEF DeviceCompletes
  <2>4. PICK c0 \in Commands : c0 = cmds[i]
    BY <1>a DEF TypeOK
  <2>5. PICK c : c = FlushOf(p)
    OBVIOUS
  <2>6. c \in Commands /\ c.cmd = "flush" /\ c.arg = p
    BY <2>5 DEF FlushOf, Commands, PortCommands
  <2>7. CASE c = c0
    <3>1. device[p] = {}
      BY <2>3, <2>4, <2>6, <2>7 DEF CanComplete
    <3>. QED  BY <2>1, <2>2, <3>1
  <2>8. CASE c # c0
    <3>1. /\ Complete(c0.cmd, c0.arg) \in Events /\ Error("other") \in Events
          /\ "other" \in AllErrors
      BY <2>4 DEF Commands, Complete, Error, Events, AllErrors
    <3>2. ASSUME Answered(c)' PROVE Answered(c)
      <4>1. Answered(c) \/ Complete(c.cmd, c.arg) \in {Error("other"), Complete(c0.cmd, c0.arg)}
        BY <1>a, <2>3, <2>4, <3>1, <3>2, EventQueued DEF TypeOK
      <4>. QED  BY <2>6, <2>8, <3>1, <4>1, CommandOfEvent
    <3>3. ~FlushDue(p)
      BY <2>1, <2>5, <3>2 DEF FlushDue
    <3>. QED  BY <1>1, <1>13, <2>1, <3>3
  <2>. QED  BY <2>7, <2>8
<1>18. ASSUME NEW e \in Errors, DeviceError(e)
       PROVE  (device[p])' = {} /\ InCallback(p)' = {}
  <2>1. /\ UNCHANGED <<script, owed, resErr, device>> /\ AddEvent(Error(e))
        /\ cb' = CbIdle \/ cb' = [at |-> "error"]
    BY <1>18 DEF DeviceError, Running
  <2>2. e \in AllErrors /\ Error(e) \in Events
    BY ComponentAssumption DEF Error, Events
  <2>3. PICK c : c = FlushOf(p)
    OBVIOUS
  <2>4. c \in Commands
    BY <2>3 DEF FlushOf, Commands, PortCommands
  <2>5. ASSUME Answered(c)' PROVE Answered(c)
    <3>1. Answered(c) \/ Complete(c.cmd, c.arg) = Error(e)
      BY <1>a, <2>1, <2>2, <2>5, EventQueued DEF TypeOK
    <3>. QED  BY <2>2, <2>4, <3>1, CommandOfEvent
  <2>6. ~FlushDue(p)
    BY <2>1, <2>3, <2>5 DEF FlushDue
  <2>7. device[p] = {}
    BY <1>c, <1>13, <2>1, <2>6
  <2>8. InCallback(p)' = {}
    BY <2>1 DEF InCallback, CbIdle
  <2>. QED  BY <2>1, <2>7, <2>8
<1>21. ASSUME NEW c0 \in late, LateCompletion(c0)
       PROVE  (device[p])' = {} /\ InCallback(p)' = {}
  <2>1. /\ UNCHANGED <<script, owed, resErr, device, cb>>
        /\ AddEvent(Complete(c0.cmd, c0.arg))
    BY <1>21 DEF LateCompletion
  <2>2. c0 \in Commands /\ c0 \in owed'
    BY <1>a, <2>1 DEF TypeOK, IInv, OpenInv
  <2>3. Complete(c0.cmd, c0.arg) \in Events
    BY <2>2 DEF Commands, Complete, Events
  <2>4. PICK c : c = FlushOf(p)
    OBVIOUS
  <2>5. ASSUME Answered(c)' PROVE Answered(c)
    <3>1. Answered(c) \/ Complete(c.cmd, c.arg) = Complete(c0.cmd, c0.arg)
      BY <1>a, <2>1, <2>3, <2>5, EventQueued DEF TypeOK
    <3>. QED  BY <1>b, <2>2, <2>4, <3>1, CommandOfEvent
  <2>6. ~FlushDue(p)
    BY <2>1, <2>4, <2>5 DEF FlushDue
  <2>. QED  BY <1>1, <1>13, <2>1, <2>6
<1>19. CASE ResourceError
  BY <1>19 DEF ResourceError
<1>20. CASE UNCHANGED vars
  <2>1. UNCHANGED <<script, events, owed, resErr, device, cb>>
    BY <1>20 DEF vars
  <2>. QED  BY <1>1, <1>13, <1>14, <2>1
<1>. QED
  BY <1>a, <1>2, <1>3, <1>4, <1>5, <1>6, <1>7, <1>9, <1>10, <1>11, <1>12, <1>15,
     <1>16, <1>17, <1>18, <1>19, <1>20, <1>21, CallBegins
  DEF Next, ClientCall, ClientStep, DeviceStep

-----------------------------------------------------------------------------
(***************************************************************************)
(* The pools of buffers.                                                   *)
(***************************************************************************)

Frees(x, p) == x.do \in {"free", "check"} /\ x.arg = p

\* Nobody has a buffer.
NoneOut == \A p \in Ports : Home(p) /\ InCallback(p) = {}

\* m_exit is set during Deinitialize and without a handle, and no buffer is
\* taken then.  Without a handle nobody has a buffer, and Deinitialize has not
\* come to the check of those that there still are.
PoolInv ==
    /\ exiting => \A p \in Ports : flushing[p]
    /\ handle => (exiting <=> Leaving)
    /\ ~handle => NoneOut
    /\ Leaving => \A p \in Ports :
          all[p] = {} \/ \E i \in 1 .. Len(script) : Frees(script[i], p)

\* A step of Deinitialize leaves the rest to be done.
LEMMA RestFollows ==
    ASSUME TypeOK, ScriptInv, Leaving, script # <<>>, Step.do # "freeHandle",
           \/ script' = Tail(script)
           \/ /\ Step.do = "send" /\ Step.fail = "skip"
              /\ script' = Tail(Tail(script))
    PROVE  /\ Leaving'
           /\ \A p \in Ports :
                 (\E i \in 1 .. Len(script) : Frees(script[i], p)) =>
                     \/ Frees(Step, p)
                     \/ \E i \in 1 .. Len(script') : Frees(script'[i], p)
<1>1. /\ Step = script[1] /\ Len(script) \in Nat \ {0} /\ 1 \in 1 .. Len(script)
      /\ Tail(script) \in Seq(Steps) /\ Len(Tail(script)) = Len(script) - 1
      /\ \A i \in 1 .. Len(Tail(script)) : Tail(script)[i] = script[i + 1]
  BY HeadStep
<1>2. script[Len(script)].do = "freeHandle"
  BY DEF Leaving, ScriptInv, Lasting
<1>3. CASE script' = Tail(script)
  <2>1. ASSUME NEW p \in Ports, NEW i \in 1 .. Len(script), Frees(script[i], p)
        PROVE  Frees(Step, p) \/ \E k \in 1 .. Len(script') : Frees(script'[k], p)
    <3>1. i = 1 \/ (i - 1 \in 1 .. Len(script') /\ script'[i - 1] = script[i])
      BY <1>1, <1>3
    <3>. QED  BY <1>1, <2>1, <3>1
  <2>. QED  BY <1>3, <2>1, LeavingLasts
<1>4. CASE /\ Step.do = "send" /\ Step.fail = "skip"
           /\ script' = Tail(Tail(script))
  <2>1. 1 < Len(script) /\ script[2].do \in {"wait", "need", "release"}
    <3>1. \/ 1 < Len(script) /\ Awaits(script[1 + 1], script[1].cmd, script[1].arg)
          \/ 1 + 1 < Len(script) /\ script[1 + 1].do = "release"
      BY <1>1, <1>4 DEF ScriptInv, Paired
    <3>. QED  BY <1>1, <3>1 DEF Awaits
  <2>2. PICK t : t = Tail(script)
    OBVIOUS
  <2>3. t \in Seq(Steps) /\ t # <<>>
    BY <1>1, <1>4, <2>2, HeadStep
  <2>4. /\ Len(script') = Len(t) - 1
        /\ \A i \in 1 .. Len(script') : script'[i] = t[i + 1]
    BY ONLY <1>4, <2>2, <2>3, TailOf
  <2>5. /\ Len(script') = Len(script) - 2
        /\ \A i \in 1 .. Len(script') : script'[i] = script[i + 2]
    BY <1>1, <2>1, <2>2, <2>4
  <2>6. ASSUME NEW i \in 1 .. Len(script), i # 1, i # 2
        PROVE  i - 2 \in 1 .. Len(script') /\ script'[i - 2] = script[i]
    BY <1>1, <2>5, <2>6
  <2>7. Leaving'
    <3>1. Len(script) # 1 /\ Len(script) # 2
      BY <1>2, <2>1
    <3>2. Len(script) \in 1 .. Len(script)
      BY <1>1
    <3>3. Len(script) - 2 \in 1 .. Len(script')
          /\ script'[Len(script) - 2] = script[Len(script)]
      BY <2>6, <3>1, <3>2
    <3>. QED  BY <1>2, <3>3 DEF Leaving, Shutdown
  <2>8. ASSUME NEW p \in Ports, NEW i \in 1 .. Len(script), Frees(script[i], p)
        PROVE  \E k \in 1 .. Len(script') : Frees(script'[k], p)
    <3>1. i # 1 /\ i # 2
      BY <1>1, <1>4, <2>1, <2>8 DEF Frees
    <3>. QED  BY <2>6, <2>8, <3>1
  <2>. QED  BY <2>7, <2>8
<1>. QED  BY <1>3, <1>4

\* No failure ends the call of Deinitialize.
LEMMA ShutdownGoesOn ==
    ASSUME TypeOK, ScriptInv, Leaving
    PROVE  /\ ~AllocStep /\ ~ReadyStep
           /\ SendStep \/ WaitEvent \/ WaitOver \/ ReleaseStep =>
                 /\ script # <<>> /\ Step.do \in {"send", "wait", "release"}
                 /\ \/ script' = Tail(script)
                    \/ /\ Step.do = "send" /\ Step.fail = "skip"
                       /\ script' = Tail(Tail(script))
<1>1. ASSUME script # <<>>
      PROVE  /\ Step.do \notin {"need", "alloc", "ready"}
             /\ Step.do = "send" => Step.fail \in {"go on", "skip"}
  <2>1. /\ Step = script[1] /\ 1 \in 1 .. Len(script)
        /\ Step.do = "send" => Step.fail \in OnFailure
    BY <1>1, HeadStep, StepFields
  <2>. QED  BY <2>1 DEF Leaving, ScriptInv, Lasting, OnFailure
<1>2. ~AllocStep /\ ~ReadyStep
  BY <1>1 DEF AllocStep, ReadyStep, At, Step
<1>3. ASSUME SendStep
      PROVE  /\ script # <<>> /\ Step.do = "send"
             /\ \/ script' = Tail(script)
                \/ Step.fail = "skip" /\ script' = Tail(Tail(script))
  <2>1. script # <<>> /\ Step.do = "send"
    BY <1>3 DEF SendStep, At, Step
  <2>2. CASE Advance
    BY <2>1, <2>2 DEF Advance
  <2>3. CASE script' = CASE Step.fail = "go on" -> Tail(script)
                         [] Step.fail = "skip"  -> Tail(Tail(script))
                         [] OTHER -> <<>>
    <3>1. CASE Step.fail = "go on"
      BY <2>1, <2>3, <3>1
    <3>2. CASE Step.fail = "skip"
      BY <2>1, <2>3, <3>2
    <3>. QED  BY <1>1, <2>1, <3>1, <3>2
  <2>. QED  BY <1>3, <2>2, <2>3 DEF SendStep
<1>4. ASSUME WaitEvent \/ WaitOver
      PROVE  script # <<>> /\ Step.do = "wait" /\ script' = Tail(script)
  <2>1. script # <<>> /\ Step.do \in {"wait", "need"} /\ \E ok : Return(ok)
    BY <1>4 DEF WaitEvent, WaitOver, At, Step
  <2>2. Step.do = "wait"
    BY <1>1, <2>1
  <2>. QED  BY <2>1, <2>2 DEF Return, Advance
<1>5. ASSUME ReleaseStep
      PROVE  script # <<>> /\ Step.do = "release" /\ script' = Tail(script)
  BY <1>5 DEF ReleaseStep, At, Step, Advance
<1>. QED  BY <1>2, <1>3, <1>4, <1>5

\* FreeInputBuffers and FreeOutputBuffers come to their assert.
LEMMA FreeChecks ==
    ASSUME NEW p \in Ports, all[p] # {}, NEW s, s = FreeBuffers(p)
    PROVE  \E i \in 1 .. Len(s) : Frees(s[i], p)
<1> DEFINE x == Send("disable", p, "go on")
           a == Do("release", p)
           b == Wait("disable", p)
           c == Do("check", p)
<1>1. s = (IF enabled[p] THEN <<x>> ELSE <<>>) \o <<a, b, c>>
  BY DEF FreeBuffers
<1>2. Frees(c, p)
  BY DEF Do, Frees
<1>. HIDE DEF x, a, b, c
<1>3. CASE s = <<x>> \o <<a, b, c>>
  <2>1. 4 \in 1 .. Len(s) /\ s[4] = c
    BY <1>3
  <2>. QED  BY <1>2, <2>1
<1>4. CASE s = <<>> \o <<a, b, c>>
  <2>1. 3 \in 1 .. Len(s) /\ s[3] = c
    BY <1>4
  <2>. QED  BY <1>2, <2>1
<1>. QED  BY <1>1, <1>3, <1>4

LEMMA ExpandFrees ==
    ASSUME TypeOK, ScriptInv, ExpandStep, NEW p \in Ports, all[p] # {},
           NEW i \in 1 .. Len(script), Frees(script[i], p)
    PROVE  \E k \in 1 .. Len(script') : Frees(script'[k], p)
<1>1. /\ script # <<>> /\ Step.do \in {"flush", "free", "toIdle", "toLoaded"}
      /\ script' = Expanded(Step) \o Tail(script)
  BY DEF ExpandStep, At, Step, Expanded
<1>2. /\ Step = script[1] /\ Len(script) \in Nat \ {0} /\ Step \in Steps
      /\ Tail(script) \in Seq(Steps) /\ Len(Tail(script)) = Len(script) - 1
      /\ \A k \in 1 .. Len(Tail(script)) : Tail(script)[k] = script[k + 1]
  BY <1>1, HeadStep
<1>3. PICK e : e = Expanded(Step)
  OBVIOUS
<1>4. PICK t : t = Tail(script)
  OBVIOUS
<1>5. e \in Seq(Steps)
  BY <1>1, <1>2, <1>3, ExpandedScript
<1>6. /\ Len(script') = Len(e) + Len(t) /\ Len(e) \in Nat /\ Len(t) \in Nat
      /\ \A k \in 1 .. Len(e) : script'[k] = e[k]
      /\ \A k \in 1 .. Len(t) : script'[Len(e) + k] = t[k]
  BY <1>1, <1>2, <1>3, <1>4, <1>5, Joined
<1>7. CASE i = 1
  <2>1. e = FreeBuffers(p)
    BY <1>1, <1>2, <1>3, <1>7 DEF Frees, Expanded
  <2>2. PICK k \in 1 .. Len(e) : Frees(e[k], p)
    BY <2>1, FreeChecks
  <2>3. k \in 1 .. Len(script') /\ script'[k] = e[k]
    BY <1>6
  <2>. QED  BY <2>2, <2>3
<1>8. CASE i # 1
  <2>1. i - 1 \in 1 .. Len(t) /\ t[i - 1] = script[i]
    BY <1>2, <1>4, <1>8
  <2>2. Len(e) + (i - 1) \in 1 .. Len(script')
        /\ script'[Len(e) + (i - 1)] = script[i]
    BY <1>6, <2>1
  <2>. QED  BY <2>2
<1>. QED  BY <1>7, <1>8

LEMMA PoolInvStep == IInv /\ PoolInv /\ [Next]_vars => PoolInv'
<1>. SUFFICES ASSUME IInv, PoolInv, [Next]_vars PROVE PoolInv'
  OBVIOUS
<1>. USE DEF flagVars, bufferVars, deviceVars, lateVars
<1>a. TypeOK /\ ScriptInv /\ HandleInv
  BY DEF IInv
<1>b. (script # <<>> => handle) /\ (Leaving => handle /\ exiting)
  BY <1>a, LeavingMoves DEF HandleInv, PoolInv
<1>1. ASSUME UNCHANGED <<handle, exiting, flushing, all, script>>, ~handle => NoneOut'
      PROVE  PoolInv'
  BY <1>1 DEF PoolInv, Leaving
<1>2. CASE Initialize
  <2>1. script = <<>> /\ NoneOut'
    <3>1. NoneOut /\ script = <<>>
      BY <1>2 DEF Initialize, Idle, SetUpFailed, PoolInv, NoneOut
    <3>. QED  BY <1>2, <3>1 DEF Initialize, NoneOut, Home, InCallback
  <2>2. CASE handle' /\ ~exiting' /\ script' = DisableAllPorts
    <3>1. ~Leaving'
      BY <1>a, <2>2, LeavingMoves, DisableAllPortsScript
    <3>. QED  BY <2>2, <3>1 DEF PoolInv
  <2>3. CASE /\ exiting' /\ flushing' = [p \in Ports |-> TRUE]
             /\ ~handle' /\ UNCHANGED script
    <3>1. ~Leaving'
      BY <1>a, <2>1, <2>3, LeavingMoves
    <3>. QED  BY <2>1, <2>3, <3>1 DEF PoolInv
  <2>. QED  BY <1>2, <2>2, <2>3 DEF Initialize
<1>3. CASE Begun
  <2>1. ~Leaving /\ ~Leaving'
    BY <1>3, <1>a, LeavingMoves DEF Begun
  <2>2. handle /\ UNCHANGED <<handle, exiting, flushing, all>>
    BY <1>3 DEF Begun
  <2>. QED  BY <2>1, <2>2 DEF PoolInv
<1>4. ASSUME NEW q \in Ports, GetBuffer(q) \/ \E b \in held[q] : SubmitBuffer(q, b)
      PROVE  PoolInv'
  BY <1>1, <1>4 DEF GetBuffer, SubmitBuffer
<1>5. CASE Deinitialize
  <2>1. PICK s : s = << Do("flush", In), Do("flush", Out), Do("free", Out),
                        Do("free", In), Do("toIdle", Out), Do("toLoaded", Out),
                        Do("freeHandle", Out) >>
    OBVIOUS
  <2>2. script' = s /\ handle' /\ exiting' /\ flushing' = [p \in Ports |-> TRUE]
    BY <1>5, <2>1 DEF Deinitialize, Call
  <2>3. Frees(Do("free", In), In) /\ Frees(Do("free", Out), Out)
    BY DEF Frees, Do
  <2>4. Len(s) = 7 /\ s[3] = Do("free", Out) /\ s[4] = Do("free", In)
    BY <2>1
  <2>5. 3 \in 1 .. Len(s) /\ 4 \in 1 .. Len(s)
    BY <2>4
  <2>6. \A p \in Ports : \E i \in 1 .. Len(s) : Frees(s[i], p)
    BY <2>3, <2>4, <2>5 DEF Ports
  <2>7. Leaving'
    BY <2>1, <2>2, <2>5, DeinitializeScript DEF Leaving
  <2>. QED  BY <2>2, <2>6, <2>7 DEF PoolInv
<1>6. CASE SendStep \/ WaitEvent \/ WaitOver \/ ReleaseStep
  <2>1. UNCHANGED <<handle, exiting, flushing, all>> /\ script # <<>>
    BY <1>6 DEF SendStep, WaitEvent, WaitOver, ReleaseStep, At
  <2>2. CASE Leaving
    <3>1. /\ Step.do \in {"send", "wait", "release"}
          /\ \/ script' = Tail(script)
             \/ /\ Step.do = "send" /\ Step.fail = "skip"
                /\ script' = Tail(Tail(script))
      BY <1>6, <1>a, <2>2, ShutdownGoesOn
    <3>2. \A p \in Ports : ~Frees(Step, p)
      BY <3>1 DEF Frees
    <3>3. /\ Leaving'
          /\ \A p \in Ports :
                (\E i \in 1 .. Len(script) : Frees(script[i], p)) =>
                    \E i \in 1 .. Len(script') : Frees(script'[i], p)
      BY <1>a, <2>1, <2>2, <3>1, <3>2, RestFollows
    <3>. QED  BY <1>b, <2>1, <2>2, <3>3 DEF PoolInv
  <2>3. CASE ~Leaving
    <3>1. ~Leaving'
      BY <1>6, <1>a, <2>3, StepMoves
    <3>. QED  BY <1>b, <2>1, <2>3, <3>1 DEF PoolInv
  <2>. QED  BY <2>2, <2>3
<1>7. CASE AllocStep \/ ReadyStep
  <2>1. ~Leaving /\ ~Leaving'
    BY <1>7, <1>a, ShutdownGoesOn, StepMoves
  <2>2. handle /\ UNCHANGED <<handle, exiting>>
    BY <1>7, <1>b DEF AllocStep, ReadyStep, At
  <2>. QED  BY <2>1, <2>2 DEF PoolInv
<1>8. CASE ExpandStep
  <2>1. UNCHANGED <<handle, exiting, flushing, all>>
    BY <1>8 DEF ExpandStep
  <2>2. Leaving /\ Leaving'
    <3>1. script # <<>> /\ Step.do \in Shutdown
      BY <1>8 DEF ExpandStep, At, Step, Shutdown
    <3>. QED  BY <1>8, <1>a, <3>1, LeavingMoves, ScriptMoves DEF Leaving
  <2>3. \A p \in Ports : all'[p] = {} \/ \E k \in 1 .. Len(script') : Frees(script'[k], p)
    BY <1>8, <1>a, <2>1, <2>2, ExpandFrees DEF PoolInv
  <2>. QED  BY <1>b, <2>1, <2>2, <2>3 DEF PoolInv
<1>9. CASE CheckStep
  <2>1. script # <<>> /\ Step.do = "check" /\ UNCHANGED <<handle, exiting, flushing>>
    BY <1>9 DEF CheckStep, At, Step
  <2>2. Leaving /\ Step \in Steps /\ Step.arg \in Ports
    BY <1>a, <2>1, LeavingMoves, HeadStep, StepFields DEF Shutdown
  <2>3. CASE UNCHANGED <<script, all>>
    BY <1>1, <1>b, <2>1, <2>3
  <2>4. CASE script' = Tail(script) /\ all' = [all EXCEPT ![Step.arg] = {}]
    <3>1. Leaving' /\ \A p \in Ports :
             (\E i \in 1 .. Len(script) : Frees(script[i], p)) =>
                 \/ Frees(Step, p)
                 \/ \E i \in 1 .. Len(script') : Frees(script'[i], p)
      BY <1>a, <2>1, <2>2, <2>4, RestFollows
    <3>2. \A p \in Ports : /\ all'[p] = {} \/ all'[p] = all[p]
                           /\ Frees(Step, p) => all'[p] = {}
      BY <1>a, <2>4 DEF Frees, TypeOK
    <3>3. \A p \in Ports : all'[p] = {} \/ \E i \in 1 .. Len(script') : Frees(script'[i], p)
      BY <2>2, <3>1, <3>2 DEF PoolInv
    <3>. QED  BY <1>b, <2>1, <2>2, <3>1, <3>3 DEF PoolInv
  <2>. QED  BY <1>9, <2>3, <2>4 DEF CheckStep, ClearLists, Advance
<1>10. CASE FreeHandleStep
  <2>1. script # <<>> /\ Step.do = "freeHandle" /\ script' = Tail(script)
        /\ ~handle' /\ UNCHANGED <<exiting, flushing, all>>
    BY <1>10 DEF FreeHandleStep, At, Step, Advance
  <2>2. 1 \in 1 .. Len(script) /\ Step = script[1] /\ Leaving
        /\ Tail(script) \in Seq(Steps) /\ Len(Tail(script)) = Len(script) - 1
    BY <1>a, <2>1, HeadStep, LeavingMoves DEF Shutdown
  <2>3. Len(script) = 1
    BY <1>a, <2>1, <2>2 DEF ScriptInv, Lasting, Shutdown
  <2>4. \A i \in 1 .. Len(script), p \in Ports : ~Frees(script[i], p)
    BY <2>1, <2>2, <2>3 DEF Frees
  <2>5. ~Leaving'
    BY <2>1, <2>2, <2>3 DEF Leaving
  <2>6. ASSUME NEW p \in Ports PROVE (Home(p) /\ InCallback(p) = {})'
    <3>1. all[p] = {}
      BY <2>2, <2>4 DEF PoolInv
    <3>2. Owned(all[p], avail[p], held[p], device[p], dropped[p], InCallback(p))
      BY Zenon DEF IInv, OwnerInv
    <3>3. Home(p)
      BY <3>1, <3>2 DEF Owned, Home
    <3>. QED  BY <1>10, <3>3 DEF FreeHandleStep, Home, InCallback, CbIdle
  <2>. QED  BY <2>1, <2>2, <2>4, <2>5, <2>6 DEF PoolInv, NoneOut
<1>11. CASE DeviceStep
  <2>1. UNCHANGED <<handle, exiting, flushing, all, script>>
    BY <1>11 DEF DeviceStep, DeviceReturns, BufferDoneEnter, BufferDonePush,
       DeviceCompletes, LateCompletion, DeviceError, ResourceError
  <2>2. ASSUME ~handle PROVE NoneOut'
    <3>1. NoneOut
      BY <2>2 DEF PoolInv
    <3>2. cb.at \notin {"enter", "push"}
      <4>1. ASSUME cb.at \in {"enter", "push"} PROVE FALSE
        <5>1. cb.port \in Ports
          BY <1>a, <4>1 DEF TypeOK, CbIdle
        <5>. QED  BY <3>1, <4>1, <5>1 DEF NoneOut, InCallback
      <4>. QED  BY <4>1
    <3>3. ResourceError \/ \E c \in late : LateCompletion(c)
      BY <1>11, <2>2, <3>2 DEF DeviceStep, Running, DeviceReturns, BufferDoneEnter,
         BufferDonePush, DeviceCompletes, DeviceError
    <3>4. UNCHANGED <<held, device, dropped>> /\ cb' \in {cb, CbIdle}
      BY <3>3 DEF ResourceError, LateCompletion
    <3>. QED  BY <3>1, <3>4 DEF NoneOut, Home, InCallback, CbIdle
  <2>. QED  BY <1>1, <2>1, <2>2
<1>12. CASE UNCHANGED vars
  <2>1. NoneOut => NoneOut'
    BY <1>12 DEF vars, NoneOut, Home, InCallback
  <2>. QED  BY <1>1, <1>12, <2>1 DEF vars, PoolInv
<1>. QED
  BY <1>2, <1>3, <1>4, <1>5, <1>6, <1>7, <1>8, <1>9, <1>10, <1>11, <1>12, <1>a, CallBegins
  DEF Next, ClientCall, ClientStep

\* What the component works on, callback included.
Working == [p \in Ports |-> device[p] \cup InCallback(p)]

\* A step of the wrapper is a step of the pools or leaves them alone.
LEMMA PoolStep ==
    ASSUME IInv, PoolInv, [Next]_vars
    PROVE  [Pool!Next]_(Pool!vars)
<1>. USE DEF flagVars, bufferVars, deviceVars, lateVars
<1>a. TypeOK /\ ScriptInv /\ HandleInv /\ OwnerInv
  BY DEF IInv
<1>b. /\ all \in [Ports -> SUBSET Buffers] /\ held \in [Ports -> SUBSET Buffers]
      /\ device \in [Ports -> SUBSET Buffers] /\ dropped \in [Ports -> SUBSET Buffers]
      /\ avail \in [Ports -> Seq(Buffers)]
      /\ cb \in {CbIdle, [at |-> "error"]}
                \cup [at : {"enter", "push"}, port : Ports, buf : Buffers]
  BY <1>a DEF TypeOK
<1>c. /\ script # <<>> => handle
      /\ Leaving => handle /\ exiting
      /\ handle /\ ~Leaving => ~exiting
  BY <1>a, LeavingMoves DEF HandleInv, PoolInv
<1>d. ASSUME UNCHANGED <<all, avail, held, dropped, exiting, Working>>
      PROVE  [Pool!Next]_(Pool!vars)
  BY <1>d DEF Pool!vars, Working
<1>e. UNCHANGED <<device, cb>> => UNCHANGED Working
  BY DEF Working, InCallback
<1>f. ASSUME NEW q \in Ports,
             Pool!Populate(q) \/ Pool!Take(q) \/ Pool!Empty(q)
                \/ (\E b \in held[q] : Pool!Submit(q, b))
                \/ (\E b \in Working[q] : Pool!Return(q, b))
      PROVE  Pool!Next
  BY <1>f DEF Pool!Next, Working
<1>1. CASE Initialize
  <2>1. UNCHANGED <<all, avail, held, dropped, device, cb>>
    BY <1>1 DEF Initialize
  <2>2. CASE exiting' = FALSE
    <3>1. NoneOut
      BY <1>1 DEF Initialize, SetUpFailed, PoolInv, NoneOut
    <3>2. Pool!Reopen
      BY <1>e, <2>1, <2>2, <3>1 DEF Pool!Reopen, Working, NoneOut, Home
    <3>. QED  BY <3>2 DEF Pool!Next
  <2>3. CASE exiting' = TRUE
    <3>1. Pool!Close
      BY <1>e, <2>1, <2>3 DEF Pool!Close, Working
    <3>. QED  BY <3>1 DEF Pool!Next
  <2>. QED  BY <1>1, <2>2, <2>3 DEF Initialize
<1>2. CASE Begun
  BY <1>2, <1>d, <1>e DEF Begun
<1>3. ASSUME NEW q \in Ports, GetBuffer(q) PROVE Pool!Take(q)
  <2>1. ~exiting
    BY <1>3 DEF GetBuffer, PoolInv
  <2>2. /\ avail[q] # <<>> /\ UNCHANGED <<all, dropped, exiting, device, cb>>
        /\ held' = [held EXCEPT ![q] = @ \cup {Head(avail[q])}]
        /\ avail' = [avail EXCEPT ![q] = Tail(@)]
    BY <1>3 DEF GetBuffer, PopAvailable
  <2>. QED  BY <1>e, <2>1, <2>2 DEF Pool!Take, Working
<1>4. ASSUME NEW q \in Ports, NEW b \in held[q], SubmitBuffer(q, b)
      PROVE  Pool!Submit(q, b)
  <2>1. /\ UNCHANGED <<all, dropped, exiting, cb>>
        /\ held' = [held EXCEPT ![q] = @ \ {b}]
    BY <1>4 DEF SubmitBuffer
  <2>2. CASE device' = [device EXCEPT ![q] = @ \cup {b}] /\ UNCHANGED avail
    <3>1. \A p \in Ports : /\ InCallback(p)' = InCallback(p)
                           /\ device'[p] = IF p = q THEN device[p] \cup {b} ELSE device[p]
      BY <1>b, <2>1, <2>2 DEF InCallback
    <3>2. Working' = [Working EXCEPT ![q] = @ \cup {b}]
      BY <3>1 DEF Working
    <3>. QED  BY <2>1, <2>2, <3>2 DEF Pool!Submit, Working
  <2>3. CASE avail' = [avail EXCEPT ![q] = Append(@, b)] /\ UNCHANGED device
    BY <1>e, <2>1, <2>3 DEF Pool!Submit, Pool!Free, Working
  <2>. QED  BY <1>4, <2>2, <2>3 DEF SubmitBuffer
<1>5. CASE Deinitialize
  <2>1. UNCHANGED <<all, avail, held, dropped, device, cb>> /\ exiting' = TRUE
    BY <1>5 DEF Deinitialize, Call
  <2>2. Pool!Close
    BY <1>e, <2>1 DEF Pool!Close, Working
  <2>. QED  BY <2>2 DEF Pool!Next
<1>6. CASE SendStep \/ WaitEvent \/ WaitOver \/ ReadyStep \/ ExpandStep \/ ReleaseStep
           \/ FreeHandleStep
  <2>1. UNCHANGED <<all, avail, held, dropped, exiting, device, cb>>
    BY <1>6 DEF SendStep, WaitEvent, WaitOver, ReadyStep, ExpandStep, ReleaseStep,
       FreeHandleStep
  <2>. QED  BY <1>d, <1>e, <2>1
<1>7. CASE AllocStep
  <2>1. Step.arg \in Ports /\ NoneAllocated(Step.arg) /\ ~exiting /\ handle
    <3>1. script # <<>> /\ Step.do = "alloc"
      BY <1>7 DEF AllocStep, At, Step
    <3>2. Step \in Steps /\ Step = script[1] /\ 1 \in 1 .. Len(script) /\ ~Leaving
      BY <1>7, <1>a, <3>1, HeadStep, ShutdownGoesOn
    <3>. QED  BY <1>a, <1>c, <3>1, <3>2, StepFields DEF ScriptInv, Fits
  <2>2. UNCHANGED <<held, dropped, exiting, device, cb>>
    BY <1>7 DEF AllocStep
  <2>3. PICK q \in Ports : q = Step.arg
    BY <2>1
  <2>4. PICK n \in 0 .. Count[q] :
          LET new == [i \in 1 .. n |-> <<generation, i>>]
          IN  /\ all' = [all EXCEPT ![q] = @ \cup Range(new)]
              /\ avail' = [avail EXCEPT ![q] = @ \o new]
    BY <1>7, <2>3 DEF AllocStep
  <2>5. n \in Nat /\ generation \in 1 .. MaxHandles
    BY <1>a, <2>1, <2>4, ComponentAssumption DEF HandleInv
  <2>6. PICK new : new = [i \in 1 .. n |-> <<generation, i>>]
    OBVIOUS
  <2>7. /\ new \in Seq(Buffers) /\ Len(new) = n /\ Distinct(new)
        /\ \A b \in Range(new) : b[1] = generation
    BY <2>5, <2>6, FreshBuffers
  <2>8. PICK old : old = avail[q]
    OBVIOUS
  <2>9. /\ all' = [all EXCEPT ![q] = @ \cup Range(new)]
        /\ avail' = [avail EXCEPT ![q] = @ \o new]
        /\ avail'[q] = old \o new /\ old \in Seq(Buffers)
    BY <1>b, <2>4, <2>6, <2>8
  <2>10. /\ Len(old \o new) = Len(old) + n
         /\ new = [i \in 1 .. n |-> (old \o new)[Len(old) + i]]
    <3>1. /\ Len(old \o new) = Len(old) + Len(new)
          /\ \A i \in 1 .. Len(new) : (old \o new)[Len(old) + i] = new[i]
      <4>1. PICK B : B = Buffers
        OBVIOUS
      <4>2. new \in Seq(B) /\ old \in Seq(B)
        BY ONLY <2>7, <2>9, <4>1
      <4>. QED  BY ONLY <4>2, Joined
    <3>2. new = [i \in 1 .. n |-> new[i]]
      BY <2>6
    <3>. QED  BY <2>7, <3>1, <3>2
  <2>11. Range(new) \cap all[q] = {}
    BY <2>1, <2>3, <2>7 DEF NoneAllocated
  <2>12. IsInjective(new)
    BY <2>7 DEF IsInjective, Distinct
  <2>13. Pool!Populate(q)
    <3>1. Pool!Range(new) = Range(new) /\ (Pool!IsInjective(new) <=> IsInjective(new))
      BY DEF Pool!Range, Range, Pool!IsInjective, IsInjective
    <3>2. UNCHANGED <<held, Working, dropped, exiting>>
      BY <1>e, <2>2
    <3>. DEFINE Added(m) == [i \in 1 .. m |-> avail'[q][Len(avail[q]) + i]]
    <3>3. Added(n) = new
      BY <2>8, <2>9, <2>10
    <3>4. Len(avail'[q]) = Len(avail[q]) + n
      BY <2>8, <2>9, <2>10
    <3>. HIDE DEF Added
    <3>5. /\ n \in 0 .. Count[q] /\ Len(avail'[q]) = Len(avail[q]) + n
          /\ Added(n) \in Seq(Buffers) /\ Pool!IsInjective(Added(n))
          /\ Pool!Range(Added(n)) \cap all[q] = {}
          /\ all' = [all EXCEPT ![q] = @ \cup Pool!Range(Added(n))]
          /\ avail' = [avail EXCEPT ![q] = @ \o Added(n)]
      BY <2>4, <2>7, <2>9, <2>11, <2>12, <3>1, <3>3, <3>4
    <3>. USE DEF Added
    <3>6. ~exiting
      BY <2>1
    <3>. QED  BY ONLY <3>2, <3>5, <3>6 DEF Pool!Populate, Working
  <2>. QED  BY <1>f, <2>13
<1>8. CASE CheckStep
  <2>1. /\ script # <<>> /\ Step.do = "check"
        /\ UNCHANGED <<held, dropped, exiting, device, cb>>
    BY <1>8 DEF CheckStep, At, Step
  <2>2. exiting /\ Step.arg \in Ports
    BY <1>a, <1>c, <2>1, LeavingMoves, HeadStep, StepFields DEF Shutdown
  <2>3. CASE UNCHANGED <<all, avail>>
    BY <1>d, <1>e, <2>1, <2>3
  <2>4. PICK q \in Ports : q = Step.arg
    BY <2>2
  <2>5. CASE /\ AllHome(q)
             /\ all' = [all EXCEPT ![q] = {}] /\ avail' = [avail EXCEPT ![q] = <<>>]
    <3>1. held[q] = {} /\ device[q] = {} /\ dropped[q] = {} /\ InCallback(q) = {}
      BY <1>a, <1>b, <2>5, OwnedCount DEF OwnerInv, AllHome
    <3>2. Working[q] = {}
      BY <3>1 DEF Working
    <3>3. Pool!Empty(q)
      BY <1>e, <2>1, <2>2, <2>5, <3>1, <3>2 DEF Pool!Empty, Working
    <3>. QED  BY <1>f, <3>3
  <2>. QED  BY <1>8, <2>3, <2>4, <2>5 DEF CheckStep, ClearLists
<1>9. ASSUME NEW q \in Ports, NEW b \in device[q], DeviceReturns(q, b)
      PROVE  [Pool!Next]_(Pool!vars)
  <2>1. /\ UNCHANGED <<all, avail, held, dropped, exiting>> /\ cb = CbIdle
        /\ device' = [device EXCEPT ![q] = @ \ {b}]
        /\ cb' = [at |-> "enter", port |-> q, buf |-> b]
    BY <1>9 DEF DeviceReturns, Running
  <2>2. \A p \in Ports : /\ InCallback(p) = {}
                         /\ InCallback(p)' = IF p = q THEN {b} ELSE {}
                         /\ device'[p] = IF p = q THEN device[p] \ {b} ELSE device[p]
    BY <1>b, <2>1 DEF InCallback, CbIdle
  <2>3. UNCHANGED Working
    BY <2>2 DEF Working
  <2>. QED  BY <1>d, <2>1, <2>3
<1>10. CASE BufferDoneEnter \/ BufferDonePush
  <2>1. cb \in [at : {"enter", "push"}, port : Ports, buf : Buffers]
    BY <1>10, <1>b DEF BufferDoneEnter, BufferDonePush, CbIdle
  <2>2. PICK q \in Ports, b \in Buffers : q = cb.port /\ b = cb.buf
    BY <2>1
  <2>3. \A p \in Ports : InCallback(p) = IF p = q THEN {b} ELSE {}
    BY <2>1, <2>2 DEF InCallback
  <2>4. UNCHANGED <<all, held, exiting, device>>
    BY <1>10 DEF BufferDoneEnter, BufferDonePush
  <2>5. CASE cb' = [cb EXCEPT !.at = "push"] /\ UNCHANGED <<avail, dropped>>
    <3>1. \A p \in Ports : InCallback(p)' = InCallback(p)
      BY <2>1, <2>5 DEF InCallback
    <3>2. UNCHANGED Working
      BY <2>4, <3>1 DEF Working
    <3>. QED  BY <1>d, <2>4, <2>5, <3>2
  <2>6. ASSUME cb' = CbIdle
        PROVE  b \in Working[q] /\ Working' = [Working EXCEPT ![q] = @ \ {b}]
    <3>1. \A p \in Ports : InCallback(p)' = {}
      BY <2>6 DEF InCallback, CbIdle
    <3>2. b \notin device[q]
      BY <1>a, <2>3 DEF OwnerInv, Owned
    <3>. QED  BY <2>3, <2>4, <3>1, <3>2 DEF Working
  <2>7. CASE /\ cb' = CbIdle /\ UNCHANGED avail /\ exiting
             /\ dropped' = [dropped EXCEPT ![q] = @ \cup {b}]
    <3>1. Pool!Return(q, b)
      BY <2>4, <2>6, <2>7 DEF Pool!Return, Working
    <3>. QED  BY <1>f, <2>6, <2>7, <3>1
  <2>8. CASE /\ cb' = CbIdle /\ UNCHANGED dropped
             /\ avail' = [avail EXCEPT ![q] = Append(@, b)]
    <3>1. Pool!Return(q, b)
      BY <2>4, <2>6, <2>8 DEF Pool!Return, Pool!Free, Working
    <3>. QED  BY <1>f, <2>6, <2>8, <3>1
  <2>. QED  BY <1>10, <2>2, <2>5, <2>7, <2>8 DEF BufferDoneEnter, BufferDonePush
<1>11. CASE DeviceCompletes \/ \E c \in late : LateCompletion(c)
  BY <1>11, <1>d, <1>e DEF DeviceCompletes, LateCompletion
<1>12. CASE ResourceError \/ \E x \in Errors : DeviceError(x)
  <2>1. /\ UNCHANGED <<all, avail, held, dropped, exiting, device>>
        /\ cb.at \notin {"enter", "push"} /\ cb'.at \notin {"enter", "push"}
    BY <1>12 DEF ResourceError, DeviceError, Running, CbIdle
  <2>2. UNCHANGED Working
    BY <2>1 DEF Working, InCallback
  <2>. QED  BY <1>d, <2>1, <2>2
<1>13. CASE UNCHANGED vars
  BY <1>13, <1>d, <1>e DEF vars
<1>14. ASSUME NEW q \in Ports, GetBuffer(q) \/ \E b \in held[q] : SubmitBuffer(q, b)
       PROVE  Pool!Next
  BY <1>14, <1>3, <1>4, <1>f
<1>. QED
  BY <1>1, <1>2, <1>5, <1>6, <1>7, <1>8, <1>9, <1>10, <1>11, <1>12, <1>13, <1>14, <1>a,
     CallBegins
  DEF Next, ClientCall, ClientStep, DeviceStep

-----------------------------------------------------------------------------
(***************************************************************************)
(* The theorems.                                                           *)
(***************************************************************************)

LEMMA Invariance == Spec => [](IInv /\ CleanShutdown)
<1>1. Init => IInv /\ CleanShutdown
  BY InitInv DEF Init, CleanShutdown
<1>2. IInv /\ CleanShutdown /\ [Next]_vars => (IInv /\ CleanShutdown)'
  BY TypeStep, ScriptStep, HandleStep, OwnerStep, HomeStep, EventsStep, OpenStep,
     FlushStep, CleanStep
  DEF IInv
<1>. QED  BY <1>1, <1>2, PTL DEF Spec

\* The lists hold buffers, the queues commands and events that the component
\* knows, and no script sends another.
THEOREM ComponentTypes == Spec => []TypeOK
<1>1. IInv => TypeOK
  BY DEF IInv
<1>. QED  BY <1>1, Invariance, PTL

\* Every buffer in the lists of a port has one owner, and every buffer that has
\* an owner is in the lists, for any number of buffers and of handles, also when
\* Initialize overwrote a handle.  So none is handed out twice.  That none is
\* freed under the component does not follow: see FreedBuffersAreBack.
THEOREM BuffersHaveOneOwner == Spec => []BufferOwnership
<1>1. ASSUME IInv PROVE BufferOwnership
  <2>. SUFFICES ASSUME NEW p \in Ports
       PROVE  /\ all[p] = Range(avail[p]) \cup held[p] \cup device[p]
                             \cup dropped[p] \cup InCallback(p)
              /\ Cardinality(all[p]) =
                    Len(avail[p]) + Cardinality(held[p]) + Cardinality(device[p])
                    + Cardinality(dropped[p]) + Cardinality(InCallback(p))
    BY DEF BufferOwnership
  <2>1. Owned(all[p], avail[p], held[p], device[p], dropped[p], InCallback(p))
        /\ avail[p] \in Seq(Buffers)
    BY <1>1 DEF IInv, OwnerInv, TypeOK
  <2>2. all[p] = Range(avail[p]) \cup held[p] \cup device[p]
                    \cup dropped[p] \cup InCallback(p)
    BY <2>1 DEF Owned
  <2>. QED  BY <2>1, <2>2, OwnedCount
<1>. QED  BY <1>1, Invariance, PTL

\* RemoveEvent before the push keeps m_omx_events free of duplicates.
THEOREM EventsAreDistinct == Spec => []NoDuplicateEvents
<1>1. IInv => NoDuplicateEvents
  BY DEF IInv
<1>. QED  BY <1>1, Invariance, PTL

\* The asserts of FreeInputBuffers and FreeOutputBuffers fail only when a buffer
\* was out as Deinitialize began, whatever fails afterwards.
THEOREM ShutdownIsClean == Spec => []CleanShutdown
BY Invariance, PTL

\* A wait that takes the completion of a command that is still unfinished took
\* one that was owed: an earlier wait for the same command with this handle was
\* given up, or Initialize overwrote a handle that owed it.
THEOREM WaitsAreAnswered == Spec => WaitMeansDone
<1>1. ASSUME IInv, [Next]_vars
      PROVE  [WaitEvent /\ UNCHANGED owed =>
                 LET c == [cmd |-> Step.cmd, arg |-> Step.arg]
                 IN  c \in Range(cmds) => c \in owed]_vars
  <2>1. PICK c0 : c0 = [cmd |-> Step.cmd, arg |-> Step.arg]
    OBVIOUS
  <2>2. ASSUME WaitEvent, UNCHANGED owed, c0 \in Range(cmds) PROVE c0 \in owed
    <3>1. Unfinished(c0)
      BY <1>1, <2>2 DEF IInv, TypeOK, Range, Unfinished
    <3>. QED  BY <1>1, <2>1, <2>2, <3>1, WaitAnswered DEF Punctual
  <2>. QED  BY <2>1, <2>2
<1>. QED  BY <1>1, Invariance, PTL DEF Spec, WaitMeansDone

\* Buffers of a port are freed under the component only when a wait for the flush
\* of that port was given up, its completion was owed by an overwritten handle,
\* or a resource error made Deinitialize skip the flushes.
THEOREM FreedBuffersAreBack == Spec => FreedIsBack
<1>1. ASSUME IInv, [Next]_vars
      PROVE  [ReleaseStep /\ ~resErr /\ FlushOf(Step.arg) \notin owed =>
                 device[Step.arg] = {} /\ InCallback(Step.arg) = {}]_vars
  <2>. SUFFICES ASSUME ReleaseStep, ~resErr, FlushOf(Step.arg) \notin owed
                PROVE  device[Step.arg] = {} /\ InCallback(Step.arg) = {}
    OBVIOUS
  <2>1. script # <<>> /\ Step.do = "release"
    BY DEF ReleaseStep, At, Step
  <2>2. /\ Step = script[1] /\ 1 \in 1 .. Len(script) /\ Step \in Steps
        /\ Leaving
    BY <1>1, <2>1, HeadStep, LeavingMoves DEF IInv, Shutdown
  <2>3. Step.arg \in Ports
    BY <2>1, <2>2, StepFields
  <2>4. FlushOf(Step.arg) \in Punctual
    BY <2>3 DEF Punctual, FlushOf, Commands, PortCommands
  <2>5. ~FlushDue(Step.arg)
    BY <1>1, <2>1, <2>2, <2>3 DEF IInv, ScriptInv, FlushFirst, FlushDue
  <2>. QED  BY <1>1, <2>2, <2>3, <2>4, <2>5 DEF IInv, FlushInv
<1>. QED  BY <1>1, Invariance, PTL DEF Spec, FreedIsBack

\* The lists of COMXCoreComponent are pools of buffers, for any number of
\* buffers, also those that it takes over from a handle that Initialize overwrote,
\* and whatever fails: first in, first out, each buffer with one user at a time,
\* none lost before Deinitialize, none handed out during it, and none forgotten
\* that has not come back.
THEOREM ComponentImplementsPool == Spec => ImplementsPool
<1>1. Init => IInv /\ PoolInv
  BY InitInv DEF Init, PoolInv, NoneOut, Home, InCallback, CbIdle, Leaving
<1>2. IInv /\ PoolInv /\ [Next]_vars => (IInv /\ PoolInv)'
  BY TypeStep, ScriptStep, HandleStep, OwnerStep, HomeStep, EventsStep, OpenStep,
     FlushStep, PoolInvStep
  DEF IInv
<1>3. Init => Pool!Init
  <2>1. \A p \in Ports : Init => device[p] \cup InCallback(p) = {}
    BY DEF Init, InCallback, CbIdle
  <2>. QED  BY <2>1 DEF Init, Pool!Init
<1>. QED  BY <1>1, <1>2, <1>3, PoolStep, PTL DEF Spec, ImplementsPool, Pool!Spec
=============================================================================
