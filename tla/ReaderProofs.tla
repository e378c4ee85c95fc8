------------------------------ MODULE ReaderProofs ------------------------------
(***************************************************************************)
(* Proofs about Reader, for any inputs, any size of the table of streams   *)
(* and any timeout: a packet is discarded only when time was up; each      *)
(* number of a type names one stream; what is allocated is freed once.     *)
(***************************************************************************)
EXTENDS Reader, FiniteSetTheorems, TLAPS

\* What the proofs use of the assumption on the inputs and the limits.
LEMMA Constants ==
    /\ MaxStreams \in Nat \ {0} /\ Timeout \in Nat /\ MaxOpens \in Nat
    /\ \A s \in Sources : /\ s.types \in Seq(Types \cup {"picture", "data"})
                          /\ s.programs \in Seq(Seq(Ids(s)))
                          /\ \A n \in DOMAIN s.programs : IsInjective(s.programs[n])
  BY ReaderAssumption DEF SourceSet

-----------------------------------------------------------------------------
(***************************************************************************)
(* The clock.                                                              *)
(***************************************************************************)

\* While Read waits nothing but the wait has taken time, and the time it has is
\* that of one call.
ClockInv ==
    /\ elapsed \in 0 .. LastTick /\ waited \in 0 .. elapsed
    /\ budget \in {0, Timeout, 3 * Timeout}
    /\ discarded \in Nat /\ discarded > Timeout
    /\ pc = "read" => waited = elapsed /\ budget = Timeout

LEMMA ClockStep == ClockInv /\ [Next]_vars => ClockInv'
<1> SUFFICES ASSUME ClockInv, [Next]_vars PROVE ClockInv'
  OBVIOUS
<1>0. Timeout \in Nat /\ LastTick = 3 * Timeout + 1 /\ 1 * Timeout = Timeout
  BY Constants DEF LastTick
<1>1. CASE Tick
  BY <1>0, <1>1 DEF Tick, ClockInv, Calls
<1>2. CASE FileAccess
  BY <1>0, <1>2 DEF FileAccess, ResetTimeout, ClockInv
<1>3. CASE ReadReturns
  <2>1. pc = "read" /\ pc' = "open" /\ UNCHANGED <<elapsed, budget, waited>>
    BY <1>3 DEF ReadReturns, clockVars
  <2>2. discarded' = IF TimedOut THEN waited ELSE discarded
    BY <1>3 DEF ReadReturns
  <2>3. TimedOut => waited > Timeout
    BY <1>0, <2>1 DEF ClockInv, TimedOut
  <2>. QED  BY <1>0, <2>1, <2>2, <2>3 DEF ClockInv
<1>4. CASE Open \/ Read \/ SeekTime
  BY <1>0, <1>4 DEF Open, Read, SeekTime, ResetTimeout, ClockInv
<1>5. CASE \/ OptionsFail \/ ParseDictionary \/ OpenFile \/ Close \/ SetActiveStream \/ SetSpeed
           \/ Probe \/ InputOpened \/ InputFails \/ InfoFails \/ InfoFound \/ ReadFails
           \/ SeekReturns \/ FileAnswers \/ UNCHANGED vars
  <2>1. /\ UNCHANGED <<elapsed, budget, waited, discarded>>
        /\ pc' = "read" => pc = "read"
    BY <1>5 DEF OptionsFail, ParseDictionary, OpenFile, Close, CloseReader, SetActiveStream,
                SetSpeed, Probe, InputOpened, InputFails, InfoFails, InfoFound, ReadFails,
                SeekReturns, FileAnswers, clockVars, vars
  <2>. QED  BY <2>1 DEF ClockInv
<1>. QED  BY <1>1, <1>2, <1>3, <1>4, <1>5 DEF Next, Returns

LEMMA ClockHolds == Spec => []ClockInv
<1>1. Init => ClockInv
  BY Constants DEF Init, ClockInv, LastTick
<1>. QED  BY <1>1, ClockStep, PTL DEF Spec

\* Read discards a packet for the time only when the access itself took longer than
\* the timeout, however long the client waited between its calls and whatever
\* dvd_file_read did to the clock.
THEOREM TimeIsGiven == Spec => []PromptIsKept
<1>1. ClockInv => PromptIsKept
  BY DEF ClockInv, PromptIsKept
<1>. QED  BY <1>1, ClockHolds, PTL

-----------------------------------------------------------------------------
(***************************************************************************)
(* The table of streams.  GetStreams is a loop, the recursive function of  *)
(* Table; the natural numbers are well-founded.                            *)
(***************************************************************************)

LEMMA NatSetInduction ==
    ASSUME NEW S, 0 \in S, \A n \in Nat : n \in S => n + 1 \in S
    PROVE  Nat \subseteq S
<1> DEFINE T == Nat \ S
<1> SUFFICES ASSUME T # {} PROVE FALSE
  OBVIOUS
<1>1. PICK x \in T : \A y \in T : ~ (<<y, x>> \in OpToRel(<, Nat))
  BY WFMin, NatLessThanWellFounded
<1>2. x \in Nat /\ x # 0
  OBVIOUS
<1>3. x - 1 \in T /\ x - 1 < x
  BY <1>2
<1>4. <<x - 1, x>> \in OpToRel(<, Nat)
  BY <1>2, <1>3 DEF OpToRel
<1>. QED  BY <1>1, <1>3, <1>4

LEMMA LeastOf ==
    ASSUME NEW T \in SUBSET Nat, T # {}
    PROVE  \E x \in T : \A y \in T : x <= y
<1>1. PICK x \in T : \A y \in T : ~ (<<y, x>> \in OpToRel(<, Nat))
  BY WFMin, NatLessThanWellFounded
<1>2. ASSUME NEW y \in T, y < x PROVE FALSE
  <2>1. <<y, x>> \in OpToRel(<, Nat)
    BY <1>2 DEF OpToRel
  <2>. QED  BY <1>1, <2>1
<1>. QED  BY <1>2

\* GetStreams never takes a stream twice.
LEMMA SelectedOnce ==
    ASSUME src \in Sources
    PROVE  /\ Selected \in Seq(Ids(src)) /\ IsInjective(Selected)
           /\ src.types \in Seq(Types \cup {"picture", "data"})
           /\ Len(src.types) \in Nat
<1> DEFINE used == {n \in DOMAIN src.programs : src.programs[n] # <<>>}
           first == CHOOSE n \in used : \A m \in used : n <= m
<1>1. /\ src.types \in Seq(Types \cup {"picture", "data"})
      /\ src.programs \in Seq(Seq(Ids(src)))
      /\ \A n \in DOMAIN src.programs : IsInjective(src.programs[n])
  BY Constants
<1>2. Len(src.types) \in Nat
  BY <1>1
<1>3. CASE used = {}
  <2>1. Selected = [i \in 1 .. Len(src.types) |-> i - 1]
    BY <1>3 DEF Selected
  <2>2. [i \in 1 .. Len(src.types) |-> i - 1] \in Seq(Ids(src))
    BY <1>2 DEF Ids
  <2>3. IsInjective([i \in 1 .. Len(src.types) |-> i - 1])
    BY <1>2 DEF IsInjective
  <2>. QED  BY <1>1, <1>2, <2>1, <2>2, <2>3
<1>4. CASE used # {}
  <2>1. DOMAIN src.programs \subseteq Nat
    BY <1>1
  <2>2. used \in SUBSET Nat
    BY <2>1
  <2>3. \E n \in used : \A m \in used : n <= m
    <3>. HIDE DEF used
    <3>. QED  BY <1>4, <2>2, LeastOf
  <2>4. first \in used
    <3>. HIDE DEF used
    <3>. QED  BY <2>3
  <2>5. Selected = src.programs[first]
    BY <1>4 DEF Selected
  <2>6. first \in DOMAIN src.programs
    BY <2>4
  <2>. HIDE DEF first
  <2>7. \A S : \A s \in Seq(S) : \A i \in DOMAIN s : s[i] \in S
    OBVIOUS
  <2>. QED  BY <1>1, <1>2, <2>5, <2>6, <2>7
<1>. QED  BY <1>3, <1>4

Places == 0 .. MaxStreams - 1
Streams == [type : Types \cup {"none"}, index : Nat, id : Places, extra : BOOLEAN]

TableTypes(tb) ==
    /\ tb = [streams |-> tb.streams, count |-> tb.count]
    /\ tb.streams \in [Places -> Streams] /\ tb.count \in [Types -> Nat]

\* A stream of a type stands in its place in the table, and is one of the file.
InPlace(tb) ==
    \A i \in Places : \A t \in Types : tb.streams[i].type = t =>
       /\ i \in Ids(src) /\ src.types[i + 1] = t
       /\ tb.streams[i].id = i /\ tb.streams[i].index < tb.count[t]

\* The streams of a type are numbered from 0 up to the count.
Complete(tb) ==
    \A t \in Types : \A n \in Nat : n < tb.count[t] =>
       \E i \in Places : tb.streams[i].type = t /\ tb.streams[i].index = n
Distinct(tb) ==
    \A i, j \in Places :
       /\ tb.streams[i].type = tb.streams[j].type /\ tb.streams[i].type \in Types
       /\ tb.streams[i].index = tb.streams[j].index
       => i = j

TableOk(tb) == TableTypes(tb) /\ InPlace(tb) /\ Complete(tb) /\ Distinct(tb)

\* AddStream gives a stream that is not in the table the next number of its type.
LEMMA AddStreamOk ==
    ASSUME src \in Sources, NEW tb, TableOk(tb), NEW id \in Ids(src),
           id \in Places => tb.streams[id].type = "none"
    PROVE  /\ TableOk(AddStream(tb, id))
           /\ \A i \in Places : i # id =>
                 AddStream(tb, id).streams[i] = tb.streams[i]
<1>. DEFINE new == AddStream(tb, id)
            t == src.types[id + 1]
            one == [type |-> t, index |-> tb.count[t], id |-> id, extra |-> id \in src.extra]
<1>0. MaxStreams \in Nat \ {0} /\ id \in Nat
  BY Constants, SelectedOnce DEF Ids
<1>1. CASE ~Wanted(id) \/ id = MaxStreams
  BY <1>1 DEF AddStream
<1>2. CASE Wanted(id) /\ id # MaxStreams
  <2>1. id \in Places /\ t \in Types
    BY <1>0, <1>2 DEF Wanted, Places
  <2>2. /\ tb.streams \in [Places -> Streams] /\ tb.count \in [Types -> Nat]
        /\ tb.count[t] \in Nat
    BY <2>1 DEF TableOk, TableTypes
  <2>3. new = [streams |-> [tb.streams EXCEPT ![id] = one],
               count |-> [tb.count EXCEPT ![t] = tb.count[t] + 1]]
    BY <1>2 DEF AddStream, Numbered
  <2>4. one \in Streams /\ one.type = t /\ one.index = tb.count[t] /\ one.id = id
    BY <2>1, <2>2 DEF Streams
  <2>5. t # "none" /\ tb.streams[id].type = "none" /\ src.types[id + 1] = t
    BY <2>1 DEF Types
  <2>. HIDE DEF one, new, t
  <2>6. /\ new.streams = [tb.streams EXCEPT ![id] = one]
        /\ new.count = [tb.count EXCEPT ![t] = tb.count[t] + 1]
        /\ new = [streams |-> new.streams, count |-> new.count]
    BY <2>3
  <2>7. /\ new.streams[id] = one
        /\ \A i \in Places : i # id => new.streams[i] = tb.streams[i]
    BY <2>1, <2>2, <2>6
  <2>8. /\ new.count[t] = tb.count[t] + 1
        /\ \A u \in Types : u # t => new.count[u] = tb.count[u]
    BY <2>1, <2>2, <2>6
  <2>9. TableTypes(new)
    BY <2>1, <2>2, <2>4, <2>6 DEF TableTypes
  <2>10. \A u \in Types : tb.count[u] \in Nat /\ tb.count[u] <= new.count[u]
    BY <2>2, <2>8
  <2>11. \A i \in Places : tb.streams[i].index \in Nat
    BY <2>2 DEF Streams
  <2>12. InPlace(new)
    <3>. SUFFICES ASSUME NEW i \in Places, NEW u \in Types, new.streams[i].type = u
                  PROVE  /\ i \in Ids(src) /\ src.types[i + 1] = u
                         /\ new.streams[i].id = i /\ new.streams[i].index < new.count[u]
      BY DEF InPlace
    <3>1. CASE i = id
      BY <2>2, <2>4, <2>5, <2>7, <2>8, <3>1
    <3>2. CASE i # id
      <4>1. new.streams[i] = tb.streams[i]
        BY <2>7, <3>2
      <4>2. /\ i \in Ids(src) /\ src.types[i + 1] = u
            /\ tb.streams[i].id = i /\ tb.streams[i].index < tb.count[u]
        BY <4>1 DEF TableOk, InPlace
      <4>3. new.streams[i].index < new.count[u]
        <5>1. new.count[u] = tb.count[u] \/ new.count[u] = tb.count[u] + 1
          BY <2>8
        <5>. QED  BY <2>10, <2>11, <4>1, <4>2, <5>1
      <4>. QED  BY <4>1, <4>2, <4>3
    <3>. QED  BY <3>1, <3>2
  <2>13. Complete(new)
    <3>. SUFFICES ASSUME NEW u \in Types, NEW n \in Nat, n < new.count[u]
                  PROVE  \E i \in Places : new.streams[i].type = u /\ new.streams[i].index = n
      BY DEF Complete
    <3>1. CASE u = t /\ n = tb.count[t]
      BY <2>1, <2>4, <2>7, <3>1
    <3>2. CASE ~(u = t /\ n = tb.count[t])
      <4>1. n < tb.count[u]
        BY <2>8, <2>10, <3>2
      <4>2. PICK i \in Places : tb.streams[i].type = u /\ tb.streams[i].index = n
        BY <4>1 DEF TableOk, Complete
      <4>3. i # id
        BY <2>5, <4>2 DEF Types
      <4>. QED  BY <2>7, <4>2, <4>3
    <3>. QED  BY <3>1, <3>2
  <2>14. Distinct(new)
    <3>. SUFFICES ASSUME NEW i \in Places, NEW j \in Places,
                         new.streams[i].type = new.streams[j].type,
                         new.streams[i].type \in Types,
                         new.streams[i].index = new.streams[j].index
                  PROVE  i = j
      BY DEF Distinct
    <3>1. \A k \in Places : k # id /\ tb.streams[k].type = t => tb.streams[k].index # tb.count[t]
      <4>1. \A k \in Places : tb.streams[k].type = t => tb.streams[k].index < tb.count[t]
        BY <2>1 DEF TableOk, InPlace
      <4>. QED  BY <4>1, <2>2, <2>11
    <3>2. CASE i = id /\ j # id
      BY <2>4, <2>7, <3>1, <3>2
    <3>3. CASE j = id /\ i # id
      BY <2>4, <2>7, <3>1, <3>3
    <3>4. CASE i # id /\ j # id
      <4>1. new.streams[i] = tb.streams[i] /\ new.streams[j] = tb.streams[j]
        BY <2>7, <3>4
      <4>. QED  BY <4>1 DEF TableOk, Distinct
    <3>. QED  BY <3>2, <3>3, <3>4
  <2>. QED  BY <2>7, <2>9, <2>12, <2>13, <2>14 DEF TableOk, new
<1>. QED  BY <1>1, <1>2

\* f holds the tables after the first streams of s, up to n of them.
IsAdded(f, s, n) ==
    /\ f = [i \in 0 .. n |-> f[i]]
    /\ f[0] = EmptyTable
    /\ \A i \in 1 .. n : f[i] = AddStream(f[i - 1], s[i])

LEMMA AddedExists ==
    ASSUME NEW s, NEW n \in Nat
    PROVE  \E f : IsAdded(f, s, n)
<1> DEFINE N == {m \in Nat : \E f : IsAdded(f, s, m)}
<1>1. 0 \in N
  <2>. DEFINE f == [i \in 0 .. 0 |-> EmptyTable]
  <2>1. IsAdded(f, s, 0)
    BY DEF IsAdded
  <2>. QED  BY <2>1
<1>2. ASSUME NEW m \in Nat, m \in N PROVE m + 1 \in N
  <2>1. PICK f : IsAdded(f, s, m)
    BY <1>2
  <2>. DEFINE last == AddStream(f[m], s[m + 1])
              g == [i \in 0 .. m + 1 |-> IF i = m + 1 THEN last ELSE f[i]]
  <2>2. g[m + 1] = last /\ \A i \in 0 .. m : g[i] = f[i]
    OBVIOUS
  <2>3. g = [i \in 0 .. m + 1 |-> g[i]]
    OBVIOUS
  <2>. HIDE DEF g
  <2>4. g[0] = EmptyTable
    BY <2>1, <2>2 DEF IsAdded
  <2>5. ASSUME NEW i \in 1 .. m + 1 PROVE g[i] = AddStream(g[i - 1], s[i])
    <3>1. CASE i = m + 1
      <4>1. i - 1 = m /\ g[m] = f[m]
        BY <3>1, <2>2
      <4>. QED  BY <3>1, <4>1, <2>2
    <3>2. CASE i # m + 1
      <4>1. i \in 1 .. m /\ i - 1 \in 0 .. m /\ i \in 0 .. m
        BY <3>2
      <4>2. g[i] = f[i] /\ g[i - 1] = f[i - 1]
        BY <4>1, <2>2
      <4>. QED  BY <4>1, <4>2, <2>1 DEF IsAdded
    <3>. QED  BY <3>1, <3>2
  <2>6. IsAdded(g, s, m + 1)
    BY <2>3, <2>4, <2>5 DEF IsAdded
  <2>. QED  BY <2>6
<1>. HIDE DEF N
<1>3. n \in N
  BY <1>1, <1>2, NatSetInduction
<1>. QED  BY <1>3 DEF N

\* Table is the last of them.
LEMMA TableIsAdded ==
    ASSUME src \in Sources
    PROVE  \E f : IsAdded(f, Selected, Len(Selected)) /\ Table = f[Len(Selected)]
<1> DEFINE n == Len(Selected)
           body(f) == [i \in 0 .. n |->
                          IF i = 0 THEN EmptyTable ELSE AddStream(f[i - 1], Selected[i])]
           added == CHOOSE f : f = body(f)
<1>0. n \in Nat
  BY SelectedOnce
<1>1. \A f : f = body(f) <=> IsAdded(f, Selected, n)
  <2>. SUFFICES ASSUME NEW f PROVE f = body(f) <=> IsAdded(f, Selected, n)
    OBVIOUS
  <2>1. ASSUME f = body(f) PROVE IsAdded(f, Selected, n)
    <3>1. \A i \in 0 .. n : f[i] = IF i = 0 THEN EmptyTable ELSE AddStream(f[i - 1], Selected[i])
      BY <2>1
    <3>2. f = [i \in 0 .. n |-> f[i]]
      BY <2>1
    <3>3. 0 \in 0 .. n /\ \A i \in 1 .. n : i \in 0 .. n /\ i # 0
      BY <1>0
    <3>. QED  BY <3>1, <3>2, <3>3 DEF IsAdded
  <2>2. ASSUME IsAdded(f, Selected, n) PROVE f = body(f)
    <3>1. /\ f = [i \in 0 .. n |-> f[i]] /\ f[0] = EmptyTable
          /\ \A i \in 1 .. n : f[i] = AddStream(f[i - 1], Selected[i])
      BY ONLY <2>2 DEF IsAdded
    <3>2. ASSUME NEW i \in 0 .. n
          PROVE  f[i] = IF i = 0 THEN EmptyTable ELSE AddStream(f[i - 1], Selected[i])
      <4>1. i = 0 \/ i \in 1 .. n
        BY <1>0
      <4>. QED  BY ONLY <4>1, <3>1
    <3>. QED  BY ONLY <3>1, <3>2
  <2>. QED  BY <2>1, <2>2
<1>2. \E f : f = body(f)
  BY <1>0, <1>1, AddedExists
<1>3. added = body(added)
  BY <1>2
<1>4. Table = added[n]
  BY DEF Table
<1>5. IsAdded(added, Selected, n)
  BY <1>1, <1>3
<1>. HIDE DEF added
<1>. QED  BY <1>4, <1>5

LEMMA EmptyTableOk ==
    /\ TableOk(EmptyTable)
    /\ \A i \in Places : EmptyTable.streams[i] = NoStream
    /\ NoStream \in Streams /\ NoStream.type = "none" /\ NoStream.extra = FALSE
<1>1. MaxStreams \in Nat \ {0}
  BY Constants
<1>2. NoStream \in Streams /\ NoStream.type = "none" /\ NoStream.extra = FALSE
  BY <1>1 DEF NoStream, Streams, Places
<1>3. /\ EmptyTable.streams = [i \in Places |-> NoStream]
      /\ EmptyTable.count = [t \in Types |-> 0]
      /\ EmptyTable = [streams |-> EmptyTable.streams, count |-> EmptyTable.count]
  BY DEF EmptyTable, Places
<1>4. TableTypes(EmptyTable)
  BY <1>2, <1>3 DEF TableTypes
<1>5. "none" \notin Types
  BY DEF Types
<1>6. InPlace(EmptyTable)
  BY <1>2, <1>3, <1>5 DEF InPlace
<1>7. Complete(EmptyTable)
  BY <1>3 DEF Complete
<1>8. Distinct(EmptyTable)
  BY <1>2, <1>3, <1>5 DEF Distinct
<1>. QED  BY <1>2, <1>3, <1>4, <1>6, <1>7, <1>8 DEF TableOk

LEMMA GetStreamsOk ==
    ASSUME src \in Sources
    PROVE  TableOk(Table)
<1> DEFINE n == Len(Selected)
<1>0. n \in Nat /\ Selected \in Seq(Ids(src)) /\ IsInjective(Selected) /\ DOMAIN Selected = 1 .. n
  BY SelectedOnce
<1>1. PICK f : IsAdded(f, Selected, n) /\ Table = f[n]
  BY TableIsAdded
<1>. HIDE DEF n
<1>. DEFINE Before(m) == \A i \in Places : f[m].streams[i].type # "none" =>
                            \E k \in 1 .. m : Selected[k] = i
            N == {m \in Nat : m <= n => TableOk(f[m]) /\ Before(m)}
<1>2. 0 \in N
  <2>1. f[0] = EmptyTable
    BY <1>1 DEF IsAdded
  <2>2. TableOk(f[0]) /\ Before(0)
    BY <2>1, EmptyTableOk
  <2>. QED  BY <2>2
<1>3. ASSUME NEW m \in Nat, m \in N PROVE m + 1 \in N
  <2>. SUFFICES ASSUME m + 1 <= n PROVE TableOk(f[m + 1]) /\ Before(m + 1)
    OBVIOUS
  <2>1. TableOk(f[m]) /\ Before(m)
    BY <1>0, <1>3
  <2>2. m + 1 \in 1 .. n /\ (m + 1) - 1 = m
    BY <1>0
  <2>3. Selected[m + 1] \in Ids(src)
    BY <1>0, <2>2
  <2>. DEFINE id == Selected[m + 1]
  <2>4. f[m + 1] = AddStream(f[m], id)
    BY <1>1, <2>2 DEF IsAdded
  <2>5. \A k \in 1 .. m : Selected[k] # id
    <3>1. \A k \in 1 .. m : k \in 1 .. n /\ k # m + 1
      BY <1>0, <2>2
    <3>. QED  BY <1>0, <2>2, <3>1 DEF IsInjective
  <2>6. id \in Places => f[m].streams[id].type = "none"
    BY <2>1, <2>5
  <2>. HIDE DEF id
  <2>7. /\ TableOk(f[m + 1])
        /\ \A i \in Places : i # id => f[m + 1].streams[i] = f[m].streams[i]
    BY <2>1, <2>3, <2>4, <2>6, AddStreamOk DEF id
  <2>8. Before(m + 1)
    <3>. SUFFICES ASSUME NEW i \in Places, f[m + 1].streams[i].type # "none"
                  PROVE  \E k \in 1 .. m + 1 : Selected[k] = i
      OBVIOUS
    <3>1. CASE i = id
      BY <3>1 DEF id
    <3>2. CASE i # id
      <4>1. PICK k \in 1 .. m : Selected[k] = i
        BY <2>1, <2>7, <3>2
      <4>2. k \in 1 .. m + 1
        OBVIOUS
      <4>. QED  BY <4>1, <4>2
    <3>. QED  BY <3>1, <3>2
  <2>. QED  BY <2>7, <2>8
<1>. HIDE DEF N
<1>4. n \in N
  BY <1>0, <1>2, <1>3, NatSetInduction
<1>5. TableOk(f[n])
  BY <1>0, <1>4 DEF N
<1>. QED  BY <1>1, <1>5

\* SetActiveStreamInternal finds the only stream with the number it looks for,
\* or none when the type has none.
ActiveOk(tb, t, i) ==
    IF tb.count[t] = 0 THEN i = -1
    ELSE i \in Places /\ tb.streams[i].type = t

LEMMA SetActiveOk ==
    ASSUME NEW tb, TableOk(tb), NEW t \in Types, NEW n \in Nat
    PROVE  ActiveOk(tb, t, SetActive(tb, t, n))
<1> DEFINE last  == tb.count[t] - 1
           m     == IF n > last THEN last ELSE n
           found == {i \in Places : tb.streams[i].type = t /\ tb.streams[i].index = m}
<1>1. tb.count[t] \in Nat /\ \A i \in Places : tb.streams[i].index \in Nat
  BY DEF TableOk, TableTypes, Streams
<1>2. SetActive(tb, t, n) = IF found = {} THEN -1
                            ELSE CHOOSE i \in found : \A j \in found : j <= i
  BY DEF SetActive, Places
<1>3. CASE tb.count[t] = 0
  <2>1. m = -1
    BY <1>1, <1>3
  <2>2. found = {}
    BY <1>1, <2>1
  <2>. QED  BY <1>2, <1>3, <2>2 DEF ActiveOk
<1>4. CASE tb.count[t] # 0
  <2>1. m \in Nat /\ m < tb.count[t]
    BY <1>1, <1>4
  <2>. HIDE DEF m
  <2>2. PICK i \in Places : i \in found
    BY <2>1 DEF TableOk, Complete
  <2>3. \A j \in found : j = i
    BY <2>2 DEF TableOk, Distinct
  <2>4. \A j \in found : j <= i
    BY <2>2, <2>3, Constants DEF Places
  <2>5. SetActive(tb, t, n) \in found
    <3>. HIDE DEF found
    <3>. QED  BY <1>2, <2>2, <2>4
  <2>. QED  BY <1>4, <2>5 DEF ActiveOk
<1>. QED  BY <1>3, <1>4

TableNow == [streams |-> streams, count |-> count]
Listed   == {"open", "read", "seek", "undefined"}

\* The table is empty until GetStreams has filled it, and then as it leaves it.
TableInv ==
    /\ src \in Sources
    /\ TableTypes(TableNow) /\ index \in [Types -> -1 .. MaxStreams - 1]
    /\ pc \notin Listed => streams = EmptyTable.streams
    /\ pc \in Listed =>
          TableOk(TableNow) /\ \A t \in Types : ActiveOk(TableNow, t, index[t])

LEMMA ClearedTable ==
    ASSUME src' \in Sources, ClearTable, pc' \notin Listed
    PROVE  TableInv'
<1>1. streams' = EmptyTable.streams /\ count' = EmptyTable.count
  BY DEF ClearTable, EmptyTable
<1>2. index' = [t \in Types |-> -1] /\ -1 \in -1 .. MaxStreams - 1
  BY Constants DEF ClearTable
<1>3. TableNow' = EmptyTable
  BY <1>1, EmptyTableOk DEF TableNow, TableOk, TableTypes
<1>4. TableTypes(TableNow)'
  BY <1>3, EmptyTableOk DEF TableOk, TableTypes
<1>. QED  BY <1>1, <1>2, <1>4 DEF TableInv

LEMMA TableStep == TableInv /\ [Next]_vars => TableInv'
<1> SUFFICES ASSUME TableInv, [Next]_vars PROVE TableInv'
  OBVIOUS
<1>1. CASE Open
  BY <1>1, ClearedTable DEF Open, Listed
<1>2. CASE OptionsFail \/ Close \/ InputFails \/ InfoFails
  BY <1>2, ClearedTable DEF OptionsFail, Close, InputFails, InfoFails, CloseReader, Listed, TableInv
<1>3. CASE ParseDictionary \/ OpenFile \/ Probe
  <2>1. src' = src /\ pc \notin Listed /\ pc' \notin Listed
    BY <1>3 DEF ParseDictionary, OpenFile, Probe, CloseReader, Listed
  <2>2. ClearTable \/ UNCHANGED tableVars
    BY <1>3 DEF ParseDictionary, OpenFile, Probe, CloseReader
  <2>3. CASE ClearTable
    BY <2>1, <2>3, ClearedTable DEF TableInv
  <2>4. CASE UNCHANGED tableVars
    BY <2>1, <2>4 DEF TableInv, tableVars, TableNow, TableTypes
  <2>. QED  BY <2>2, <2>3, <2>4
<1>4. CASE InfoFound
  <2>1. /\ src' = src /\ pc' \in Listed
        /\ streams' = Table.streams /\ count' = Table.count
        /\ index' = [t \in Types |-> IF Table.count[t] > 0 THEN SetActive(Table, t, 0) ELSE -1]
    BY <1>4 DEF InfoFound, Listed
  <2>2. TableOk(Table)
    BY GetStreamsOk DEF TableInv
  <2>3. TableNow' = Table
    BY <2>1, <2>2 DEF TableNow, TableOk, TableTypes
  <2>4. ASSUME NEW t \in Types PROVE ActiveOk(Table, t, index'[t])
    <3>1. Table.count[t] \in Nat
      BY <2>2 DEF TableOk, TableTypes
    <3>2. CASE Table.count[t] = 0
      BY <2>1, <3>2 DEF ActiveOk
    <3>3. CASE Table.count[t] > 0
      <4>1. index'[t] = SetActive(Table, t, 0)
        BY <2>1, <3>3
      <4>. QED  BY <2>2, <4>1, SetActiveOk
    <3>. QED  BY <3>1, <3>2, <3>3
  <2>5. ASSUME NEW t \in Types PROVE index'[t] \in -1 .. MaxStreams - 1
    BY <2>4, Constants DEF ActiveOk, Places
  <2>6. index' \in [Types -> -1 .. MaxStreams - 1]
    BY <2>1, <2>5
  <2>7. TableOk(TableNow)' /\ TableTypes(TableNow)'
    BY <2>1, <2>2, <2>3 DEF TableOk, TableTypes, InPlace, Complete, Distinct, Ids
  <2>8. \A t \in Types : ActiveOk(TableNow, t, index[t])'
    BY <2>3, <2>4 DEF ActiveOk
  <2>. QED  BY <2>1, <2>6, <2>7, <2>8 DEF TableInv
<1>5. CASE SetActiveStream
  <2>1. pc = "open" /\ UNCHANGED <<pc, src, streams, count>>
    BY <1>5 DEF SetActiveStream
  <2>2. PICK t \in Types, n \in 0 .. MaxStreams :
           index' = [index EXCEPT ![t] = SetActive(TableNow, t, n)]
    BY <1>5 DEF SetActiveStream, TableNow
  <2>3. n \in Nat /\ TableOk(TableNow) /\ \A u \in Types : ActiveOk(TableNow, u, index[u])
    BY <2>1, Constants DEF TableInv, Listed
  <2>4. ActiveOk(TableNow, t, SetActive(TableNow, t, n))
    BY <2>3, SetActiveOk
  <2>5. \A u \in Types : ActiveOk(TableNow, u, index'[u])
    BY <2>2, <2>3, <2>4 DEF TableInv
  <2>6. SetActive(TableNow, t, n) \in -1 .. MaxStreams - 1
    BY <2>4, Constants DEF ActiveOk, Places
  <2>7. index' \in [Types -> -1 .. MaxStreams - 1]
    BY <2>2, <2>6 DEF TableInv
  <2>8. TableNow' = TableNow
    BY <2>1 DEF TableNow
  <2>9. TableOk(TableNow)' /\ TableTypes(TableNow)'
    BY <2>1, <2>3, <2>8 DEF TableOk, TableTypes, InPlace, Complete, Distinct, Ids
  <2>10. \A u \in Types : ActiveOk(TableNow, u, index[u])'
    BY <2>5, <2>8 DEF ActiveOk
  <2>. QED  BY <2>1, <2>7, <2>9, <2>10 DEF TableInv, Listed
<1>6. CASE \/ InputOpened \/ SetSpeed \/ Read \/ SeekTime \/ ReadFails \/ ReadReturns \/ SeekReturns
           \/ Tick \/ FileAccess \/ FileAnswers \/ UNCHANGED vars
  <2>1. UNCHANGED <<src, streams, count, index>>
    BY <1>6 DEF InputOpened, SetSpeed, Read, SeekTime, ReadFails, ReadReturns, SeekReturns, Tick,
                FileAccess, FileAnswers, tableVars, vars
  <2>2. pc \in Listed <=> pc' \in Listed
    BY <1>6 DEF InputOpened, SetSpeed, Read, SeekTime, ReadFails, ReadReturns, SeekReturns, Tick,
                FileAccess, FileAnswers, vars, Listed
  <2>3. TableNow' = TableNow
    BY <2>1 DEF TableNow
  <2>4. TableTypes(TableNow)' /\ (TableOk(TableNow) => TableOk(TableNow)')
    BY <2>1, <2>3 DEF TableInv, TableOk, TableTypes, InPlace, Complete, Distinct, Ids
  <2>5. \A t \in Types : ActiveOk(TableNow, t, index[t]) => ActiveOk(TableNow, t, index[t])'
    BY <2>1, <2>3 DEF ActiveOk
  <2>. QED  BY <2>1, <2>2, <2>4, <2>5 DEF TableInv
<1>. QED  BY <1>1, <1>2, <1>3, <1>4, <1>5, <1>6 DEF Next, Returns

LEMMA TableHolds == Spec => []TableInv
<1>1. Init => TableInv
  <2> SUFFICES ASSUME Init PROVE TableInv
    OBVIOUS
  <2>1. streams = EmptyTable.streams /\ count = EmptyTable.count
    BY DEF Init, EmptyTable
  <2>2. TableNow = EmptyTable
    BY <2>1, EmptyTableOk DEF TableNow, TableOk, TableTypes
  <2>3. index \in [Types -> -1 .. MaxStreams - 1]
    BY Constants DEF Init
  <2>. QED  BY <2>1, <2>2, <2>3, EmptyTableOk DEF Init, TableInv, TableOk, Listed
<1>. QED  BY <1>1, TableStep, PTL DEF Spec

\* Whatever the input, the program that is selected and the order in which it lists
\* its streams, after Open and any SetActiveStream the number of a stream names one
\* stream, and for each type that the input has exactly one is active.
THEOREM OneIsActive == Spec => []ExactlyOneActive
<1>1. ASSUME TableInv, pc = "open", NEW t \in Types
      PROVE  /\ Cardinality({id \in Ids(src) : IsActive(t, id)}) = IF count[t] > 0 THEN 1 ELSE 0
             /\ \A n \in 0 .. count[t] - 1 :
                   \E i \in Ids(src) : Found(t, n) = {i} /\ src.types[i + 1] = t
             /\ ActiveStream(t) \subseteq UNION {Found(t, n) : n \in 0 .. count[t] - 1}
  <2>1. /\ InPlace(TableNow) /\ Complete(TableNow) /\ Distinct(TableNow)
        /\ ActiveOk(TableNow, t, index[t]) /\ TableTypes(TableNow)
    BY <1>1 DEF TableInv, Listed, TableOk
  <2>2. /\ TableNow.streams = streams /\ TableNow.count = count
        /\ count[t] \in Nat /\ \A i \in Places : streams[i].index \in Nat
    BY <2>1 DEF TableNow, TableTypes, Streams
  <2>3. ASSUME NEW n \in 0 .. count[t] - 1
        PROVE  \E i \in Ids(src) : Found(t, n) = {i} /\ src.types[i + 1] = t
    <3>1. n \in Nat /\ n < count[t]
      BY <2>2
    <3>2. PICK i \in Places : streams[i].type = t /\ streams[i].index = n
      BY <2>1, <2>2, <3>1 DEF Complete
    <3>3. i \in Ids(src) /\ src.types[i + 1] = t
      BY <2>1, <2>2, <3>2 DEF InPlace
    <3>4. \A j \in Found(t, n) : j = i
      BY <2>1, <2>2, <3>2 DEF Found, Distinct, Places
    <3>5. i \in Found(t, n)
      BY <3>2 DEF Found, Places
    <3>. QED  BY <3>3, <3>4, <3>5
  <2>4. CASE count[t] = 0
    <3>1. index[t] = -1
      BY <2>1, <2>2, <2>4 DEF ActiveOk
    <3>2. {id \in Ids(src) : IsActive(t, id)} = {} /\ ActiveStream(t) = {}
      BY <3>1 DEF IsActive, ActiveStream
    <3>. QED  BY <2>3, <2>4, <3>2, FS_EmptySet
  <2>5. CASE count[t] # 0
    <3>. DEFINE a == index[t]
    <3>1. a \in Places /\ streams[a].type = t
      BY <2>1, <2>2, <2>5 DEF ActiveOk
    <3>2. a \in Ids(src) /\ streams[a].id = a /\ streams[a].index < count[t]
      BY <2>1, <2>2, <3>1 DEF InPlace
    <3>3. a # -1
      BY <3>1, Constants DEF Places
    <3>4. {id \in Ids(src) : IsActive(t, id)} = {a}
      BY <3>1, <3>2, <3>3 DEF IsActive
    <3>5. Cardinality({id \in Ids(src) : IsActive(t, id)}) = 1
      BY <3>4, FS_Singleton
    <3>. DEFINE n == streams[a].index
    <3>6. n \in 0 .. count[t] - 1 /\ a \in Found(t, n)
      BY <2>2, <3>1, <3>2 DEF Found, Places
    <3>7. ActiveStream(t) = {a}
      BY <3>3 DEF ActiveStream
    <3>8. count[t] > 0
      BY <2>2, <2>5
    <3>. HIDE DEF a, n
    <3>9. ActiveStream(t) \subseteq UNION {Found(t, m) : m \in 0 .. count[t] - 1}
      BY <3>6, <3>7
    <3>. QED  BY <2>3, <3>5, <3>8, <3>9
  <2>. QED  BY <2>4, <2>5
<1>2. TableInv => ExactlyOneActive
  BY <1>1 DEF ExactlyOneActive
<1>. QED  BY <1>2, TableHolds, PTL

-----------------------------------------------------------------------------
(***************************************************************************)
(* What the reader owns.                                                   *)
(***************************************************************************)

Mine(o) == {o.ctx, o.pb, o.io, o.file, o.stdio, o.dict} \ {Null, Stdin}

\* What a variable may hold, and who owns the byte context: of a local input it is
\* the reader's, or the demuxer's that has replaced it; a URL has no other.
Shape(o) ==
    /\ o = [ctx |-> o.ctx, pb |-> o.pb, io |-> o.io, file |-> o.file, stdio |-> o.stdio,
            dict |-> o.dict, heap |-> o.heap, misuse |-> o.misuse]
    /\ o.ctx \in {Null, Obj("context")} /\ o.pb \in {Null, Obj("io"), Obj("pb")}
    /\ o.io \in {Null, Obj("io")} /\ o.file \in {Null, Obj("file")}
    /\ o.stdio \in {Null, Stdin, Obj("FILE")} /\ o.dict \in {Null, Obj("dict")}
    /\ o.pb = Obj("io") => o.io = o.pb
    /\ Local /\ o.pb # Null => o.io # Null
    /\ ~Local => o.io = Null /\ o.file = Null /\ o.stdio = Null
    /\ o.file = Null => o.stdio = Null
    /\ o.ctx = Null => o.pb = Null

\* All of it is allocated, and nothing else is but the extradata of the streams and
\* what no variable holds any more.
Owns(o) ==
    /\ Shape(o)
    /\ o.misuse = FALSE
    /\ Mine(o) \subseteq o.heap /\ ExtradataOf(streams) \subseteq o.heap
    /\ o.heap \subseteq Mine(o) \cup ExtradataOf(streams) \cup excused

\* How far Open has come.
StageInv ==
    /\ ctx = Null <=> pc = "closed"
    /\ pc \in {"closed", "options"} => dict = Null
    /\ pc \in {"closed", "options", "source"} => io = Null /\ file = Null /\ pb = Null
    /\ pc \in {"source", "probe"} => Local
    /\ pc = "probe" => pb = Null /\ io # Null
    /\ pc = "input" => pb = io /\ (Local => io # Null)
    /\ pc \in Listed \cup {"info"} => dict = Null

OwnInv == Owns(Own) /\ StageInv

\* The objects of one Open, the extradata and what is not allocated differ.
LEMMA Differ ==
    /\ Obj("context") \notin {Null, Stdin, Obj("pb"), Obj("io"), Obj("file"), Obj("FILE"), Obj("dict")}
    /\ Obj("pb") \notin {Null, Stdin, Obj("io"), Obj("file"), Obj("FILE"), Obj("dict")}
    /\ Obj("io") \notin {Null, Stdin, Obj("file"), Obj("FILE"), Obj("dict")}
    /\ Obj("file") \notin {Null, Stdin, Obj("FILE"), Obj("dict")}
    /\ Obj("FILE") \notin {Null, Stdin, Obj("dict")} /\ Obj("dict") \notin {Null, Stdin}
    /\ Null # Stdin
    /\ \A k \in {"context", "pb", "io", "file", "FILE", "dict"} : \A id : Obj(k) # Extra(id)
  BY DEF Obj, Null, Stdin, Extra

LEMMA NotExtradata ==
    ASSUME NEW x \in {Obj("context"), Obj("pb"), Obj("io"), Obj("file"), Obj("FILE"), Obj("dict")}
    PROVE  x \notin ExtradataOf(streams)
  BY Differ DEF ExtradataOf

IsOwn(o) ==
    o = [ctx |-> o.ctx, pb |-> o.pb, io |-> o.io, file |-> o.file, stdio |-> o.stdio,
         dict |-> o.dict, heap |-> o.heap, misuse |-> o.misuse]

LEMMA FreeOne ==
    ASSUME NEW o, IsOwn(o), o.misuse = FALSE, NEW x \in o.heap
    PROVE  Free(o, x) = [ctx |-> o.ctx, pb |-> o.pb, io |-> o.io, file |-> o.file,
                         stdio |-> o.stdio, dict |-> o.dict, heap |-> o.heap \ {x},
                         misuse |-> FALSE]
<1>1. (o.misuse \/ x \notin o.heap) = FALSE
  OBVIOUS
<1>2. Free(o, x) = [o EXCEPT !.heap = o.heap \ {x}, !.misuse = o.misuse \/ x \notin o.heap]
  BY DEF Free
<1>3. Free(o, x) = [o EXCEPT !.heap = o.heap \ {x}, !.misuse = FALSE]
  BY <1>1, <1>2
<1>. QED  BY <1>3 DEF IsOwn

\* avformat_close_input frees the context, and the connection of a URL with it.
Closing(o) == IF o.pb # Null /\ ~Local THEN {o.ctx, o.pb} ELSE {o.ctx}

LEMMA CloseInputFrees ==
    ASSUME NEW o, IsOwn(o), o.misuse = FALSE, o.ctx \in o.heap,
           o.pb # Null => o.pb \in o.heap /\ o.pb # o.ctx
    PROVE  CloseInput(o) =
              [ctx |-> Null, pb |-> Null, io |-> o.io, file |-> o.file, stdio |-> o.stdio,
               dict |-> o.dict, heap |-> o.heap \ Closing(o), misuse |-> FALSE]
<1>. DEFINE freed == Free(o, o.ctx)
            q == CloseInput(o)
<1>1. freed = [ctx |-> o.ctx, pb |-> o.pb, io |-> o.io, file |-> o.file, stdio |-> o.stdio,
               dict |-> o.dict, heap |-> o.heap \ {o.ctx}, misuse |-> FALSE]
  BY FreeOne
<1>2. q = [(IF o.pb # Null /\ ~Local THEN Free(freed, o.pb) ELSE freed)
             EXCEPT !.ctx = Null, !.pb = Null]
  BY DEF CloseInput
<1>. HIDE DEF freed, q
<1>3. IsOwn(freed) /\ freed.misuse = FALSE /\ freed.heap = o.heap \ {o.ctx}
  BY <1>1 DEF IsOwn
<1>4. CASE o.pb # Null /\ ~Local
  <2>1. o.pb \in freed.heap
    BY <1>3, <1>4
  <2>2. Free(freed, o.pb) =
          [ctx |-> freed.ctx, pb |-> freed.pb, io |-> freed.io, file |-> freed.file,
           stdio |-> freed.stdio, dict |-> freed.dict, heap |-> freed.heap \ {o.pb},
           misuse |-> FALSE]
    BY <1>3, <2>1, FreeOne
  <2>3. freed.heap \ {o.pb} = o.heap \ Closing(o)
    BY <1>3, <1>4 DEF Closing
  <2>4. q = [Free(freed, o.pb) EXCEPT !.ctx = Null, !.pb = Null]
    BY <1>2, <1>4
  <2>5. q = [ctx |-> Null, pb |-> Null, io |-> freed.io, file |-> freed.file,
             stdio |-> freed.stdio, dict |-> freed.dict, heap |-> freed.heap \ {o.pb},
             misuse |-> FALSE]
    <3>. DEFINE f == Free(freed, o.pb)
    <3>1. f = [ctx |-> freed.ctx, pb |-> freed.pb, io |-> freed.io, file |-> freed.file,
               stdio |-> freed.stdio, dict |-> freed.dict, heap |-> freed.heap \ {o.pb},
               misuse |-> FALSE]
      BY <2>2
    <3>2. q = [f EXCEPT !.ctx = Null, !.pb = Null]
      BY <2>4
    <3>. HIDE DEF f
    <3>. QED  BY <3>1, <3>2
  <2>. QED  BY <1>1, <2>3, <2>5 DEF q
<1>5. CASE ~(o.pb # Null /\ ~Local)
  <2>1. Closing(o) = {o.ctx} /\ q = [freed EXCEPT !.ctx = Null, !.pb = Null]
    BY <1>2, <1>5 DEF Closing
  <2>. QED  BY <1>1, <2>1 DEF q
<1>. QED  BY <1>4, <1>5

\* What is left once the context is closed: the byte context, which may be that of
\* the demuxer, and the file.
Held(o) == {o.io, o.file, o.stdio} \ {Null, Stdin}
Left(o, given) ==
    /\ IsOwn(o) /\ o.misuse = FALSE /\ o.ctx = Null /\ o.pb = Null
    /\ o.io \in {Null, Obj("io"), Obj("pb")} /\ o.file \in {Null, Obj("file")}
    /\ o.stdio \in {Null, Stdin, Obj("FILE")} /\ (o.file = Null => o.stdio = Null)
    /\ Held(o) \subseteq o.heap /\ ExtradataOf(streams) \subseteq o.heap
    /\ o.heap \subseteq Held(o) \cup ExtradataOf(streams) \cup given

\* What Close gives up.
GivenUp(o) == ({o.dict} \ {Null}) \cup (IF Replaced(o) THEN {o.io} ELSE {})

LEMMA CloseContextLeaves ==
    ASSUME NEW o, Owns(o)
    PROVE  Left(CloseContext(o), excused \cup GivenUp(o))
<1>. DEFINE given == excused \cup GivenUp(o)
<1>0. IsOwn(o) /\ Shape(o) /\ o.misuse = FALSE
  BY DEF Owns, Shape, IsOwn
<1>1. CASE o.ctx = Null
  <2>1. CloseContext(o) = o /\ o.pb = Null
    BY <1>1 DEF CloseContext, Owns, Shape
  <2>2. Mine(o) \subseteq Held(o) \cup given /\ Held(o) \subseteq Mine(o)
    BY <1>1, <2>1 DEF Mine, Held, GivenUp
  <2>3. /\ Held(o) \subseteq o.heap /\ ExtradataOf(streams) \subseteq o.heap
        /\ o.heap \subseteq Held(o) \cup ExtradataOf(streams) \cup given
    <3>. HIDE DEF given
    <3>. QED  BY <2>2 DEF Owns, given
  <2>. HIDE DEF given
  <2>4. Left(o, given)
    BY <1>0, <1>1, <2>1, <2>3 DEF Left, Shape
  <2>. QED  BY <2>1, <2>4 DEF given
<1>2. CASE o.ctx # Null
  <2>. DEFINE p == IF Replaced(o) THEN [o EXCEPT !.io = o.pb] ELSE o
              q == CloseInput(p)
  <2>1. CloseContext(o) = q
    BY <1>2 DEF CloseContext
  <2>2. o.ctx = Obj("context")
    BY <1>2 DEF Owns, Shape
  <2>3. /\ p = [ctx |-> o.ctx, pb |-> o.pb, io |-> p.io, file |-> o.file, stdio |-> o.stdio,
                dict |-> o.dict, heap |-> o.heap, misuse |-> o.misuse]
        /\ p.io = (IF Replaced(o) THEN o.pb ELSE o.io)
    BY <1>0 DEF IsOwn
  <2>. HIDE DEF p
  <2>4. /\ p.ctx = o.ctx /\ p.pb = o.pb /\ p.file = o.file /\ p.stdio = o.stdio
        /\ p.dict = o.dict /\ p.heap = o.heap /\ p.misuse = FALSE /\ IsOwn(p)
    BY <1>0, <2>3 DEF IsOwn
  <2>5. p.ctx \in p.heap /\ (p.pb # Null => p.pb \in p.heap /\ p.pb # p.ctx)
    BY <1>0, <2>2, <2>4, Differ DEF Owns, Mine, Shape
  <2>6. q = [ctx |-> Null, pb |-> Null, io |-> p.io, file |-> p.file, stdio |-> p.stdio,
             dict |-> p.dict, heap |-> p.heap \ Closing(p), misuse |-> FALSE]
    BY <2>4, <2>5, CloseInputFrees
  <2>7. Closing(p) = Closing(o)
    BY <2>4 DEF Closing
  <2>. HIDE DEF q
  <2>8. /\ q.ctx = Null /\ q.pb = Null /\ q.io = p.io /\ q.file = o.file /\ q.stdio = o.stdio
        /\ q.heap = o.heap \ Closing(o) /\ q.misuse = FALSE /\ IsOwn(q)
    BY <2>4, <2>6, <2>7 DEF IsOwn
  <2>9. q.io \in {Null, Obj("io"), Obj("pb")}
    BY <1>0, <2>3, <2>8 DEF Shape
  <2>10. q.io \in Mine(o) \cup {Null}
    BY <1>0, <2>3, <2>8, Differ DEF Mine, Shape, Replaced
  <2>11. Held(q) \cap Closing(o) = {}
    <3>1. CASE Local
      <4>1. Closing(o) = {Obj("context")}
        BY <2>2, <3>1 DEF Closing
      <4>2. Obj("context") \notin Held(q)
        BY <1>0, <2>8, <2>9, Differ DEF Held, Shape
      <4>. QED  BY <4>1, <4>2
    <3>2. CASE ~Local
      <4>1. q.io = Null /\ q.file = Null /\ q.stdio = Null
        BY <1>0, <2>3, <2>8, <3>2 DEF Shape, Replaced
      <4>. QED  BY <4>1 DEF Held
    <3>. QED  BY <3>1, <3>2
  <2>12. Held(q) \subseteq Mine(o)
    BY <2>8, <2>10 DEF Held, Mine
  <2>13. Mine(o) \subseteq Held(q) \cup Closing(o) \cup given
    <3>1. o.pb # Null /\ Local => q.io = o.pb
      BY <1>0, <2>3, <2>8, <1>2 DEF Shape, Replaced
    <3>2. o.pb # Null => o.pb \in Held(q) \cup Closing(o)
      BY <1>0, <3>1, Differ DEF Held, Closing, Shape
    <3>3. o.io \in Held(q) \cup given \cup {Null, Stdin}
      BY <2>3, <2>8 DEF Held, GivenUp
    <3>4. o.ctx \in Closing(o) /\ o.dict \in given \cup {Null}
      BY DEF Closing, GivenUp
    <3>5. {o.file, o.stdio} \subseteq Held(q) \cup {Null, Stdin}
      BY <2>8 DEF Held
    <3>. HIDE DEF given
    <3>. QED  BY <3>2, <3>3, <3>4, <3>5 DEF Mine
  <2>14. ExtradataOf(streams) \cap Closing(o) = {}
    BY <1>0, <2>2, NotExtradata DEF Closing, Shape
  <2>. HIDE DEF given
  <2>15. /\ Held(q) \subseteq q.heap /\ ExtradataOf(streams) \subseteq q.heap
         /\ q.heap \subseteq Held(q) \cup ExtradataOf(streams) \cup given
    BY <2>8, <2>11, <2>12, <2>13, <2>14 DEF Owns, given
  <2>16. Left(q, given)
    BY <1>0, <2>8, <2>9, <2>15 DEF Left, Shape
  <2>. QED  BY <2>1, <2>16 DEF given
<1>. QED  BY <1>1, <1>2

LEMMA FreeIoLeaves ==
    ASSUME NEW o, NEW given, Left(o, given)
    PROVE  Left(FreeIo(o), given) /\ FreeIo(o).io = Null
<1>1. CASE o.io = Null
  BY <1>1 DEF FreeIo
<1>2. CASE o.io # Null
  <2>. DEFINE f == Free(o, o.io)
              q == FreeIo(o)
  <2>1. o.io \in {Obj("io"), Obj("pb")} /\ o.io \in o.heap
    BY <1>2, Differ DEF Left, Held
  <2>2. f = [ctx |-> o.ctx, pb |-> o.pb, io |-> o.io, file |-> o.file, stdio |-> o.stdio,
             dict |-> o.dict, heap |-> o.heap \ {o.io}, misuse |-> FALSE]
    BY <2>1, FreeOne DEF Left
  <2>3. q = [f EXCEPT !.io = Null]
    BY <1>2 DEF FreeIo
  <2>. HIDE DEF f, q
  <2>4. /\ q.io = Null /\ q.ctx = o.ctx /\ q.pb = o.pb /\ q.file = o.file
        /\ q.stdio = o.stdio /\ q.heap = o.heap \ {o.io} /\ q.misuse = FALSE /\ IsOwn(q)
    BY <2>2, <2>3 DEF IsOwn
  <2>5. Held(q) = Held(o) \ {o.io}
    BY <2>1, <2>4, Differ DEF Held, Left
  <2>6. o.io \notin ExtradataOf(streams)
    BY <2>1, NotExtradata
  <2>7. /\ Held(q) \subseteq q.heap /\ ExtradataOf(streams) \subseteq q.heap
        /\ q.heap \subseteq Held(q) \cup ExtradataOf(streams) \cup given
    BY <2>4, <2>5, <2>6 DEF Left
  <2>8. Left(q, given)
    BY <2>4, <2>7 DEF Left
  <2>. QED  BY <2>4, <2>8 DEF q
<1>. QED  BY <1>1, <1>2

LEMMA CloseFileLeaves ==
    ASSUME NEW o, NEW given, Left(o, given), o.io = Null
    PROVE  /\ Left(CloseFile(o), given)
           /\ CloseFile(o).io = Null /\ CloseFile(o).file = Null /\ CloseFile(o).stdio = Null
<1>1. CASE o.file = Null
  BY <1>1 DEF CloseFile, Left
<1>2. CASE o.file # Null
  <2>. DEFINE c == IF o.stdio \in {Null, Stdin} THEN o ELSE Free(o, o.stdio)
              f == Free(c, o.file)
              q == CloseFile(o)
  <2>1. o.file = Obj("file") /\ o.file \in o.heap /\ IsOwn(o) /\ o.misuse = FALSE
    BY <1>2, Differ DEF Left, Held
  <2>2. /\ c.heap = o.heap \ ({o.stdio} \ {Null, Stdin}) /\ c.misuse = FALSE /\ IsOwn(c)
        /\ c.ctx = o.ctx /\ c.pb = o.pb /\ c.io = Null
    <3>1. CASE o.stdio \in {Null, Stdin}
      BY <2>1, <3>1
    <3>2. CASE o.stdio \notin {Null, Stdin}
      <4>1. o.stdio \in o.heap
        BY <3>2 DEF Left, Held
      <4>2. Free(o, o.stdio) =
              [ctx |-> o.ctx, pb |-> o.pb, io |-> o.io, file |-> o.file, stdio |-> o.stdio,
               dict |-> o.dict, heap |-> o.heap \ {o.stdio}, misuse |-> FALSE]
        BY <2>1, <4>1, FreeOne
      <4>. QED  BY <3>2, <4>2 DEF IsOwn
    <3>. QED  BY <3>1, <3>2
  <2>3. q = [f EXCEPT !.file = Null, !.stdio = Null]
    BY <1>2 DEF CloseFile
  <2>. HIDE DEF c, q
  <2>4. o.file # o.stdio /\ o.file \in c.heap
    BY <2>1, <2>2, Differ DEF Left
  <2>5. f = [ctx |-> c.ctx, pb |-> c.pb, io |-> c.io, file |-> c.file, stdio |-> c.stdio,
             dict |-> c.dict, heap |-> c.heap \ {o.file}, misuse |-> FALSE]
    BY <2>2, <2>4, FreeOne
  <2>. HIDE DEF f
  <2>6. /\ q.io = Null /\ q.file = Null /\ q.stdio = Null /\ q.ctx = o.ctx /\ q.pb = o.pb
        /\ q.heap = o.heap \ Held(o) /\ q.misuse = FALSE /\ IsOwn(q)
    <3>1. Held(o) = {o.file} \cup ({o.stdio} \ {Null, Stdin})
      BY <2>1, Differ DEF Held
    <3>2. q = [ctx |-> c.ctx, pb |-> c.pb, io |-> c.io, file |-> Null, stdio |-> Null,
               dict |-> c.dict, heap |-> c.heap \ {o.file}, misuse |-> FALSE]
      BY <2>3, <2>5
    <3>3. c.heap \ {o.file} = o.heap \ Held(o)
      BY <2>2, <3>1
    <3>. QED  BY <2>2, <3>2, <3>3 DEF IsOwn
  <2>7. Held(q) = {}
    BY <2>6 DEF Held
  <2>8. Held(o) \subseteq {Obj("file"), Obj("FILE")}
    BY <2>1 DEF Held, Left
  <2>9. Held(o) \cap ExtradataOf(streams) = {}
    BY <2>8, NotExtradata
  <2>10. /\ Held(q) \subseteq q.heap /\ ExtradataOf(streams) \subseteq q.heap
         /\ q.heap \subseteq Held(q) \cup ExtradataOf(streams) \cup given
    BY <2>6, <2>7, <2>9 DEF Left
  <2>11. Left(q, given)
    BY <2>6, <2>10 DEF Left
  <2>. QED  BY <2>6, <2>11 DEF q
<1>. QED  BY <1>1, <1>2

\* Close frees all that the reader owns but what it gives up.
LEMMA CloseOwned ==
    ASSUME NEW o, Owns(o), CloseAll(o)
    PROVE  /\ ctx' = Null /\ pb' = Null /\ io' = Null /\ file' = Null /\ stdio' = Null
           /\ dict' = Null /\ misuse' = FALSE
           /\ heap' \subseteq excused' /\ excused' = excused \cup GivenUp(o)
<1>. DEFINE given == excused \cup GivenUp(o)
            a == CloseContext(o)
            b == FreeIo(a)
            c == CloseFile(b)
            all == ExtradataOf(streams)
            end == FreeExtradata(c)
<1>1. Left(a, given)
  BY CloseContextLeaves
<1>2. /\ ctx' = end.ctx /\ pb' = end.pb /\ io' = end.io /\ file' = end.file
      /\ stdio' = end.stdio /\ heap' = end.heap /\ misuse' = end.misuse /\ dict' = Null
      /\ excused' = given
  BY DEF CloseAll, GivenUp
<1>. HIDE DEF a, given
<1>3. Left(b, given) /\ b.io = Null
  BY <1>1, FreeIoLeaves
<1>. HIDE DEF b
<1>4. Left(c, given) /\ c.io = Null /\ c.file = Null /\ c.stdio = Null
  BY <1>3, CloseFileLeaves
<1>5. end = [c EXCEPT !.heap = c.heap \ all, !.misuse = c.misuse \/ ~(all \subseteq c.heap)]
  BY DEF FreeExtradata
<1>. HIDE DEF c
<1>6. (c.misuse \/ ~(all \subseteq c.heap)) = FALSE
  BY <1>4 DEF Left
<1>7. end = [c EXCEPT !.heap = c.heap \ all, !.misuse = FALSE]
  BY <1>5, <1>6
<1>. HIDE DEF end
<1>8. /\ end.ctx = Null /\ end.pb = Null /\ end.io = Null /\ end.file = Null
      /\ end.stdio = Null /\ end.heap = c.heap \ all /\ end.misuse = FALSE
  <2>1. IsOwn(c) /\ c.ctx = Null /\ c.pb = Null
    BY <1>4 DEF Left
  <2>. HIDE DEF all
  <2>. QED  BY <1>4, <1>7, <2>1 DEF IsOwn
<1>9. Held(c) = {}
  BY <1>4 DEF Held
<1>10. c.heap \ all \subseteq given
  BY <1>4, <1>9 DEF Left
<1>11. heap' \subseteq given
  BY <1>2, <1>8, <1>10
<1>. QED  BY <1>2, <1>8, <1>11 DEF given

LEMMA OwnFields ==
    /\ IsOwn(Own)
    /\ Own.ctx = ctx /\ Own.pb = pb /\ Own.io = io /\ Own.file = file /\ Own.stdio = stdio
    /\ Own.dict = dict /\ Own.heap = heap /\ Own.misuse = misuse
  BY DEF Own, IsOwn

LEMMA NoExtradata ==
    ASSUME streams = EmptyTable.streams
    PROVE  ExtradataOf(streams) = {}
<1>1. DOMAIN streams = Places /\ \A i \in Places : streams[i].extra = FALSE
  BY EmptyTableOk DEF TableOk, TableTypes
<1>. QED  BY <1>1 DEF ExtradataOf

\* Whatever part of it the reader has, Close ends with nothing.
LEMMA ClosedOwns ==
    ASSUME NEW o, Owns(o), CloseReader(o), UNCHANGED <<src, opens>>
    PROVE  OwnInv'
<1>1. /\ ctx' = Null /\ pb' = Null /\ io' = Null /\ file' = Null /\ stdio' = Null
      /\ dict' = Null /\ misuse' = FALSE /\ heap' \subseteq excused'
  BY CloseOwned DEF CloseReader
<1>2. pc' = "closed" /\ streams' = EmptyTable.streams
  BY DEF CloseReader, ClearTable
<1>3. ExtradataOf(streams)' = {}
  <2>1. DOMAIN streams' = Places /\ \A i \in Places : streams'[i].extra = FALSE
    BY <1>2, EmptyTableOk DEF TableOk, TableTypes
  <2>. QED  BY <2>1 DEF ExtradataOf
<1>4. Mine(Own)' = {} /\ IsOwn(Own)'
  BY <1>1 DEF Own, Mine, IsOwn
<1>5. Shape(Own)'
  BY <1>1, <1>4, Differ DEF Own, Shape, IsOwn, Obj, Null, Local
<1>6. Owns(Own)'
  BY <1>1, <1>3, <1>4, <1>5 DEF Owns, Own
<1>7. StageInv'
  BY <1>1, <1>2 DEF StageInv, Listed
<1>. QED  BY <1>6, <1>7 DEF OwnInv

\* An object more is held and allocated, or the dictionary less.
LEMMA WithDictionary ==
    ASSUME OwnInv, pc = "options", NEW d \in {Null, Obj("dict")}
    PROVE  Owns([Own EXCEPT !.dict = d, !.heap = heap \cup ({d} \ {Null})])
<1>. DEFINE o == [Own EXCEPT !.dict = d, !.heap = heap \cup ({d} \ {Null})]
<1>0. Own = [ctx |-> ctx, pb |-> pb, io |-> io, file |-> file, stdio |-> stdio, dict |-> dict,
             heap |-> heap, misuse |-> FALSE]
  BY OwnFields DEF OwnInv, Owns, IsOwn
<1>1. /\ o.ctx = ctx /\ o.pb = pb /\ o.io = io /\ o.file = file /\ o.stdio = stdio /\ o.dict = d
      /\ o.heap = heap \cup ({d} \ {Null}) /\ o.misuse = FALSE /\ IsOwn(o)
  <2>0. o = [Own EXCEPT !.dict = d, !.heap = heap \cup ({d} \ {Null})]
    OBVIOUS
  <2>. HIDE DEF o
  <2>1. o = [ctx |-> ctx, pb |-> pb, io |-> io, file |-> file, stdio |-> stdio, dict |-> d,
             heap |-> heap \cup ({d} \ {Null}), misuse |-> FALSE]
    BY <1>0, <2>0
  <2>. QED  BY <2>1 DEF IsOwn
<1>2. dict = Null
  BY DEF OwnInv, StageInv
<1>. HIDE DEF o
<1>3. Mine(o) = Mine(Own) \cup ({d} \ {Null})
  BY <1>1, <1>2, OwnFields, Differ DEF Mine
<1>4. Shape(o)
  BY <1>1, OwnFields DEF OwnInv, Owns, Shape, IsOwn
<1>5. o.misuse = FALSE
  BY <1>1, OwnFields DEF OwnInv, Owns
<1>6. /\ Mine(o) \subseteq o.heap /\ ExtradataOf(streams) \subseteq o.heap
      /\ o.heap \subseteq Mine(o) \cup ExtradataOf(streams) \cup excused
  BY <1>1, <1>3, OwnFields DEF OwnInv, Owns
<1>7. Owns(o)
  BY <1>4, <1>5, <1>6 DEF Owns
<1>. QED  BY <1>7 DEF o

LEMMA WithFile ==
    ASSUME OwnInv, pc = "source"
    PROVE  Owns([Own EXCEPT !.file = Obj("file"), !.heap = heap \cup {Obj("file")}])
<1>. DEFINE o == [Own EXCEPT !.file = Obj("file"), !.heap = heap \cup {Obj("file")}]
<1>0. Own = [ctx |-> ctx, pb |-> pb, io |-> io, file |-> file, stdio |-> stdio, dict |-> dict,
             heap |-> heap, misuse |-> FALSE]
  BY OwnFields DEF OwnInv, Owns, IsOwn
<1>1. /\ o.ctx = ctx /\ o.pb = pb /\ o.io = io /\ o.file = Obj("file") /\ o.stdio = stdio
      /\ o.dict = dict /\ o.heap = heap \cup {Obj("file")} /\ o.misuse = FALSE /\ IsOwn(o)
  <2>0. o = [Own EXCEPT !.file = Obj("file"), !.heap = heap \cup {Obj("file")}]
    OBVIOUS
  <2>. HIDE DEF o
  <2>1. o = [ctx |-> ctx, pb |-> pb, io |-> io, file |-> Obj("file"), stdio |-> stdio,
             dict |-> dict, heap |-> heap \cup {Obj("file")}, misuse |-> FALSE]
    BY <1>0, <2>0
  <2>. QED  BY <2>1 DEF IsOwn
<1>2. file = Null /\ Local
  BY DEF OwnInv, StageInv
<1>. HIDE DEF o
<1>3. Mine(o) = Mine(Own) \cup {Obj("file")}
  BY <1>1, <1>2, OwnFields, Differ DEF Mine
<1>4. Shape(o)
  BY <1>1, <1>2, OwnFields, Differ DEF OwnInv, Owns, Shape, IsOwn
<1>5. o.misuse = FALSE
  BY <1>1, OwnFields DEF OwnInv, Owns
<1>6. /\ Mine(o) \subseteq o.heap /\ ExtradataOf(streams) \subseteq o.heap
      /\ o.heap \subseteq Mine(o) \cup ExtradataOf(streams) \cup excused
  BY <1>1, <1>3, OwnFields DEF OwnInv, Owns
<1>7. Owns(o)
  BY <1>4, <1>5, <1>6 DEF Owns
<1>. QED  BY <1>7 DEF o

\* A failed avformat_open_input has closed the input, and d is freed.
LEMMA InputClosed ==
    ASSUME OwnInv, pc = "input"
    PROVE  Owns([CloseInput(Own) EXCEPT !.dict = Null, !.heap = @ \ {dict}])
<1>. DEFINE q == CloseInput(Own)
            o == [q EXCEPT !.dict = Null, !.heap = @ \ {dict}]
<1>1. Owns(Own) /\ ctx # Null /\ pb = io /\ (Local => io # Null)
  BY DEF OwnInv, StageInv, Calls
<1>2. /\ ctx = Obj("context") /\ pb \in {Null, Obj("io")} /\ (~Local => pb = Null)
      /\ ctx \in heap /\ (pb # Null => pb \in heap /\ pb # ctx) /\ misuse = FALSE
  <2>1. /\ ctx = Obj("context") /\ pb \in {Null, Obj("io")} /\ (~Local => pb = Null)
        /\ misuse = FALSE
    BY <1>1, OwnFields DEF Owns, Shape
  <2>2. ctx \in Mine(Own) /\ (pb # Null => pb \in Mine(Own))
    BY <2>1, OwnFields, Differ DEF Mine
  <2>. QED  BY <1>1, <2>1, <2>2, OwnFields, Differ DEF Owns
<1>3. Closing(Own) = {ctx}
  BY <1>2, OwnFields DEF Closing
<1>4. q = [ctx |-> Null, pb |-> Null, io |-> io, file |-> file, stdio |-> stdio,
           dict |-> dict, heap |-> heap \ {ctx}, misuse |-> FALSE]
  BY <1>2, <1>3, OwnFields, CloseInputFrees
<1>. HIDE DEF q
<1>5. /\ o.ctx = Null /\ o.pb = Null /\ o.io = io /\ o.file = file /\ o.stdio = stdio
      /\ o.dict = Null /\ o.heap = (heap \ {ctx}) \ {dict} /\ o.misuse = FALSE /\ IsOwn(o)
  <2>1. o = [q EXCEPT !.dict = Null, !.heap = q.heap \ {dict}]
    OBVIOUS
  <2>. HIDE DEF o
  <2>2. o = [ctx |-> Null, pb |-> Null, io |-> io, file |-> file, stdio |-> stdio,
             dict |-> Null, heap |-> (heap \ {ctx}) \ {dict}, misuse |-> FALSE]
    <3>1. q.heap = heap \ {ctx}
      BY <1>4
    <3>. QED  BY <1>4, <2>1, <3>1
  <2>. QED  BY <2>2 DEF IsOwn
<1>. HIDE DEF o
<1>6. Shape(o)
  BY <1>1, <1>2, <1>5, OwnFields, Differ DEF Owns, Shape, IsOwn
<1>7. Mine(o) = Mine(Own) \ {ctx, dict}
  BY <1>1, <1>2, <1>5, OwnFields, Differ DEF Owns, Shape, Mine
<1>8. {ctx, dict} \cap ExtradataOf(streams) = {}
  <2>1. dict \in {Null, Obj("dict")}
    BY <1>1, OwnFields DEF Owns, Shape
  <2>2. Null \notin ExtradataOf(streams)
    BY DEF ExtradataOf, Null, Extra
  <2>. QED  BY <1>2, <2>1, <2>2, NotExtradata
<1>9. /\ Mine(o) \subseteq o.heap /\ ExtradataOf(streams) \subseteq o.heap
      /\ o.heap \subseteq Mine(o) \cup ExtradataOf(streams) \cup excused
  BY <1>1, <1>5, <1>7, <1>8, OwnFields DEF Owns
<1>10. Owns(o)
  BY <1>5, <1>6, <1>9 DEF Owns
<1>. QED  BY <1>10 DEF o, q

\* A step that changes nothing of what the reader owns, nor whose it is.
OwnKept == UNCHANGED <<ctx, pb, io, file, stdio, dict, heap, misuse, streams, excused, src, opens>>

LEMMA OwnKeptOwns == OwnKept /\ Owns(Own) => Owns(Own)'
  BY OwnFields DEF OwnKept, Owns, Own, Shape, Mine, Obj, Local, ExtradataOf, Extra, Null, Stdin

LEMMA OpenOwns == TableInv /\ OwnInv /\ Open => OwnInv'
<1> SUFFICES ASSUME TableInv, OwnInv, Open PROVE OwnInv'
  OBVIOUS
<1>1. /\ pc = "closed" /\ pc' = "options" /\ opens' = opens + 1
      /\ ctx' = <<"context", opens + 1>>
      /\ heap' = (heap \ ExtradataOf(streams)) \cup {ctx'}
      /\ UNCHANGED <<pb, io, file, stdio, dict, misuse, excused>>
      /\ streams' = EmptyTable.streams
  BY DEF Open, ClearTable
<1>2. ctx = Null /\ pb = Null /\ io = Null /\ file = Null /\ stdio = Null /\ dict = Null
  BY <1>1, OwnFields DEF OwnInv, StageInv, Owns, Shape
<1>3. ExtradataOf(streams) = {} /\ ExtradataOf(streams)' = {}
  <2>1. streams = EmptyTable.streams
    BY <1>1 DEF TableInv, Listed
  <2>2. DOMAIN streams' = Places /\ \A i \in Places : streams'[i].extra = FALSE
    BY <1>1, EmptyTableOk DEF TableOk, TableTypes
  <2>. QED  BY <2>1, <2>2, NoExtradata DEF ExtradataOf
<1>4. Mine(Own) = {}
  BY <1>2, OwnFields DEF Mine
<1>5. heap \subseteq excused /\ misuse = FALSE
  BY <1>3, <1>4, OwnFields DEF OwnInv, Owns
<1>6. ctx' = Obj("context")' /\ ctx' # Null
  BY <1>1 DEF Obj, Null
<1>7. Shape(Own)'
  BY <1>1, <1>2, <1>6, Differ DEF Own, Shape, Obj, Local, Null
<1>8. Mine(Own)' = {ctx'}
  BY <1>1, <1>2, <1>6 DEF Own, Mine, Obj, Null, Stdin
<1>9. heap' = heap \cup {ctx'}
  BY <1>1, <1>3
<1>10. Own.misuse' = FALSE /\ Own.heap' = heap'
  BY <1>1, <1>5 DEF Own
<1>11. Owns(Own)'
  BY <1>1, <1>3, <1>5, <1>7, <1>8, <1>9, <1>10 DEF Owns
<1>12. StageInv'
  BY <1>1, <1>2, <1>6 DEF StageInv, Listed
<1>. QED  BY <1>11, <1>12 DEF OwnInv

LEMMA ParseOwns == OwnInv /\ ParseDictionary => OwnInv'
<1> SUFFICES ASSUME OwnInv, ParseDictionary PROVE OwnInv'
  OBVIOUS
<1>1. pc = "options" /\ UNCHANGED <<src, opens>>
  BY DEF ParseDictionary
<1>2. PICK d \in {Null, Obj("dict")} :
          \/ CloseReader([Own EXCEPT !.dict = d, !.heap = @ \cup ({d} \ {Null})])
          \/ /\ dict' = d /\ heap' = heap \cup ({d} \ {Null})
             /\ pc' = IF Local THEN "source" ELSE "input"
             /\ UNCHANGED <<ctx, pb, io, file, stdio, misuse, tableVars, eof, speed,
                            paused, excused>>
  BY DEF ParseDictionary
<1>. DEFINE o == [Own EXCEPT !.dict = d, !.heap = heap \cup ({d} \ {Null})]
<1>3. Owns(o)
  BY <1>1, WithDictionary
<1>4. [Own EXCEPT !.dict = d, !.heap = @ \cup ({d} \ {Null})] = o
  BY OwnFields
<1>5. CASE CloseReader([Own EXCEPT !.dict = d, !.heap = @ \cup ({d} \ {Null})])
  <2>1. CloseReader(o)
    BY <1>4, <1>5
  <2>. HIDE DEF o
  <2>. QED  BY <1>1, <1>3, <2>1, ClosedOwns
<1>6. CASE /\ dict' = d /\ heap' = heap \cup ({d} \ {Null})
           /\ pc' = IF Local THEN "source" ELSE "input"
           /\ UNCHANGED <<ctx, pb, io, file, stdio, misuse, tableVars, eof, speed,
                          paused, excused>>
  <2>1. UNCHANGED <<ctx, pb, io, file, stdio, misuse, streams, excused>>
    BY <1>6 DEF tableVars
  <2>2. Own' = o
    <3>1. Own = [ctx |-> ctx, pb |-> pb, io |-> io, file |-> file, stdio |-> stdio,
                 dict |-> dict, heap |-> heap, misuse |-> FALSE]
      BY OwnFields DEF OwnInv, Owns, IsOwn
    <3>2. misuse = FALSE
      BY OwnFields DEF OwnInv, Owns
    <3>3. Own' = [ctx |-> ctx, pb |-> pb, io |-> io, file |-> file, stdio |-> stdio,
                  dict |-> d, heap |-> heap \cup ({d} \ {Null}), misuse |-> FALSE]
      BY <1>6, <2>1, <3>2 DEF Own
    <3>4. o = [Own EXCEPT !.dict = d, !.heap = heap \cup ({d} \ {Null})]
      OBVIOUS
    <3>. HIDE DEF o
    <3>5. o = [ctx |-> ctx, pb |-> pb, io |-> io, file |-> file, stdio |-> stdio,
               dict |-> d, heap |-> heap \cup ({d} \ {Null}), misuse |-> FALSE]
      BY <3>1, <3>4
    <3>. QED  BY <3>3, <3>5
  <2>. HIDE DEF o
  <2>3. Owns(Own)'
    BY <1>1, <1>3, <2>1, <2>2
      DEF Owns, Shape, Mine, Obj, Local, ExtradataOf, Extra, Null, Stdin
  <2>4. StageInv'
    BY <1>1, <1>6, <2>1 DEF OwnInv, StageInv, Listed, Local
  <2>. QED  BY <2>3, <2>4 DEF OwnInv
<1>. QED  BY <1>2, <1>5, <1>6

LEMMA OpenFileOwns == OwnInv /\ OpenFile => OwnInv'
<1> SUFFICES ASSUME OwnInv, OpenFile PROVE OwnInv'
  OBVIOUS
<1>1. pc = "source" /\ UNCHANGED <<src, opens>>
  BY DEF OpenFile
<1>. DEFINE o == [Own EXCEPT !.file = Obj("file"), !.heap = heap \cup {Obj("file")}]
<1>2. CASE CloseReader([Own EXCEPT !.file = Obj("file"), !.heap = @ \cup {Obj("file")}])
  <2>1. [Own EXCEPT !.file = Obj("file"), !.heap = @ \cup {Obj("file")}] = o
    BY OwnFields
  <2>2. CloseReader(o) /\ Owns(o)
    BY <1>1, <1>2, <2>1, WithFile
  <2>. HIDE DEF o
  <2>. QED  BY <1>1, <2>2, ClosedOwns
<1>3. CASE /\ file' = Obj("file") /\ stdio' = StdioOpened /\ io' = Obj("io")
           /\ heap' = heap \cup ({file', stdio', io'} \ {Stdin})
           /\ pc' = "probe"
           /\ UNCHANGED <<ctx, pb, dict, misuse, tableVars, excused>>
  <2>1. UNCHANGED <<ctx, pb, dict, misuse, streams, excused, src, opens>>
    BY <1>1, <1>3 DEF tableVars
  <2>2. /\ ctx # Null /\ pb = Null /\ io = Null /\ file = Null /\ stdio = Null /\ Local
        /\ ctx = Obj("context") /\ dict \in {Null, Obj("dict")} /\ misuse = FALSE
    BY <1>1, OwnFields DEF OwnInv, StageInv, Owns, Shape
  <2>3. stdio' \in {Stdin, Obj("FILE")}
    BY <1>3 DEF StdioOpened
  <2>4. /\ Obj("context")' = Obj("context") /\ Obj("io")' = Obj("io")
        /\ Obj("file")' = Obj("file") /\ Obj("FILE")' = Obj("FILE")
        /\ Obj("dict")' = Obj("dict") /\ Obj("pb")' = Obj("pb") /\ Local' = Local
        /\ ExtradataOf(streams)' = ExtradataOf(streams)
    BY <2>1 DEF Obj, Local, ExtradataOf, Extra
  <2>5. /\ Own' = [ctx |-> ctx, pb |-> Null, io |-> Obj("io"), file |-> Obj("file"),
                   stdio |-> stdio', dict |-> dict, heap |-> heap', misuse |-> FALSE]
    BY <1>3, <2>1, <2>2 DEF Own
  <2>. DEFINE n == Own'
  <2>6. /\ n.ctx = ctx /\ n.pb = Null /\ n.io = Obj("io") /\ n.file = Obj("file")
        /\ n.stdio = stdio' /\ n.dict = dict /\ n.heap = heap' /\ n.misuse = FALSE /\ IsOwn(n)
    BY <2>5 DEF IsOwn
  <2>. HIDE DEF n
  <2>7. Mine(n) = Mine(Own) \cup ({file', stdio', io'} \ {Stdin})
    BY <1>3, <2>2, <2>3, <2>6, OwnFields, Differ DEF Mine
  <2>8. /\ n.ctx \in {Null, Obj("context")} /\ n.pb \in {Null, Obj("io"), Obj("pb")}
        /\ n.io \in {Null, Obj("io")} /\ n.file \in {Null, Obj("file")}
        /\ n.stdio \in {Null, Stdin, Obj("FILE")} /\ n.dict \in {Null, Obj("dict")}
        /\ (n.pb = Obj("io") => n.io = n.pb) /\ (Local /\ n.pb # Null => n.io # Null)
        /\ (~Local => n.io = Null /\ n.file = Null /\ n.stdio = Null)
        /\ (n.file = Null => n.stdio = Null) /\ (n.ctx = Null => n.pb = Null)
    BY <2>2, <2>3, <2>6, Differ
  <2>9. /\ Mine(n) \subseteq n.heap /\ ExtradataOf(streams) \subseteq n.heap
        /\ n.heap \subseteq Mine(n) \cup ExtradataOf(streams) \cup excused
    BY <1>3, <2>6, <2>7, OwnFields DEF OwnInv, Owns
  <2>10. Shape(Own)'
    BY <2>4, <2>6, <2>8 DEF Shape, IsOwn, n
  <2>11. Owns(Own)'
    BY <2>1, <2>4, <2>6, <2>9, <2>10 DEF Owns, Mine, n
  <2>12. StageInv'
    BY <1>3, <2>1, <2>2, <2>4, Differ DEF StageInv, Listed
  <2>. QED  BY <2>11, <2>12 DEF OwnInv
<1>. QED  BY <1>2, <1>3 DEF OpenFile

LEMMA ProbeOwns == OwnInv /\ Probe => OwnInv'
<1> SUFFICES ASSUME OwnInv, Probe PROVE OwnInv'
  OBVIOUS
<1>1. pc = "probe" /\ UNCHANGED <<src, opens>>
  BY DEF Probe
<1>2. CASE CloseReader(Own)
  BY <1>1, <1>2, ClosedOwns DEF OwnInv
<1>3. CASE /\ pc' = "input" /\ pb' = io
           /\ UNCHANGED <<ctx, io, file, stdio, dict, heap, misuse, tableVars, excused>>
  <2>1. UNCHANGED <<ctx, io, file, stdio, dict, heap, misuse, streams, excused, src, opens>>
    BY <1>1, <1>3 DEF tableVars
  <2>2. /\ ctx # Null /\ ctx = Obj("context") /\ pb = Null /\ io = Obj("io") /\ Local
        /\ misuse = FALSE /\ file \in {Null, Obj("file")} /\ stdio \in {Null, Stdin, Obj("FILE")}
        /\ dict \in {Null, Obj("dict")} /\ (file = Null => stdio = Null)
    BY <1>1, OwnFields DEF OwnInv, StageInv, Owns, Shape
  <2>3. /\ Obj("context")' = Obj("context") /\ Obj("io")' = Obj("io")
        /\ Obj("file")' = Obj("file") /\ Obj("FILE")' = Obj("FILE")
        /\ Obj("dict")' = Obj("dict") /\ Obj("pb")' = Obj("pb") /\ Local' = Local
        /\ ExtradataOf(streams)' = ExtradataOf(streams)
    BY <2>1 DEF Obj, Local, ExtradataOf, Extra
  <2>4. Shape(Own)'
    BY <1>3, <2>1, <2>2, <2>3, Differ DEF Shape, Own
  <2>5. Mine(Own)' = Mine(Own)
    BY <1>3, <2>1, <2>2 DEF Own, Mine
  <2>6. Own.heap' = heap /\ Own.misuse' = FALSE
    BY <2>1, <2>2 DEF Own
  <2>7. Owns(Own)'
    BY <2>1, <2>3, <2>4, <2>5, <2>6, OwnFields DEF OwnInv, Owns
  <2>8. StageInv'
    BY <1>3, <2>1, <2>2, <2>3, Differ DEF StageInv, Listed
  <2>. QED  BY <2>7, <2>8 DEF OwnInv
<1>. QED  BY <1>2, <1>3 DEF Probe

LEMMA InputOwns == OwnInv /\ InputOpened => OwnInv'
<1> SUFFICES ASSUME OwnInv, InputOpened PROVE OwnInv'
  OBVIOUS
<1>1. /\ pc = "input" /\ dict' = Null /\ pc' = "info"
      /\ pb' \in IF Local THEN {io, Obj("pb")} ELSE {Null, Obj("pb")}
      /\ heap' = (heap \ {dict}) \cup ({pb'} \ {Null})
      /\ UNCHANGED <<src, ctx, io, file, stdio, misuse, streams, opens, excused>>
  BY DEF InputOpened, tableVars
<1>2. /\ ctx # Null /\ ctx = Obj("context") /\ pb = io /\ (Local => io # Null)
      /\ io \in {Null, Obj("io")} /\ (~Local => io = Null /\ file = Null /\ stdio = Null)
      /\ misuse = FALSE /\ file \in {Null, Obj("file")} /\ stdio \in {Null, Stdin, Obj("FILE")}
      /\ dict \in {Null, Obj("dict")} /\ (file = Null => stdio = Null)
  BY <1>1, OwnFields DEF OwnInv, StageInv, Owns, Shape
<1>3. /\ Obj("context")' = Obj("context") /\ Obj("io")' = Obj("io")
      /\ Obj("file")' = Obj("file") /\ Obj("FILE")' = Obj("FILE")
      /\ Obj("dict")' = Obj("dict") /\ Obj("pb")' = Obj("pb") /\ Local' = Local
      /\ ExtradataOf(streams)' = ExtradataOf(streams)
  BY <1>1 DEF Obj, Local, ExtradataOf, Extra
<1>4. pb' \in {Null, io, Obj("pb")} /\ (Local => pb' # Null) /\ (~Local => pb' \in {Null, Obj("pb")})
  BY <1>1, <1>2, Differ
<1>5. Shape(Own)'
  BY <1>1, <1>2, <1>3, <1>4, Differ DEF Shape, Own
<1>6. Mine(Own)' = (Mine(Own) \ {dict}) \cup ({pb'} \ {Null})
  <2>1. pb' # Stdin /\ io # Stdin /\ ctx # Stdin
    BY <1>2, <1>4, Differ
  <2>2. Mine(Own)' = {ctx, pb', io, file, stdio} \ {Null, Stdin}
    BY <1>1 DEF Own, Mine
  <2>3. Mine(Own) = {ctx, io, file, stdio, dict} \ {Null, Stdin}
    BY <1>2, OwnFields DEF Mine
  <2>4. dict = Null \/ dict \notin {ctx, pb', io, file, stdio}
    BY <1>2, <1>4, Differ
  <2>5. {ctx, pb', io, file, stdio} \ {Null, Stdin}
          = (({ctx, io, file, stdio, dict} \ {Null, Stdin}) \ {dict}) \cup ({pb'} \ {Null})
    BY <2>1, <2>4
  <2>. QED  BY <2>2, <2>3, <2>5
<1>7. dict \notin ExtradataOf(streams)
  <2>1. Null \notin ExtradataOf(streams)
    BY DEF ExtradataOf, Null, Extra
  <2>. QED  BY <1>2, <2>1, NotExtradata
<1>8. Own.heap' = heap' /\ Own.misuse' = FALSE
  BY <1>1, <1>2 DEF Own
<1>9. /\ Mine(Own) \subseteq heap /\ ExtradataOf(streams) \subseteq heap
      /\ heap \subseteq Mine(Own) \cup ExtradataOf(streams) \cup excused
  BY OwnFields DEF OwnInv, Owns
<1>10. Owns(Own)'
  BY <1>1, <1>3, <1>5, <1>6, <1>7, <1>8, <1>9 DEF Owns
<1>11. StageInv'
  BY <1>1, <1>2, <1>3 DEF StageInv, Listed
<1>. QED  BY <1>10, <1>11 DEF OwnInv

\* Only GetStreams adds extradata, and until then there is none.
LEMMA InfoOwns == TableInv /\ OwnInv /\ InfoFound => OwnInv'
<1> SUFFICES ASSUME TableInv, OwnInv, InfoFound PROVE OwnInv'
  OBVIOUS
<1>1. /\ pc = "info" /\ pc' \in {"undefined", "open"} /\ streams' = Table.streams
      /\ heap' = heap \cup ExtradataOf(Table.streams)
      /\ UNCHANGED <<src, ctx, pb, io, file, stdio, dict, misuse, opens, excused>>
  BY DEF InfoFound
<1>2. /\ ctx # Null /\ dict = Null /\ misuse = FALSE
  BY <1>1, OwnFields DEF OwnInv, StageInv, Owns
<1>3. /\ Obj("context")' = Obj("context") /\ Obj("io")' = Obj("io")
      /\ Obj("file")' = Obj("file") /\ Obj("FILE")' = Obj("FILE")
      /\ Obj("dict")' = Obj("dict") /\ Obj("pb")' = Obj("pb") /\ Local' = Local
  BY <1>1 DEF Obj, Local
<1>4. ExtradataOf(streams) = {}
  BY <1>1, NoExtradata DEF TableInv, Listed
<1>5. ExtradataOf(streams)' = ExtradataOf(Table.streams)
  BY <1>1 DEF ExtradataOf, Extra
<1>6. /\ Own.ctx' = ctx /\ Own.pb' = pb /\ Own.io' = io /\ Own.file' = file
      /\ Own.stdio' = stdio /\ Own.dict' = dict /\ Own.heap' = heap' /\ Own.misuse' = FALSE
      /\ IsOwn(Own)'
  BY <1>1, <1>2 DEF Own, IsOwn
<1>7. Shape(Own)'
  <2>1. Shape(Own)
    BY DEF OwnInv, Owns
  <2>. QED  BY <1>3, <1>6, <2>1, OwnFields DEF Shape, IsOwn
<1>8. Mine(Own)' = Mine(Own)
  BY <1>6, OwnFields DEF Mine
<1>9. Mine(Own) \subseteq heap /\ heap \subseteq Mine(Own) \cup excused
  BY <1>4, OwnFields DEF OwnInv, Owns
<1>10. Owns(Own)'
  BY <1>1, <1>5, <1>6, <1>7, <1>8, <1>9 DEF Owns
<1>11. StageInv'
  BY <1>1, <1>2 DEF StageInv, Listed
<1>. QED  BY <1>10, <1>11 DEF OwnInv

LEMMA OwnStep == TableInv /\ OwnInv /\ [Next]_vars => OwnInv'
<1> SUFFICES ASSUME TableInv, OwnInv, [Next]_vars PROVE OwnInv'
  OBVIOUS
<1>1. CASE Open \/ ParseDictionary \/ OpenFile \/ Probe \/ InputOpened \/ InfoFound
  BY <1>1, OpenOwns, ParseOwns, OpenFileOwns, ProbeOwns, InputOwns, InfoOwns
<1>2. CASE OptionsFail \/ Close \/ InfoFails
  <2>1. CloseReader(Own) /\ UNCHANGED <<src, opens>>
    BY <1>2 DEF OptionsFail, Close, InfoFails
  <2>. QED  BY <2>1, ClosedOwns DEF OwnInv
<1>3. CASE InputFails
  <2>. DEFINE o == [CloseInput(Own) EXCEPT !.dict = Null, !.heap = @ \ {dict}]
  <2>1. pc = "input" /\ CloseReader(o) /\ UNCHANGED <<src, opens>>
    BY <1>3 DEF InputFails
  <2>2. Owns(o)
    BY <2>1, InputClosed
  <2>. HIDE DEF o
  <2>. QED  BY <2>1, <2>2, ClosedOwns
<1>4. CASE \/ SetActiveStream \/ SetSpeed \/ Read \/ SeekTime \/ ReadFails \/ ReadReturns
           \/ SeekReturns \/ Tick \/ FileAccess \/ FileAnswers \/ UNCHANGED vars
  <2>1. OwnKept
    BY <1>4 DEF SetActiveStream, SetSpeed, Read, SeekTime, ReadFails, ReadReturns, SeekReturns,
                Tick, FileAccess, FileAnswers, ownVars, tableVars, vars, OwnKept
  <2>2. pc' = pc \/ {pc, pc'} \subseteq Listed
    BY <1>4 DEF SetActiveStream, SetSpeed, Read, SeekTime, ReadFails, ReadReturns, SeekReturns,
                Tick, FileAccess, FileAnswers, vars, Listed
  <2>3. Owns(Own)'
    BY <2>1, OwnKeptOwns DEF OwnInv
  <2>4. StageInv'
    BY <2>1, <2>2 DEF OwnInv, StageInv, OwnKept, Listed, Local
  <2>. QED  BY <2>3, <2>4 DEF OwnInv
<1>. QED  BY <1>1, <1>2, <1>3, <1>4 DEF Next, Returns

LEMMA OwnHolds == Spec => []OwnInv
<1>1. Init => OwnInv
  <2> SUFFICES ASSUME Init PROVE OwnInv
    OBVIOUS
  <2>1. /\ ctx = Null /\ pb = Null /\ io = Null /\ file = Null /\ stdio = Null /\ dict = Null
        /\ heap = {} /\ misuse = FALSE /\ streams = EmptyTable.streams /\ pc = "closed"
    BY DEF Init, EmptyTable
  <2>2. Mine(Own) = {} /\ ExtradataOf(streams) = {}
    BY <2>1, OwnFields, NoExtradata DEF Mine
  <2>3. Shape(Own)
    BY <2>1, OwnFields, Differ DEF Shape, IsOwn
  <2>4. Owns(Own)
    BY <2>1, <2>2, <2>3, OwnFields DEF Owns
  <2>. QED  BY <2>1, <2>4 DEF OwnInv, StageInv, Listed
<1>. QED  BY <1>1, OwnStep, TableHolds, PTL DEF Spec

\* Whatever the input, however Open ends and however often the client opens and
\* closes, what is allocated is freed once; a closed reader has left nothing but
\* the dictionaries and the byte contexts that Close gives up.
THEOREM FreedOnce == Spec => []ReleasedOnce
<1>1. TableInv /\ OwnInv => ReleasedOnce
  <2> SUFFICES ASSUME TableInv, OwnInv PROVE ReleasedOnce
    OBVIOUS
  <2>1. misuse = FALSE
    BY OwnFields DEF OwnInv, Owns
  <2>2. ASSUME pc = "closed" PROVE heap \subseteq excused
    <3>1. ctx = Null /\ pb = Null /\ io = Null /\ file = Null /\ stdio = Null /\ dict = Null
      BY <2>2, OwnFields DEF OwnInv, StageInv, Owns, Shape
    <3>2. ExtradataOf(streams) = {}
      BY <2>2, NoExtradata DEF TableInv, Listed
    <3>3. Mine(Own) = {}
      BY <3>1, OwnFields DEF Mine
    <3>. QED  BY <3>2, <3>3, OwnFields DEF OwnInv, Owns
  <2>. QED  BY <2>1, <2>2 DEF ReleasedOnce
<1>. QED  BY <1>1, TableHolds, OwnHolds, PTL

-----------------------------------------------------------------------------
(***************************************************************************)
(* Types.                                                                  *)
(***************************************************************************)

\* Only a dictionary or a byte context of an Open is given up.
LEMMA GivenUpBy ==
    ASSUME NEW o, Owns(o), CloseAll(o)
    PROVE  /\ excused' \subseteq excused \cup {Obj("dict"), Obj("io")}
           /\ o.ctx = Null /\ o.dict = Null => excused' = excused
<1>1. excused' = excused \cup GivenUp(o)
  BY CloseOwned
<1>2. GivenUp(o) \subseteq {Obj("dict"), Obj("io")}
  BY DEF Owns, Shape, GivenUp, Replaced
<1>3. o.ctx = Null /\ o.dict = Null => GivenUp(o) = {}
  BY DEF GivenUp, Replaced
<1>. QED  BY <1>1, <1>2, <1>3

LEMMA ExcusedStep ==
    ASSUME OwnInv, [Next]_vars
    PROVE  /\ excused' \subseteq excused \cup {Obj("dict"), Obj("io")}
           /\ pc = "closed" => excused' = excused
<1>0. Owns(Own)
  BY DEF OwnInv
<1>1. CASE OptionsFail \/ InfoFails
  BY <1>0, <1>1, GivenUpBy DEF OptionsFail, InfoFails, CloseReader
<1>2. CASE Close
  <2>1. CloseAll(Own)
    BY <1>2 DEF Close, CloseReader
  <2>2. pc = "closed" => Own.ctx = Null /\ Own.dict = Null
    BY OwnFields DEF OwnInv, StageInv
  <2>. QED  BY <1>0, <2>1, <2>2, GivenUpBy
<1>3. CASE InputFails
  <2>. DEFINE o == [CloseInput(Own) EXCEPT !.dict = Null, !.heap = @ \ {dict}]
  <2>1. pc = "input" /\ CloseAll(o)
    BY <1>3 DEF InputFails, CloseReader
  <2>2. Owns(o)
    BY <2>1, InputClosed
  <2>. HIDE DEF o
  <2>. QED  BY <2>1, <2>2, GivenUpBy
<1>4. CASE Probe
  <2>1. pc = "probe" /\ (excused' = excused \/ CloseAll(Own))
    BY <1>4 DEF Probe, CloseReader
  <2>. QED  BY <1>0, <2>1, GivenUpBy
<1>5. CASE OpenFile
  <2>. DEFINE o == [Own EXCEPT !.file = Obj("file"), !.heap = heap \cup {Obj("file")}]
  <2>1. o = [Own EXCEPT !.file = Obj("file"), !.heap = @ \cup {Obj("file")}]
    BY OwnFields
  <2>2. pc = "source" /\ (excused' = excused \/ CloseAll(o))
    BY <1>5, <2>1 DEF OpenFile, CloseReader
  <2>3. Owns(o)
    BY <2>2, WithFile
  <2>. HIDE DEF o
  <2>. QED  BY <2>2, <2>3, GivenUpBy
<1>6. CASE ParseDictionary
  <2>1. pc = "options"
    BY <1>6 DEF ParseDictionary
  <2>2. PICK d \in {Null, Obj("dict")} :
           \/ CloseReader([Own EXCEPT !.dict = d, !.heap = @ \cup ({d} \ {Null})])
           \/ excused' = excused
    BY <1>6 DEF ParseDictionary
  <2>. DEFINE o == [Own EXCEPT !.dict = d, !.heap = heap \cup ({d} \ {Null})]
  <2>3. o = [Own EXCEPT !.dict = d, !.heap = @ \cup ({d} \ {Null})]
    BY OwnFields
  <2>4. CloseAll(o) \/ excused' = excused
    BY <2>2, <2>3 DEF CloseReader
  <2>5. Owns(o)
    BY <2>1, WithDictionary
  <2>. HIDE DEF o
  <2>. QED  BY <2>1, <2>4, <2>5, GivenUpBy
<1>7. CASE \/ Open \/ InputOpened \/ InfoFound \/ SetActiveStream \/ SetSpeed \/ Read \/ SeekTime
           \/ ReadFails \/ ReadReturns \/ SeekReturns \/ Tick \/ FileAccess \/ FileAnswers
           \/ UNCHANGED vars
  BY <1>7 DEF Open, InputOpened, InfoFound, SetActiveStream, SetSpeed, Read, SeekTime, ReadFails,
              ReadReturns, SeekReturns, Tick, FileAccess, FileAnswers, vars
<1>. QED  BY <1>1, <1>2, <1>3, <1>4, <1>5, <1>6, <1>7 DEF Next, Returns

\* An Open is under way, or the reader is open, only after the first Open.
CountInv ==
    /\ opens \in 0 .. MaxOpens /\ (pc # "closed" => opens >= 1)
    /\ excused \subseteq Objects

LEMMA CountStep == OwnInv /\ CountInv /\ [Next]_vars => CountInv'
<1> SUFFICES ASSUME OwnInv, CountInv, [Next]_vars PROVE CountInv'
  OBVIOUS
<1>0. MaxOpens \in Nat
  BY Constants
<1>1. CASE Open
  <2>1. opens < MaxOpens /\ opens' = opens + 1 /\ excused' = excused
    BY <1>1 DEF Open
  <2>. QED  BY <1>0, <2>1 DEF CountInv, Objects
<1>2. CASE ~Open
  <2>1. opens' = opens /\ (pc = "closed" => pc' = "closed")
    BY <1>2 DEF Next, Returns, OptionsFail, Close, InfoFails, InputFails, Probe, OpenFile,
                ParseDictionary, CloseReader, InputOpened, InfoFound, SetActiveStream, SetSpeed,
                Read, SeekTime, ReadFails, ReadReturns, SeekReturns, Tick, FileAccess, FileAnswers,
                vars, Calls
  <2>2. excused' \subseteq Objects
    <3>1. CASE pc = "closed"
      BY <3>1, ExcusedStep DEF CountInv
    <3>2. CASE pc # "closed"
      <4>1. opens \in 1 .. opens
        BY <3>2 DEF CountInv
      <4>2. {Obj("dict"), Obj("io")} \subseteq Objects
        BY <4>1 DEF Obj, Objects
      <4>. QED  BY <4>2, ExcusedStep DEF CountInv
    <3>. QED  BY <3>1, <3>2
  <2>3. Objects' = Objects
    BY <2>1 DEF Objects
  <2>. QED  BY <2>1, <2>2, <2>3 DEF CountInv
<1>. QED  BY <1>1, <1>2

FlagsInv ==
    /\ pc \in {"closed", "options", "source", "open", "undefined"} \cup Calls
    /\ eof \in BOOLEAN /\ speed \in {-1, 0, 1} /\ paused \in BOOLEAN /\ blocked \in BOOLEAN

LEMMA FlagsStep == FlagsInv /\ [Next]_vars => FlagsInv'
<1> SUFFICES ASSUME FlagsInv, [Next]_vars PROVE FlagsInv'
  OBVIOUS
<1>1. pc' \in {"closed", "options", "source", "open", "undefined"} \cup Calls
  BY DEF FlagsInv, Next, Returns, Open, OptionsFail, Close, InfoFails, InputFails, Probe, OpenFile,
         ParseDictionary, CloseReader, InputOpened, InfoFound, SetActiveStream, SetSpeed, Read,
         SeekTime, ReadFails, ReadReturns, SeekReturns, Tick, FileAccess, FileAnswers, vars, Calls
<1>2. speed' \in {-1, 0, 1}
  BY DEF FlagsInv, Next, Returns, Open, OptionsFail, Close, InfoFails, InputFails, Probe, OpenFile,
         ParseDictionary, CloseReader, InputOpened, InfoFound, SetActiveStream, SetSpeed, Read,
         SeekTime, ReadFails, ReadReturns, SeekReturns, Tick, FileAccess, FileAnswers, vars
<1>3. eof' \in BOOLEAN
  <2>1. TimedOut \in BOOLEAN
    BY DEF TimedOut
  <2>2. \/ eof' = eof \/ eof' = FALSE \/ eof' = TRUE \/ eof' = TimedOut \/ eof' \in BOOLEAN
    BY DEF Next, Returns, Open, OptionsFail, Close, InfoFails, InputFails, Probe, OpenFile,
           ParseDictionary, CloseReader, InputOpened, InfoFound, SetActiveStream, SetSpeed, Read,
           SeekTime, ReadFails, ReadReturns, SeekReturns, Tick, FileAccess, FileAnswers, vars
  <2>. QED  BY <2>1, <2>2, Zenon DEF FlagsInv
<1>4. paused' \in BOOLEAN
  <2>1. paused' = paused \/ paused' = FALSE \/ paused' = TRUE
    BY DEF Next, Returns, Open, OptionsFail, Close, InfoFails, InputFails, Probe, OpenFile,
           ParseDictionary, CloseReader, InputOpened, InfoFound, SetActiveStream, SetSpeed, Read,
           SeekTime, ReadFails, ReadReturns, SeekReturns, Tick, FileAccess, FileAnswers, vars
  <2>. QED  BY <2>1, Zenon DEF FlagsInv
<1>5. blocked' \in BOOLEAN
  <2>1. blocked' = blocked \/ blocked' = FALSE \/ blocked' = TRUE
    BY DEF Next, Returns, Open, OptionsFail, Close, InfoFails, InputFails, Probe, OpenFile,
           ParseDictionary, CloseReader, InputOpened, InfoFound, SetActiveStream, SetSpeed, Read,
           SeekTime, ReadFails, ReadReturns, SeekReturns, Tick, FileAccess, FileAnswers, vars,
           clockVars
  <2>. QED  BY <2>1, Zenon DEF FlagsInv
<1>. QED  BY <1>1, <1>2, <1>3, <1>4, <1>5, Zenon DEF FlagsInv

\* What the reader holds are objects of an Open, or nothing.
LEMMA OwnTypes ==
    ASSUME TableInv, OwnInv, CountInv
    PROVE  /\ {ctx, pb, io, file, dict} \subseteq Objects \cup {Null}
           /\ stdio \in Objects \cup {Null, Stdin}
           /\ heap \subseteq Objects \cup {Extra(i) : i \in 0 .. MaxStreams - 1}
<1>1. /\ {ctx, pb, io, file, dict} \subseteq Objects \cup {Null}
      /\ stdio \in Objects \cup {Null, Stdin}
  <2>1. CASE pc = "closed"
    <3>1. ctx = Null /\ pb = Null /\ io = Null /\ file = Null /\ stdio = Null /\ dict = Null
      BY <2>1, OwnFields DEF OwnInv, StageInv, Owns, Shape
    <3>. QED  BY <3>1
  <2>2. CASE pc # "closed"
    <3>1. opens \in 1 .. opens
      BY <2>2 DEF CountInv
    <3>2. {Obj("context"), Obj("pb"), Obj("io"), Obj("file"), Obj("FILE"), Obj("dict")}
             \subseteq Objects
      BY <3>1 DEF Obj, Objects
    <3>. QED  BY <3>2, OwnFields DEF OwnInv, Owns, Shape
  <2>. QED  BY <2>1, <2>2
<1>2. Mine(Own) \subseteq Objects
  BY <1>1, OwnFields DEF Mine
<1>3. ExtradataOf(streams) \subseteq {Extra(i) : i \in 0 .. MaxStreams - 1}
  <2>1. DOMAIN streams = 0 .. MaxStreams - 1
    BY DEF TableInv, TableTypes, TableNow, Places
  <2>. QED  BY <2>1 DEF ExtradataOf
<1>. QED  BY <1>1, <1>2, <1>3, OwnFields DEF OwnInv, Owns, CountInv

\* The types, for any inputs, any table of streams and any timeout.
THEOREM TypeCorrect == Spec => []TypeOK
<1>1. Init => CountInv
  BY Constants DEF Init, CountInv
<1>2. Init => FlagsInv
  BY DEF Init, FlagsInv
<1>3. ASSUME ClockInv, TableInv, OwnInv, CountInv, FlagsInv PROVE TypeOK
  <2>1. /\ elapsed \in 0 .. LastTick /\ waited \in 0 .. LastTick
        /\ budget \in {0, Timeout, 3 * Timeout} /\ discarded \in Nat
    BY <1>3, Constants DEF ClockInv, LastTick
  <2>2. /\ src \in Sources /\ count \in [Types -> Nat] /\ index \in [Types -> -1 .. MaxStreams - 1]
        /\ streams \in [0 .. MaxStreams - 1 -> [type : Types \cup {"none"}, index : Nat,
                                                id : 0 .. MaxStreams - 1, extra : BOOLEAN]]
    BY <1>3 DEF TableInv, TableTypes, TableNow, Streams, Places
  <2>3. misuse \in BOOLEAN
    <3>1. misuse = FALSE
      BY <1>3, OwnFields DEF OwnInv, Owns
    <3>. QED  BY <3>1
  <2>4. opens \in 0 .. MaxOpens /\ excused \subseteq Objects
    BY <1>3 DEF CountInv
  <2>. QED  BY <1>3, <2>1, <2>2, <2>3, <2>4, OwnTypes, Zenon DEF TypeOK, FlagsInv
<1>. QED  BY <1>1, <1>2, <1>3, ClockHolds, TableHolds, OwnHolds, CountStep, FlagsStep, PTL DEF Spec
=============================================================================
