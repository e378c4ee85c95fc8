------------------------------- MODULE LogProofs -------------------------------
(***************************************************************************)
(* Proof that the log file accounts for all that was logged, for every set *)
(* of lines of which none is blank.                                        *)
(***************************************************************************)
EXTENDS Log, TLAPS

Text == Lines \cup {Changed(n) : n \in LogLevels} \cup {<<>>}

Item == [kind : {"line"}, level : Int, line : Text]
            \cup [kind : {"repeats"}, level : Int, times : Nat]

TypeOK ==
    /\ out \in Seq(Item) /\ told \in Seq(Nat)
    /\ logged \in Seq(Levels \X Text)
    /\ repeatCount \in Nat /\ repeatLevel \in Levels \cup {-1} /\ repeatLine \in Text

\* What m_repeatLine and m_repeatLogLevel hold: the last line that was logged.
LastIsKept ==
    IF logged = <<>> THEN repeatLevel = -1
    ELSE logged[Len(logged)] = <<repeatLevel, repeatLine>>

IInv == TypeOK /\ LogIsComplete /\ LastIsKept

-----------------------------------------------------------------------------

\* Says looks only at the part of the log that e is about.
LEMMA SaysIsStable ==
    ASSUME NEW S, NEW all \in Seq(S), NEW x \in S, NEW e, NEW a \in Nat, NEW b \in Nat,
           e.kind \in {"line", "repeats"}, e.kind = "repeats" => e.times \in Nat,
           Says(e, a, b, all)
    PROVE  Says(e, a, b, Append(all, x))
<1>1. /\ Len(Append(all, x)) = Len(all) + 1
      /\ \A i \in 1 .. Len(all) : Append(all, x)[i] = all[i]
    OBVIOUS
<1>2. CASE e.kind = "line"
    BY <1>1, <1>2 DEF Says
<1>3. CASE e.kind = "repeats"
    <2>1. /\ b <= Len(all) /\ a > 0 /\ b = a + e.times
          /\ \A i \in a + 1 .. b : all[i] = all[a]
        BY <1>3 DEF Says
    <2>2. b <= Len(Append(all, x))
        BY <1>1, <2>1
    <2>3. \A i \in a + 1 .. b : Append(all, x)[i] = Append(all, x)[a]
        BY <1>1, <2>1
    <2> QED BY <1>3, <2>1, <2>2, <2>3 DEF Says
<1> QED BY <1>2, <1>3

\* A true file stays true when more is logged.
LEMMA StaysTrue ==
    ASSUME NEW file \in Seq(Item), NEW upTo \in Seq(Nat), NEW S, NEW all \in Seq(S), NEW x \in S,
           IsTrue(file, upTo, all)
    PROVE  IsTrue(file, upTo, Append(all, x))
<1> SUFFICES ASSUME NEW k \in 1 .. Len(file)
             PROVE  Says(file[k], ToldBefore(upTo, k), upTo[k], Append(all, x))
    BY DEF IsTrue
<1>1. file[k] \in Item /\ upTo[k] \in Nat /\ ToldBefore(upTo, k) \in Nat
    BY DEF IsTrue, ToldBefore
<1>2. file[k].kind \in {"line", "repeats"} /\ (file[k].kind = "repeats" => file[k].times \in Nat)
    BY <1>1 DEF Item
<1>3. Says(file[k], ToldBefore(upTo, k), upTo[k], all)
    BY DEF IsTrue
<1> QED BY <1>1, <1>2, <1>3, SaysIsStable

\* A true file stays true when a true line is added.
LEMMA AddsTrue ==
    ASSUME NEW file \in Seq(Item), NEW upTo \in Seq(Nat), NEW all, NEW e \in Item, NEW b \in Nat,
           IsTrue(file, upTo, all), Says(e, ToldBefore(upTo, Len(upTo) + 1), b, all)
    PROVE  /\ IsTrue(Append(file, e), Append(upTo, b), all)
           /\ ToldBefore(Append(upTo, b), Len(Append(upTo, b)) + 1) = b
<1>1. /\ Len(upTo) = Len(file) /\ Len(file) \in Nat
      /\ Len(Append(file, e)) = Len(file) + 1 /\ Len(Append(upTo, b)) = Len(upTo) + 1
      /\ Append(file, e)[Len(file) + 1] = e /\ Append(upTo, b)[Len(upTo) + 1] = b
      /\ \A k \in 1 .. Len(file) : Append(file, e)[k] = file[k] /\ Append(upTo, b)[k] = upTo[k]
    BY DEF IsTrue
<1>2. ASSUME NEW k \in 1 .. Len(file) + 1
      PROVE  Says(Append(file, e)[k], ToldBefore(Append(upTo, b), k), Append(upTo, b)[k], all)
    <2>1. ToldBefore(Append(upTo, b), k) = ToldBefore(upTo, k)
        BY <1>1 DEF ToldBefore
    <2>2. CASE k = Len(file) + 1
        BY <1>1, <2>1, <2>2
    <2>3. CASE k \in 1 .. Len(file)
        BY <1>1, <2>1, <2>3 DEF IsTrue
    <2> QED BY <1>1, <2>2, <2>3
<1>3. ToldBefore(Append(upTo, b), Len(Append(upTo, b)) + 1) = b
    BY <1>1 DEF ToldBefore
<1> QED BY <1>1, <1>2, <1>3 DEF IsTrue

-----------------------------------------------------------------------------

\* A line that repeats the one before is counted.
LEMMA CountRepeatStep ==
    ASSUME IInv, NEW level \in Levels, NEW line \in Text, CountRepeat(level, line)
    PROVE  IInv'
<1> DEFINE n == ToldBefore(told, Len(told) + 1)
<1> USE DEF IInv
<1>1. TypeOK'
    BY DEF TypeOK, CountRepeat
<1>2. /\ logged' = Append(logged, <<level, line>>)
      /\ Len(logged') = Len(logged) + 1
      /\ logged'[Len(logged')] = <<level, line>>
      /\ \A i \in 1 .. Len(logged) : logged'[i] = logged[i]
    BY DEF CountRepeat, TypeOK
<1>3. logged # <<>> /\ logged[Len(logged)] = <<level, line>> /\ Len(logged) \in Nat \ {0}
    BY DEF CountRepeat, LastIsKept, TypeOK, Levels
<1>4. LastIsKept'
    BY <1>2, <1>3, SMTT(30) DEF LastIsKept, CountRepeat, TypeOK
<1>5. n \in Nat /\ n' = n
    BY DEF TypeOK, ToldBefore, CountRepeat
<1>6. IsTrue(out, told, logged)'
    BY <1>2, StaysTrue DEF CountRepeat, TypeOK, LogIsComplete
<1>7. Len(logged) = n + repeatCount /\ \A i \in n + 1 .. Len(logged) : n > 0 /\ logged[i] = logged[n]
    BY DEF LogIsComplete
<1>8. n > 0 /\ logged[n] = <<level, line>>
    <2>1. CASE repeatCount = 0
        BY <1>3, <1>5, <1>7, <2>1
    <2>2. CASE repeatCount > 0
        BY <1>3, <1>5, <1>7, <2>2 DEF TypeOK
    <2> QED BY <2>1, <2>2 DEF TypeOK
<1>9. ASSUME NEW i \in n + 1 .. Len(logged')
      PROVE  n > 0 /\ logged'[i] = logged'[n]
    <2>1. n \in 1 .. Len(logged)
        BY <1>3, <1>5, <1>7, <1>8 DEF TypeOK
    <2>2. CASE i \in n + 1 .. Len(logged)
        BY <1>2, <1>5, <1>7, <2>1, <2>2
    <2>3. CASE i = Len(logged')
        BY <1>2, <1>8, <2>1, <2>3
    <2> QED BY <1>2, <1>3, <1>5, <2>2, <2>3
<1>10. Len(logged') = n + repeatCount'
    BY <1>2, <1>5, <1>7 DEF CountRepeat, TypeOK
<1>11. LogIsComplete'
    BY <1>5, <1>6, <1>9, <1>10 DEF LogIsComplete
<1> QED BY <1>1, <1>4, <1>11

\* The count is written, if there is one, and then the line.
LEMMA WriteLineStep ==
    ASSUME IInv, Blank = {}, NEW level \in Levels, NEW line \in Text, WriteLine(level, line)
    PROVE  IInv'
<1> DEFINE n       == ToldBefore(told, Len(told) + 1)
           counted == IF repeatCount > 0 THEN Append(out, Repeats(repeatLevel, repeatCount)) ELSE out
           upTo    == IF repeatCount > 0 THEN Append(told, Len(logged)) ELSE told
<1> USE DEF IInv
<1>1. /\ out' = Append(counted, Entry(level, line))
      /\ told' = Append(upTo, Len(logged) + 1)
      /\ logged' = Append(logged, <<level, line>>)
      /\ repeatCount' = 0 /\ repeatLevel' = level /\ repeatLine' = line
    BY DEF WriteLine
<1>2. /\ Repeats(repeatLevel, repeatCount) \in Item
      /\ Entry(level, line) \in Item
      /\ <<level, line>> \in Levels \X Text
      /\ Len(logged) \in Nat
    BY DEF TypeOK, Repeats, Entry, Item, Levels
<1>3. counted \in Seq(Item) /\ upTo \in Seq(Nat)
    BY <1>2 DEF TypeOK
<1>4. TypeOK'
    BY <1>1, <1>2, <1>3 DEF TypeOK
<1>5. /\ Len(logged') = Len(logged) + 1
      /\ logged'[Len(logged')] = <<level, line>>
    BY <1>1 DEF TypeOK
<1>6. LastIsKept'
    BY <1>1, <1>5 DEF LastIsKept, TypeOK
<1>7. /\ n \in Nat /\ Len(logged) = n + repeatCount
      /\ \A i \in n + 1 .. Len(logged) : n > 0 /\ logged[i] = logged[n]
    BY DEF TypeOK, ToldBefore, LogIsComplete
<1>8. IsTrue(counted, upTo, logged) /\ ToldBefore(upTo, Len(upTo) + 1) = Len(logged)
    <2>1. CASE repeatCount = 0
        BY <1>7, <2>1 DEF LogIsComplete
    <2>2. CASE repeatCount > 0
        <3>1. Says(Repeats(repeatLevel, repeatCount), n, Len(logged), logged)
            BY <1>2, <1>7, <2>2 DEF Says, Repeats, TypeOK
        <3> QED BY <1>2, <2>2, <3>1, AddsTrue DEF TypeOK, LogIsComplete
    <2> QED BY <2>1, <2>2 DEF TypeOK
<1>9. IsTrue(counted, upTo, logged')
    BY <1>1, <1>2, <1>3, <1>8, StaysTrue DEF TypeOK
<1>10. Says(Entry(level, line), Len(logged), Len(logged) + 1, logged')
    BY <1>2, <1>5 DEF Says, Entry
<1> HIDE DEF counted, upTo
<1>11. /\ IsTrue(out, told, logged)'
       /\ ToldBefore(told, Len(told) + 1)' = Len(logged')
    BY <1>1, <1>2, <1>3, <1>5, <1>8, <1>9, <1>10, AddsTrue
<1>12. LogIsComplete'
    BY <1>1, <1>2, <1>5, <1>11 DEF LogIsComplete
<1> QED BY <1>4, <1>6, <1>12

-----------------------------------------------------------------------------

\* When no line is blank, the log file accounts for every line that was logged at
\* a level that is wanted (CLog::Log), whatever the lines and their order are.
THEOREM LogIsFaithful ==
    ASSUME Blank = {}
    PROVE  Spec => []LogIsComplete
<1> DEFINE LevelOK == logLevel \in LogLevels
<1>1. Init => IInv /\ LevelOK
    <2> SUFFICES ASSUME Init PROVE IInv /\ LevelOK
        OBVIOUS
    <2>1. TypeOK /\ LastIsKept
        BY DEF Init, TypeOK, LastIsKept, Text
    <2>2. IsTrue(out, told, logged) /\ ToldBefore(told, Len(told) + 1) = 0
        BY DEF Init, IsTrue, ToldBefore
    <2> QED BY <2>1, <2>2 DEF IInv, LogIsComplete, Init, LogLevels
<1>2. ASSUME IInv, UNCHANGED <<out, repeatVars, logged, told>>
      PROVE  IInv'
    BY <1>2 DEF IInv, repeatVars, TypeOK, LogIsComplete, LastIsKept
<1>3. ASSUME IInv, NEW level \in Levels, NEW line \in Text, LogLine(level, line)
      PROVE  IInv'
    BY <1>2, <1>3, CountRepeatStep, WriteLineStep DEF LogLine, NotWanted
<1>4. IInv /\ LevelOK /\ [Next]_vars => IInv' /\ LevelOK'
    <2> SUFFICES ASSUME IInv, LevelOK, [Next]_vars PROVE IInv' /\ LevelOK'
        OBVIOUS
    <2>1. CASE Log
        BY <1>3, <2>1 DEF Log, Text
    <2>2. CASE SetLogLevel
        <3>1. CASE logLevel > -1
            BY <1>3, <2>2, <3>1 DEF SetLogLevel, Text, Levels, LogNotice
        <3> QED BY <1>2, <2>2, <3>1 DEF SetLogLevel
    <2>3. CASE Open \/ UNCHANGED vars
        BY <1>2, <2>3 DEF Open, vars
    <2> QED BY <2>1, <2>2, <2>3 DEF Next
<1>5. IInv => LogIsComplete
    BY DEF IInv
<1> QED BY <1>1, <1>4, <1>5, PTL DEF Spec
=============================================================================
