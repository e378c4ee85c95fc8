---------------------------------- MODULE Log ----------------------------------
(***************************************************************************)
(* CLog (utils/log.cpp): the log file, in which a line that repeats the    *)
(* one before is only counted.  All threads log, each call under           *)
(* m_log_mutex: a call is one step.  The client calls SetLogLevel, then    *)
(* Init, and never Close.                                                  *)
(*                                                                         *)
(* What the file says is compared with what was logged: "Previous line     *)
(* repeats n times." is about the line before it in the file.              *)
(***************************************************************************)
EXTENDS Integers, Sequences

CONSTANTS
    Lines,    \* the lines that are logged, with their arguments put in
    Blank     \* those of which nothing is left when spaces and ends of line are cut

Levels == 0 .. 6            \* LOGDEBUG, LOGINFO, LOGNOTICE, ..., LOGFATAL
LogNotice == 2
LogLevels == -1 .. 1        \* LOG_LEVEL_NONE, LOG_LEVEL_NORMAL, LOG_LEVEL_DEBUG

\* "Log level changed to %d"
Changed(n) == <<"changed", n>>

VARIABLES
    logLevel,      \* m_logLevel
    open,          \* m_file is not NULL
    out,           \* what is in the file
    repeatCount,   \* m_repeatCount
    repeatLevel,   \* m_repeatLogLevel
    repeatLine,    \* m_repeatLine
    logged,        \* history: what was to be in the file, and at which level
    told           \* history: how much of that the file told up to each of its lines

repeatVars == <<repeatCount, repeatLevel, repeatLine>>
vars == <<logLevel, open, out, repeatVars, logged, told>>

Init ==
    /\ logLevel = -1 /\ open = FALSE /\ out = <<>>
    /\ repeatCount = 0 /\ repeatLevel = -1 /\ repeatLine = <<>>
    /\ logged = <<>> /\ told = <<>>

-----------------------------------------------------------------------------

Entry(level, line) == [kind |-> "line", level |-> level, line |-> line]
Repeats(level, n)  == [kind |-> "repeats", level |-> level, times |-> n]

\* Whether Log does anything at all.
Wanted(level) == open /\ (logLevel > 0 \/ (logLevel > -1 /\ level >= LogNotice))

NotWanted(level) ==
    /\ ~Wanted(level)
    /\ UNCHANGED <<out, repeatVars, logged, told>>

\* The line before, once more.
CountRepeat(level, line) ==
    /\ Wanted(level)
    /\ repeatLevel = level /\ repeatLine = line
    /\ repeatCount' = repeatCount + 1
    /\ logged' = Append(logged, <<level, line>>)
    /\ UNCHANGED <<out, repeatLevel, repeatLine, told>>

\* Another line, which a count of the one before may precede.  A blank one is not
\* written, but remembered.
WriteLine(level, line) ==
    /\ Wanted(level)
    /\ ~(repeatLevel = level /\ repeatLine = line)
    /\ LET counted == IF repeatCount > 0 THEN Append(out, Repeats(repeatLevel, repeatCount))
                                         ELSE out
           upTo    == IF repeatCount > 0 THEN Append(told, Len(logged)) ELSE told
       IN IF line \in Blank
          THEN out' = counted /\ told' = upTo
          ELSE /\ out' = Append(counted, Entry(level, line))
               /\ told' = Append(upTo, Len(logged) + 1)
    /\ repeatCount' = 0 /\ repeatLevel' = level /\ repeatLine' = line
    /\ logged' = Append(logged, <<level, line>>)

LogLine(level, line) ==
    NotWanted(level) \/ CountRepeat(level, line) \/ WriteLine(level, line)

Log ==
    /\ \E level \in Levels, line \in Lines : LogLine(level, line)
    /\ UNCHANGED <<logLevel, open>>

\* SetLogLevel logs the level that it replaces.
SetLogLevel ==
    /\ logLevel' \in LogLevels
    /\ IF logLevel > -1 THEN LogLine(LogNotice, Changed(logLevel))
                        ELSE UNCHANGED <<out, repeatVars, logged, told>>
    /\ UNCHANGED open

\* CLog::Init opens the file, unless it cannot move the old one away.
Open ==
    /\ logLevel > -1
    /\ open' = TRUE
    /\ UNCHANGED <<logLevel, out, repeatVars, logged, told>>

Next == Log \/ SetLogLevel \/ Open

Spec == Init /\ [][Next]_vars

-----------------------------------------------------------------------------
(***************************************************************************)
(* Properties.                                                             *)
(***************************************************************************)

\* What line e of the file says of what was logged from after a to b.
Says(e, a, b, all) ==
    /\ b <= Len(all)
    /\ IF e.kind = "line"
       THEN b = a + 1 /\ all[b] = <<e.level, e.line>>
       ELSE a > 0 /\ b = a + e.times /\ \A i \in a + 1 .. b : all[i] = all[a]

\* How much the file had told before its line k.
ToldBefore(upTo, k) == IF k = 1 THEN 0 ELSE upTo[k - 1]

\* Every line of the file is true of the part of the log that it is about.
IsTrue(file, upTo, all) ==
    /\ Len(upTo) = Len(file)
    /\ \A k \in 1 .. Len(file) : Says(file[k], ToldBefore(upTo, k), upTo[k], all)

\* The lines of the file account for all that was logged, in its order, by all
\* threads: each of them for one line or for that many repetitions, and what is
\* not in the file yet are repetitions of its last line.
LogIsComplete ==
    /\ IsTrue(out, told, logged)
    /\ LET n == ToldBefore(told, Len(told) + 1)
       IN /\ Len(logged) = n + repeatCount
          /\ \A i \in n + 1 .. Len(logged) : n > 0 /\ logged[i] = logged[n]
=============================================================================
