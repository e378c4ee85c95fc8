--------------------------------- MODULE Reader ---------------------------------
(***************************************************************************)
(* OMXReader (OMXReader.cpp) and the CFile (File.cpp) under it: how an     *)
(* input is opened and closed and who owns what, the table of streams, and *)
(* the timeout of calls into libavformat.  What Read does with a packet is *)
(* in Transcoder; here it matters whether the reader gives one out.        *)
(*                                                                         *)
(* One thread calls the reader.  A call of libavformat that accesses the   *)
(* input takes time: it begins in one step and ends in another, and time   *)
(* passes in between.  For a local input libavformat calls back            *)
(* (dvd_file_read, dvd_file_seek) and the reader calls fread, which may    *)
(* block; for a URL it waits itself and polls interrupt_cb.  main opens    *)
(* with live = FALSE, and nothing ever sets g_abort.                       *)
(***************************************************************************)
EXTENDS Integers, Sequences, FiniteSets, Functions

CONSTANTS
    Sources,     \* the inputs: see SourceSet
    MaxStreams,  \* MAX_STREAMS
    Timeout,     \* timeout_default_duration, in ticks; 0 for none
    MaxOpens     \* how often the client calls Open (bound)

Types   == {"audio", "video", "subtitle"}
Kinds   == {"url", "file", "fifo", "pipe"}
Ids(s)  == 0 .. Len(s.types) - 1
SourceSet(s) ==
    /\ s.kind \in Kinds
    /\ s.types \in Seq(Types \cup {"picture", "data"})  \* of stream 0, 1, ...
    /\ s.extra \subseteq Ids(s)                         \* those with extradata
    /\ s.programs \in Seq(Seq(Ids(s)))                   \* none lists a stream twice
    /\ \A n \in DOMAIN s.programs : IsInjective(s.programs[n])

ASSUME ReaderAssumption ==
    /\ \A s \in Sources : SourceSet(s)
    /\ MaxStreams \in Nat \ {0} /\ Timeout \in Nat /\ MaxOpens \in Nat

VARIABLES
    pc,         \* where the reader is; "undefined" after a write outside m_streams
    src,        \* the input
    ctx,        \* m_pFormatContext
    pb,         \* external: its pb
    io,         \* m_ioContext, with its buffer
    file,       \* m_pFile
    stdio,      \* m_pFile->m_pFile
    dict,       \* d, a local variable of Open
    heap,       \* what is allocated
    misuse,     \* something was freed that was not allocated
    streams,    \* m_streams
    count,      \* m_audio_count, m_video_count, m_subtitle_count
    index,      \* m_audio_index, m_video_index, m_subtitle_index
    eof,        \* m_eof
    speed,      \* m_speed
    paused,     \* external: libavformat has paused the input
    elapsed,    \* now - timeout_start
    budget,     \* timeout_duration
    blocked,    \* fread waits for data
    opens,      \* history: how often Open was called
    excused,    \* history: what is allocated and in no variable any more
    waited,     \* history: time since the access under way began
    discarded   \* history: how long Read waited for the last packet it discarded

ownVars    == <<ctx, pb, io, file, stdio, dict, heap, misuse>>
tableVars  == <<streams, count, index>>
clockVars  == <<elapsed, budget, waited, blocked>>
vars == <<pc, src, ownVars, tableVars, eof, speed, paused, clockVars,
          opens, excused, discarded>>

Null == <<"null", 0>>
Stdin == <<"stdin", 0>>
Obj(kind) == <<kind, opens>>
Extra(id) == <<"extradata", id>>

Local == src.kind # "url"

NoStream == [type |-> "none", index |-> 0, id |-> 0, extra |-> FALSE]

Init ==
    /\ pc = "closed" /\ src \in Sources
    /\ ctx = Null /\ pb = Null /\ io = Null /\ file = Null /\ stdio = Null
    /\ dict = Null /\ heap = {} /\ misuse = FALSE
    /\ streams = [i \in 0 .. MaxStreams - 1 |-> NoStream]
    /\ count = [t \in Types |-> 0] /\ index = [t \in Types |-> -1]
    /\ eof = FALSE /\ speed = 1 /\ paused = FALSE
    /\ elapsed = 0 /\ budget = 0 /\ waited = 0 /\ blocked = FALSE
    /\ opens = 0 /\ excused = {} /\ discarded = Timeout + 1

-----------------------------------------------------------------------------
(***************************************************************************)
(* The timeout.                                                            *)
(***************************************************************************)

\* Mutant: a call goes on with the time of the one before.
KeepTimeout(n) == UNCHANGED elapsed /\ budget' = n * Timeout /\ waited' = 0

\* RESET_TIMEOUT(n)
ResetTimeout(n) == elapsed' = 0 /\ budget' = n * Timeout /\ waited' = 0

\* Mutant: time is up only after the longest timeout there is.
TimedOutLate == budget > 0 /\ elapsed > 3 * Timeout + 1

\* interrupt_cb
TimedOut == budget > 0 /\ elapsed > budget

LastTick == 3 * Timeout + 1

\* The calls of libavformat that access the input.
Calls == {"probe", "input", "info", "read", "seek"}

Tick ==
    /\ pc \in Calls \cup {"open"}
    /\ elapsed < LastTick
    /\ elapsed' = elapsed + 1
    /\ waited' = IF pc \in Calls THEN waited + 1 ELSE waited
    /\ UNCHANGED <<pc, src, ownVars, tableVars, eof, speed, paused, budget,
                   blocked, opens, excused, discarded>>

\* dvd_file_read and dvd_file_seek: the timeout is reset before interrupt_cb is
\* asked, so that it sees no time, and then CFile accesses the file.
FileAccess ==
    /\ pc \in Calls /\ Local /\ ~blocked
    /\ ResetTimeout(1)
    /\ blocked' = TRUE
    /\ UNCHANGED <<pc, src, ownVars, tableVars, eof, speed, paused, opens,
                   excused, discarded>>

\* The file has answered: data, its end, or an error.
FileAnswers ==
    /\ blocked
    /\ blocked' = FALSE
    /\ UNCHANGED <<pc, src, ownVars, tableVars, eof, speed, paused, elapsed,
                   budget, waited, opens, excused, discarded>>

-----------------------------------------------------------------------------
(***************************************************************************)
(* The table of streams.                                                   *)
(***************************************************************************)

\* Mutant: the stream is numbered after it is counted.
NumberedLate(n) == n + 1

\* m_streams[id].index = m_audio_count; the count follows.
Numbered(n) == n

\* AddStream, on a table [streams, count]; attached pictures and other types are
\* left out.  An id that is MaxStreams passes the test and is outside the table.
Wanted(id) == id <= MaxStreams /\ src.types[id + 1] \in Types

AddStream(table, id) ==
    IF ~Wanted(id) \/ id = MaxStreams THEN table
    ELSE LET t == src.types[id + 1]
         IN [streams |-> [table.streams EXCEPT ![id] =
                 [type |-> t, index |-> Numbered(table.count[t]), id |-> id,
                  extra |-> id \in src.extra]],
             count |-> [table.count EXCEPT ![t] = @ + 1]]

\* The first program that has streams, or else all streams.
Selected ==
    LET used == {n \in DOMAIN src.programs : src.programs[n] # <<>>}
    IN IF used = {} THEN [i \in 1 .. Len(src.types) |-> i - 1]
       ELSE src.programs[CHOOSE n \in used : \A m \in used : n <= m]

EmptyTable == [streams |-> [i \in 0 .. MaxStreams - 1 |-> NoStream],
               count |-> [t \in Types |-> 0]]

\* GetStreams: the loop that adds the streams.
Table ==
    LET added[n \in 0 .. Len(Selected)] ==
            IF n = 0 THEN EmptyTable ELSE AddStream(added[n - 1], Selected[n])
    IN  added[Len(Selected)]

\* Mutant: the index of the loop is left in place when there is no such stream.
SetActiveAnyway(table, t, n) ==
    IF n < table.count[t]
    THEN CHOOSE i \in 0 .. MaxStreams - 1 :
            table.streams[i].type = t /\ table.streams[i].index = n
    ELSE MaxStreams

\* SetActiveStreamInternal: n is cut to the last stream of the type.
SetActive(table, t, n) ==
    LET last  == table.count[t] - 1
        found == {i \in 0 .. MaxStreams - 1 :
                    /\ table.streams[i].type = t
                    /\ table.streams[i].index = IF n > last THEN last ELSE n}
    IN IF found = {} THEN -1 ELSE CHOOSE i \in found : \A j \in found : j <= i

\* IsActive(type, stream_index)
IsActive(t, id) ==
    /\ index[t] # -1
    /\ streams[index[t]].id = id /\ streams[index[t]].type = t

\* GetCodecName, GetStreamLanguage, GetStreamName and GetStreamType of stream n
\* of a type: they take the first of these, and without one the last of them
\* returns what its buffer happened to hold.
Found(t, n) == {i \in 0 .. MaxStreams - 1 : streams[i].type = t /\ streams[i].index = n}

\* GetHints and GetCodecName of the active stream of a type, or none.
ActiveStream(t) == IF index[t] = -1 THEN {} ELSE {index[t]}

\* ClearStreams
ExtradataOf(table) == {Extra(i) : i \in {j \in DOMAIN table : table[j].extra}}

ClearTable ==
    /\ streams' = EmptyTable.streams
    /\ count' = EmptyTable.count
    /\ index' = [t \in Types |-> -1]

-----------------------------------------------------------------------------
(***************************************************************************)
(* Close, which also ends every Open that fails.  own is what the reader   *)
(* has at that point, the d of Open included.                              *)
(***************************************************************************)

Own == [ctx |-> ctx, pb |-> pb, io |-> io, file |-> file, stdio |-> stdio,
        dict |-> dict, heap |-> heap, misuse |-> misuse]

Free(own, obj) ==
    [own EXCEPT !.heap = @ \ {obj}, !.misuse = @ \/ obj \notin own.heap]

\* avformat_close_input, and what avformat_open_input does when it fails: a pb
\* that the reader has set is the reader's.
CloseInput(own) ==
    LET freed == Free(own, own.ctx)
    IN [(IF own.pb # Null /\ ~Local THEN Free(freed, own.pb) ELSE freed)
          EXCEPT !.ctx = Null, !.pb = Null]

\* "demuxer changed our byte context behind our back, possible memleak"
Replaced(own) == own.ctx # Null /\ own.io # Null /\ own.pb \notin {Null, own.io}

CloseContext(own) ==
    IF own.ctx = Null THEN own
    ELSE CloseInput(IF Replaced(own) THEN [own EXCEPT !.io = own.pb] ELSE own)

\* Mutant: m_ioContext is not set to NULL.
FreeIoOnly(own) == IF own.io = Null THEN own ELSE Free(own, own.io)

FreeIo(own) == IF own.io = Null THEN own ELSE [Free(own, own.io) EXCEPT !.io = Null]

\* CFile::Close, which leaves stdin open, and delete.
CloseFile(own) ==
    IF own.file = Null THEN own
    ELSE LET closed == IF own.stdio \in {Null, Stdin} THEN own
                       ELSE Free(own, own.stdio)
         IN [Free(closed, own.file) EXCEPT !.file = Null, !.stdio = Null]

FreeExtradata(own) ==
    LET all == ExtradataOf(streams)
    IN [own EXCEPT !.heap = @ \ all, !.misuse = @ \/ ~(all \subseteq own.heap)]

CloseAll(own) ==
    LET end == FreeExtradata(CloseFile(FreeIo(CloseContext(own))))
    IN /\ ctx' = end.ctx /\ pb' = end.pb /\ io' = end.io
       /\ file' = end.file /\ stdio' = end.stdio
       /\ dict' = Null /\ heap' = end.heap /\ misuse' = end.misuse
       /\ excused' = excused \cup ({own.dict} \ {Null})
                             \cup (IF Replaced(own) THEN {own.io} ELSE {})

CloseReader(own) ==
    /\ CloseAll(own)
    /\ ClearTable
    /\ eof' = FALSE /\ speed' = 1 /\ paused' = FALSE
    /\ pc' = "closed"

\* The client calls Close, at the end and once more in the destructor.
Close ==
    /\ pc \in {"closed", "open"}
    /\ CloseReader(Own)
    /\ UNCHANGED <<src, clockVars, opens, discarded>>

-----------------------------------------------------------------------------
(***************************************************************************)
(* Open.                                                                   *)
(***************************************************************************)

Open ==
    /\ pc = "closed" /\ opens < MaxOpens
    /\ opens' = opens + 1
    /\ src' \in Sources
    /\ ResetTimeout(3)
    /\ speed' = 1
    /\ ClearTable
    /\ ctx' = <<"context", opens + 1>>
    /\ heap' = (heap \ ExtradataOf(streams)) \cup {ctx'}
    /\ pc' = "options"
    /\ UNCHANGED <<pb, io, file, stdio, dict, misuse, eof, paused, blocked,
                   excused, discarded>>

\* lavfdopts is invalid.
OptionsFail ==
    /\ pc = "options"
    /\ CloseReader(Own)
    /\ UNCHANGED <<src, clockVars, opens, discarded>>

\* avdict is parsed into d, which may be empty; it is invalid, maybe after some
\* entries, or not.
ParseDictionary ==
    /\ pc = "options"
    /\ \E d \in {Null, Obj("dict")} :
          \/ CloseReader([Own EXCEPT !.dict = d, !.heap = @ \cup ({d} \ {Null})])
          \/ /\ dict' = d /\ heap' = heap \cup ({d} \ {Null})
             /\ pc' = IF Local THEN "source" ELSE "input"
             /\ UNCHANGED <<ctx, pb, io, file, stdio, misuse, tableVars, eof, speed,
                            paused, excused>>
    /\ UNCHANGED <<src, clockVars, opens, discarded>>

\* IoControl(IOCTRL_SEEK_POSSIBLE, NULL) of the input once it is open: a pipe
\* and a FIFO cannot seek.
SeekPossible == src.kind \notin {"pipe", "fifo"}

\* CFile::Open: "pipe:" is stdin, everything else goes to fopen64.
StdioOpened == IF src.kind = "pipe" THEN Stdin ELSE Obj("FILE")

\* new CFile and its Open, then the context for the callbacks.
OpenFile ==
    /\ pc = "source"
    /\ \/ /\ src.kind # "pipe"
          /\ CloseReader([Own EXCEPT !.file = Obj("file"),
                                     !.heap = @ \cup {Obj("file")}])
       \/ /\ file' = Obj("file")
          /\ stdio' = StdioOpened
          /\ io' = Obj("io")
          /\ heap' = heap \cup ({file', stdio', io'} \ {Stdin})
          /\ pc' = "probe"
          /\ UNCHANGED <<ctx, pb, dict, misuse, tableVars, eof, speed, paused, excused>>
    /\ UNCHANGED <<src, clockVars, opens, discarded>>

\* av_probe_input_buffer
Probe ==
    /\ pc = "probe" /\ ~blocked
    /\ \/ /\ pc' = "input"
          /\ pb' = io
          /\ UNCHANGED <<ctx, io, file, stdio, dict, heap, misuse, tableVars, eof,
                         speed, paused, excused>>
       \/ CloseReader(Own)
    /\ UNCHANGED <<src, clockVars, opens, discarded>>

\* avformat_open_input opens the connection of a URL, or none for some protocols;
\* a demuxer may replace the byte context of a local input.
InputOpened ==
    /\ pc = "input" /\ ~blocked
    /\ dict' = Null                                           \* av_dict_free
    /\ pb' \in IF Local THEN {io, Obj("pb")} ELSE {Null, Obj("pb")}
    /\ heap' = (heap \ {dict}) \cup ({pb'} \ {Null})
    /\ pc' = "info"
    /\ UNCHANGED <<src, ctx, io, file, stdio, misuse, tableVars, eof, speed,
                   paused, clockVars, opens, excused, discarded>>

\* It frees the context when it fails.
InputFails ==
    /\ pc = "input" /\ ~blocked
    /\ CloseReader([CloseInput(Own) EXCEPT !.dict = Null, !.heap = @ \ {dict}])
    /\ UNCHANGED <<src, clockVars, opens, discarded>>

InfoFails ==
    /\ pc = "info" /\ ~blocked
    /\ CloseReader(Own)
    /\ UNCHANGED <<src, clockVars, opens, discarded>>

\* GetStreams and the rest of Open.
InfoFound ==
    /\ pc = "info" /\ ~blocked
    /\ pc' = IF \E i \in DOMAIN Selected : Selected[i] = MaxStreams /\ Wanted(Selected[i])
             THEN "undefined" ELSE "open"
    /\ streams' = Table.streams
    /\ count' = Table.count
    /\ index' = [t \in Types |-> IF Table.count[t] > 0 THEN SetActive(Table, t, 0) ELSE -1]
    /\ heap' = heap \cup ExtradataOf(Table.streams)
    /\ speed' = 1
    /\ UNCHANGED <<src, ctx, pb, io, file, stdio, dict, misuse, eof, paused,
                   clockVars, opens, excused, discarded>>

-----------------------------------------------------------------------------
(***************************************************************************)
(* The open reader.                                                        *)
(***************************************************************************)

SetActiveStream ==
    /\ pc = "open"
    /\ \E t \in Types, n \in 0 .. MaxStreams :
          index' = [index EXCEPT ![t] = SetActive([streams |-> streams, count |-> count], t, n)]
    /\ UNCHANGED <<pc, src, ownVars, streams, count, eof, speed, paused,
                   clockVars, opens, excused, discarded>>

\* DVD_PLAYSPEED_PAUSE is 0.
SetSpeed ==
    /\ pc = "open"
    /\ speed' \in {-1, 0, 1}
    /\ paused' = IF speed # 0 /\ speed' = 0 THEN TRUE
                 ELSE IF speed = 0 /\ speed' # 0 THEN FALSE ELSE paused
    /\ UNCHANGED <<pc, src, ownVars, tableVars, eof, clockVars, opens,
                   excused, discarded>>

Read ==
    /\ pc = "open" /\ ~eof
    /\ ResetTimeout(1)
    /\ pc' = "read"
    /\ UNCHANGED <<src, ownVars, tableVars, eof, speed, paused, blocked,
                   opens, excused, discarded>>

\* av_read_frame fails, the packet is invalid, or there is no memory for it.
ReadFails ==
    /\ pc = "read" /\ ~blocked
    /\ pc' = "open" /\ eof' = TRUE
    /\ UNCHANGED <<src, ownVars, tableVars, speed, paused, clockVars, opens,
                   excused, discarded>>

\* There is a packet; when interrupt_cb says that time is up it is discarded.
ReadReturns ==
    /\ pc = "read" /\ ~blocked
    /\ pc' = "open"
    /\ eof' = TimedOut
    /\ discarded' = IF TimedOut THEN waited ELSE discarded
    /\ UNCHANGED <<src, ownVars, tableVars, speed, paused, clockVars, opens,
                   excused>>

\* SeekTime refuses a local input that cannot seek.
SeekTime ==
    /\ pc = "open"
    /\ ~Local \/ SeekPossible
    /\ ResetTimeout(1)
    /\ pc' = "seek"
    /\ UNCHANGED <<src, ownVars, tableVars, eof, speed, paused, blocked,
                   opens, excused, discarded>>

\* "demuxer will return failure, if you seek to eof"
SeekReturns ==
    /\ pc = "seek" /\ ~blocked
    /\ pc' = "open" /\ eof' \in BOOLEAN
    /\ UNCHANGED <<src, ownVars, tableVars, speed, paused, clockVars, opens,
                   excused, discarded>>

-----------------------------------------------------------------------------

\* libavformat has what it needs, or fails.
Returns ==
    \/ Probe \/ InputOpened \/ InputFails \/ InfoFails \/ InfoFound
    \/ ReadFails \/ ReadReturns \/ SeekReturns

\* Time is up while libavformat waits for the network: the call fails.
Interrupted ==
    /\ ~Local /\ TimedOut
    /\ InputFails \/ InfoFails \/ ReadFails \/ (SeekReturns /\ eof')

Next ==
    \/ Open \/ OptionsFail \/ ParseDictionary \/ OpenFile \/ Close
    \/ SetActiveStream \/ SetSpeed \/ Read \/ SeekTime
    \/ Returns
    \/ Tick \/ FileAccess \/ FileAnswers

Spec == Init /\ [][Next]_vars

\* Time passes, libavformat polls interrupt_cb while it waits for the network,
\* and goes on when a local file has answered.  Nobody makes a file or the
\* network answer.
FairSpec ==
    /\ Spec
    /\ WF_vars(Tick) /\ WF_vars(Interrupted)
    /\ SF_vars(Local /\ Returns)

-----------------------------------------------------------------------------
(***************************************************************************)
(* Properties.                                                             *)
(***************************************************************************)

Objects == {"context", "pb", "io", "file", "FILE", "dict"} \X (1 .. opens)

\* Types.  A write outside m_streams ends what can be said.
TypeOK ==
    /\ pc \in {"closed", "options", "source", "open", "undefined"} \cup Calls
    /\ src \in Sources
    /\ {ctx, pb, io, file, dict} \subseteq Objects \cup {Null}
    /\ stdio \in Objects \cup {Null, Stdin}
    /\ heap \subseteq Objects \cup {Extra(i) : i \in 0 .. MaxStreams - 1}
    /\ misuse \in BOOLEAN
    /\ streams \in [0 .. MaxStreams - 1 ->
                      [type : Types \cup {"none"}, index : Nat,
                       id : 0 .. MaxStreams - 1, extra : BOOLEAN]]
    /\ count \in [Types -> Nat] /\ index \in [Types -> -1 .. MaxStreams - 1]
    /\ eof \in BOOLEAN /\ speed \in {-1, 0, 1} /\ paused \in BOOLEAN
    /\ elapsed \in 0 .. LastTick /\ waited \in 0 .. LastTick
    /\ budget \in {0, Timeout, 3 * Timeout} /\ blocked \in BOOLEAN
    /\ opens \in 0 .. MaxOpens /\ excused \subseteq Objects /\ discarded \in Nat

\* Every way out of Open and every Close, called as often as one likes, frees
\* what was allocated once and only once, but for the dictionary of an Open that
\* fails before avformat_open_input and a byte context that the demuxer has
\* replaced.
ReleasedOnce ==
    /\ ~misuse
    /\ pc = "closed" => heap \subseteq excused

\* main takes the count for "there is video" and the index for "this packet is
\* video": for each type with a stream there is exactly one active stream, after
\* Open as after any SetActiveStream.  Every number below the count names exactly
\* one stream of the file, whatever the order in which a program lists them, so
\* that GetCodecName, GetStreamName and their like find it by that number; one of
\* them is active.  GetHints(type, index), which nothing calls, compares with the
\* position in the table and finds by another.
ExactlyOneActive ==
    pc = "open" => \A t \in Types :
       /\ Cardinality({id \in Ids(src) : IsActive(t, id)}) = IF count[t] > 0 THEN 1 ELSE 0
       /\ \A n \in 0 .. count[t] - 1 :
             \E i \in Ids(src) : Found(t, n) = {i} /\ src.types[i + 1] = t
       /\ ActiveStream(t) \subseteq UNION {Found(t, n) : n \in 0 .. count[t] - 1}

\* Read discards a packet, and ends the input, only when the last access to the
\* input took longer than the timeout: the time that the client spends between
\* its calls does not count.
PromptIsKept == discarded > Timeout

\* A call on a URL returns, whatever the network does.
NetworkCallReturns ==
    pc \in Calls /\ ~Local /\ Timeout > 0 ~> pc \in {"open", "closed", "undefined"}

\* "amount of time file/network operation can stall for before timing out"
StalledCallReturns ==
    pc \in Calls /\ Timeout > 0 ~> pc \in {"open", "closed", "undefined"}
=============================================================================
