----------------------------- MODULE SessionLog -----------------------------
(* Runtime sessions and their bounded logs in NodeAgentLoop                  *)
(* (src/transport/agent-loop.ts): create_session, destroy_session, the log   *)
(* entries that execs append, and get_logs, with a control plane that pages  *)
(* through a log by the cursor of the last chunk it was given. A message is  *)
(* represented by the exec it comes from.                                    *)
EXTENDS Integers, Sequences, FiniteSets

CONSTANTS
    Sessions,    \* session ids
    Writers,     \* execs that log into a session
    LogLimit,    \* sessionLogLimit
    PageSizes,   \* values of the limit parameter of get_logs
    MaxCursor    \* bound: cursors given out per session

ASSUME LogAssumption ==
    /\ LogLimit \in Nat
    /\ PageSizes \subseteq Nat \ {0}
    /\ MaxCursor \in Nat

VARIABLES
    live,        \* keys of the sessions map
    logs,        \* the retained entries of each session
    nextCursor,  \* the cursor its next entry gets
    target,      \* the session id an exec logs to, or "none"
    warned,      \* streamChunkClipWarningLogged of each exec
    position,    \* the reader's cursor for each session
    seen,        \* the cursors get_logs returned to the reader
    response     \* what the last step answered to get_logs

sessionVars == <<live, logs, nextCursor>>
execVars == <<target, warned>>
readerVars == <<position, seen>>
vars == <<sessionVars, execVars, readerVars, response>>

Streams == {"output", "system"}
Entries == [cursor : Nat \ {0}, stream : Streams, by : Writers]
NoResponse == [session |-> {}, page |-> <<>>, more |-> FALSE]

\* The types of the state; no entry has the cursor 0, which asks for the log
\* from its beginning.
TypeOK ==
    /\ live \subseteq Sessions
    /\ logs \in [Sessions -> Seq(Entries)]
    /\ nextCursor \in [Sessions -> Nat \ {0}]
    /\ target \in [Writers -> Sessions \cup {"none"}]
    /\ warned \in [Writers -> BOOLEAN]
    /\ position \in [Sessions -> Nat]
    /\ seen \in [Sessions -> SUBSET Nat]

\* nextCursor of a new session.
FirstCursor == 1

Init ==
    /\ live = {}
    /\ logs = [s \in Sessions |-> <<>>]
    /\ nextCursor = [s \in Sessions |-> FirstCursor]
    /\ target = [w \in Writers |-> "none"]
    /\ warned = [w \in Writers |-> FALSE]
    /\ position = [s \in Sessions |-> 0]
    /\ seen = [s \in Sessions |-> {}]
    /\ response = NoResponse

-----------------------------------------------------------------------------
(* Sessions                                                                  *)

\* handleCreateSession: an existing session is left as it is. The control
\* plane that creates a session starts to read it from the beginning.
CreateSession(s) ==
    /\ s \notin live
    /\ live' = live \cup {s}
    /\ logs' = [logs EXCEPT ![s] = <<>>]
    /\ nextCursor' = [nextCursor EXCEPT ![s] = FirstCursor]
    /\ position' = [position EXCEPT ![s] = 0]
    /\ seen' = [seen EXCEPT ![s] = {}]
    /\ response' = NoResponse
    /\ UNCHANGED execVars

\* handleDestroySession: execs that log to it go on.
DestroySession(s) ==
    /\ s \in live
    /\ live' = live \ {s}
    /\ response' = NoResponse
    /\ UNCHANGED <<logs, nextCursor, execVars, readerVars>>

-----------------------------------------------------------------------------
(* Log entries                                                               *)

CutEarly(entries) ==
    IF Len(entries) >= LogLimit /\ entries # <<>> THEN Tail(entries) ELSE entries

\* splice(0, overflow).
Cut(entries) ==
    IF Len(entries) > LogLimit
    THEN SubSeq(entries, Len(entries) - LogLimit + 1, Len(entries))
    ELSE entries

\* appendSessionLog, for an entry that gets the cursor c.
Push(entries, c, stream, w) ==
    Cut(Append(entries, [cursor |-> c, stream |-> stream, by |-> w]))

Skip == UNCHANGED <<logs, nextCursor>>

PushOneReusing(s, stream, w) ==
    /\ logs' = [logs EXCEPT ![s] = Push(@, Len(@) + 1, stream, w)]
    /\ nextCursor' = [nextCursor EXCEPT ![s] = Len(logs'[s]) + 1]

PushOne(s, stream, w) ==
    /\ logs' = [logs EXCEPT ![s] = Push(@, nextCursor[s], stream, w)]
    /\ nextCursor' = [nextCursor EXCEPT ![s] = @ + 1]

PushTwo(s, w) ==
    /\ logs' = [logs EXCEPT ![s] =
            Push(Push(@, nextCursor[s], "output", w), nextCursor[s] + 1, "system", w)]
    /\ nextCursor' = [nextCursor EXCEPT ![s] = @ + 2]

\* An exec starts with the id of a session; a task package may name one that
\* does not exist (yet).
StartExec(w, s) ==
    /\ target[w] = "none"
    /\ target' = [target EXCEPT ![w] = s]
    /\ response' = NoResponse
    /\ UNCHANGED <<sessionVars, warned, readerVars>>

\* onStdout or onStderr: the chunk, and once per exec a warning that a chunk
\* was clipped, whether or not the session exists.
Output(w) ==
    /\ target[w] # "none"
    /\ LET s == target[w] IN
        /\ nextCursor[s] < MaxCursor
        /\ \E clipped \in BOOLEAN :
            /\ warned' = [warned EXCEPT ![w] = @ \/ clipped]
            /\ IF s \notin live THEN Skip
               ELSE IF clipped /\ ~warned[w] THEN PushTwo(s, w)
               ELSE PushOne(s, "output", w)
    /\ response' = NoResponse
    /\ UNCHANGED <<live, target, readerVars>>

\* The result: appendSessionTruncationWarning if it was truncated. Output
\* that comes later still goes to the log, so the exec may go on.
Result(w) ==
    /\ target[w] # "none"
    /\ LET s == target[w] IN
        /\ nextCursor[s] < MaxCursor
        /\ s \in live
        /\ PushOne(s, "system", w)
    /\ response' = NoResponse
    /\ UNCHANGED <<live, execVars, readerVars>>

-----------------------------------------------------------------------------
(* get_logs                                                                  *)

MinOf(a, b) == IF a <= b THEN a ELSE b

\* Array.filter: the entries at these indices, in their order.
Filter(entries, indices) ==
    [k \in 1..Cardinality(indices) |->
        entries[CHOOSE i \in indices : Cardinality({j \in indices : j <= i}) = k]]

AfterInclusive(s, cursor) ==
    Filter(logs[s], {i \in DOMAIN logs[s] : logs[s][i].cursor >= cursor})

After(s, cursor) ==
    Filter(logs[s], {i \in DOMAIN logs[s] : logs[s][i].cursor > cursor})

PageFromEnd(s, cursor, limit) ==
    LET rest == After(s, cursor) IN
    SubSeq(rest, Len(rest) - MinOf(limit, Len(rest)) + 1, Len(rest))

\* The chunks of a response: the first of those after the cursor.
Page(s, cursor, limit) ==
    LET rest == After(s, cursor) IN SubSeq(rest, 1, MinOf(limit, Len(rest)))

HasMoreOffByOne(s, page, limit) ==
    page # <<>> /\ \E i \in DOMAIN logs[s] : logs[s][i].cursor > page[Len(page)].cursor + 1

HasMoreWhenFull(s, page, limit) == Len(page) = limit

\* next_cursor is defined.
HasMore(s, page, limit) ==
    page # <<>> /\ \E i \in DOMAIN logs[s] : logs[s][i].cursor > page[Len(page)].cursor

GetLogs(s) ==
    /\ s \in live
    /\ \E limit \in PageSizes :
        LET page == Page(s, position[s], limit) IN
        /\ response' = [session |-> {s}, page |-> page, more |-> HasMore(s, page, limit)]
        /\ seen' = [seen EXCEPT ![s] = @ \cup {page[i].cursor : i \in DOMAIN page}]
        /\ position' = [position EXCEPT ![s] =
                IF page = <<>> THEN @ ELSE page[Len(page)].cursor]
    /\ UNCHANGED <<sessionVars, execVars>>

-----------------------------------------------------------------------------
ExecStep(w) == (\E s \in Sessions : StartExec(w, s)) \/ Output(w) \/ Result(w)

SessionStep(s) == CreateSession(s) \/ DestroySession(s) \/ GetLogs(s)

Next == (\E s \in Sessions : SessionStep(s)) \/ (\E w \in Writers : ExecStep(w))

Spec == Init /\ [][Next]_vars

\* The control plane keeps reading the sessions it has.
FairSpec == Spec /\ \A s \in Sessions : WF_vars(GetLogs(s))

-----------------------------------------------------------------------------
(* Properties                                                                *)

\* The retained entries of a session are the last ones appended, as many as
\* sessionLogLimit allows, with consecutive cursors up to nextCursor - 1,
\* also when a chunk and its clip warning are appended in one turn.
LogIsTail ==
    \A s \in Sessions :
        /\ Len(logs[s]) = MinOf(LogLimit, nextCursor[s] - 1)
        /\ \A i \in DOMAIN logs[s] : logs[s][i].cursor = nextCursor[s] - Len(logs[s]) + i - 1

\* A cursor names one entry for as long as the session exists.
CursorsStable ==
    [][\A s \in live \cap live' : \A i \in DOMAIN logs[s], j \in DOMAIN logs'[s] :
        logs[s][i].cursor = logs'[s][j].cursor => logs[s][i] = logs'[s][j]]_vars

\* A reader that pages by the last cursor it was given is given no entry
\* twice and skips none that is retained, whatever is appended and evicted
\* between its pages.
ReaderSeesOnce ==
    [][\A s \in response'.session :
        /\ \A i \in DOMAIN response'.page : response'.page[i].cursor \notin seen[s]
        /\ \A i \in DOMAIN logs[s] :
              logs[s][i].cursor <= position'[s] => logs[s][i].cursor \in seen'[s]]_vars

\* A response without next_cursor leaves nothing retained unread.
EndIsEnd ==
    \A s \in response.session : ~response.more =>
        \A i \in DOMAIN logs[s] : logs[s][i].cursor \in seen[s]

\* get_logs keeps its contract, in which no log is stored: each page is the
\* run of cursors from the oldest that is retained and unread, and next_cursor
\* is there exactly if it is not all of them, whatever execs do between pages.
LogPromise == INSTANCE LogContract WITH
    next <- nextCursor,
    given <- [session |-> response.session,
              cursors |-> [i \in DOMAIN response.page |-> response.page[i].cursor],
              more |-> response.more]

ImplementsLogContract == LogPromise!Spec

\* Each entry reaches the reader unless it is evicted or its session is
\* destroyed before.
EntriesReachReader ==
    \A s \in Sessions : \A k \in 1..MaxCursor :
        s \in live /\ k < nextCursor[s]
            ~> \/ s \notin live
               \/ k \in seen[s]
               \/ k < nextCursor[s] - Len(logs[s])
=============================================================================
