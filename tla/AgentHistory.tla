---------------------------- MODULE AgentHistory ----------------------------
(* HostExecHistoryStore (src/host-control/history.ts) as the onResult hook   *)
(* of the service, composed with AgentExec: append reads exec-history.json,  *)
(* puts the run in front and writes the file back, with an await between.    *)
(* fs.writeFile opens and truncates the file and writes it later, from its   *)
(* start: of two writers that have it open the later may leave the tail of   *)
(* a longer text. OnResultDone of HostExec becomes what append does. A       *)
(* behaviour is one agent process. It may be killed anywhere, which ends the *)
(* behaviour, and starts with whatever file the ones before it left.         *)
EXTENDS AgentExec, Sequences

CONSTANTS
    HistoryLimit,  \* limit of the store
    Earlier,       \* runs of earlier agent processes
    Missing,       \* no such file
    Empty,         \* truncated and not yet written
    Garbled        \* not JSON: written in part, or over another text

Marks == {Missing, Empty, Garbled}
Listed == Execs \cup Earlier

ASSUME HistoryAssumption ==
    /\ HistoryLimit \in Nat \ {0}
    /\ Execs \cap Earlier = {}
    /\ Missing # Empty /\ Missing # Garbled /\ Empty # Garbled
    /\ \A mark \in Marks : mark \notin Seq(Listed)

VARIABLES
    history,     \* exec-history.json: the runs it lists, newest first
    stage,       \* what the append of each run does next
    toWrite,     \* next: the list it writes
    appended,    \* the runs whose append ended, newest first, and before them
                 \* those of the list the agent found
    torn,        \* the file the agent found is not JSON
    overlapped,  \* two appends were in progress at a time
    failed       \* a file operation of an append threw

historyVars == <<history, stage, toWrite, appended, torn, overlapped, failed>>
systemVars == <<allVars, historyVars>>

\* The types of the state; the append of a run begins with its result and ends
\* with its hook; the file is one that the next agent may start with.
HistoryTypeOK ==
    /\ history \in Seq(Listed) \cup Marks
    /\ history \notin Marks => Len(history) \in 1..HistoryLimit
    /\ toWrite \in [Execs -> Seq(Listed)]
    /\ appended \in Seq(Listed)
    /\ torn \in BOOLEAN
    /\ overlapped \in BOOLEAN
    /\ failed \in BOOLEAN
    /\ stage \in [Execs -> {"read", "open", "write", "done"}]
    /\ \A e \in Execs :
        /\ stage[e] \in {"open", "write"} => Len(toWrite[e]) \in 1..HistoryLimit
        /\ phase[e] \in {"none", "awaiting"} => stage[e] = "read"
        /\ phase[e] = "persisting" => stage[e] # "done"

Distinct(runs) == \A i, j \in DOMAIN runs : runs[i] = runs[j] => i = j

\* What earlier agents may have left: no file, a list, or what a kill, a failed
\* write or two overlapping ones leave.
Leftovers ==
    {runs \in UNION {[1..n -> Earlier] : n \in 1..HistoryLimit} : Distinct(runs)} \cup Marks

HistoryInit ==
    /\ AgentInit
    /\ history \in Leftovers
    /\ torn = (history \in {Empty, Garbled})
    /\ appended = IF history \in Marks THEN <<>> ELSE history
    /\ stage = [e \in Execs |-> "read"]
    /\ toWrite = [e \in Execs |-> <<>>]
    /\ overlapped = FALSE
    /\ failed = FALSE

-----------------------------------------------------------------------------
Latest(runs) ==
    SubSeq(runs, 1, IF Len(runs) < HistoryLimit THEN Len(runs) ELSE HistoryLimit)

NextListOldest(e, current) == Latest(Append(current, e))
NextList(e, current) == Latest(<<e>> \o current)

Unreadable == history \in {Empty, Garbled}
Entries == IF history = Missing THEN <<>> ELSE history

Persisting == {e \in Execs : phase[e] = "persisting"}
NoteOverlap == overlapped' = (overlapped \/ Cardinality(Persisting') > 1)

\* The hook of e ends: the handle settles or rejects, and the request is
\* answered.
HookEnds(e, p) ==
    /\ RunStep(e)
    /\ phase[e] = "persisting"
    /\ phase'[e] = p
    /\ stage' = [stage EXCEPT ![e] = "done"]
    /\ toWrite' = [toWrite EXCEPT ![e] = <<>>]

\* list(): JSON.parse throws on a file that is empty or garbled.
ReadHistory(e) ==
    /\ phase[e] = "persisting"
    /\ stage[e] = "read"
    /\ IF Unreadable
       THEN HookEnds(e, "rejected")
       ELSE /\ toWrite' = [toWrite EXCEPT ![e] = NextList(e, Entries)]
            /\ stage' = [stage EXCEPT ![e] = "open"]
            /\ UNCHANGED allVars
    /\ NoteOverlap
    /\ UNCHANGED <<history, appended, torn, failed>>

\* mkdir, and writeFile opens the file.
OpenHistory(e) ==
    /\ phase[e] = "persisting"
    /\ stage[e] = "open"
    /\ history' = Empty
    /\ stage' = [stage EXCEPT ![e] = "write"]
    /\ UNCHANGED <<allVars, toWrite, appended, torn, overlapped, failed>>

WriteHistory(e) ==
    /\ stage[e] = "write"
    /\ HookEnds(e, "settled")
    /\ history' \in IF history = Empty THEN {toWrite[e]} ELSE {toWrite[e], Garbled}
    /\ appended' = <<e>> \o appended
    /\ NoteOverlap
    /\ UNCHANGED <<torn, failed>>

\* A file operation throws (no permission, a full disk): the hook rejects. A
\* write may have put nothing, a part or all of the text into the file.
FailHistory(e) ==
    /\ HookEnds(e, "rejected")
    /\ history' \in IF stage[e] = "write" THEN {history, toWrite[e], Garbled} ELSE {history}
    /\ failed' = TRUE
    /\ NoteOverlap
    /\ UNCHANGED <<appended, torn>>

AppendStep(e) == ReadHistory(e) \/ OpenHistory(e) \/ WriteHistory(e) \/ FailHistory(e)

\* Every other step of the agent and the service.
OtherStep ==
    /\ AgentNext
    /\ \A e \in Persisting : phase'[e] = "persisting"
    /\ NoteOverlap
    /\ UNCHANGED <<history, stage, toWrite, appended, torn, failed>>

HistoryNext == OtherStep \/ \E e \in Execs : AppendStep(e)

HistorySpec == HistoryInit /\ [][HistoryNext]_systemVars

\* What brings a run to its end: a callback that is due, the next file operation
\* of its append, and the end of a child that was sent SIGTERM.
Progress(e) ==
    \/ AppendStep(e)
    \/ /\ ErrorEvent(e) \/ ExitEvent(e) \/ TimerFires(e) \/ (sigterm[e] /\ ChildExits(e))
       /\ RunStep(e)
       /\ OtherStep

\* The event loop and the operating system do not forget a run.
HistoryFairSpec == HistorySpec /\ \A e \in Execs : WF_systemVars(Progress(e))

-----------------------------------------------------------------------------
(* Properties                                                                *)

\* The agent found no torn file, and nothing disturbed an append.
Undisturbed == ~torn /\ ~overlapped /\ ~failed

\* Between appends exec-history.json lists exactly the latest runs, newest
\* first, those of earlier agents included, unless the agent found it torn, two
\* appends overlapped or a file operation threw. Even then it lists no run
\* twice and none of this agent that is not recorded; and a torn file stays
\* torn for as long as the agent runs.
HistoryTellsRuns ==
    /\ ~Unreadable =>
        /\ Distinct(Entries)
        /\ \A i \in DOMAIN Entries : Entries[i] \in Execs => Recorded(Entries[i])
    /\ torn => Unreadable
    /\ Undisturbed /\ Persisting = {} => Entries = Latest(appended)

\* An error reply (which for execute is marked retriable) to a command that
\* did run means that its hook rejected, and that only after the agent found
\* the file torn, two appends overlapped or a file operation threw. Otherwise
\* the command never ran: one that failed, was aborted or timed out is not
\* reported as an error.
ErrorMeansNotRun ==
    \A e \in Execs : reply[e] = "error" =>
        \/ child[e] = "none" /\ ~Recorded(e)
        \/ phase[e] = "rejected" /\ Recorded(e) /\ ~Undisturbed
=============================================================================
