----------------------------- MODULE AgentExec ------------------------------
(* execute, session_exec and abort in NodeAgentLoop.handleRequest            *)
(* (src/transport/agent-loop.ts), composed with HostExec. A request that     *)
(* runs a command is identified with the run it starts. The handler awaits   *)
(* the run and answers on the socket the request came on, in the turn in     *)
(* which the run settles; a reply on a closed socket is lost.                *)
EXTENDS HostExec

CONSTANTS
    SessionExecs,  \* the requests that are session_exec, not execute
    Jobs,          \* job ids
    JobOf,         \* the job id of every execute request
    NoJob,         \* no entry in activeExecs of the agent loop
    MaxAborts,     \* bound: abort requests per job
    MaxSockets     \* bound: sockets of a behaviour

ASSUME AgentAssumption ==
    /\ SessionExecs \subseteq Execs
    /\ JobOf \in [Execs \ SessionExecs -> Jobs]
    /\ NoJob \notin Execs
    /\ MaxAborts \in Nat
    /\ MaxSockets \in Nat \ {0}

\* The control plane gives each execute request a job id of its own.
UniqueJobs == \A d, e \in DOMAIN JobOf : JobOf[d] = JobOf[e] => d = e

VARIABLES
    jobs,     \* activeExecs of the agent loop: job id -> handle
    reply,    \* per request: "none", "pending", "ok", "error" or "lost"
    acks,     \* abort requests answered per job
    socket,   \* the number of the current socket
    isOpen,   \* whether it is open
    via       \* the socket a request came on

agentVars == <<jobs, reply, acks, socket, isOpen, via>>
allVars == <<vars, agentVars>>

Commands == DOMAIN JobOf
Replies == {"none", "pending", "ok", "error", "lost"}

\* The types of the state; a request that came has a socket, and a reply that
\* is at least pending.
AgentTypeOK ==
    /\ TypeOK
    /\ jobs \in [Jobs -> Commands \cup {NoJob}]
    /\ reply \in [Execs -> Replies]
    /\ acks \in [Jobs -> 0..MaxAborts]
    /\ socket \in 1..MaxSockets
    /\ isOpen \in BOOLEAN
    /\ via \in [Execs -> 0..socket]
    /\ \A e \in Execs : via[e] = 0 <=> reply[e] = "none"

AgentInit ==
    /\ Init
    /\ jobs = [j \in Jobs |-> NoJob]
    /\ reply = [e \in Execs |-> "none"]
    /\ acks = [j \in Jobs |-> 0]
    /\ socket = 1
    /\ isOpen = TRUE
    /\ via = [e \in Execs |-> 0]

-----------------------------------------------------------------------------
(* Replies                                                                   *)

\* socket.send by the handler of a request that came on socket s.
Sent(kind, s) == IF isOpen /\ s = socket THEN kind ELSE "lost"

\* The runs this step settles: their handlers go on in the same turn.
Settling == {e \in Execs : phase[e] \in InFlight /\ phase'[e] \notin InFlight}

RecordedNow == {e \in Execs : ~Recorded(e) /\ completedExecs'[e] # NoResult}

DeletedNever(settled) == jobs

\* handle.result resolved: the entry of the job is deleted, by its id. It
\* rejected: the entry stays.
Deleted(settled) ==
    [j \in Jobs |->
        IF \E e \in settled \cap Commands : JobOf[e] = j /\ phase'[e] = "settled"
        THEN NoJob ELSE jobs[j]]

AnswersAtRecord ==
    reply' = [e \in Execs |->
        IF e \in RecordedNow THEN Sent("ok", via[e]) ELSE reply[e]]

AnswersByStatus ==
    reply' = [e \in Execs |->
        IF e \in Settling
        THEN Sent(IF completedExecs'[e].status = "completed" THEN "ok" ELSE "error", via[e])
        ELSE reply[e]]

AnswersResolvedOnly ==
    reply' = [e \in Execs |->
        IF e \in Settling /\ phase'[e] = "settled" THEN Sent("ok", via[e]) ELSE reply[e]]

\* The response, or an error if handle.result rejected.
Answers ==
    reply' = [e \in Execs |->
        IF e \in Settling
        THEN Sent(IF phase'[e] = "settled" THEN "ok" ELSE "error", via[e])
        ELSE reply[e]]

-----------------------------------------------------------------------------
(* Requests                                                                  *)

Arrives(e) ==
    /\ isOpen
    /\ reply[e] = "none"
    /\ via' = [via EXCEPT ![e] = socket]
    /\ UNCHANGED <<acks, socket, isOpen>>

Track(e) ==
    jobs' = IF e \in Commands THEN [jobs EXCEPT ![JobOf[e]] = e] ELSE jobs

\* exec() throws, over the cap or for a request it does not allow: an error.
Refused(e) ==
    /\ Arrives(e)
    /\ reply' = [reply EXCEPT ![e] = "error"]
    /\ UNCHANGED <<vars, jobs>>

\* exec() returns a handle: execute keeps it under its job id and both wait.
Accepted(e) ==
    /\ Arrives(e)
    /\ Exec(e)
    /\ Track(e)
    /\ reply' = [reply EXCEPT ![e] = "pending"]

\* The handle is kept, then its result rejects; nothing deletes the entry.
Broken(e) ==
    /\ Arrives(e)
    /\ SpawnThrows(e)
    /\ Track(e)
    /\ reply' = [reply EXCEPT ![e] = "error"]

\* What handle.abort() does to the run.
AbortRun(e) ==
    IF e \in activeExecs /\ Running(e) THEN Abort(e) ELSE UNCHANGED vars

AbortDeletesOnly(j) ==
    /\ isOpen
    /\ acks[j] < MaxAborts
    /\ acks' = [acks EXCEPT ![j] = @ + 1]
    /\ jobs' = [jobs EXCEPT ![j] = NoJob]
    /\ UNCHANGED <<vars, reply, socket, isOpen, via>>

\* abort: "aborted" is the answer whether or not a run was found; the entry
\* goes although the process may run on.
HandleAbort(j) ==
    /\ isOpen
    /\ acks[j] < MaxAborts
    /\ acks' = [acks EXCEPT ![j] = @ + 1]
    /\ IF jobs[j] = NoJob THEN UNCHANGED vars ELSE AbortRun(jobs[j])
    /\ jobs' = [Deleted(Settling) EXCEPT ![j] = NoJob]
    /\ Answers
    /\ UNCHANGED <<socket, isOpen, via>>

-----------------------------------------------------------------------------
(* The run and the connection                                                *)

RunStep(e) ==
    /\ Service(e) \/ System(e)
    /\ jobs' = Deleted(Settling)
    /\ Answers
    /\ UNCHANGED <<acks, socket, isOpen, via>>

\* The socket closes; runs go on and keep the closed socket.
Drop ==
    /\ isOpen
    /\ isOpen' = FALSE
    /\ UNCHANGED <<vars, jobs, reply, acks, socket, via>>

Reconnect ==
    /\ ~isOpen
    /\ socket < MaxSockets
    /\ socket' = socket + 1
    /\ isOpen' = TRUE
    /\ UNCHANGED <<vars, jobs, reply, acks, via>>

AgentNext ==
    \/ \E e \in Execs : Refused(e) \/ Accepted(e) \/ Broken(e) \/ RunStep(e)
    \/ \E j \in Jobs : HandleAbort(j)
    \/ Drop \/ Reconnect

AgentSpec == AgentInit /\ [][AgentNext]_allVars

-----------------------------------------------------------------------------
(* Properties                                                                *)

\* Composed with the agent loop the service takes only its own steps.
UsesHostExec == Spec

\* When an abort is acknowledged, every process of that job has been sent
\* SIGTERM or its run is over, also for a second abort, a run that is just
\* ending, and an abort from another socket than the execute.
AbortReachesRun ==
    [][\A j \in Jobs : acks'[j] > acks[j] =>
        \A e \in Commands \ Privileged :
            JobOf[e] = j /\ Running(e) => sigterm'[e]]_allVars

\* The job table holds the handle of every execute run that is unsettled and
\* was not aborted, and under each id only a run of that id that is unsettled
\* or whose handle rejected.
JobTableTracksRuns ==
    /\ \A e \in Commands :
        phase[e] \in InFlight => jobs[JobOf[e]] = e \/ acks[JobOf[e]] > 0
    /\ \A j \in Jobs : jobs[j] # NoJob =>
        /\ JobOf[jobs[j]] = j
        /\ phase[jobs[j]] \in InFlight \cup {"rejected"}

\* A request is unanswered exactly while its run holds a slot: whoever has
\* the reply of a run can use its slot.
ReplyFreesSlot == \A e \in Execs : reply[e] = "pending" <=> e \in activeExecs

\* Every request is answered, or its answer was sent on a closed socket: none
\* stays unanswered for ever.
EveryRequestAnswered ==
    \A e \in Execs : []<>(reply[e] # "pending")
=============================================================================
