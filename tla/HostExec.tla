------------------------------ MODULE HostExec ------------------------------
(* HostControlService (src/host-control/service.ts): argv runs on the host.  *)
(* One module value per hostexec id; createId never repeats an id. Each      *)
(* action is one turn of the event loop: a callback and the promise          *)
(* continuations that run before the next callback. The child processes and  *)
(* their pipes belong to the operating system and move on their own.         *)
(* Output is one stream of equal chunks (OutputBuffer has the byte level).   *)
EXTENDS Naturals, FiniteSets

CONSTANTS
    Execs,               \* hostexec ids
    MaxConcurrentExecs,  \* config.maxConcurrentExecs
    MaxStdout,           \* config.maxStdoutBytes, in chunks
    MaxWrites,           \* bound: chunks written, all by one child
    Privileged,          \* runs whose child the agent may not signal (EPERM)
    PersistsResults,     \* TRUE if config.onResult is set
    NoResult             \* no entry in completedExecs

ASSUME ExecAssumption ==
    /\ MaxConcurrentExecs \in Nat
    /\ MaxStdout \in Nat
    /\ MaxWrites \in Nat
    /\ Privileged \subseteq Execs
    /\ PersistsResults \in BOOLEAN

VARIABLES
    activeExecs,     \* keys of the map: the runs that hold a slot
    completedExecs,  \* the recorded result of each run, or NoResult
    phase,           \* where the runProcess of each run stands
    timer,           \* its timeout: "off", "armed" or "fired" (timedOut)
    child,           \* its process; "zero", "nonzero", "signal" have ended
    sigterm,         \* the process was sent SIGTERM
    written,         \* chunks the process wrote to its pipe
    delivered        \* chunks a data event passed to onStdout

vars == <<activeExecs, completedExecs, phase, timer, child, sigterm,
          written, delivered>>

osVars == <<child, sigterm, written>>

-----------------------------------------------------------------------------
Status == {"completed", "failed", "timed_out", "aborted"}
Endings == {"zero", "nonzero", "signal"}
Results == [status : Status, stdout : 0..MaxStdout, truncated : BOOLEAN]

ASSUME NoResultAssumption == NoResult \notin Results \cup Status

Phases == {"none", "awaiting", "persisting", "settled", "rejected"}
InFlight == {"awaiting", "persisting"}

Running(e) == child[e] = "running"
Recorded(e) == completedExecs[e] # NoResult

TypeOK ==
    /\ activeExecs \subseteq Execs
    /\ completedExecs \in [Execs -> Results \cup {NoResult}]
    /\ phase \in [Execs -> Phases]
    /\ timer \in [Execs -> {"off", "armed", "fired"}]
    /\ child \in [Execs -> {"none", "failed", "running"} \cup Endings]
    /\ sigterm \in [Execs -> BOOLEAN]
    /\ written \in [Execs -> 0..MaxWrites]
    /\ delivered \in [Execs -> 0..MaxWrites]

Init ==
    /\ activeExecs = {}
    /\ completedExecs = [e \in Execs |-> NoResult]
    /\ phase = [e \in Execs |-> "none"]
    /\ timer = [e \in Execs |-> "off"]
    /\ child = [e \in Execs |-> "none"]
    /\ sigterm = [e \in Execs |-> FALSE]
    /\ written = [e \in Execs |-> 0]
    /\ delivered = [e \in Execs |-> 0]

-----------------------------------------------------------------------------
(* exec()                                                                    *)

HasSlotOffByOne == Cardinality(activeExecs) <= MaxConcurrentExecs
HasSlot == Cardinality(activeExecs) < MaxConcurrentExecs

\* spawn() returned a child: it runs, or its spawn error is still to be
\* emitted ("failed"). A request the checks refuse changes no state.
Exec(e) ==
    /\ phase[e] = "none"
    /\ HasSlot
    /\ activeExecs' = activeExecs \cup {e}
    /\ phase' = [phase EXCEPT ![e] = "awaiting"]
    /\ timer' = [timer EXCEPT ![e] = "armed"]
    /\ \E c \in {"running", "failed"} : child' = [child EXCEPT ![e] = c]
    /\ UNCHANGED <<completedExecs, sigterm, written, delivered>>

\* spawn() threw: the handle rejects and its finally gives the slot back
\* before the next callback; no result is recorded and no timer is armed.
SpawnThrows(e) ==
    /\ phase[e] = "none"
    /\ HasSlot
    /\ phase' = [phase EXCEPT ![e] = "rejected"]
    /\ UNCHANGED <<activeExecs, completedExecs, timer, osVars, delivered>>

-----------------------------------------------------------------------------
(* The end of a run                                                          *)

RetainedUnbounded(n) == n

\* appendBounded over chunks of equal size.
Retained(n) == IF n <= MaxStdout THEN n ELSE MaxStdout

ResultOf(e, status) ==
    [status |-> status, stdout |-> Retained(delivered[e]),
     truncated |-> delivered[e] > MaxStdout]

StatusOfSignalFirst(e) ==
    IF child[e] = "signal" THEN "aborted"
    ELSE IF timer[e] = "fired" THEN "timed_out"
    ELSE IF child[e] = "zero" THEN "completed" ELSE "failed"

StatusOf(e) ==
    IF timer[e] = "fired" THEN "timed_out"
    ELSE IF child[e] = "signal" THEN "aborted"
    ELSE IF child[e] = "zero" THEN "completed" ELSE "failed"

\* The finally of exec(): the handle settles and the slot is free.
Settle(e, p) ==
    /\ phase' = [phase EXCEPT ![e] = p]
    /\ activeExecs' = activeExecs \ {e}

\* clearTimeout has no effect on a timer that fired.
Disarmed(e, t) == [timer EXCEPT ![e] = IF t = "fired" THEN "fired" ELSE "off"]

\* The error path: the promise rejected, a failed result is recorded and
\* returned; onResult is not called.
FailRun(e, t) ==
    /\ completedExecs' = [completedExecs EXCEPT ![e] = ResultOf(e, "failed")]
    /\ timer' = Disarmed(e, t)
    /\ Settle(e, "settled")

\* spawn() failed after it returned; the event precedes any timer.
ErrorEvent(e) ==
    /\ phase[e] = "awaiting"
    /\ child[e] = "failed"
    /\ FailRun(e, timer[e])
    /\ UNCHANGED <<osVars, delivered>>

\* The listener is a once on a promise that resolves once: after the error
\* path the exit of the child is ignored.
ExitEventResolvesAgain(e) ==
    /\ phase[e] \in {"awaiting", "settled"}
    /\ child[e] \in Endings
    /\ completedExecs' = [completedExecs EXCEPT ![e] = ResultOf(e, StatusOf(e))]
    /\ timer' = Disarmed(e, timer[e])
    /\ Settle(e, "settled")
    /\ UNCHANGED <<osVars, delivered>>

ExitEventLeavesTimer(e) ==
    /\ phase[e] = "awaiting"
    /\ child[e] \in Endings
    /\ completedExecs' = [completedExecs EXCEPT ![e] = ResultOf(e, StatusOf(e))]
    /\ IF PersistsResults
       THEN phase' = [phase EXCEPT ![e] = "persisting"] /\ UNCHANGED activeExecs
       ELSE Settle(e, "settled")
    /\ UNCHANGED <<timer, osVars, delivered>>

\* The exit event: whatever the pipe still holds is not in the result.
ExitEvent(e) ==
    /\ phase[e] = "awaiting"
    /\ child[e] \in Endings
    /\ completedExecs' = [completedExecs EXCEPT ![e] = ResultOf(e, StatusOf(e))]
    /\ timer' = Disarmed(e, timer[e])
    /\ IF PersistsResults
       THEN phase' = [phase EXCEPT ![e] = "persisting"] /\ UNCHANGED activeExecs
       ELSE Settle(e, "settled")
    /\ UNCHANGED <<osVars, delivered>>

\* await config.onResult: the handle rejects if it does, with the result
\* already recorded.
OnResultDone(e) ==
    /\ phase[e] = "persisting"
    /\ \E p \in {"settled", "rejected"} : Settle(e, p)
    /\ UNCHANGED <<completedExecs, timer, osVars, delivered>>

-----------------------------------------------------------------------------
(* Timeout and abort: SIGTERM, once, and nothing stronger                    *)

\* kill("SIGTERM"): no effect on a process that has ended; an error event,
\* emitted at once, for a process the agent may not signal.
Kill(e, t) ==
    IF Running(e) /\ e \in Privileged
    THEN FailRun(e, t) /\ UNCHANGED sigterm
    ELSE /\ timer' = [timer EXCEPT ![e] = t]
         /\ sigterm' = [sigterm EXCEPT ![e] = @ \/ Running(e)]
         /\ UNCHANGED <<activeExecs, completedExecs, phase>>

TimerOnlyMarks(e) ==
    /\ timer[e] = "armed"
    /\ child[e] # "failed"
    /\ timer' = [timer EXCEPT ![e] = "fired"]
    /\ UNCHANGED <<activeExecs, completedExecs, phase, osVars, delivered>>

\* setTimeout(timeoutMs): timedOut, then SIGTERM.
TimerFires(e) ==
    /\ timer[e] = "armed"
    /\ child[e] # "failed"
    /\ Kill(e, "fired")
    /\ UNCHANGED <<child, written, delivered>>

AbortFreesSlot(e) ==
    /\ e \in activeExecs
    /\ Running(e)
    /\ sigterm' = [sigterm EXCEPT ![e] = TRUE]
    /\ activeExecs' = activeExecs \ {e}
    /\ UNCHANGED <<completedExecs, phase, timer, child, written, delivered>>

\* handle.abort(): finds nothing once the run gave its slot back.
Abort(e) ==
    /\ e \in activeExecs
    /\ Running(e)
    /\ Kill(e, timer[e])
    /\ UNCHANGED <<child, written, delivered>>

-----------------------------------------------------------------------------
(* The child process and its pipe                                            *)

ChildWrites(e) ==
    /\ Running(e)
    /\ written[e] < MaxWrites
    /\ \A d \in Execs \ {e} : written[d] = 0
    /\ written' = [written EXCEPT ![e] = @ + 1]
    /\ UNCHANGED <<activeExecs, completedExecs, phase, timer, child, sigterm,
                   delivered>>

\* By itself, by a signal from outside, or in reaction to SIGTERM: default
\* action, or a handler that chooses the exit code.
ChildExits(e) ==
    /\ Running(e)
    /\ \E c \in Endings : child' = [child EXCEPT ![e] = c]
    /\ UNCHANGED <<activeExecs, completedExecs, phase, timer, sigterm, written,
                   delivered>>

\* stdout "data": appended for the result if it is not built yet, and
\* passed to onStdout either way.
DataEvent(e) ==
    /\ delivered[e] < written[e]
    /\ delivered' = [delivered EXCEPT ![e] = @ + 1]
    /\ UNCHANGED <<activeExecs, completedExecs, phase, timer, osVars>>

-----------------------------------------------------------------------------
Service(e) ==
    \/ ErrorEvent(e) \/ ExitEvent(e) \/ OnResultDone(e)
    \/ TimerFires(e) \/ DataEvent(e)

Caller(e) == Exec(e) \/ SpawnThrows(e) \/ Abort(e)

System(e) == ChildWrites(e) \/ ChildExits(e)

Next == \E e \in Execs : Service(e) \/ Caller(e) \/ System(e)

Spec == Init /\ [][Next]_vars

\* The event loop runs every callback that is due.
LoopFairness ==
    \A e \in Execs :
        /\ WF_vars(ErrorEvent(e))
        /\ WF_vars(ExitEvent(e))
        /\ WF_vars(OnResultDone(e))
        /\ WF_vars(TimerFires(e))

\* A process that was sent SIGTERM ends.
ObeysSigterm == \A e \in Execs : WF_vars(sigterm[e] /\ ChildExits(e))

LoopSpec == Spec /\ LoopFairness
FairSpec == LoopSpec /\ ObeysSigterm

-----------------------------------------------------------------------------
(* Properties                                                                *)

\* A process the service started and can signal is running only while its
\* run still holds its slot in activeExecs (an abort or a timeout does not
\* give the slot back before the process ends).
LiveChildrenHoldSlots ==
    \A e \in Execs \ Privileged : Running(e) => e \in activeExecs

\* At most maxConcurrentExecs such processes are alive, however exits,
\* errors, aborts, timeouts and slow onResult hooks interleave.
ConcurrencyBound ==
    Cardinality({e \in Execs \ Privileged : Running(e)}) <= MaxConcurrentExecs

\* The strengthening of both: the slots are exactly the unsettled runs, a
\* process lives only in a run that waits for it, and the cap holds.
SlotInv ==
    /\ activeExecs = {e \in Execs : phase[e] \in InFlight}
    /\ IsFiniteSet(activeExecs)
    /\ Cardinality(activeExecs) <= MaxConcurrentExecs
    /\ \A e \in Execs \ Privileged : Running(e) => phase[e] = "awaiting"

\* How the phase of a run, its timer, its process and its record go together:
\* what makes a result final and its status honest.
RunInv ==
    \A e \in Execs :
        /\ phase[e] = "none" => child[e] = "none" /\ timer[e] = "off"
        /\ phase[e] = "persisting" => child[e] \in Endings
        /\ phase[e] = "rejected" => child[e] \in Endings \cup {"none"}
        /\ child[e] = "failed" /\ phase[e] = "awaiting" => timer[e] = "armed"
        /\ phase[e] # "awaiting" => timer[e] # "armed"
        /\ phase[e] \in {"none", "awaiting"} => ~Recorded(e)
        /\ phase[e] \in {"persisting", "settled"} => Recorded(e)

\* A recorded result never changes: getExec, listExecs and the response give
\* the same answer whichever of error, exit, timeout and abort come later.
ResultsAreFinal ==
    [][\A e \in Execs : Recorded(e) => completedExecs'[e] = completedExecs[e]]_vars

\* The status tells why the run ended: "timed_out" exactly if the timer
\* fired first, also when the exit and the timeout race; "completed" only if
\* the child ended by itself with code 0. The error path reports "failed".
StatusIsHonest ==
    \A e \in Execs : Recorded(e) =>
        LET status == completedExecs[e].status IN
        /\ timer[e] # "armed"
        /\ status = "timed_out" => timer[e] = "fired"
        /\ timer[e] = "fired" => status = "timed_out" \/ e \in Privileged
        /\ status = "completed" => child[e] = "zero"
        /\ status = "aborted" => child[e] = "signal"

\* The stdout of a run that completed is what the command wrote.
StdoutMatchesOutput ==
    \A e \in Execs :
        /\ Recorded(e)
        /\ completedExecs[e].status = "completed"
        /\ ~completedExecs[e].truncated
        => completedExecs[e].stdout = written[e]

\* The service refines its contract: the slots are the active runs, the
\* recorded status is the outcome. Its liveness is part of it: each admitted
\* run is reported or released, whatever its child does short of ignoring
\* SIGTERM.
Contract == INSTANCE ExecContract WITH
    Outcomes <- Status,
    NoOutcome <- NoResult,
    state <- [e \in Execs |->
        IF phase[e] = "none" THEN "unused"
        ELSE IF e \in activeExecs THEN "active" ELSE "done"],
    outcome <- [e \in Execs |->
        IF Recorded(e) THEN completedExecs[e].status ELSE NoResult]

ImplementsContract == Contract!FairSpec
=============================================================================
