--------------------------- MODULE ServiceManager ---------------------------
(* HostServiceManager (src/host-control/services.ts) and the requests        *)
(* service_launch and service_stop of NodeAgentLoop. One value per service   *)
(* id. stop() sends SIGTERM and frees the place at once; the listeners of    *)
(* the child free it, and report to onExit, whenever they run. A launch that *)
(* is refused or throws changes nothing.                                     *)
EXTENDS Naturals, FiniteSets

CONSTANTS
    Services,              \* service ids; createId never repeats one
    MaxConcurrentServices, \* maxConcurrentServices
    Privileged             \* services whose child the agent may not signal

ASSUME ServiceAssumption ==
    /\ MaxConcurrentServices \in Nat
    /\ Privileged \subseteq Services

VARIABLES
    services,  \* keys of the map
    child,     \* "none"; "failed", its spawn error not yet emitted; "running";
               \* "ended", its exit not yet emitted; or "gone"
    sigterm,   \* services whose process was sent SIGTERM
    onExit     \* calls of config.onExit for each service

vars == <<services, child, sigterm, onExit>>

TypeOK ==
    /\ services \subseteq Services
    /\ child \in [Services -> {"none", "failed", "running", "ended", "gone"}]
    /\ sigterm \subseteq Services
    /\ onExit \in [Services -> 0..2]

Init ==
    /\ services = {}
    /\ child = [s \in Services |-> "none"]
    /\ sigterm = {}
    /\ onExit = [s \in Services |-> 0]

-----------------------------------------------------------------------------
Running(s) == child[s] = "running"

HasPlaceOffByOne == Cardinality(services) <= MaxConcurrentServices
HasPlace == Cardinality(services) < MaxConcurrentServices

\* launch(): spawn() returned a child that runs or is about to emit its error.
Launch(s) ==
    /\ child[s] = "none"
    /\ HasPlace
    /\ services' = services \cup {s}
    /\ \E c \in {"running", "failed"} : child' = [child EXCEPT ![s] = c]
    /\ UNCHANGED <<sigterm, onExit>>

Tell(told) == onExit' = [s \in Services |-> IF s \in told THEN onExit[s] + 1 ELSE onExit[s]]

\* kill("SIGTERM") on each of them, with the error listener of a child that
\* may not be signalled, which runs at once; an ended or failed child
\* does not notice.
Kill(stopped) ==
    LET live == {s \in stopped : Running(s)} IN
    /\ sigterm' = sigterm \cup (live \ Privileged)
    /\ Tell(live \cap Privileged)

StopOnlyForgets(stopped) ==
    /\ services' = services \ stopped
    /\ UNCHANGED <<child, sigterm, onExit>>

\* handle.stop() for services of the map: the child is killed and the place
\* is free, although the process still runs.
StopAllOf(stopped) ==
    /\ Kill(stopped)
    /\ services' = services \ stopped
    /\ UNCHANGED child

\* stop(id), from service_stop or by the owner of the manager.
Stop(s) == s \in services /\ StopAllOf({s})

\* stopAll(): the iteration reaches every service, also while they are deleted.
StopAll == services # {} /\ StopAllOf(services)

ExitEventKeepsPlace(s) ==
    /\ child[s] = "ended"
    /\ child' = [child EXCEPT ![s] = "gone"]
    /\ Tell({s})
    /\ UNCHANGED <<services, sigterm>>

\* The exit listener, also of a service that was stopped.
ExitEvent(s) ==
    /\ child[s] = "ended"
    /\ child' = [child EXCEPT ![s] = "gone"]
    /\ services' = services \ {s}
    /\ Tell({s})
    /\ UNCHANGED sigterm

ErrorEventSilent(s) ==
    /\ child[s] = "failed"
    /\ child' = [child EXCEPT ![s] = "gone"]
    /\ services' = services \ {s}
    /\ UNCHANGED <<sigterm, onExit>>

\* The error listener, after a spawn that failed; no exit follows.
ErrorEvent(s) ==
    /\ child[s] = "failed"
    /\ child' = [child EXCEPT ![s] = "gone"]
    /\ services' = services \ {s}
    /\ Tell({s})
    /\ UNCHANGED sigterm

\* The process ends: by itself, by the SIGTERM, or by a signal from outside.
ProcessEnds(s) ==
    /\ Running(s)
    /\ child' = [child EXCEPT ![s] = "ended"]
    /\ UNCHANGED <<services, sigterm, onExit>>

Next ==
    \/ \E s \in Services :
        \/ Launch(s) \/ Stop(s)
        \/ ExitEvent(s) \/ ErrorEvent(s) \/ ProcessEnds(s)
    \/ StopAll

Spec == Init /\ [][Next]_vars

\* The event loop runs the listeners, and a process that was sent SIGTERM
\* ends. Nothing makes other processes end.
FairSpec ==
    /\ Spec
    /\ \A s \in Services :
        /\ WF_vars(ExitEvent(s))
        /\ WF_vars(ErrorEvent(s))
        /\ WF_vars(s \in sigterm /\ ProcessEnds(s))

-----------------------------------------------------------------------------
(* Properties                                                                *)

\* Stopping frees a place before the process has ended, so more processes
\* than the cap may be alive. But no process is forgotten: each one outside
\* the map was sent SIGTERM or could not be, so those that nobody tries to
\* stop stay within the cap, in whatever order stops, exits, errors and
\* launches come.
UnstoppedBounded ==
    LET unstopped == {s \in Services : Running(s)} \ (sigterm \cup Privileged) IN
    /\ unstopped \subseteq services
    /\ Cardinality(unstopped) <= MaxConcurrentServices

\* onExit is called once for each service that is gone and not before, also
\* when a stop and an exit race, or a stop comes before the spawn error. Only
\* a child that could not be signalled is reported twice: the error of its
\* stop, while it runs on, and its exit.
ExitToldOnce ==
    \A s \in Services :
        IF child[s] = "gone"
        THEN onExit[s] \in IF s \in Privileged THEN {1, 2} ELSE {1}
        ELSE onExit[s] <= IF s \in Privileged /\ s \notin services THEN 1 ELSE 0

\* A service that ended, failed to start or was stopped gives its place back
\* and is reported gone.
GoneIsTold ==
    \A s \in Services :
        child[s] \in {"ended", "failed"} \/ s \in sigterm
            ~> s \notin services /\ child[s] = "gone" /\ onExit[s] > 0
=============================================================================
