------------------------ MODULE ServiceManagerProofs ------------------------
(* Theorems of ServiceManager, for any services and any cap.                 *)
EXTENDS ServiceManager, FiniteSetTheorems, TLAPS

Ended == {"failed", "ended", "gone"}

\* The types a step reads and writes.
Typed ==
    /\ services \subseteq Services
    /\ child \in [Services -> {"none", "running"} \cup Ended]
    /\ sigterm \subseteq Services
    /\ onExit \in [Services -> Nat]

\* A process that nobody tried to stop is in the map, and the map is within
\* the cap. The listeners need no argument: they run when their process is
\* over.
PlacesInv ==
    /\ \A s \in Services : Running(s) => s \in services \cup sigterm \cup Privileged
    /\ IsFiniteSet(services)
    /\ Cardinality(services) <= MaxConcurrentServices

\* ExitToldOnce with what makes it inductive: nothing was told of a service
\* that was never launched, so its place starts untold.
ToldInv ==
    \A s \in Services :
        /\ child[s] = "none" => onExit[s] = 0
        /\ child[s] = "gone" => onExit[s] \in IF s \in Privileged THEN {1, 2} ELSE {1}
        /\ child[s] # "gone" =>
               onExit[s] \in IF s \in Privileged /\ s \notin services THEN {0, 1} ELSE {0}

-----------------------------------------------------------------------------
\* Tell counts one more call for each service it tells.
LEMMA TellCounts ==
    ASSUME Typed, NEW told, Tell(told)
    PROVE  /\ onExit' \in [Services -> Nat]
           /\ \A s \in Services : s \in told => onExit'[s] = onExit[s] + 1
           /\ \A s \in Services : s \notin told => onExit'[s] = onExit[s]
BY DEF Typed, Tell

LEMMA TypedStep == Typed /\ [Next]_vars => Typed'
<1> SUFFICES ASSUME Typed, [Next]_vars PROVE Typed'
    OBVIOUS
<1>1. ASSUME NEW s \in Services, Launch(s) PROVE Typed'
    BY <1>1 DEF Typed, Launch, Ended
<1>2. ASSUME NEW stopped \in SUBSET Services, StopAllOf(stopped) PROVE Typed'
    <2>1. Tell({s \in stopped : Running(s)} \cap Privileged)
        BY <1>2 DEF StopAllOf, Kill
    <2>2. onExit' \in [Services -> Nat]
        BY <2>1, TellCounts
    <2> QED BY <1>2, <2>2 DEF Typed, StopAllOf, Kill
<1>3. ASSUME NEW s \in Services, ExitEvent(s) \/ ErrorEvent(s) PROVE Typed'
    <2>1. onExit' \in [Services -> Nat]
        BY <1>3, TellCounts DEF ExitEvent, ErrorEvent
    <2> QED BY <1>3, <2>1 DEF Typed, ExitEvent, ErrorEvent, Ended
<1>4. ASSUME NEW s \in Services, ProcessEnds(s) PROVE Typed'
    BY <1>4 DEF Typed, ProcessEnds, Ended
<1>5. ASSUME NEW s \in Services, Stop(s) PROVE Typed'
    BY <1>2, <1>5 DEF Stop
<1>6. ASSUME StopAll PROVE Typed'
    BY <1>2, <1>6 DEF StopAll, Typed
<1>7. ASSUME UNCHANGED vars PROVE Typed'
    BY <1>7 DEF Typed, vars
<1> QED BY <1>1, <1>3, <1>4, <1>5, <1>6, <1>7 DEF Next

-----------------------------------------------------------------------------
\* Places are only given back by a step that leaves no forgotten process.
LEMMA FewerPlaces ==
    ASSUME PlacesInv, NEW stopped
    PROVE  /\ IsFiniteSet(services \ stopped)
           /\ Cardinality(services \ stopped) <= MaxConcurrentServices
<1>1. IsFiniteSet(services) /\ services \ stopped \in SUBSET services
    BY DEF PlacesInv
<1>2. /\ IsFiniteSet(services \ stopped)
      /\ Cardinality(services \ stopped) <= Cardinality(services)
    BY <1>1, FS_Subset
<1>3. Cardinality(services) \in Nat /\ Cardinality(services \ stopped) \in Nat
    BY <1>1, <1>2, FS_CardinalityType
<1> QED BY <1>2, <1>3, ServiceAssumption DEF PlacesInv

LEMMA PlacesStep == Typed /\ PlacesInv /\ [Next]_vars => PlacesInv'
<1> SUFFICES ASSUME Typed, PlacesInv, [Next]_vars PROVE PlacesInv'
    OBVIOUS
<1>1. ASSUME NEW s \in Services, Launch(s) PROVE PlacesInv'
    <2>1. \A d \in Services : Running(d)' => d \in services' \cup sigterm' \cup Privileged
        BY <1>1 DEF Typed, PlacesInv, Launch, Running
    <2>2. /\ IsFiniteSet(services \cup {s})
          /\ Cardinality(services \cup {s}) \in {Cardinality(services), Cardinality(services) + 1}
          /\ Cardinality(services) \in Nat
        BY FS_AddElement, FS_CardinalityType DEF PlacesInv
    <2>3. Cardinality(services) < MaxConcurrentServices /\ services' = services \cup {s}
        BY <1>1 DEF Launch, HasPlace
    <2>4. IsFiniteSet(services') /\ Cardinality(services') <= MaxConcurrentServices
        BY <2>2, <2>3, ServiceAssumption
    <2> QED BY <2>1, <2>4 DEF PlacesInv
<1>2. ASSUME NEW stopped \in SUBSET Services, StopAllOf(stopped) PROVE PlacesInv'
    <2>1. \A d \in Services : Running(d)' => d \in services' \cup sigterm' \cup Privileged
        BY <1>2 DEF Typed, PlacesInv, StopAllOf, Kill, Running
    <2> QED BY <1>2, <2>1, FewerPlaces DEF PlacesInv, StopAllOf
<1>3. ASSUME NEW s \in Services, ExitEvent(s) \/ ErrorEvent(s) PROVE PlacesInv'
    <2>1. \A d \in Services : Running(d)' => d \in services' \cup sigterm' \cup Privileged
        BY <1>3 DEF Typed, PlacesInv, ExitEvent, ErrorEvent, Running
    <2> QED BY <1>3, <2>1, FewerPlaces DEF PlacesInv, ExitEvent, ErrorEvent
<1>4. ASSUME NEW s \in Services, ProcessEnds(s) PROVE PlacesInv'
    BY <1>4 DEF Typed, PlacesInv, ProcessEnds, Running
<1>5. ASSUME NEW s \in Services, Stop(s) PROVE PlacesInv'
    BY <1>2, <1>5 DEF Stop
<1>6. ASSUME StopAll PROVE PlacesInv'
    BY <1>2, <1>6 DEF StopAll, Typed
<1>7. ASSUME UNCHANGED vars PROVE PlacesInv'
    BY <1>7 DEF PlacesInv, vars, Running
<1> QED BY <1>1, <1>3, <1>4, <1>5, <1>6, <1>7 DEF Next

LEMMA PlacesImplyBounded == Typed /\ PlacesInv => UnstoppedBounded
<1> SUFFICES ASSUME Typed, PlacesInv PROVE UnstoppedBounded
    OBVIOUS
<1> DEFINE unstopped == {s \in Services : Running(s)} \ (sigterm \cup Privileged)
<1>1. unstopped \in SUBSET services
    BY DEF PlacesInv
<1>2. IsFiniteSet(services)
    BY DEF PlacesInv
<1>3. IsFiniteSet(unstopped) /\ Cardinality(unstopped) <= Cardinality(services)
    BY <1>1, <1>2, FS_Subset
<1>4. Cardinality(services) \in Nat /\ Cardinality(unstopped) \in Nat
    BY <1>2, <1>3, FS_CardinalityType
<1>5. Cardinality(services) <= MaxConcurrentServices
    BY DEF PlacesInv
<1>6. Cardinality(unstopped) <= MaxConcurrentServices
    <2> HIDE DEF unstopped
    <2> QED BY <1>3, <1>4, <1>5, ServiceAssumption
<1> QED BY <1>1, <1>6 DEF UnstoppedBounded

-----------------------------------------------------------------------------
LEMMA ToldStep == Typed /\ ToldInv /\ [Next]_vars => ToldInv'
<1> SUFFICES ASSUME Typed, ToldInv, [Next]_vars PROVE ToldInv'
    OBVIOUS
<1>1. ASSUME NEW s \in Services, Launch(s) PROVE ToldInv'
    BY <1>1 DEF Typed, ToldInv, Launch
<1>2. ASSUME NEW stopped \in SUBSET services, StopAllOf(stopped) PROVE ToldInv'
    <2> DEFINE told == {s \in stopped : Running(s)} \cap Privileged
    <2>1. Tell(told)
        BY <1>2 DEF StopAllOf, Kill
    <2>2. /\ \A s \in Services : s \in told => onExit'[s] = onExit[s] + 1
          /\ \A s \in Services : s \notin told => onExit'[s] = onExit[s]
        <3> HIDE DEF told
        <3> QED BY <2>1, TellCounts
    <2>3. child' = child /\ services' = services \ stopped
        BY <1>2 DEF StopAllOf
    <2>4. ASSUME NEW s \in Services, s \in told
          PROVE  child[s] = "running" /\ s \in Privileged /\ s \notin services' /\ onExit'[s] = 1
        BY <2>2, <2>3, <2>4 DEF ToldInv, Running, Typed
    <2>5. ASSUME NEW s \in Services, s \notin told
          PROVE  onExit'[s] = onExit[s] /\ (s \in services' => s \in services)
        <3> HIDE DEF told
        <3> QED BY <2>2, <2>3, <2>5
    <2> HIDE DEF told
    <2> QED BY <2>3, <2>4, <2>5 DEF ToldInv
<1>3. ASSUME NEW s \in Services, ExitEvent(s) \/ ErrorEvent(s) PROVE ToldInv'
    <2>1. /\ child[s] \in {"ended", "failed"}
          /\ child' = [child EXCEPT ![s] = "gone"]
          /\ services' = services \ {s}
          /\ Tell({s})
        BY <1>3 DEF ExitEvent, ErrorEvent
    <2>2. /\ onExit'[s] = onExit[s] + 1
          /\ \A d \in Services \ {s} : onExit'[d] = onExit[d]
        BY <2>1, TellCounts
    <2>3. child'[s] = "gone" /\ \A d \in Services \ {s} : child'[d] = child[d]
        BY <2>1 DEF Typed
    <2>4. onExit[s] \in IF s \in Privileged THEN {0, 1} ELSE {0}
        BY <2>1 DEF ToldInv
    <2> QED BY <2>1, <2>2, <2>3, <2>4 DEF ToldInv
<1>4. ASSUME NEW s \in Services, ProcessEnds(s) PROVE ToldInv'
    BY <1>4 DEF Typed, ToldInv, ProcessEnds, Running
<1>5. ASSUME NEW s \in Services, Stop(s) PROVE ToldInv'
    BY <1>2, <1>5 DEF Stop
<1>6. ASSUME StopAll PROVE ToldInv'
    BY <1>2, <1>6 DEF StopAll
<1>7. ASSUME UNCHANGED vars PROVE ToldInv'
    BY <1>7 DEF ToldInv, vars
<1> QED BY <1>1, <1>3, <1>4, <1>5, <1>6, <1>7 DEF Next

LEMMA ToldImpliesOnce == Typed /\ ToldInv => ExitToldOnce
BY DEF Typed, ToldInv, ExitToldOnce

-----------------------------------------------------------------------------
LEMMA AllInit == Init => Typed /\ PlacesInv /\ ToldInv
BY FS_EmptySet, ServiceAssumption
   DEF Init, Typed, PlacesInv, ToldInv, Running, Ended

\* services.ts: the types of the manager's state, with at most two calls of
\* onExit for a service.
THEOREM ServicesTyped == Spec => []TypeOK
<1> DEFINE Inv == Typed /\ ToldInv
<1>1. Init => Inv
    BY AllInit
<1>2. Inv /\ [Next]_vars => Inv'
    BY TypedStep, ToldStep
<1>3. Inv => TypeOK
    <2> SUFFICES ASSUME Typed, ToldInv PROVE TypeOK
        OBVIOUS
    <2>1. \A s \in Services : onExit[s] \in 0..2
        BY DEF ToldInv
    <2> QED BY <2>1 DEF Typed, TypeOK, Ended
<1> QED BY <1>1, <1>2, <1>3, PTL DEF Spec

\* services.ts, launch, stop and the listeners: the services nobody tries to
\* stop never exceed the cap and are never forgotten, for any number of
\* services and any cap.
THEOREM ServicesBounded == Spec => []UnstoppedBounded
<1> DEFINE Inv == Typed /\ PlacesInv
<1>1. Init => Inv
    BY AllInit
<1>2. Inv /\ [Next]_vars => Inv'
    BY TypedStep, PlacesStep
<1>3. Inv => UnstoppedBounded
    BY PlacesImplyBounded
<1> QED BY <1>1, <1>2, <1>3, PTL DEF Spec

\* services.ts, the listeners and handle.stop: onExit is called once for each
\* service that is gone, twice at most for one that may not be signalled.
THEOREM ExitIsToldOnce == Spec => []ExitToldOnce
<1> DEFINE Inv == Typed /\ ToldInv
<1>1. Init => Inv
    BY AllInit
<1>2. Inv /\ [Next]_vars => Inv'
    BY TypedStep, ToldStep
<1>3. Inv => ExitToldOnce
    BY ToldImpliesOnce
<1> QED BY <1>1, <1>2, <1>3, PTL DEF Spec
=============================================================================
