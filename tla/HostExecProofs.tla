--------------------------- MODULE HostExecProofs ---------------------------
(* Theorems of HostExec, for every set of runs and every configuration.      *)
EXTENDS HostExec, FiniteSetTheorems, TLAPS

(* What the two helpers of an ending run return. *)
LEMMA RetainedBounded ==
    ASSUME NEW n \in Nat
    PROVE  Retained(n) \in 0..MaxStdout
BY ExecAssumption DEF Retained

(* A result built from a typed state is a result. *)
LEMMA ResultTyped ==
    ASSUME TypeOK, NEW e \in Execs, NEW status \in Status
    PROVE  ResultOf(e, status) \in Results
<1>1. delivered[e] \in Nat
    BY ExecAssumption DEF TypeOK
<1>2. Retained(delivered[e]) \in 0..MaxStdout
    BY <1>1, RetainedBounded
<1>3. (delivered[e] > MaxStdout) \in BOOLEAN
    OBVIOUS
<1> QED BY <1>2, <1>3 DEF ResultOf, Results

LEMMA StatusTyped ==
    ASSUME NEW e \in Execs
    PROVE  StatusOf(e) \in Status
BY DEF StatusOf, Status

(* The error path keeps the types, whatever the timer was. *)
LEMMA FailRunTyped ==
    ASSUME TypeOK, NEW e \in Execs, NEW t \in {"off", "armed", "fired"}, FailRun(e, t)
    PROVE  /\ activeExecs' \subseteq Execs
           /\ completedExecs' \in [Execs -> Results \cup {NoResult}]
           /\ phase' \in [Execs -> Phases]
           /\ timer' \in [Execs -> {"off", "armed", "fired"}]
<1>1. ResultOf(e, "failed") \in Results
    BY ResultTyped DEF Status
<1> QED BY <1>1 DEF TypeOK, FailRun, Settle, Disarmed, Phases

(* The state the program keeps has the types it declares, in every state. *)
LEMMA TypeStep == TypeOK /\ [Next]_vars => TypeOK'
<1> SUFFICES ASSUME TypeOK, [Next]_vars PROVE TypeOK'
    OBVIOUS
<1> USE ExecAssumption
<1>1. ASSUME NEW e \in Execs, Exec(e) PROVE TypeOK'
    BY <1>1 DEF TypeOK, Exec, Phases
<1>2. ASSUME NEW e \in Execs, SpawnThrows(e) PROVE TypeOK'
    BY <1>2 DEF TypeOK, SpawnThrows, Phases, osVars
<1>3. ASSUME NEW e \in Execs, ErrorEvent(e) PROVE TypeOK'
    <2>1. FailRun(e, timer[e]) /\ timer[e] \in {"off", "armed", "fired"}
        BY <1>3 DEF ErrorEvent, TypeOK
    <2>2. UNCHANGED <<osVars, delivered>>
        BY <1>3 DEF ErrorEvent
    <2> QED BY <2>1, <2>2, FailRunTyped DEF TypeOK, osVars
<1>4. ASSUME NEW e \in Execs, ExitEvent(e) PROVE TypeOK'
    <2>1. ResultOf(e, StatusOf(e)) \in Results
        BY StatusTyped, ResultTyped
    <2>2. /\ activeExecs' \subseteq Execs
          /\ phase' \in [Execs -> Phases]
        BY <1>4 DEF TypeOK, ExitEvent, Settle, Phases
    <2>3. /\ completedExecs' \in [Execs -> Results \cup {NoResult}]
          /\ timer' \in [Execs -> {"off", "armed", "fired"}]
        BY <1>4, <2>1 DEF TypeOK, ExitEvent, Disarmed
    <2> QED BY <1>4, <2>2, <2>3 DEF TypeOK, ExitEvent, osVars
<1>5. ASSUME NEW e \in Execs, OnResultDone(e) PROVE TypeOK'
    BY <1>5 DEF TypeOK, OnResultDone, Settle, Phases, osVars
<1>6. ASSUME NEW e \in Execs, NEW t \in {"off", "armed", "fired"}, Kill(e, t),
             UNCHANGED <<child, written, delivered>>
      PROVE  TypeOK'
    <2>1. CASE Running(e) /\ e \in Privileged
        BY <1>6, <2>1, FailRunTyped DEF TypeOK, Kill
    <2>2. CASE ~(Running(e) /\ e \in Privileged)
        BY <1>6, <2>2 DEF TypeOK, Kill, Running
    <2> QED BY <2>1, <2>2
<1>7. ASSUME NEW e \in Execs, TimerFires(e) PROVE TypeOK'
    BY <1>6, <1>7 DEF TimerFires
<1>8. ASSUME NEW e \in Execs, Abort(e) PROVE TypeOK'
    <2>1. timer[e] \in {"off", "armed", "fired"}
        BY DEF TypeOK
    <2> QED BY <1>6, <1>8, <2>1 DEF Abort
<1>9. ASSUME NEW e \in Execs, ChildWrites(e) PROVE TypeOK'
    BY <1>9 DEF TypeOK, ChildWrites
<1>10. ASSUME NEW e \in Execs, ChildExits(e) PROVE TypeOK'
    BY <1>10 DEF TypeOK, ChildExits
<1>11. ASSUME NEW e \in Execs, DataEvent(e) PROVE TypeOK'
    BY <1>11 DEF TypeOK, DataEvent, osVars
<1>12. CASE UNCHANGED vars
    BY <1>12 DEF TypeOK, vars
<1> QED BY <1>1, <1>2, <1>3, <1>4, <1>5, <1>7, <1>8, <1>9, <1>10, <1>11, <1>12
        DEF Next, Service, Caller, System

(* Every state of the service is typed. *)
THEOREM TypeCorrect == Spec => []TypeOK
<1>1. Init => TypeOK
    BY ExecAssumption DEF Init, TypeOK, Phases
<1> QED BY <1>1, TypeStep, PTL DEF Spec

-----------------------------------------------------------------------------
(* Giving back a slot of an unsettled run keeps SlotInv: the error path, the *)
(* exit without a hook and the end of the hook all do it through Settle.     *)
LEMMA SettleKeepsSlots ==
    ASSUME TypeOK, SlotInv, NEW e \in Execs, NEW p \in {"settled", "rejected"},
           Settle(e, p), child' = child,
           Running(e) => e \in Privileged
    PROVE  SlotInv'
<1>1. activeExecs' = {x \in Execs : phase'[x] \in InFlight}
    BY DEF TypeOK, SlotInv, Settle, InFlight
<1>2. /\ IsFiniteSet(activeExecs')
      /\ Cardinality(activeExecs') <= Cardinality(activeExecs)
    <2>1. activeExecs' \subseteq activeExecs
        BY DEF Settle
    <2> QED BY <2>1, FS_Subset DEF SlotInv
<1>3. Cardinality(activeExecs') <= MaxConcurrentExecs
    <2>1. Cardinality(activeExecs) \in Nat /\ Cardinality(activeExecs') \in Nat
        BY <1>2, FS_CardinalityType DEF SlotInv
    <2> QED BY <1>2, <2>1, ExecAssumption DEF SlotInv
<1>4. \A x \in Execs \ Privileged : Running(x)' => phase'[x] = "awaiting"
    BY DEF TypeOK, SlotInv, Settle, Running
<1> QED BY <1>1, <1>2, <1>3, <1>4 DEF SlotInv

(* No step breaks the correspondence of slots, unsettled runs and processes. *)
LEMMA SlotStep == TypeOK /\ SlotInv /\ [Next]_vars => SlotInv'
<1> SUFFICES ASSUME TypeOK, SlotInv, [Next]_vars PROVE SlotInv'
    OBVIOUS
<1> USE ExecAssumption
<1>1. ASSUME NEW e \in Execs, Exec(e) PROVE SlotInv'
    <2>1. e \notin activeExecs
        BY <1>1 DEF Exec, SlotInv, InFlight
    <2>2. /\ IsFiniteSet(activeExecs')
          /\ Cardinality(activeExecs') = Cardinality(activeExecs) + 1
        BY <1>1, <2>1, FS_AddElement DEF Exec, SlotInv
    <2>3. Cardinality(activeExecs') <= MaxConcurrentExecs
        <3>1. Cardinality(activeExecs) \in Nat
            BY FS_CardinalityType DEF SlotInv
        <3> QED BY <1>1, <2>2, <3>1 DEF Exec, HasSlot
    <2>4. activeExecs' = {x \in Execs : phase'[x] \in InFlight}
        BY <1>1 DEF Exec, TypeOK, SlotInv, InFlight
    <2>5. \A x \in Execs \ Privileged : Running(x)' => phase'[x] = "awaiting"
        BY <1>1 DEF Exec, TypeOK, SlotInv, Running
    <2> QED BY <2>2, <2>3, <2>4, <2>5 DEF SlotInv
<1>2. ASSUME NEW e \in Execs, SpawnThrows(e) PROVE SlotInv'
    <2>1. activeExecs' = {x \in Execs : phase'[x] \in InFlight}
        BY <1>2 DEF SpawnThrows, TypeOK, SlotInv, InFlight
    <2>2. \A x \in Execs \ Privileged : Running(x)' => phase'[x] = "awaiting"
        BY <1>2 DEF SpawnThrows, TypeOK, SlotInv, Running, osVars
    <2> QED BY <1>2, <2>1, <2>2 DEF SlotInv, SpawnThrows
<1>3. ASSUME NEW e \in Execs, ErrorEvent(e) PROVE SlotInv'
    BY <1>3, SettleKeepsSlots DEF ErrorEvent, FailRun, Running, osVars
<1>4. ASSUME NEW e \in Execs, ExitEvent(e) PROVE SlotInv'
    <2>1. ~Running(e) /\ child' = child
        BY <1>4 DEF ExitEvent, Endings, Running, osVars
    <2>2. CASE PersistsResults
        <3>1. /\ activeExecs' = activeExecs
              /\ phase' = [phase EXCEPT ![e] = "persisting"]
            BY <1>4, <2>2 DEF ExitEvent
        <3>2. activeExecs' = {x \in Execs : phase'[x] \in InFlight}
            BY <1>4, <3>1 DEF ExitEvent, TypeOK, SlotInv, InFlight
        <3>3. \A x \in Execs \ Privileged : Running(x)' => phase'[x] = "awaiting"
            BY <2>1, <3>1 DEF TypeOK, SlotInv, Running
        <3> QED BY <3>1, <3>2, <3>3 DEF SlotInv
    <2>3. CASE ~PersistsResults
        BY <1>4, <2>1, <2>3, SettleKeepsSlots DEF ExitEvent
    <2> QED BY <2>2, <2>3
<1>5. ASSUME NEW e \in Execs, OnResultDone(e) PROVE SlotInv'
    <2>1. Running(e) => e \in Privileged
        BY <1>5 DEF OnResultDone, SlotInv
    <2> QED BY <1>5, <2>1, SettleKeepsSlots DEF OnResultDone, osVars
<1>6. ASSUME NEW e \in Execs, NEW t, Kill(e, t), child' = child PROVE SlotInv'
    <2>1. CASE Running(e) /\ e \in Privileged
        BY <1>6, <2>1, SettleKeepsSlots DEF Kill, FailRun
    <2>2. CASE ~(Running(e) /\ e \in Privileged)
        BY <1>6, <2>2 DEF Kill, SlotInv, Running
    <2> QED BY <2>1, <2>2
<1>7. ASSUME NEW e \in Execs, TimerFires(e) PROVE SlotInv'
    BY <1>6, <1>7 DEF TimerFires
<1>8. ASSUME NEW e \in Execs, Abort(e) PROVE SlotInv'
    BY <1>6, <1>8 DEF Abort
<1>9. ASSUME NEW e \in Execs, ChildWrites(e) PROVE SlotInv'
    BY <1>9 DEF SlotInv, ChildWrites, Running
<1>10. ASSUME NEW e \in Execs, ChildExits(e) PROVE SlotInv'
    <2>1. \A x \in Execs : Running(x)' => Running(x)
        BY <1>10 DEF ChildExits, Running, Endings, TypeOK
    <2> QED BY <1>10, <2>1 DEF SlotInv, ChildExits
<1>11. ASSUME NEW e \in Execs, DataEvent(e) PROVE SlotInv'
    BY <1>11 DEF SlotInv, DataEvent, Running, osVars
<1>12. CASE UNCHANGED vars
    BY <1>12 DEF SlotInv, vars, Running
<1> QED BY <1>1, <1>2, <1>3, <1>4, <1>5, <1>7, <1>8, <1>9, <1>10, <1>11, <1>12
        DEF Next, Service, Caller, System

(* The slots are the unsettled runs and never more than the cap. *)
THEOREM SlotsCorrect == Spec => []SlotInv
<1>1. Init => SlotInv
    BY FS_EmptySet, ExecAssumption DEF Init, SlotInv, InFlight, Running
<1> QED BY <1>1, SlotStep, TypeCorrect, PTL DEF Spec

(* A live process the agent can signal always holds a slot. *)
THEOREM LiveChildrenHold == Spec => []LiveChildrenHoldSlots
<1>1. SlotInv => LiveChildrenHoldSlots
    BY DEF SlotInv, LiveChildrenHoldSlots, InFlight
<1> QED BY <1>1, SlotsCorrect, PTL

(* The number of such processes never exceeds maxConcurrentExecs. *)
THEOREM ConcurrencyBounded == Spec => []ConcurrencyBound
<1>1. SlotInv => ConcurrencyBound
    <2> SUFFICES ASSUME SlotInv PROVE ConcurrencyBound
        OBVIOUS
    <2> DEFINE Live == {e \in Execs \ Privileged : Running(e)}
    <2>1. Live \subseteq activeExecs
        BY DEF SlotInv, InFlight
    <2>2. IsFiniteSet(Live) /\ Cardinality(Live) <= Cardinality(activeExecs)
        BY <2>1, FS_Subset DEF SlotInv
    <2>3. Cardinality(Live) \in Nat /\ Cardinality(activeExecs) \in Nat
        BY <2>2, FS_CardinalityType DEF SlotInv
    <2> QED BY <2>2, <2>3, ExecAssumption DEF SlotInv, ConcurrencyBound
<1> QED BY <1>1, SlotsCorrect, PTL

-----------------------------------------------------------------------------
(* Only an unrecorded run can take the error path: a kill meets a process    *)
(* the agent may not signal only while its run still waits for it.           *)
LEMMA KillOfRunningIsAwaiting ==
    ASSUME TypeOK, SlotInv, RunInv, NEW e \in Execs, Running(e),
           timer[e] = "armed" \/ e \in activeExecs
    PROVE  phase[e] = "awaiting"
BY DEF SlotInv, RunInv, InFlight, Endings, Running, TypeOK, Phases

(* No result is the placeholder. *)
LEMMA ResultRecorded ==
    ASSUME TypeOK, NEW e \in Execs, NEW status \in Status
    PROVE  ResultOf(e, status) # NoResult
BY ResultTyped, NoResultAssumption

(* The error path from an awaiting run keeps RunInv. *)
LEMMA FailRunKeepsRun ==
    ASSUME TypeOK, RunInv, NEW e \in Execs, NEW t, FailRun(e, t),
           phase[e] = "awaiting", child' = child
    PROVE  RunInv'
<1>1. ResultOf(e, "failed") # NoResult
    BY ResultRecorded DEF Status
<1> QED BY <1>1 DEF TypeOK, RunInv, FailRun, Settle, Disarmed, Recorded

(* No step breaks RunInv. *)
LEMMA RunInvStep == TypeOK /\ SlotInv /\ RunInv /\ [Next]_vars => RunInv'
<1> SUFFICES ASSUME TypeOK, SlotInv, RunInv, [Next]_vars PROVE RunInv'
    OBVIOUS
<1>1. ASSUME NEW e \in Execs, Exec(e) PROVE RunInv'
    BY <1>1 DEF Exec, TypeOK, RunInv, Recorded
<1>2. ASSUME NEW e \in Execs, SpawnThrows(e) PROVE RunInv'
    BY <1>2 DEF SpawnThrows, TypeOK, RunInv, Recorded, osVars
<1>3. ASSUME NEW e \in Execs, ErrorEvent(e) PROVE RunInv'
    BY <1>3, FailRunKeepsRun DEF ErrorEvent, osVars
<1>4. ASSUME NEW e \in Execs, ExitEvent(e) PROVE RunInv'
    <2>1. ResultOf(e, StatusOf(e)) # NoResult
        BY StatusTyped, ResultRecorded
    <2>2. /\ phase' = [phase EXCEPT ![e] = "persisting"]
          \/ phase' = [phase EXCEPT ![e] = "settled"]
        BY <1>4 DEF ExitEvent, Settle
    <2> QED BY <1>4, <2>1, <2>2 DEF ExitEvent, Disarmed, TypeOK, RunInv, Recorded, osVars, Endings
<1>5. ASSUME NEW e \in Execs, OnResultDone(e) PROVE RunInv'
    BY <1>5 DEF OnResultDone, Settle, TypeOK, RunInv, Recorded, osVars, Endings
<1>6. ASSUME NEW e \in Execs, TimerFires(e) PROVE RunInv'
    <2>1. CASE Running(e) /\ e \in Privileged
        <3>1. phase[e] = "awaiting"
            BY <1>6, <2>1, KillOfRunningIsAwaiting DEF TimerFires
        <3> QED BY <1>6, <2>1, <3>1, FailRunKeepsRun DEF TimerFires, Kill
    <2>2. CASE ~(Running(e) /\ e \in Privileged)
        BY <1>6, <2>2 DEF TimerFires, Kill, TypeOK, RunInv, Recorded
    <2> QED BY <2>1, <2>2
<1>7. ASSUME NEW e \in Execs, Abort(e) PROVE RunInv'
    <2>1. CASE Running(e) /\ e \in Privileged
        <3>1. phase[e] = "awaiting"
            BY <1>7, <2>1, KillOfRunningIsAwaiting DEF Abort
        <3> QED BY <1>7, <2>1, <3>1, FailRunKeepsRun DEF Abort, Kill
    <2>2. CASE ~(Running(e) /\ e \in Privileged)
        BY <1>7, <2>2 DEF Abort, Kill, TypeOK, RunInv, Recorded
    <2> QED BY <2>1, <2>2
<1>8. ASSUME NEW e \in Execs, ChildExits(e) PROVE RunInv'
    BY <1>8 DEF ChildExits, Running, Endings, TypeOK, RunInv, Recorded
<1>9. ASSUME NEW e \in Execs, ChildWrites(e) \/ DataEvent(e) PROVE RunInv'
    BY <1>9 DEF ChildWrites, DataEvent, RunInv, Recorded, osVars
<1>10. CASE UNCHANGED vars
    BY <1>10 DEF RunInv, Recorded, vars
<1> QED BY <1>1, <1>2, <1>3, <1>4, <1>5, <1>6, <1>7, <1>8, <1>9, <1>10
        DEF Next, Service, Caller, System

(* The phases, timers, processes and records of the runs always agree. *)
THEOREM RunsCoherent == Spec => []RunInv
<1>1. Init => RunInv
    BY DEF Init, RunInv, Recorded
<1> QED BY <1>1, RunInvStep, TypeCorrect, SlotsCorrect, PTL DEF Spec

(* Once recorded, a result never changes. *)
THEOREM ResultsFinal == Spec => ResultsAreFinal
<1> DEFINE Final == \A e \in Execs : Recorded(e) => completedExecs'[e] = completedExecs[e]
<1>1. TypeOK /\ SlotInv /\ RunInv /\ [Next]_vars => [Final]_vars
    <2> SUFFICES ASSUME TypeOK, SlotInv, RunInv, Next,
                        NEW e \in Execs, Recorded(e)
                 PROVE  completedExecs'[e] = completedExecs[e]
        OBVIOUS
    <2>1. phase[e] # "awaiting"
        BY DEF RunInv
    <2>2. ASSUME NEW x \in Execs, completedExecs' # completedExecs,
                 Service(x) \/ Caller(x) \/ System(x)
          PROVE  /\ phase[x] = "awaiting"
                 /\ \E r : completedExecs' = [completedExecs EXCEPT ![x] = r]
        <3>1. CASE ErrorEvent(x) \/ ExitEvent(x)
            BY <3>1 DEF ErrorEvent, ExitEvent, FailRun
        <3>2. CASE TimerFires(x)
            BY <2>2, <3>2, KillOfRunningIsAwaiting DEF TimerFires, Kill, FailRun
        <3>3. CASE Abort(x)
            BY <2>2, <3>3, KillOfRunningIsAwaiting DEF Abort, Kill, FailRun
        <3> QED BY <2>2, <3>1, <3>2, <3>3
                DEF Service, Caller, System, OnResultDone, DataEvent, Exec,
                    SpawnThrows, ChildWrites, ChildExits
    <2> QED BY <2>1, <2>2 DEF TypeOK, Next
<1> QED BY <1>1, TypeCorrect, SlotsCorrect, RunsCoherent, PTL DEF Spec, ResultsAreFinal

-----------------------------------------------------------------------------
(* No step makes a recorded status dishonest.                                *)
LEMMA HonestStep ==
    TypeOK /\ SlotInv /\ RunInv /\ StatusIsHonest /\ [Next]_vars => StatusIsHonest'
<1> SUFFICES ASSUME TypeOK, SlotInv, RunInv, StatusIsHonest, [Next]_vars
             PROVE  StatusIsHonest'
    OBVIOUS
<1>1. ASSUME NEW e \in Execs, Exec(e) PROVE StatusIsHonest'
    BY <1>1 DEF Exec, TypeOK, RunInv, StatusIsHonest, Recorded
<1>2. ASSUME NEW e \in Execs, SpawnThrows(e) PROVE StatusIsHonest'
    BY <1>2 DEF SpawnThrows, StatusIsHonest, Recorded, osVars
<1>3. ASSUME NEW e \in Execs, NEW t, FailRun(e, t), child' = child,
             t = "fired" => e \in Privileged
      PROVE  StatusIsHonest'
    BY <1>3 DEF FailRun, Disarmed, ResultOf, TypeOK, StatusIsHonest, Recorded
<1>4. ASSUME NEW e \in Execs, ErrorEvent(e) PROVE StatusIsHonest'
    <2>1. timer[e] = "armed"
        BY <1>4 DEF ErrorEvent, RunInv
    <2> QED BY <1>4, <2>1, <1>3 DEF ErrorEvent, osVars
<1>5. ASSUME NEW e \in Execs, ExitEvent(e) PROVE StatusIsHonest'
    <2>1. completedExecs'[e].status = StatusOf(e)
        BY <1>5 DEF ExitEvent, ResultOf, TypeOK
    <2>2. timer'[e] = IF timer[e] = "fired" THEN "fired" ELSE "off"
        BY <1>5 DEF ExitEvent, Disarmed, TypeOK
    <2>3. \A x \in Execs \ {e} : /\ completedExecs'[x] = completedExecs[x]
                                 /\ timer'[x] = timer[x]
        BY <1>5 DEF ExitEvent, Disarmed, TypeOK
    <2>4. child' = child
        BY <1>5 DEF ExitEvent, osVars
    <2>5. /\ StatusOf(e) = "timed_out" <=> timer[e] = "fired"
          /\ StatusOf(e) = "completed" => child[e] = "zero"
          /\ StatusOf(e) = "aborted" => child[e] = "signal"
        BY DEF StatusOf
    <2> QED BY <2>1, <2>2, <2>3, <2>4, <2>5 DEF StatusIsHonest, Recorded
<1>6. ASSUME NEW e \in Execs, OnResultDone(e) PROVE StatusIsHonest'
    BY <1>6 DEF OnResultDone, StatusIsHonest, Recorded, osVars
<1>7. ASSUME NEW e \in Execs, TimerFires(e) PROVE StatusIsHonest'
    <2>1. CASE Running(e) /\ e \in Privileged
        BY <1>3, <1>7, <2>1 DEF TimerFires, Kill
    <2>2. CASE ~(Running(e) /\ e \in Privileged)
        BY <1>7, <2>2 DEF TimerFires, Kill, TypeOK, RunInv, StatusIsHonest, Recorded
    <2> QED BY <2>1, <2>2
<1>8. ASSUME NEW e \in Execs, Abort(e) PROVE StatusIsHonest'
    <2>1. CASE Running(e) /\ e \in Privileged
        BY <1>3, <1>8, <2>1 DEF Abort, Kill
    <2>2. CASE ~(Running(e) /\ e \in Privileged)
        BY <1>8, <2>2 DEF Abort, Kill, TypeOK, StatusIsHonest, Recorded
    <2> QED BY <2>1, <2>2
<1>9. ASSUME NEW e \in Execs, ChildExits(e) PROVE StatusIsHonest'
    BY <1>9 DEF ChildExits, Running, TypeOK, StatusIsHonest, Recorded
<1>10. ASSUME NEW e \in Execs, ChildWrites(e) \/ DataEvent(e) PROVE StatusIsHonest'
    BY <1>10 DEF ChildWrites, DataEvent, StatusIsHonest, Recorded, osVars
<1>11. CASE UNCHANGED vars
    BY <1>11 DEF StatusIsHonest, Recorded, vars
<1> QED BY <1>1, <1>2, <1>4, <1>5, <1>6, <1>7, <1>8, <1>9, <1>10, <1>11
        DEF Next, Service, Caller, System

(* The recorded status tells why the run ended. *)
THEOREM StatusHonest == Spec => []StatusIsHonest
<1>1. Init => StatusIsHonest
    BY DEF Init, StatusIsHonest, Recorded
<1> QED BY <1>1, HonestStep, TypeCorrect, SlotsCorrect, RunsCoherent, PTL DEF Spec

-----------------------------------------------------------------------------
(* The safety part of the contract. The refinement mapping, written out:     *)
AbstractState == [e \in Execs |->
    IF phase[e] = "none" THEN "unused"
    ELSE IF e \in activeExecs THEN "active" ELSE "done"]

AbstractOutcome == [e \in Execs |->
    IF Recorded(e) THEN completedExecs[e].status ELSE NoResult]

(* The abstract active runs are the slots. *)
LEMMA ActiveIsSlots == SlotInv => Contract!Active = activeExecs
BY DEF Contract!Active, SlotInv, InFlight

(* Recording a result at e, with e kept or released, is a Report of e. *)
LEMMA RecordIsReport ==
    ASSUME TypeOK, SlotInv, RunInv, NEW e \in Execs, NEW status \in Status,
           phase[e] = "awaiting",
           completedExecs' = [completedExecs EXCEPT ![e] = ResultOf(e, status)],
           \/ Settle(e, "settled")
           \/ phase' = [phase EXCEPT ![e] = "persisting"] /\ UNCHANGED activeExecs
    PROVE  Contract!Report(e)
<1>1. /\ ResultOf(e, status) # NoResult
      /\ ResultOf(e, status).status = status
    BY ResultRecorded DEF ResultOf
<1>2. AbstractState[e] = "active" /\ AbstractOutcome[e] = NoResult
    BY DEF AbstractState, AbstractOutcome, SlotInv, RunInv, InFlight
<1>3. AbstractOutcome' = [AbstractOutcome EXCEPT ![e] = status]
    BY <1>1 DEF AbstractOutcome, Recorded, TypeOK
<1>4. \/ AbstractState' = AbstractState
      \/ AbstractState' = [AbstractState EXCEPT ![e] = "done"]
    <2>1. CASE Settle(e, "settled")
        BY <2>1 DEF AbstractState, Settle, TypeOK
    <2>2. CASE phase' = [phase EXCEPT ![e] = "persisting"] /\ UNCHANGED activeExecs
        BY <2>2 DEF AbstractState, TypeOK
    <2> QED BY <2>1, <2>2
<1> QED BY <1>2, <1>3, <1>4 DEF Contract!Report, AbstractState, AbstractOutcome

(* Each step of the service is a step of the contract or leaves it alone. *)
LEMMA ContractStep ==
    TypeOK /\ SlotInv /\ RunInv /\ [Next]_vars => [Contract!Next]_(Contract!vars)
<1> SUFFICES ASSUME TypeOK, SlotInv, RunInv, [Next]_vars
             PROVE  Contract!Next \/ UNCHANGED <<AbstractState, AbstractOutcome>>
    BY DEF Contract!vars, AbstractState, AbstractOutcome
<1>1. ASSUME NEW e \in Execs, Exec(e) PROVE Contract!Admit(e)
    <2>1. AbstractState[e] = "unused"
        BY <1>1 DEF AbstractState, Exec
    <2>2. AbstractState' = [AbstractState EXCEPT ![e] = "active"]
        BY <1>1 DEF AbstractState, Exec, TypeOK
    <2>3. UNCHANGED AbstractOutcome
        BY <1>1 DEF AbstractOutcome, Exec, Recorded
    <2>4. Contract!Cardinality(activeExecs) = Cardinality(activeExecs)
        BY DEF Contract!Cardinality, Cardinality
    <2> QED BY <1>1, <2>1, <2>2, <2>3, <2>4, ActiveIsSlots
            DEF Contract!Admit, Exec, HasSlot, AbstractState, AbstractOutcome
<1>2. ASSUME NEW e \in Execs, SpawnThrows(e) PROVE Contract!Refuse(e)
    <2>1. AbstractState[e] = "unused" /\ e \notin activeExecs
        BY <1>2 DEF AbstractState, SpawnThrows, SlotInv, InFlight
    <2>2. AbstractState' = [AbstractState EXCEPT ![e] = "done"]
        BY <1>2, <2>1 DEF AbstractState, SpawnThrows, TypeOK
    <2>3. UNCHANGED AbstractOutcome
        BY <1>2 DEF AbstractOutcome, SpawnThrows, Recorded
    <2> QED BY <2>1, <2>2, <2>3 DEF Contract!Refuse, AbstractState, AbstractOutcome
<1>3. ASSUME NEW e \in Execs, ErrorEvent(e) PROVE Contract!Report(e)
    BY <1>3, RecordIsReport DEF ErrorEvent, FailRun, Status
<1>4. ASSUME NEW e \in Execs, ExitEvent(e) PROVE Contract!Report(e)
    BY <1>4, StatusTyped, RecordIsReport DEF ExitEvent
<1>5. ASSUME NEW e \in Execs, OnResultDone(e) PROVE Contract!Release(e)
    <2>1. AbstractState[e] = "active" /\ AbstractOutcome[e] # NoResult
        BY <1>5, NoResultAssumption
        DEF OnResultDone, AbstractState, AbstractOutcome, SlotInv, RunInv,
            InFlight, TypeOK, Recorded, Results
    <2>2. AbstractState' = [AbstractState EXCEPT ![e] = "done"]
        BY <1>5 DEF AbstractState, OnResultDone, Settle, TypeOK
    <2>3. UNCHANGED AbstractOutcome
        BY <1>5 DEF AbstractOutcome, OnResultDone, Recorded
    <2> QED BY <2>1, <2>2, <2>3 DEF Contract!Release, AbstractState, AbstractOutcome
<1>6. ASSUME NEW e \in Execs, TimerFires(e) \/ Abort(e)
      PROVE  Contract!Report(e) \/ UNCHANGED <<AbstractState, AbstractOutcome>>
    <2>1. PICK t : Kill(e, t)
        BY <1>6 DEF TimerFires, Abort
    <2>2. CASE Running(e) /\ e \in Privileged
        <3>1. phase[e] = "awaiting"
            BY <1>6, <2>2, KillOfRunningIsAwaiting DEF TimerFires, Abort
        <3> QED BY <2>1, <2>2, <3>1, RecordIsReport DEF Kill, FailRun, Status
    <2>3. CASE ~(Running(e) /\ e \in Privileged)
        BY <2>1, <2>3 DEF Kill, AbstractState, AbstractOutcome, Recorded
    <2> QED BY <2>2, <2>3
<1>7. ASSUME NEW e \in Execs, ChildWrites(e) \/ ChildExits(e) \/ DataEvent(e)
      PROVE  UNCHANGED <<AbstractState, AbstractOutcome>>
    BY <1>7 DEF ChildWrites, ChildExits, DataEvent, AbstractState,
                AbstractOutcome, Recorded
<1>8. CASE UNCHANGED vars
    BY <1>8 DEF vars, AbstractState, AbstractOutcome, Recorded
<1> QED BY <1>1, <1>2, <1>3, <1>4, <1>5, <1>6, <1>7, <1>8
        DEF Next, Service, Caller, System, Contract!Next

(* The service implements the safety part of its contract. *)
THEOREM ContractImplemented == Spec => Contract!Safety
<1>1. Init => Contract!Init
    BY DEF Init, Contract!Init, Recorded
<1> QED BY <1>1, ContractStep, TypeCorrect, SlotsCorrect, RunsCoherent, PTL
        DEF Spec, Contract!Safety
=============================================================================
