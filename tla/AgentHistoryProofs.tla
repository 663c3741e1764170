------------------------- MODULE AgentHistoryProofs -------------------------
(* Theorems of AgentExec: what the composition keeps of HostExec, and what   *)
(* the replies of the agent loop say about the slots of the service; and of  *)
(* AgentHistory: the service and the agent loop keep these laws with the     *)
(* history as onResult hook, and what disturbs the history.                  *)
EXTENDS AgentHistory, HostExecProofs, SequenceTheorems

-----------------------------------------------------------------------------
(* The agent loop takes only steps of the service.                           *)

\* An abort request is an Abort of the run it finds, or none.
LEMMA AbortIsStep ==
    ASSUME NEW j \in Jobs, jobs[j] \in Execs \cup {NoJob}, HandleAbort(j)
    PROVE  (\E e \in Execs : Abort(e)) \/ UNCHANGED vars
<1>1. CASE jobs[j] = NoJob
    BY <1>1 DEF HandleAbort
<1>2. CASE jobs[j] # NoJob
    BY <1>2 DEF HandleAbort, AbortRun
<1> QED BY <1>1, <1>2

LEMMA AgentStepIsServiceStep ==
    ASSUME jobs \in [Jobs -> Commands \cup {NoJob}], [AgentNext]_allVars
    PROVE  [Next]_vars
<1>0. Commands \subseteq Execs
    BY AgentAssumption DEF Commands
<1>1. ASSUME NEW e \in Execs, Refused(e) \/ Accepted(e) \/ Broken(e) \/ RunStep(e)
      PROVE  [Next]_vars
    BY <1>1 DEF Refused, Accepted, Broken, RunStep, Next, Caller
<1>2. ASSUME NEW j \in Jobs, HandleAbort(j) PROVE [Next]_vars
    <2>1. jobs[j] \in Execs \cup {NoJob}
        BY <1>0
    <2>2. (\E e \in Execs : Abort(e)) \/ UNCHANGED vars
        BY <1>2, <2>1, AbortIsStep
    <2> QED BY <2>2 DEF Next, Caller
<1>3. ASSUME Drop \/ Reconnect PROVE [Next]_vars
    BY <1>3 DEF Drop, Reconnect
<1>4. ASSUME UNCHANGED allVars PROVE [Next]_vars
    BY <1>4 DEF allVars
<1> QED BY <1>1, <1>2, <1>3, <1>4 DEF AgentNext

\* The job table holds handles of runs.
JobsTyped == jobs \in [Jobs -> Commands \cup {NoJob}]

LEMMA JobsTypedStep == JobsTyped /\ [AgentNext]_allVars => JobsTyped'
<1> SUFFICES ASSUME JobsTyped, [AgentNext]_allVars PROVE JobsTyped'
    OBVIOUS
<1> USE DEF JobsTyped
<1>1. Deleted(Settling) \in [Jobs -> Commands \cup {NoJob}]
    BY DEF Deleted
<1>2. ASSUME NEW e \in Execs, Track(e) PROVE JobsTyped'
    BY <1>2, AgentAssumption DEF Track, Commands
<1>3. ASSUME NEW e \in Execs, Refused(e) \/ Accepted(e) \/ Broken(e) \/ RunStep(e)
      PROVE  JobsTyped'
    BY <1>1, <1>2, <1>3 DEF Refused, Accepted, Broken, RunStep
<1>4. ASSUME NEW j \in Jobs, HandleAbort(j) PROVE JobsTyped'
    BY <1>1, <1>4 DEF HandleAbort
<1>5. ASSUME Drop \/ Reconnect \/ UNCHANGED allVars PROVE JobsTyped'
    BY <1>5 DEF Drop, Reconnect, allVars, agentVars
<1> QED BY <1>3, <1>4, <1>5 DEF AgentNext

(* Driven by the agent loop, over sockets that come and go, the service      *)
(* still takes only its own steps: what holds of HostExec holds here.        *)
THEOREM AgentUsesService == AgentSpec => UsesHostExec
<1>1. AgentInit => Init /\ JobsTyped
    BY DEF AgentInit, JobsTyped
<1>2. JobsTyped /\ [AgentNext]_allVars => [Next]_vars
    BY AgentStepIsServiceStep DEF JobsTyped
<1> QED BY <1>1, <1>2, JobsTypedStep, PTL DEF AgentSpec, UsesHostExec, Spec

(* The cap on concurrent processes holds whatever the control plane asks.    *)
THEOREM AgentConcurrencyBounded == AgentSpec => []ConcurrencyBound
BY AgentUsesService, ConcurrencyBounded, PTL DEF UsesHostExec

-----------------------------------------------------------------------------
(* Replies and slots                                                         *)

RepliesTyped == reply \in [Execs -> Replies]

ReplyInv == RepliesTyped /\ ReplyFreesSlot

\* A step that admits no run and answers the runs it settles keeps the law.
LEMMA AnswersKeepReplies ==
    ASSUME ReplyInv, SlotInv, SlotInv', Answers,
           activeExecs' \subseteq activeExecs
    PROVE  ReplyInv'
<1>1. ASSUME NEW e \in Execs
      PROVE  /\ reply'[e] \in Replies
             /\ reply'[e] = "pending" <=> reply[e] = "pending" /\ e \notin Settling
    BY DEF Answers, Sent, Replies, ReplyInv, RepliesTyped, ReplyFreesSlot, Settling, SlotInv
<1>2. ASSUME NEW e \in Execs
      PROVE  e \in activeExecs' <=> e \in activeExecs /\ e \notin Settling
    BY DEF SlotInv, Settling
<1>3. reply' \in [Execs -> Replies]
    BY <1>1 DEF Answers
<1> QED BY <1>1, <1>2, <1>3 DEF ReplyInv, RepliesTyped, ReplyFreesSlot

LEMMA NoAdmission ==
    ASSUME NEW e \in Execs, Service(e) \/ System(e) \/ Abort(e)
    PROVE  activeExecs' \subseteq activeExecs
BY DEF Service, System, Abort, ErrorEvent, ExitEvent, OnResultDone, TimerFires,
       DataEvent, ChildWrites, ChildExits, Kill, FailRun, Settle

LEMMA ReplyStep ==
    JobsTyped /\ SlotInv /\ SlotInv' /\ ReplyInv /\ [AgentNext]_allVars => ReplyInv'
<1> SUFFICES ASSUME JobsTyped, SlotInv, SlotInv', ReplyInv, [AgentNext]_allVars
             PROVE  ReplyInv'
    OBVIOUS
<1>1. ASSUME NEW e \in Execs, Refused(e) PROVE ReplyInv'
    BY <1>1 DEF Refused, Arrives, ReplyInv, RepliesTyped, Replies, ReplyFreesSlot, vars
<1>2. ASSUME NEW e \in Execs, Accepted(e) PROVE ReplyInv'
    BY <1>2 DEF Accepted, Arrives, Exec, ReplyInv, RepliesTyped, Replies, ReplyFreesSlot
<1>3. ASSUME NEW e \in Execs, Broken(e) PROVE ReplyInv'
    BY <1>3 DEF Broken, Arrives, SpawnThrows, ReplyInv, RepliesTyped, Replies, ReplyFreesSlot
<1>4. ASSUME NEW e \in Execs, RunStep(e) PROVE ReplyInv'
    BY <1>4, NoAdmission, AnswersKeepReplies DEF RunStep
<1>5. ASSUME NEW j \in Jobs, HandleAbort(j) PROVE ReplyInv'
    <2>1. jobs[j] \in Execs \cup {NoJob}
        BY AgentAssumption DEF JobsTyped, Commands
    <2>2. activeExecs' \subseteq activeExecs
        BY <1>5, <2>1, AbortIsStep, NoAdmission DEF vars
    <2> QED BY <1>5, <2>2, AnswersKeepReplies DEF HandleAbort
<1>6. ASSUME Drop \/ Reconnect \/ UNCHANGED allVars PROVE ReplyInv'
    BY <1>6 DEF Drop, Reconnect, allVars, agentVars, vars, ReplyInv, RepliesTyped, Replies,
                ReplyFreesSlot
<1> QED BY <1>1, <1>2, <1>3, <1>4, <1>5, <1>6 DEF AgentNext

LEMMA ReplyLaw == AgentSpec => []ReplyInv
<1>1. AgentInit => Init /\ JobsTyped /\ ReplyInv
    BY DEF AgentInit, Init, JobsTyped, ReplyInv, RepliesTyped, Replies, ReplyFreesSlot
<1>2. AgentSpec => []SlotInv
    BY AgentUsesService, SlotsCorrect, PTL DEF UsesHostExec
<1> QED BY <1>1, <1>2, JobsTypedStep, ReplyStep, PTL DEF AgentSpec

(* A request is unanswered exactly while its run holds a slot.               *)
THEOREM ReplyMeansSlotFree == AgentSpec => []ReplyFreesSlot
<1>1. ReplyInv => ReplyFreesSlot
    BY DEF ReplyInv
<1> QED BY <1>1, ReplyLaw, PTL

LEMMA JobsLaw == AgentSpec => []JobsTyped
<1>1. AgentInit => JobsTyped
    BY DEF AgentInit, JobsTyped
<1> QED BY <1>1, JobsTypedStep, PTL DEF AgentSpec

-----------------------------------------------------------------------------
(* What a step does to the runs                                              *)

Moves(e) == Service(e) \/ System(e) \/ Abort(e)

\* A step of a run is about that run only.
LEMMA OthersStay ==
    ASSUME TypeOK, NEW e \in Execs, Moves(e), NEW d \in Execs, d # e
    PROVE  phase'[d] = phase[d] /\ completedExecs'[d] = completedExecs[d] /\ child'[d] = child[d]
BY DEF Moves, Service, System, Abort, ErrorEvent, ExitEvent, OnResultDone, TimerFires,
       DataEvent, ChildWrites, ChildExits, Kill, FailRun, Settle, TypeOK, osVars

\* The phases a run may come from.
LEMMA PhaseMoves ==
    ASSUME TypeOK, NEW e \in Execs, Moves(e)
    PROVE  /\ phase'[e] = "persisting" => phase[e] \in {"awaiting", "persisting"}
           /\ phase'[e] \in {"none", "awaiting"} => phase'[e] = phase[e]
           /\ phase'[e] = "rejected" => phase[e] \in {"persisting", "rejected"}
BY DEF Moves, Service, System, Abort, ErrorEvent, ExitEvent, OnResultDone, TimerFires,
       DataEvent, ChildWrites, ChildExits, Kill, FailRun, Settle, TypeOK, osVars

\* Nothing moves a run that is over, and that never had a process.
LEMMA OverStays ==
    ASSUME TypeOK, SlotInv, RunInv, NEW e \in Execs, Moves(e), phase[e] \notin InFlight
    PROVE  /\ phase'[e] = phase[e]
           /\ completedExecs'[e] = completedExecs[e]
           /\ child[e] = "none" => child'[e] = "none"
<1>1. e \notin activeExecs /\ timer[e] # "armed" /\ phase[e] \notin {"awaiting", "persisting"}
    BY DEF SlotInv, RunInv, InFlight
<1>2. ~Abort(e) /\ ~TimerFires(e) /\ ~ErrorEvent(e) /\ ~ExitEvent(e) /\ ~OnResultDone(e)
    BY <1>1 DEF Abort, TimerFires, ErrorEvent, ExitEvent, OnResultDone
<1>3. DataEvent(e) \/ ChildWrites(e) \/ ChildExits(e)
    BY <1>2 DEF Moves, Service, System
<1> QED BY <1>3 DEF DataEvent, ChildWrites, ChildExits, Running, TypeOK, osVars

\* Nor does a step of another run.
LEMMA IdleStays ==
    ASSUME TypeOK, SlotInv, RunInv, NEW e \in Execs, Moves(e), NEW d \in Execs,
           phase[d] \notin InFlight
    PROVE  /\ phase'[d] = phase[d]
           /\ completedExecs'[d] = completedExecs[d]
           /\ child[d] = "none" => child'[d] = "none"
BY OthersStay, OverStays

\* Each step of the agent loop admits a run, or moves one, or moves none.
LEMMA AgentStepCases ==
    ASSUME JobsTyped, [AgentNext]_allVars
    PROVE  \/ \E e \in Execs : (Accepted(e) /\ Exec(e)) \/ (Broken(e) /\ SpawnThrows(e))
           \/ \E e \in Execs : Moves(e) /\ Answers
           \/ (\E e \in Execs : Refused(e)) /\ UNCHANGED vars
           \/ UNCHANGED vars /\ (UNCHANGED reply \/ Answers)
<1>1. ASSUME NEW j \in Jobs, HandleAbort(j)
      PROVE  (\E e \in Execs : Moves(e) /\ Answers) \/ (UNCHANGED vars /\ Answers)
    <2>1. jobs[j] \in Execs \cup {NoJob}
        BY AgentAssumption DEF JobsTyped, Commands
    <2> QED BY <1>1, <2>1, AbortIsStep DEF HandleAbort, Moves
<1>2. ASSUME NEW e \in Execs, RunStep(e) PROVE Moves(e) /\ Answers
    BY <1>2 DEF RunStep, Moves
<1>3. ASSUME NEW e \in Execs, Refused(e) \/ Accepted(e) \/ Broken(e)
      PROVE  \/ Refused(e) /\ UNCHANGED vars
             \/ Accepted(e) /\ Exec(e)
             \/ Broken(e) /\ SpawnThrows(e)
    BY <1>3 DEF Refused, Accepted, Broken
<1>4. ASSUME Drop \/ Reconnect \/ UNCHANGED allVars PROVE UNCHANGED vars /\ UNCHANGED reply
    BY <1>4 DEF Drop, Reconnect, allVars, agentVars
<1> QED BY <1>1, <1>2, <1>3, <1>4 DEF AgentNext

\* The same for all runs at once, in any step.
LEMMA StepPhases ==
    ASSUME TypeOK, JobsTyped, [AgentNext]_allVars, NEW d \in Execs
    PROVE  /\ phase'[d] = "persisting" => phase[d] \in {"awaiting", "persisting"}
           /\ phase'[d] \in {"none", "awaiting"} => phase[d] \in {"none", "awaiting"}
<1>1. ASSUME NEW e \in Execs, Exec(e) \/ SpawnThrows(e)
      PROVE  /\ phase'[d] = "persisting" => phase[d] \in {"awaiting", "persisting"}
             /\ phase'[d] \in {"none", "awaiting"} => phase[d] \in {"none", "awaiting"}
    BY <1>1 DEF Exec, SpawnThrows, TypeOK
<1>2. ASSUME NEW e \in Execs, Moves(e)
      PROVE  /\ phase'[d] = "persisting" => phase[d] \in {"awaiting", "persisting"}
             /\ phase'[d] \in {"none", "awaiting"} => phase[d] \in {"none", "awaiting"}
    BY <1>2, OthersStay, PhaseMoves
<1>3. ASSUME UNCHANGED vars PROVE phase' = phase
    BY <1>3 DEF vars
<1> QED BY <1>1, <1>2, <1>3, AgentStepCases

-----------------------------------------------------------------------------
(* Jobs and aborts, if each execute request has a job id of its own          *)

\* A process that can be signalled is known by its job, or was sent SIGTERM.
KnownOrSignalled ==
    \A e \in Commands \ Privileged :
        Running(e) => jobs[JobOf[e]] = e \/ sigterm[e]

JobsInv == JobTableTracksRuns /\ KnownOrSignalled

\* What is proved of the service, the job table and the replies.
AgentLaws == TypeOK /\ TypeOK' /\ SlotInv /\ RunInv /\ JobsTyped

\* A step of a run e, with the entries of settled runs deleted.
LEMMA DeletedKeepsJobs ==
    ASSUME UniqueJobs, AgentLaws, JobTableTracksRuns, NEW e \in Execs, Moves(e)
    PROVE  /\ \A d \in Commands : phase'[d] \in InFlight =>
                  Deleted(Settling)[JobOf[d]] = d \/ acks[JobOf[d]] > 0
           /\ \A j \in Jobs : Deleted(Settling)[j] # NoJob =>
                  /\ Deleted(Settling)[j] = jobs[j]
                  /\ JobOf[jobs[j]] = j
                  /\ phase'[jobs[j]] \in InFlight \cup {"rejected"}
<1> USE AgentAssumption DEF AgentLaws
<1>0. Commands \subseteq Execs /\ \A d \in Commands : JobOf[d] \in Jobs
    BY DEF Commands
<1>1. ASSUME NEW d \in Execs, phase'[d] \in InFlight PROVE phase[d] \in InFlight
    BY <1>1, IdleStays
<1>2. ASSUME NEW d \in Commands, phase'[d] \in InFlight
      PROVE  Deleted(Settling)[JobOf[d]] = d \/ acks[JobOf[d]] > 0
    <2>1. phase[d] \in InFlight
        BY <1>0, <1>1, <1>2
    <2>2. jobs[JobOf[d]] = d \/ acks[JobOf[d]] > 0
        BY <2>1 DEF JobTableTracksRuns
    <2>3. ~ \E c \in Settling \cap Commands : JobOf[c] = JobOf[d] /\ phase'[c] = "settled"
        BY <1>2 DEF UniqueJobs, Commands, InFlight
    <2> QED BY <1>0, <2>2, <2>3 DEF Deleted
<1>3. ASSUME NEW j \in Jobs, Deleted(Settling)[j] # NoJob
      PROVE  /\ Deleted(Settling)[j] = jobs[j]
             /\ JobOf[jobs[j]] = j
             /\ phase'[jobs[j]] \in InFlight \cup {"rejected"}
    <2> DEFINE d == jobs[j]
    <2>1. Deleted(Settling)[j] = d /\ d # NoJob
        BY <1>3 DEF Deleted
    <2>2. d \in Commands /\ JobOf[d] = j /\ phase[d] \in InFlight \cup {"rejected"}
        BY <2>1 DEF JobTableTracksRuns, JobsTyped
    <2>3. CASE phase[d] = "rejected"
        BY <1>0, <2>1, <2>2, <2>3, IdleStays DEF InFlight
    <2>4. CASE phase[d] \in InFlight
        <3>1. phase'[d] # "settled"
            BY <1>0, <1>3, <2>2, <2>4 DEF Deleted, Settling, InFlight
        <3>2. phase'[d] # "none"
            <4>1. CASE d = e
                BY <2>4, <4>1, PhaseMoves DEF InFlight
            <4>2. CASE d # e
                BY <1>0, <2>2, <2>4, <4>2, OthersStay DEF InFlight
            <4> QED BY <4>1, <4>2
        <3> QED BY <1>0, <2>1, <2>2, <3>1, <3>2 DEF TypeOK, Phases, InFlight
    <2> QED BY <2>2, <2>3, <2>4, <2>1
<1> QED BY <1>2, <1>3

\* SIGTERM is sent for good, and only exec makes a process.
LEMMA SignalsStay ==
    ASSUME TypeOK, NEW e \in Execs, Moves(e), NEW d \in Execs
    PROVE  /\ sigterm[d] => sigterm'[d]
           /\ Running(d)' => Running(d)
BY DEF Moves, Service, System, Abort, ErrorEvent, ExitEvent, OnResultDone, TimerFires,
       DataEvent, ChildWrites, ChildExits, Kill, FailRun, Running, Endings, TypeOK, osVars

\* A request that starts a run: its handle is kept under a job id of its own.
LEMMA TrackStep ==
    ASSUME UniqueJobs, AgentLaws, SlotInv', JobsInv,
           NEW e \in Execs, Accepted(e) \/ Broken(e)
    PROVE  JobsInv'
<1> USE AgentAssumption DEF AgentLaws
<1>0. Commands \subseteq Execs /\ \A d \in Commands : JobOf[d] \in Jobs
    BY DEF Commands
<1>1. /\ jobs' = IF e \in Commands THEN [jobs EXCEPT ![JobOf[e]] = e] ELSE jobs
      /\ acks' = acks /\ sigterm' = sigterm
      /\ phase'[e] \in {"awaiting", "rejected"}
      /\ \A d \in Execs \ {e} : phase'[d] = phase[d] /\ child'[d] = child[d]
    BY DEF Accepted, Broken, Arrives, Track, Exec, SpawnThrows, TypeOK, osVars
<1>2. \A d \in Commands : d # e /\ e \in Commands => JobOf[d] # JobOf[e]
    BY DEF UniqueJobs, Commands
<1>3. ASSUME NEW d \in Commands, phase'[d] \in InFlight
      PROVE  jobs'[JobOf[d]] = d \/ acks'[JobOf[d]] > 0
    BY <1>0, <1>1, <1>2, <1>3 DEF JobsInv, JobTableTracksRuns, JobsTyped
<1>4. ASSUME NEW j \in Jobs, jobs'[j] # NoJob
      PROVE  JobOf[jobs'[j]] = j /\ phase'[jobs'[j]] \in InFlight \cup {"rejected"}
    <2>1. CASE jobs'[j] = e
        <3>1. e \in Commands /\ JobOf[e] = j
            BY <1>0, <1>1, <1>4, <2>1 DEF JobsInv, JobTableTracksRuns, JobsTyped
        <3> QED BY <1>1, <2>1, <3>1 DEF InFlight
    <2>2. CASE jobs'[j] # e
        <3>1. jobs'[j] = jobs[j] /\ jobs[j] \in Commands
            BY <1>0, <1>1, <1>4, <2>2 DEF JobsTyped
        <3> QED BY <1>0, <1>1, <1>4, <2>2, <3>1 DEF JobsInv, JobTableTracksRuns
    <2> QED BY <2>1, <2>2
<1>5. ASSUME NEW d \in Commands \ Privileged, Running(d)'
      PROVE  jobs'[JobOf[d]] = d \/ sigterm'[d]
    <2>1. phase'[d] \in InFlight
        BY <1>0, <1>5 DEF SlotInv, InFlight
    <2>2. CASE d = e
        BY <1>0, <1>1, <2>2 DEF JobsTyped
    <2>3. CASE d # e
        BY <1>0, <1>1, <1>2, <1>5, <2>3 DEF JobsInv, KnownOrSignalled, Running, JobsTyped
    <2> QED BY <2>2, <2>3
<1> QED BY <1>3, <1>4, <1>5 DEF JobsInv, JobTableTracksRuns, KnownOrSignalled

LEMMA RunKeepsJobs ==
    ASSUME UniqueJobs, AgentLaws, SlotInv', JobsInv, NEW e \in Execs, RunStep(e)
    PROVE  JobsInv'
<1> USE AgentAssumption DEF AgentLaws
<1>0. Commands \subseteq Execs /\ \A d \in Commands : JobOf[d] \in Jobs
    BY DEF Commands
<1>1. Moves(e) /\ jobs' = Deleted(Settling) /\ acks' = acks
    BY DEF RunStep, Moves
<1>2. JobTableTracksRuns'
    BY <1>1, DeletedKeepsJobs DEF JobsInv, JobTableTracksRuns
<1>3. ASSUME NEW d \in Commands \ Privileged, Running(d)'
      PROVE  jobs'[JobOf[d]] = d \/ sigterm'[d]
    <2>1. phase'[d] \in InFlight
        BY <1>0, <1>3 DEF SlotInv, InFlight
    <2>2. jobs[JobOf[d]] = d \/ sigterm[d]
        BY <1>0, <1>1, <1>3, SignalsStay DEF JobsInv, KnownOrSignalled
    <2>3. ~ \E c \in Settling \cap Commands : JobOf[c] = JobOf[d] /\ phase'[c] = "settled"
        BY <2>1 DEF UniqueJobs, Commands, InFlight
    <2> QED BY <1>0, <1>1, <2>2, <2>3, SignalsStay DEF Deleted
<1> QED BY <1>2, <1>3 DEF JobsInv, KnownOrSignalled

\* After an abort of j whatever runs under j, and can be signalled, is.
LEMMA AbortSignals ==
    ASSUME UniqueJobs, AgentLaws, JobsInv, NEW j \in Jobs, HandleAbort(j),
           NEW d \in Commands \ Privileged, JobOf[d] = j, Running(d)
    PROVE  sigterm'[d]
<1> USE AgentAssumption DEF AgentLaws
<1>0. Commands \subseteq Execs
    BY DEF Commands
<1>1. jobs[j] = d \/ sigterm[d]
    BY DEF JobsInv, KnownOrSignalled
<1>2. CASE jobs[j] = d
    <2>1. d \in activeExecs
        BY <1>0 DEF SlotInv, InFlight
    <2>2. Abort(d)
        BY <1>0, <1>2, <2>1 DEF HandleAbort, AbortRun
    <2> QED BY <1>0, <2>2 DEF Abort, Kill, TypeOK
<1>3. CASE sigterm[d]
    <2>1. jobs[j] \in Execs \cup {NoJob}
        BY <1>0 DEF JobsTyped
    <2>2. (\E e \in Execs : Moves(e)) \/ UNCHANGED vars
        BY <2>1, AbortIsStep DEF Moves
    <2> QED BY <1>0, <1>3, <2>2, SignalsStay DEF vars, osVars
<1> QED BY <1>1, <1>2, <1>3

LEMMA AbortKeepsJobs ==
    ASSUME UniqueJobs, AgentLaws, SlotInv', JobsInv, acks \in [Jobs -> Nat],
           NEW j \in Jobs, HandleAbort(j)
    PROVE  JobsInv'
<1> USE AgentAssumption DEF AgentLaws
<1>0. Commands \subseteq Execs /\ \A d \in Commands : JobOf[d] \in Jobs
    BY DEF Commands
<1>1. /\ jobs' = [Deleted(Settling) EXCEPT ![j] = NoJob]
      /\ acks' = [acks EXCEPT ![j] = @ + 1]
    BY DEF HandleAbort
<1>2. (\E e \in Execs : Moves(e)) \/ UNCHANGED vars
    <2>1. jobs[j] \in Execs \cup {NoJob}
        BY <1>0 DEF JobsTyped
    <2> QED BY <2>1, AbortIsStep DEF Moves
<1>3. /\ \A d \in Commands : phase'[d] \in InFlight =>
             Deleted(Settling)[JobOf[d]] = d \/ acks[JobOf[d]] > 0
      /\ \A i \in Jobs : Deleted(Settling)[i] # NoJob =>
             /\ Deleted(Settling)[i] = jobs[i]
             /\ JobOf[jobs[i]] = i
             /\ phase'[jobs[i]] \in InFlight \cup {"rejected"}
    <2>1. CASE \E e \in Execs : Moves(e)
        BY <2>1, DeletedKeepsJobs DEF JobsInv
    <2>2. CASE UNCHANGED vars
        <3>1. phase' = phase /\ Settling = {}
            BY <2>2 DEF vars, Settling
        <3> QED BY <1>0, <3>1 DEF Deleted, JobsInv, JobTableTracksRuns
    <2> QED BY <1>2, <2>1, <2>2
<1>4. JobTableTracksRuns'
    <2>1. ASSUME NEW d \in Commands, phase'[d] \in InFlight
          PROVE  jobs'[JobOf[d]] = d \/ acks'[JobOf[d]] > 0
        BY <1>0, <1>1, <1>3, <2>1 DEF Deleted
    <2>2. ASSUME NEW i \in Jobs, jobs'[i] # NoJob
          PROVE  JobOf[jobs'[i]] = i /\ phase'[jobs'[i]] \in InFlight \cup {"rejected"}
        <3>1. i # j /\ jobs'[i] = Deleted(Settling)[i]
            BY <1>1, <2>2 DEF Deleted
        <3> QED BY <1>3, <2>2, <3>1
    <2> QED BY <2>1, <2>2 DEF JobTableTracksRuns
<1>5. ASSUME NEW d \in Commands \ Privileged, Running(d)'
      PROVE  jobs'[JobOf[d]] = d \/ sigterm'[d]
    <2>1. Running(d) /\ (sigterm[d] => sigterm'[d])
        BY <1>0, <1>2, <1>5, SignalsStay DEF vars, osVars, Running
    <2>2. CASE JobOf[d] = j
        BY <2>1, <2>2, AbortSignals
    <2>3. CASE JobOf[d] # j
        <3>1. phase'[d] \in InFlight
            BY <1>0, <1>5 DEF SlotInv, InFlight
        <3>2. ~ \E c \in Settling \cap Commands : JobOf[c] = JobOf[d] /\ phase'[c] = "settled"
            BY <3>1 DEF UniqueJobs, Commands, InFlight
        <3>3. jobs[JobOf[d]] = d \/ sigterm[d]
            BY <2>1 DEF JobsInv, KnownOrSignalled
        <3> QED BY <1>0, <1>1, <2>1, <2>3, <3>2, <3>3 DEF Deleted
    <2> QED BY <2>2, <2>3
<1> QED BY <1>4, <1>5 DEF JobsInv, KnownOrSignalled

AcksTyped == acks \in [Jobs -> Nat]

LEMMA AcksTypedStep == AcksTyped /\ [AgentNext]_allVars => AcksTyped'
BY DEF AcksTyped, AgentNext, Refused, Accepted, Broken, Arrives, RunStep, HandleAbort,
       Drop, Reconnect, allVars, agentVars

LEMMA JobsStep ==
    ASSUME UniqueJobs, AgentLaws, SlotInv', AcksTyped, JobsInv, [AgentNext]_allVars
    PROVE  JobsInv'
<1>1. ASSUME NEW e \in Execs, Accepted(e) \/ Broken(e) PROVE JobsInv'
    BY <1>1, TrackStep
<1>2. ASSUME NEW e \in Execs, RunStep(e) PROVE JobsInv'
    BY <1>2, RunKeepsJobs
<1>3. ASSUME NEW j \in Jobs, HandleAbort(j) PROVE JobsInv'
    BY <1>3, AbortKeepsJobs DEF AcksTyped
<1>4. ASSUME (\E e \in Execs : Refused(e)) \/ Drop \/ Reconnect \/ UNCHANGED allVars
      PROVE  JobsInv'
    <2>1. UNCHANGED <<vars, jobs, acks>>
        BY <1>4 DEF Refused, Arrives, Drop, Reconnect, allVars, agentVars
    <2>2. /\ phase' = phase /\ child' = child /\ sigterm' = sigterm
          /\ jobs' = jobs /\ acks' = acks
        BY <2>1 DEF vars, osVars
    <2> QED BY <2>2 DEF JobsInv, JobTableTracksRuns, KnownOrSignalled, Running
<1> QED BY <1>1, <1>2, <1>3, <1>4 DEF AgentNext

LEMMA AgentLawsHold == AgentSpec => [](TypeOK /\ SlotInv /\ RunInv /\ JobsTyped /\ AcksTyped)
<1>1. AgentInit => AcksTyped
    BY DEF AgentInit, AcksTyped
<1>2. AgentSpec => []AcksTyped
    BY <1>1, AcksTypedStep, PTL DEF AgentSpec
<1> QED BY <1>2, AgentUsesService, TypeCorrect, SlotsCorrect, RunsCoherent, JobsLaw, PTL
        DEF UsesHostExec

LEMMA JobsCorrect ==
    ASSUME UniqueJobs
    PROVE  AgentSpec => []JobsInv
<1>1. AgentInit => JobsInv
    BY AgentAssumption DEF AgentInit, Init, JobsInv, JobTableTracksRuns, KnownOrSignalled,
                           Running, InFlight, Commands
<1>2. /\ TypeOK /\ SlotInv /\ RunInv /\ JobsTyped /\ AcksTyped
      /\ TypeOK' /\ SlotInv' /\ JobsInv /\ [AgentNext]_allVars
      => JobsInv'
    BY JobsStep DEF AgentLaws
<1> QED BY <1>1, <1>2, AgentLawsHold, PTL DEF AgentSpec

(* While job ids are not reused, the job table holds every execute run that  *)
(* is unsettled and was not aborted, and nothing that is settled.            *)
THEOREM JobTableCorrect ==
    ASSUME UniqueJobs
    PROVE  AgentSpec => []JobTableTracksRuns
<1>1. JobsInv => JobTableTracksRuns
    BY DEF JobsInv
<1> QED BY <1>1, JobsCorrect, PTL

(* While job ids are not reused, an acknowledged abort has signalled every   *)
(* process of its job that is not privileged.                                *)
THEOREM AbortsReachRuns ==
    ASSUME UniqueJobs
    PROVE  AgentSpec => AbortReachesRun
<1> DEFINE Reaches ==
        \A j \in Jobs : acks'[j] > acks[j] =>
            \A e \in Commands \ Privileged : JobOf[e] = j /\ Running(e) => sigterm'[e]
<1>1. ASSUME TypeOK, TypeOK', SlotInv, RunInv, JobsTyped, AcksTyped, JobsInv,
             [AgentNext]_allVars
      PROVE  [Reaches]_allVars
    <2>1. ASSUME NEW i \in Jobs, HandleAbort(i) PROVE Reaches
        <3>1. \A j \in Jobs : acks'[j] > acks[j] => j = i
            BY <1>1, <2>1 DEF HandleAbort, AcksTyped
        <3> QED BY <1>1, <2>1, <3>1, AbortSignals DEF AgentLaws
    <2>2. ASSUME NEW e \in Execs, Refused(e) \/ Accepted(e) \/ Broken(e) \/ RunStep(e)
          PROVE  Reaches
        <3>1. acks' = acks
            BY <2>2 DEF Refused, Accepted, Broken, Arrives, RunStep
        <3> QED BY <1>1, <3>1 DEF AcksTyped
    <2>3. ASSUME Drop \/ Reconnect PROVE Reaches
        BY <1>1, <2>3 DEF Drop, Reconnect, AcksTyped
    <2> QED BY <1>1, <2>1, <2>2, <2>3 DEF AgentNext
<1>2. AgentSpec => [](TypeOK /\ SlotInv /\ RunInv /\ JobsTyped /\ AcksTyped /\ JobsInv)
    BY AgentLawsHold, JobsCorrect, PTL
<1> QED BY <1>1, <1>2, PTL DEF AgentSpec, AbortReachesRun

-----------------------------------------------------------------------------
(* Every step is a step of the agent loop, or none.                          *)

LEMMA HistoryStepIsAgentStep == [HistoryNext]_systemVars => [AgentNext]_allVars
<1> SUFFICES ASSUME [HistoryNext]_systemVars PROVE [AgentNext]_allVars
    OBVIOUS
<1>1. ASSUME NEW e \in Execs, AppendStep(e) PROVE [AgentNext]_allVars
    BY <1>1 DEF AppendStep, ReadHistory, OpenHistory, WriteHistory, FailHistory, HookEnds,
                AgentNext
<1>2. ASSUME OtherStep PROVE [AgentNext]_allVars
    BY <1>2 DEF OtherStep
<1>3. ASSUME UNCHANGED systemVars PROVE [AgentNext]_allVars
    BY <1>3 DEF systemVars
<1> QED BY <1>1, <1>2, <1>3 DEF HistoryNext

\* history.ts as onResult: what is proved of AgentExec holds with it.
THEOREM HistoryUsesAgent == HistorySpec => AgentSpec
<1>1. HistoryInit => AgentInit
    BY DEF HistoryInit
<1> QED BY <1>1, HistoryStepIsAgentStep, PTL DEF HistorySpec, AgentSpec

\* What is proved of the agent loop and of the service.
Laws == TypeOK /\ SlotInv /\ RunInv /\ JobsTyped /\ ReplyInv

LEMMA LawsHold == HistorySpec => []Laws
<1>1. HistorySpec => [](TypeOK /\ SlotInv /\ RunInv /\ JobsTyped /\ ReplyInv)
    BY HistoryUsesAgent, AgentUsesService, TypeCorrect, SlotsCorrect, RunsCoherent,
       JobsLaw, ReplyLaw, PTL DEF UsesHostExec
<1>2. TypeOK /\ SlotInv /\ RunInv /\ JobsTyped /\ ReplyInv => Laws
    BY DEF Laws
<1> QED BY <1>1, <1>2, PTL

-----------------------------------------------------------------------------
(* Lists                                                                     *)

LEMMA LatestProperties ==
    ASSUME NEW runs \in Seq(Listed)
    PROVE  /\ Latest(runs) \in Seq(Listed)
           /\ Len(Latest(runs)) = IF Len(runs) < HistoryLimit THEN Len(runs) ELSE HistoryLimit
           /\ \A i \in 1..Len(Latest(runs)) : Latest(runs)[i] = runs[i]
<1> DEFINE n == IF Len(runs) < HistoryLimit THEN Len(runs) ELSE HistoryLimit
<1>1. n \in 0..Len(runs)
    BY LenProperties, HistoryAssumption
<1>2. \A i \in 1..n : runs[i] \in Listed
    BY <1>1, ElementOfSeq, LenProperties
<1> HIDE DEF n
<1>3. /\ SubSeq(runs, 1, n) \in Seq(Listed)
      /\ Len(SubSeq(runs, 1, n)) = n
      /\ \A i \in 1..n : SubSeq(runs, 1, n)[i] = runs[i]
    BY <1>1, <1>2, LenProperties, SubSeqProperties
<1> QED BY <1>3 DEF Latest, n

\* Cutting a list before a run is put in front loses nothing that stays.
LEMMA LatestOfLatest ==
    ASSUME NEW e \in Listed, NEW runs \in Seq(Listed)
    PROVE  Latest(<<e>> \o Latest(runs)) = Latest(<<e>> \o runs)
<1> DEFINE short == <<e>> \o Latest(runs)
           full == <<e>> \o runs
<1>0. <<e>> \in Seq(Listed) /\ Len(<<e>>) = 1 /\ Latest(runs) \in Seq(Listed)
    BY LatestProperties
<1>1. /\ short \in Seq(Listed) /\ Len(short) = 1 + Len(Latest(runs))
      /\ \A i \in 1..Len(short) : short[i] = IF i <= 1 THEN <<e>>[i] ELSE Latest(runs)[i - 1]
    BY <1>0, ConcatProperties
<1>2. /\ full \in Seq(Listed) /\ Len(full) = 1 + Len(runs)
      /\ \A i \in 1..Len(full) : full[i] = IF i <= 1 THEN <<e>>[i] ELSE runs[i - 1]
    BY <1>0, ConcatProperties
<1>3. /\ Len(Latest(runs)) = IF Len(runs) < HistoryLimit THEN Len(runs) ELSE HistoryLimit
      /\ \A i \in 1..Len(Latest(runs)) : Latest(runs)[i] = runs[i]
      /\ Len(runs) \in Nat
    BY LatestProperties, LenProperties
<1> HIDE DEF short, full
<1>4. /\ Latest(short) \in Seq(Listed) /\ Latest(full) \in Seq(Listed)
      /\ Len(Latest(short)) = IF Len(short) < HistoryLimit THEN Len(short) ELSE HistoryLimit
      /\ Len(Latest(full)) = IF Len(full) < HistoryLimit THEN Len(full) ELSE HistoryLimit
      /\ \A i \in 1..Len(Latest(short)) : Latest(short)[i] = short[i]
      /\ \A i \in 1..Len(Latest(full)) : Latest(full)[i] = full[i]
    BY <1>1, <1>2, LatestProperties
<1>5. Len(Latest(short)) = Len(Latest(full))
    BY <1>1, <1>2, <1>3, <1>4, HistoryAssumption
<1>6. ASSUME NEW i \in 1..Len(Latest(short)) PROVE Latest(short)[i] = Latest(full)[i]
    <2>1. i \in 1..Len(short) /\ i \in 1..Len(full) /\ i <= HistoryLimit
        BY <1>1, <1>2, <1>3, <1>4, HistoryAssumption
    <2>2. CASE i = 1
        BY <2>1, <2>2, <1>1, <1>2, <1>4, <1>5
    <2>3. CASE i # 1
        <3>1. i - 1 \in 1..Len(Latest(runs)) /\ short[i] = Latest(runs)[i - 1]
            BY <2>1, <2>3, <1>1, <1>3, HistoryAssumption
        <3>2. full[i] = runs[i - 1]
            BY <2>1, <2>3, <1>2
        <3> QED BY <3>1, <3>2, <1>3, <1>4, <1>5
    <2> QED BY <2>2, <2>3
<1>7. Latest(short) = Latest(full)
    BY <1>4, <1>5, <1>6, SeqEqual
<1> QED BY <1>7 DEF short, full

\* What append writes, from a list that tells the latest runs.
LEMMA NextListTells ==
    ASSUME NEW e \in Listed, NEW runs \in Seq(Listed)
    PROVE  NextList(e, Latest(runs)) = Latest(<<e>> \o runs)
BY LatestOfLatest DEF NextList

\* What append writes lists the run and what it read.
LEMMA NextListMembers ==
    ASSUME NEW e \in Listed, NEW runs \in Seq(Listed)
    PROVE  /\ NextList(e, runs) \in Seq(Listed)
           /\ Len(NextList(e, runs)) \in 1..HistoryLimit
           /\ \A i \in DOMAIN NextList(e, runs) :
                 \/ NextList(e, runs)[i] = e
                 \/ \E k \in DOMAIN runs : NextList(e, runs)[i] = runs[k]
           /\ Distinct(runs) /\ (\A k \in DOMAIN runs : runs[k] # e)
                 => Distinct(NextList(e, runs))
<1> DEFINE full == <<e>> \o runs
<1>1. /\ full \in Seq(Listed) /\ Len(full) = 1 + Len(runs)
      /\ \A i \in 1..Len(full) : full[i] = IF i <= 1 THEN <<e>>[i] ELSE runs[i - 1]
    BY ConcatProperties
<1>2. Len(runs) \in Nat /\ DOMAIN runs = 1..Len(runs)
    BY LenProperties
<1> HIDE DEF full
<1>3. /\ Latest(full) \in Seq(Listed)
      /\ Len(Latest(full)) <= Len(full)
      /\ Len(Latest(full)) \in 1..HistoryLimit
      /\ \A i \in 1..Len(Latest(full)) : Latest(full)[i] = full[i]
    <2>1. /\ Latest(full) \in Seq(Listed)
          /\ Len(Latest(full)) = IF Len(full) < HistoryLimit THEN Len(full) ELSE HistoryLimit
          /\ \A i \in 1..Len(Latest(full)) : Latest(full)[i] = full[i]
        BY <1>1, LatestProperties
    <2> QED BY <2>1, <1>1, <1>2, HistoryAssumption
<1>4. DOMAIN Latest(full) = 1..Len(Latest(full)) /\ Len(Latest(full)) \in Nat
    BY <1>3, LenProperties
<1>5. ASSUME NEW i \in DOMAIN Latest(full)
      PROVE  Latest(full)[i] = e \/ \E k \in DOMAIN runs : Latest(full)[i] = runs[k]
    <2>1. i \in 1..Len(full) /\ Latest(full)[i] = full[i]
        BY <1>1, <1>2, <1>3, <1>4
    <2>2. CASE i = 1
        BY <2>1, <2>2, <1>1
    <2>3. CASE i # 1
        <3>1. i - 1 \in DOMAIN runs /\ full[i] = runs[i - 1]
            BY <2>1, <2>3, <1>1, <1>2
        <3> QED BY <2>1, <3>1
    <2> QED BY <2>2, <2>3
<1>6. ASSUME Distinct(runs), \A k \in DOMAIN runs : runs[k] # e
      PROVE  Distinct(Latest(full))
    <2>1. ASSUME NEW i \in 1..Len(full), NEW j \in 1..Len(full), full[i] = full[j]
          PROVE  i = j
        <3>1. \A k \in 1..Len(full) :
                \/ k = 1 /\ full[k] = e
                \/ k - 1 \in DOMAIN runs /\ full[k] = runs[k - 1]
            <4>1. \A k \in 1..Len(full) : k # 1 =>
                    k - 1 \in DOMAIN runs /\ full[k] = runs[k - 1]
                BY <1>1, <1>2
            <4>2. full[1] = e
                BY <1>1, <1>2
            <4> QED BY <4>1, <4>2
        <3>2. CASE i = 1 \/ j = 1
            BY <1>6, <2>1, <3>1, <3>2
        <3>3. CASE i # 1 /\ j # 1
            <4>1. i - 1 = j - 1
                BY <1>6, <2>1, <3>1, <3>3 DEF Distinct
            <4> QED BY <4>1
        <3> QED BY <3>2, <3>3
    <2>2. \A i \in DOMAIN Latest(full) : i \in 1..Len(full) /\ Latest(full)[i] = full[i]
        BY <1>1, <1>2, <1>3, <1>4
    <2> QED BY <2>1, <2>2 DEF Distinct
<1> QED BY <1>3, <1>5, <1>6 DEF NextList, full

\* A list that is not too long is its own latest part.
LEMMA LatestOfShort ==
    ASSUME NEW runs \in Seq(Listed), Len(runs) <= HistoryLimit
    PROVE  Latest(runs) = runs
<1>1. Len(runs) \in Nat
    BY LenProperties
<1>2. /\ Latest(runs) \in Seq(Listed) /\ Len(Latest(runs)) = Len(runs)
      /\ \A i \in 1..Len(Latest(runs)) : Latest(runs)[i] = runs[i]
    BY <1>1, LatestProperties, HistoryAssumption
<1> QED BY <1>2, SeqEqual

-----------------------------------------------------------------------------
(* The file                                                                  *)

\* The runs that are recorded, and whose append ended.
Over == {e \in Execs : Recorded(e) /\ phase[e] \in {"settled", "rejected"}}

\* The file lists no run twice, and none of this agent before its append ended;
\* an append in progress adds its own run to such a list.
OnlyRecorded ==
    /\ ~Unreadable =>
        /\ Distinct(Entries)
        /\ \A i \in DOMAIN Entries : Entries[i] \in Execs => Entries[i] \in Over
    /\ \A e \in Execs :
        /\ Distinct(toWrite[e])
        /\ \A i \in DOMAIN toWrite[e] :
            toWrite[e][i] \in Execs => toWrite[e][i] = e \/ toWrite[e][i] \in Over

\* An agent that found a torn file never gets beyond reading it.
TornStays == torn => Unreadable /\ \A e \in Execs : stage[e] \in {"read", "done"}

Tells == ~Unreadable /\ Entries = Latest(appended)

\* Undisturbed, at most one append is in progress, and the file tells the
\* latest runs until it opens the file, and again once it wrote.
AloneTells ==
    Undisturbed =>
        /\ \A d, e \in Persisting : d = e
        /\ Persisting = {} => Tells
        /\ \A e \in Persisting :
            /\ stage[e] \in {"read", "open"} => Tells
            /\ stage[e] \in {"open", "write"} => toWrite[e] = Latest(<<e>> \o appended)
            /\ stage[e] = "write" => history = Empty

LEMMA EntriesTyped == HistoryTypeOK /\ ~Unreadable => Entries \in Seq(Listed)
BY EmptySeq DEF HistoryTypeOK, Unreadable, Entries, Marks

LEMMA HistoryTypedStep ==
    TypeOK /\ JobsTyped /\ HistoryTypeOK /\ [HistoryNext]_systemVars => HistoryTypeOK'
<1> SUFFICES ASSUME TypeOK, JobsTyped, HistoryTypeOK, [HistoryNext]_systemVars
             PROVE  HistoryTypeOK'
    OBVIOUS
<1>0. \A d \in Execs :
        /\ phase'[d] = "persisting" => phase[d] \in {"awaiting", "persisting"}
        /\ phase'[d] \in {"none", "awaiting"} => phase[d] \in {"none", "awaiting"}
    BY HistoryStepIsAgentStep, StepPhases
\* What the end of a hook leaves of its append.
<1>1. ASSUME NEW e \in Execs, NEW p \in {"settled", "rejected"}, HookEnds(e, p)
      PROVE  /\ toWrite' \in [Execs -> Seq(Listed)]
             /\ stage' \in [Execs -> {"read", "open", "write", "done"}]
             /\ \A d \in Execs :
                 /\ stage'[d] \in {"open", "write"} => Len(toWrite'[d]) \in 1..HistoryLimit
                 /\ phase'[d] \in {"none", "awaiting"} => stage'[d] = "read"
                 /\ phase'[d] = "persisting" => stage'[d] # "done"
    BY <1>0, <1>1, EmptySeq DEF HookEnds, HistoryTypeOK
<1>2. ASSUME NoteOverlap PROVE overlapped' \in BOOLEAN
    BY <1>2 DEF NoteOverlap, HistoryTypeOK
<1>3. ASSUME NEW e \in Execs, ReadHistory(e) PROVE HistoryTypeOK'
    <2>1. CASE Unreadable
        BY <1>1, <1>2, <1>3, <2>1 DEF ReadHistory, HistoryTypeOK
    <2>2. CASE ~Unreadable
        <3>1. /\ NextList(e, Entries) \in Seq(Listed)
              /\ Len(NextList(e, Entries)) \in 1..HistoryLimit
            BY <2>2, EntriesTyped, NextListMembers DEF Listed
        <3>2. phase' = phase
            BY <1>3, <2>2 DEF ReadHistory, allVars, vars
        <3>3. /\ toWrite' = [toWrite EXCEPT ![e] = NextList(e, Entries)]
              /\ stage' = [stage EXCEPT ![e] = "open"]
              /\ phase[e] = "persisting"
            BY <1>3, <2>2 DEF ReadHistory
        <3>4. /\ toWrite' \in [Execs -> Seq(Listed)]
              /\ stage' \in [Execs -> {"read", "open", "write", "done"}]
            BY <3>1, <3>3 DEF HistoryTypeOK
        <3>5. ASSUME NEW d \in Execs
              PROVE  /\ stage'[d] \in {"open", "write"} => Len(toWrite'[d]) \in 1..HistoryLimit
                     /\ phase'[d] \in {"none", "awaiting"} => stage'[d] = "read"
                     /\ phase'[d] = "persisting" => stage'[d] # "done"
            BY <3>1, <3>2, <3>3 DEF HistoryTypeOK
        <3> QED BY <1>2, <1>3, <3>4, <3>5 DEF ReadHistory, HistoryTypeOK
    <2> QED BY <2>1, <2>2
<1>4. ASSUME NEW e \in Execs, OpenHistory(e) PROVE HistoryTypeOK'
    <2>1. phase' = phase
        BY <1>4 DEF OpenHistory, allVars, vars
    <2>2. history' = Empty /\ Empty \in Marks
        BY <1>4 DEF OpenHistory, Marks
    <2> QED BY <1>4, <2>1, <2>2 DEF OpenHistory, HistoryTypeOK
<1>5. ASSUME NEW e \in Execs, stage[e] = "write", phase[e] = "persisting",
             history' \in {history, toWrite[e], Garbled}
      PROVE  /\ history' \in Seq(Listed) \cup Marks
             /\ history' \notin Marks => Len(history') \in 1..HistoryLimit
    BY <1>5 DEF HistoryTypeOK, Marks
<1>6. ASSUME NEW e \in Execs, WriteHistory(e) PROVE HistoryTypeOK'
    <2>1. <<e>> \in Seq(Listed) /\ <<e>> \o appended \in Seq(Listed)
        BY ConcatProperties DEF HistoryTypeOK, Listed
    <2>2. HookEnds(e, "settled") /\ phase[e] = "persisting"
        BY <1>6 DEF WriteHistory, HookEnds
    <2>3. /\ history' \in {history, toWrite[e], Garbled} /\ stage[e] = "write"
          /\ appended' = <<e>> \o appended /\ torn' = torn /\ failed' = failed
          /\ NoteOverlap
        BY <1>6 DEF WriteHistory
    <2> QED BY <1>1, <1>2, <1>5, <2>1, <2>2, <2>3 DEF HistoryTypeOK
<1>7. ASSUME NEW e \in Execs, FailHistory(e) PROVE HistoryTypeOK'
    <2>1. HookEnds(e, "rejected") /\ phase[e] = "persisting"
        BY <1>7 DEF FailHistory, HookEnds
    <2>2. /\ history' \in Seq(Listed) \cup Marks
          /\ history' \notin Marks => Len(history') \in 1..HistoryLimit
        BY <1>5, <1>7, <2>1 DEF FailHistory, HistoryTypeOK
    <2>3. /\ appended' = appended /\ torn' = torn /\ failed' \in BOOLEAN
          /\ NoteOverlap
        BY <1>7 DEF FailHistory
    <2> QED BY <1>1, <1>2, <2>1, <2>2, <2>3 DEF HistoryTypeOK
<1>8. ASSUME OtherStep PROVE HistoryTypeOK'
    BY <1>0, <1>2, <1>8 DEF OtherStep, HistoryTypeOK
<1>9. ASSUME UNCHANGED systemVars PROVE HistoryTypeOK'
    BY <1>9 DEF systemVars, historyVars, allVars, vars, HistoryTypeOK
<1> QED BY <1>3, <1>4, <1>6, <1>7, <1>8, <1>9 DEF HistoryNext, AppendStep

LEMMA FewAreOne ==
    ASSUME NEW S, IsFiniteSet(S), ~(Cardinality(S) > 1)
    PROVE  \A d, e \in S : d = e
<1>1. Cardinality(S) \in Nat
    BY FS_CardinalityType
<1>2. Cardinality(S) = 0 \/ Cardinality(S) = 1
    BY <1>1
<1>3. CASE Cardinality(S) = 0
    BY <1>3, FS_EmptySet
<1>4. CASE Cardinality(S) = 1
    BY <1>4, FS_Singleton
<1> QED BY <1>2, <1>3, <1>4

\* A step that notes no overlap leaves at most one append in progress.
LEMMA NoOverlapNoted ==
    ASSUME HistoryTypeOK, SlotInv', NoteOverlap, ~overlapped'
    PROVE  ~overlapped /\ \A d, e \in Persisting' : d = e
<1>1. ~overlapped /\ ~(Cardinality(Persisting') > 1)
    BY DEF NoteOverlap, HistoryTypeOK
<1>2. Persisting' \in SUBSET activeExecs' /\ IsFiniteSet(activeExecs')
    BY DEF SlotInv, Persisting, InFlight
<1>3. IsFiniteSet(Persisting')
    BY <1>2, FS_Subset
<1> QED BY <1>1, <1>3, FewAreOne

\* Only the run whose hook ends leaves the hooks in progress.
LEMMA HookEndsAlone ==
    ASSUME TypeOK, NEW e \in Execs, NEW p, HookEnds(e, p)
    PROVE  /\ e \in Persisting /\ phase'[e] = p
           /\ \A d \in Execs \ {e} : phase'[d] = phase[d]
BY OthersStay DEF HookEnds, RunStep, Moves, Persisting

LEMMA AloneStep ==
    TypeOK /\ SlotInv' /\ JobsTyped /\ HistoryTypeOK /\ AloneTells /\ [HistoryNext]_systemVars
        => AloneTells'
<1> SUFFICES ASSUME TypeOK, SlotInv', JobsTyped, HistoryTypeOK, AloneTells,
                    [HistoryNext]_systemVars, Undisturbed'
             PROVE  /\ \A d, e \in Persisting' : d = e
                    /\ Persisting' = {} => Tells'
                    /\ \A e \in Persisting' :
                        /\ stage'[e] \in {"read", "open"} => Tells'
                        /\ stage'[e] \in {"open", "write"} => toWrite'[e] = Latest(<<e>> \o appended')
                        /\ stage'[e] = "write" => history' = Empty
    BY DEF AloneTells
<1> DEFINE Goal == /\ \A d, e \in Persisting' : d = e
                   /\ Persisting' = {} => Tells'
                   /\ \A e \in Persisting' :
                       /\ stage'[e] \in {"read", "open"} => Tells'
                       /\ stage'[e] \in {"open", "write"} => toWrite'[e] = Latest(<<e>> \o appended')
                       /\ stage'[e] = "write" => history' = Empty
<1>0. ~torn' /\ ~overlapped' /\ ~failed'
    BY DEF Undisturbed
<1>1. ASSUME NEW e \in Execs, ReadHistory(e) PROVE Goal
    <2>1. Undisturbed /\ \A d \in Persisting' : \A c \in Persisting' : d = c
        BY <1>0, <1>1, NoOverlapNoted DEF ReadHistory, Undisturbed
    <2>2. e \in Persisting /\ Tells /\ stage[e] = "read"
        BY <1>1, <2>1 DEF ReadHistory, AloneTells, Persisting
    <2>3. /\ toWrite' = [toWrite EXCEPT ![e] = NextList(e, Entries)]
          /\ stage' = [stage EXCEPT ![e] = "open"]
          /\ phase' = phase /\ history' = history /\ appended' = appended
        BY <1>1, <2>2 DEF ReadHistory, Tells, allVars, vars
    <2>4. NextList(e, Entries) = Latest(<<e>> \o appended)
        BY <2>2, NextListTells DEF Tells, HistoryTypeOK, Listed
    <2>5. Tells' /\ toWrite'[e] = Latest(<<e>> \o appended') /\ stage'[e] = "open"
        BY <2>2, <2>3, <2>4 DEF Tells, Unreadable, Entries, Latest, HistoryTypeOK
    <2>6. \A d \in Persisting' : d = e
        BY <2>1, <2>2, <2>3 DEF Persisting
    <2> QED BY <2>1, <2>5, <2>6
<1>2. ASSUME NEW e \in Execs, OpenHistory(e) PROVE Goal
    <2>1. Undisturbed /\ phase' = phase /\ e \in Persisting /\ Persisting' = Persisting
        BY <1>0, <1>2 DEF OpenHistory, allVars, vars, Persisting, Undisturbed
    <2>2. /\ \A d \in Persisting : d = e
          /\ toWrite[e] = Latest(<<e>> \o appended)
        BY <1>2, <2>1 DEF AloneTells, OpenHistory
    <2>3. /\ history' = Empty /\ stage'[e] = "write"
          /\ toWrite' = toWrite /\ appended' = appended
        BY <1>2 DEF OpenHistory, HistoryTypeOK
    <2> QED BY <2>1, <2>2, <2>3
<1>3. ASSUME NEW e \in Execs, WriteHistory(e) PROVE Goal
    <2>1. Undisturbed
        BY <1>0, <1>3, NoOverlapNoted DEF WriteHistory, Undisturbed
    <2>2. /\ e \in Persisting /\ phase'[e] = "settled"
          /\ \A d \in Execs \ {e} : phase'[d] = phase[d]
        BY <1>3, HookEndsAlone DEF WriteHistory
    <2>3. /\ \A d \in Persisting : d = e
          /\ toWrite[e] = Latest(<<e>> \o appended)
          /\ history = Empty
        BY <1>3, <2>1, <2>2 DEF AloneTells, WriteHistory
    <2>4. Persisting' = {}
        BY <2>2, <2>3 DEF Persisting
    <2>5. history' = toWrite[e] /\ appended' = <<e>> \o appended
        BY <1>3, <2>3 DEF WriteHistory
    <2>6. history' \in Seq(Listed) /\ history' = Latest(appended')
        BY <2>3, <2>5 DEF HistoryTypeOK
    <2>7. history' # Missing /\ history' # Empty /\ history' # Garbled
        BY <2>6, HistoryAssumption DEF Marks
    <2>8. Tells'
        BY <2>6, <2>7 DEF Tells, Unreadable, Entries, Latest
    <2> QED BY <2>4, <2>8
<1>4. ASSUME NEW e \in Execs, FailHistory(e) PROVE Goal
    BY <1>0, <1>4 DEF FailHistory
<1>5. ASSUME OtherStep PROVE Goal
    <2>1. Undisturbed /\ \A d \in Persisting' : \A c \in Persisting' : d = c
        BY <1>0, <1>5, NoOverlapNoted DEF OtherStep, Undisturbed
    <2>2. /\ history' = history /\ stage' = stage /\ toWrite' = toWrite /\ appended' = appended
          /\ Persisting \subseteq Persisting'
        BY <1>5 DEF OtherStep, Persisting
    <2>3. Tells' <=> Tells
        BY <2>2 DEF Tells, Unreadable, Entries, Latest
    <2>4. \A d \in Persisting' \ Persisting : stage[d] = "read"
        BY HistoryStepIsAgentStep, StepPhases DEF Persisting, HistoryTypeOK
    <2>5. CASE Persisting = {}
        BY <2>1, <2>2, <2>3, <2>4, <2>5 DEF AloneTells
    <2>6. CASE Persisting # {}
        <3>1. Persisting' = Persisting
            BY <2>1, <2>2, <2>6
        <3> QED BY <2>1, <2>2, <2>3, <3>1 DEF AloneTells
    <2> QED BY <2>5, <2>6
<1>6. ASSUME UNCHANGED systemVars PROVE Goal
    <2>1. /\ history' = history /\ stage' = stage /\ toWrite' = toWrite
          /\ appended' = appended /\ Undisturbed /\ phase' = phase
        BY <1>0, <1>6 DEF systemVars, historyVars, allVars, vars, Undisturbed
    <2>2. Persisting' = Persisting /\ (Tells' <=> Tells)
        BY <2>1 DEF Persisting, Tells, Unreadable, Entries, Latest
    <2> QED BY <2>1, <2>2 DEF AloneTells
<1> QED BY <1>1, <1>2, <1>3, <1>5, <1>6, <1>4 DEF HistoryNext, AppendStep

LEMMA TornStep ==
    HistoryTypeOK /\ TornStays /\ [HistoryNext]_systemVars => TornStays'
<1> SUFFICES ASSUME HistoryTypeOK, TornStays, [HistoryNext]_systemVars, torn'
             PROVE  Unreadable' /\ \A e \in Execs : stage'[e] \in {"read", "done"}
    BY DEF TornStays
<1> DEFINE Goal == Unreadable' /\ \A e \in Execs : stage'[e] \in {"read", "done"}
<1>1. torn' = torn
    BY DEF HistoryNext, AppendStep, ReadHistory, OpenHistory, WriteHistory, FailHistory,
           OtherStep, systemVars, historyVars
<1>2. Unreadable /\ \A e \in Execs : stage[e] \in {"read", "done"}
    BY <1>1 DEF TornStays
<1>3. ASSUME NEW e \in Execs, ReadHistory(e) \/ FailHistory(e) PROVE Goal
    BY <1>2, <1>3 DEF ReadHistory, FailHistory, HookEnds, Unreadable, HistoryTypeOK
<1>4. ASSUME NEW e \in Execs PROVE ~OpenHistory(e) /\ ~WriteHistory(e)
    BY <1>2 DEF OpenHistory, WriteHistory
<1>5. ASSUME OtherStep \/ UNCHANGED systemVars PROVE Goal
    BY <1>2, <1>5 DEF OtherStep, systemVars, historyVars, Unreadable
<1> QED BY <1>3, <1>4, <1>5 DEF HistoryNext, AppendStep

\* A result that is recorded stays, in one step.
Final == \A e \in Execs : Recorded(e) => completedExecs'[e] = completedExecs[e]

\* What is over stays so.
LEMMA OverRemains ==
    ASSUME Laws, TypeOK', [Final]_vars, [AgentNext]_allVars, NEW e \in Execs
    PROVE  /\ Recorded(e) => Recorded(e)'
           /\ e \in Over => e \in Over'
<1>1. Recorded(e) => Recorded(e)'
    BY DEF Final, Recorded, vars
<1>2. phase[e] \in {"settled", "rejected"} => phase'[e] \in {"settled", "rejected"}
    BY StepPhases DEF Laws, TypeOK, Phases
<1> QED BY <1>1, <1>2 DEF Over

LEMMA OnlyRecordedStep ==
    Laws /\ TypeOK' /\ HistoryTypeOK /\ OnlyRecorded /\ [Final]_vars
        /\ [HistoryNext]_systemVars
    => OnlyRecorded'
<1> SUFFICES ASSUME Laws, TypeOK', HistoryTypeOK, OnlyRecorded, [Final]_vars,
                    [HistoryNext]_systemVars
             PROVE  OnlyRecorded'
    OBVIOUS
<1>0. \A e \in Execs : (Recorded(e) => Recorded(e)') /\ (e \in Over => e \in Over')
    BY HistoryStepIsAgentStep, OverRemains
\* A hook that ends: its run is over, and what it would have written forgotten.
<1>1. ASSUME NEW e \in Execs, NEW p \in {"settled", "rejected"}, HookEnds(e, p)
      PROVE  /\ e \in Over'
             /\ \A d \in Execs : toWrite'[d] = toWrite[d] \/ toWrite'[d] = <<>>
    <2>1. Recorded(e)' /\ phase'[e] = p
        BY <1>0, <1>1 DEF HookEnds, Laws, RunInv
    <2> QED BY <1>1, <2>1 DEF HookEnds, HistoryTypeOK, Over
\* The lists of the appends in progress stay what they are.
<1>2. ASSUME \A d \in Execs : toWrite'[d] = toWrite[d] \/ toWrite'[d] = <<>>
      PROVE  \A d \in Execs :
                /\ Distinct(toWrite'[d])
                /\ \A i \in DOMAIN toWrite'[d] :
                    toWrite'[d][i] \in Execs => toWrite'[d][i] = d \/ toWrite'[d][i] \in Over'
    <2> TAKE d \in Execs
    <2>1. CASE toWrite'[d] = <<>>
        BY <2>1, EmptySeq, LenProperties DEF Distinct
    <2>2. CASE toWrite'[d] = toWrite[d]
        BY <1>0, <2>2 DEF OnlyRecorded
    <2> QED BY <1>2, <2>1, <2>2
\* So does the file, if it is not written.
<1>3. ASSUME history' = history
      PROVE  ~Unreadable' => /\ Distinct(Entries')
                             /\ \A i \in DOMAIN Entries' :
                                    Entries'[i] \in Execs => Entries'[i] \in Over'
    <2>1. (Unreadable' <=> Unreadable) /\ Entries' = Entries
        BY <1>3 DEF Unreadable, Entries
    <2> QED BY <1>0, <2>1 DEF OnlyRecorded
\* The list of an append that ended may be the file.
<1>4. ASSUME NEW e \in Execs, e \in Over', history' \in {history, toWrite[e], Garbled}
      PROVE  ~Unreadable' => /\ Distinct(Entries')
                             /\ \A i \in DOMAIN Entries' :
                                    Entries'[i] \in Execs => Entries'[i] \in Over'
    <2>1. CASE history' = history
        BY <1>3, <2>1
    <2>2. CASE history' = Garbled
        BY <2>2 DEF Unreadable
    <2>3. CASE history' = toWrite[e]
        <3>1. history' # Missing
            BY <2>3, HistoryAssumption DEF HistoryTypeOK, Marks
        <3>2. Entries' = toWrite[e]
            BY <2>3, <3>1 DEF Entries
        <3> QED BY <1>0, <1>4, <3>2 DEF OnlyRecorded
    <2> QED BY <1>4, <2>1, <2>2, <2>3
<1>5. ASSUME NEW e \in Execs, ReadHistory(e) PROVE OnlyRecorded'
    <2>1. history' = history /\ phase[e] = "persisting"
        BY <1>5 DEF ReadHistory
    <2>2. CASE Unreadable
        BY <1>1, <1>2, <1>3, <1>5, <2>1, <2>2 DEF ReadHistory, OnlyRecorded
    <2>3. CASE ~Unreadable
        <3> DEFINE list == NextList(e, Entries)
        <3>1. Entries \in Seq(Listed) /\ e \in Listed
            BY <2>3, EntriesTyped DEF Listed
        <3>2. \A k \in DOMAIN Entries : Entries[k] # e
            BY <2>1, <2>3 DEF OnlyRecorded, Over
        <3>3. /\ Distinct(list)
              /\ \A i \in DOMAIN list : list[i] = e \/ \E k \in DOMAIN Entries : list[i] = Entries[k]
            BY <2>3, <3>1, <3>2, NextListMembers DEF OnlyRecorded
        <3>4. toWrite' = [toWrite EXCEPT ![e] = list]
            BY <1>5, <2>3 DEF ReadHistory
        <3> HIDE DEF list
        <3>5. ASSUME NEW d \in Execs
              PROVE  /\ Distinct(toWrite'[d])
                     /\ \A i \in DOMAIN toWrite'[d] :
                         toWrite'[d][i] \in Execs => toWrite'[d][i] = d \/ toWrite'[d][i] \in Over'
            <4>1. CASE d = e
                <5>1. toWrite'[d] = list
                    BY <3>4, <4>1 DEF HistoryTypeOK
                <5> QED BY <1>0, <2>3, <3>3, <4>1, <5>1 DEF OnlyRecorded
            <4>2. CASE d # e
                <5>1. toWrite'[d] = toWrite[d]
                    BY <3>4, <4>2 DEF HistoryTypeOK
                <5> QED BY <1>0, <5>1 DEF OnlyRecorded
            <4> QED BY <4>1, <4>2
        <3> QED BY <1>3, <2>1, <3>5 DEF OnlyRecorded
    <2> QED BY <2>2, <2>3
<1>6. ASSUME NEW e \in Execs, OpenHistory(e) PROVE OnlyRecorded'
    <2>1. Unreadable' /\ toWrite' = toWrite
        BY <1>6 DEF OpenHistory, Unreadable
    <2> QED BY <1>2, <2>1 DEF OnlyRecorded
<1>7. ASSUME NEW e \in Execs, WriteHistory(e) \/ FailHistory(e) PROVE OnlyRecorded'
    <2>1. /\ HookEnds(e, "settled") \/ HookEnds(e, "rejected")
          /\ history' \in {history, toWrite[e], Garbled}
        BY <1>7 DEF WriteHistory, FailHistory
    <2>2. e \in Over' /\ \A d \in Execs : toWrite'[d] = toWrite[d] \/ toWrite'[d] = <<>>
        BY <1>1, <2>1
    <2> QED BY <1>2, <1>4, <2>1, <2>2 DEF OnlyRecorded
<1>8. ASSUME OtherStep \/ UNCHANGED systemVars PROVE OnlyRecorded'
    <2>1. history' = history /\ toWrite' = toWrite
        BY <1>8 DEF OtherStep, systemVars, historyVars
    <2> QED BY <1>2, <1>3, <2>1 DEF OnlyRecorded
<1> QED BY <1>5, <1>6, <1>7, <1>8 DEF HistoryNext, AppendStep

\* Whatever an earlier agent left is a start.
LEMMA HistoryStart ==
    HistoryInit => HistoryTypeOK /\ OnlyRecorded /\ TornStays /\ AloneTells
<1> SUFFICES ASSUME HistoryInit PROVE HistoryTypeOK /\ OnlyRecorded /\ TornStays /\ AloneTells
    OBVIOUS
<1>1. <<>> \in Seq(Listed) /\ Len(<<>>) = 0 /\ DOMAIN <<>> = {}
    BY EmptySeq, LenProperties
<1>2. ASSUME history \notin Marks
      PROVE  /\ history \in Seq(Listed) /\ Len(history) \in 1..HistoryLimit
             /\ Distinct(history) /\ \A i \in DOMAIN history : history[i] \notin Execs
    <2>1. PICK n \in 1..HistoryLimit : history \in [1..n -> Earlier] /\ Distinct(history)
        BY <1>2 DEF HistoryInit, Leftovers
    <2>2. n \in Nat
        BY HistoryAssumption
    <2>3. history \in [1..n -> Listed]
        BY <2>1 DEF Listed
    <2>4. history \in Seq(Listed)
        BY <2>2, <2>3, SeqDef
    <2>5. Len(history) = n
        BY <2>1, <2>2, <2>4, LenProperties
    <2> QED BY <2>1, <2>4, <2>5, HistoryAssumption
<1>3. /\ history \in Seq(Listed) \cup Marks
      /\ appended = IF history \in Marks THEN <<>> ELSE history
      /\ torn = (history \in {Empty, Garbled})
      /\ Entries = IF history = Missing THEN <<>> ELSE history
    BY <1>2 DEF HistoryInit, Entries
<1>4. HistoryTypeOK
    <2>1. appended \in Seq(Listed) /\ (history \notin Marks => Len(history) \in 1..HistoryLimit)
        BY <1>1, <1>2, <1>3
    <2>2. torn \in BOOLEAN
        <3>1. (history \in {Empty, Garbled}) \in BOOLEAN
            OBVIOUS
        <3> QED BY <1>3, <3>1
    <2>3. /\ toWrite \in [Execs -> Seq(Listed)]
          /\ stage = [e \in Execs |-> "read"] /\ overlapped = FALSE /\ failed = FALSE
          /\ phase = [e \in Execs |-> "none"]
        BY <1>1 DEF HistoryInit, AgentInit, Init
    <2> QED BY <1>3, <2>1, <2>2, <2>3 DEF HistoryTypeOK
<1>5. ~Unreadable => /\ Entries = appended /\ Entries \in Seq(Listed)
                     /\ Len(Entries) <= HistoryLimit
                     /\ Distinct(Entries) /\ \A i \in DOMAIN Entries : Entries[i] \notin Execs
    <2>1. CASE history \in Marks
        BY <1>1, <1>3, <2>1, HistoryAssumption DEF Unreadable, Marks, Distinct
    <2>2. CASE history \notin Marks
        BY <1>2, <1>3, <2>2, HistoryAssumption DEF Marks
    <2> QED BY <2>1, <2>2
<1>6. OnlyRecorded
    BY <1>1, <1>5 DEF HistoryInit, OnlyRecorded, Distinct
<1>7. TornStays
    BY <1>3 DEF HistoryInit, TornStays, Unreadable
<1>8. Undisturbed => Tells
    <2>1. Undisturbed => ~Unreadable
        BY <1>3 DEF Undisturbed, Unreadable
    <2> QED BY <1>5, <2>1, LatestOfShort DEF Tells
<1>9. Persisting = {}
    BY DEF HistoryInit, AgentInit, Init, Persisting
<1> QED BY <1>4, <1>6, <1>7, <1>8, <1>9 DEF AloneTells

\* The parts of the history's invariant.
HistoryInv == HistoryTypeOK /\ OnlyRecorded /\ TornStays /\ AloneTells

LEMMA HistoryLaws == HistorySpec => [](Laws /\ HistoryInv)
<1>1. HistoryInit => HistoryInv
    BY HistoryStart DEF HistoryInv
<1>2. Laws /\ Laws' /\ HistoryInv /\ [Final]_vars /\ [HistoryNext]_systemVars => HistoryInv'
    BY HistoryTypedStep, OnlyRecordedStep, TornStep, AloneStep DEF Laws, HistoryInv
<1>3. HistorySpec => [][Final]_vars
    BY HistoryUsesAgent, AgentUsesService, ResultsFinal, PTL
       DEF UsesHostExec, ResultsAreFinal, Final
<1> QED BY <1>1, <1>2, <1>3, LawsHold, PTL DEF HistorySpec

\* history.ts, append: whatever earlier agents left, and unless that was torn,
\* two appends overlapped or a file operation threw, the history lists exactly
\* the latest runs, those of earlier agents included; it never lists a run
\* twice or one that is not recorded, and a torn file stays torn; for any
\* limit, runs, jobs and sockets.
THEOREM HistoryTells == HistorySpec => []HistoryTellsRuns
<1>1. HistoryInv => HistoryTellsRuns
    BY DEF HistoryInv, OnlyRecorded, Over, TornStays, AloneTells, Tells, HistoryTellsRuns
<1> QED BY <1>1, HistoryLaws, PTL

-----------------------------------------------------------------------------
(* Errors                                                                    *)

\* ErrorMeansNotRun with what makes it inductive: a request that was not
\* answered and waits for nothing has not come.
ErrorInv ==
    /\ ErrorMeansNotRun
    /\ \A e \in Execs : reply[e] = "none" => phase[e] = "none"

\* A hook rejects only if something disturbed an append, and that is not undone.
RejectsDisturbed ==
    /\ \A e \in Execs : phase[e] = "persisting" /\ phase'[e] = "rejected" => ~Undisturbed'
    /\ ~Undisturbed => ~Undisturbed'

LEMMA ErrorStep ==
    ASSUME Laws, Laws', ErrorInv, [AgentNext]_allVars, [Final]_vars, RejectsDisturbed
    PROVE  ErrorInv'
<1> USE DEF Laws
<1> SUFFICES ASSUME NEW d \in Execs
             PROVE  /\ reply'[d] = "error" =>
                        \/ child'[d] = "none" /\ ~Recorded(d)'
                        \/ phase'[d] = "rejected" /\ Recorded(d)' /\ ~Undisturbed'
                    /\ reply'[d] = "none" => phase'[d] = "none"
    BY DEF ErrorInv, ErrorMeansNotRun
<1> DEFINE Goal == /\ reply'[d] = "error" =>
                        \/ child'[d] = "none" /\ ~Recorded(d)'
                        \/ phase'[d] = "rejected" /\ Recorded(d)' /\ ~Undisturbed'
                   /\ reply'[d] = "none" => phase'[d] = "none"
<1>0. (Recorded(d) => Recorded(d)') /\ (~Undisturbed => ~Undisturbed')
    BY OverRemains DEF RejectsDisturbed
<1>1. ASSUME NEW e \in Execs, Accepted(e), Exec(e) PROVE Goal
    <2>1. CASE d = e
        BY <1>1, <2>1 DEF Accepted, ReplyInv, RepliesTyped
    <2>2. CASE d # e
        BY <1>0, <1>1, <2>2 DEF Accepted, Exec, TypeOK, ReplyInv, RepliesTyped, ErrorInv,
                          ErrorMeansNotRun, Recorded
    <2> QED BY <2>1, <2>2
<1>2. ASSUME NEW e \in Execs, Broken(e), SpawnThrows(e) PROVE Goal
    <2>1. CASE d = e
        <3>1. child[e] = "none" /\ ~Recorded(e)
            BY <1>2 DEF SpawnThrows, RunInv
        <3> QED BY <1>2, <2>1, <3>1 DEF Broken, SpawnThrows, osVars, ReplyInv, RepliesTyped,
                                        Recorded
    <2>2. CASE d # e
        BY <1>0, <1>2, <2>2 DEF Broken, SpawnThrows, osVars, TypeOK, ReplyInv, RepliesTyped,
                          ErrorInv, ErrorMeansNotRun, Recorded
    <2> QED BY <2>1, <2>2
<1>3. ASSUME NEW e \in Execs, Moves(e), Answers PROVE Goal
    <2>1. CASE d \in Settling
        <3>1. phase[d] \in InFlight /\ phase'[d] \notin InFlight
            BY <2>1 DEF Settling
        <3>2. reply'[d] = Sent(IF phase'[d] = "settled" THEN "ok" ELSE "error", via[d])
            BY <1>3, <2>1 DEF Answers
        <3>3. phase'[d] \in {"none", "settled", "rejected"}
            BY <3>1 DEF TypeOK, Phases, InFlight
        <3>4. d = e
            BY <1>3, <3>1, OthersStay
        <3>5. phase'[d] # "none" /\ (phase'[d] = "rejected" => phase[d] = "persisting")
            BY <1>3, <3>1, <3>4, PhaseMoves DEF InFlight
        <3>6. phase'[d] = "rejected" => Recorded(d)' /\ ~Undisturbed'
            BY <1>0, <3>5 DEF RejectsDisturbed, RunInv
        <3> QED BY <3>2, <3>3, <3>5, <3>6 DEF Sent
    <2>2. CASE d \notin Settling
        <3>1. reply'[d] = reply[d]
            BY <1>3, <2>2 DEF Answers
        <3>2. CASE reply[d] = "none" \/ reply[d] = "error"
            <4>1. phase[d] \notin InFlight
                BY <3>2 DEF ReplyInv, ReplyFreesSlot, SlotInv
            <4> QED BY <1>0, <1>3, <3>1, <4>1, IdleStays DEF ErrorInv, ErrorMeansNotRun, Recorded
        <3> QED BY <3>1, <3>2
    <2> QED BY <2>1, <2>2
<1>4. ASSUME NEW e \in Execs, Refused(e), UNCHANGED vars PROVE Goal
    <2>1. phase' = phase /\ child' = child /\ completedExecs' = completedExecs
        BY <1>4 DEF vars
    <2>2. CASE d = e
        <3>1. phase[e] = "none"
            BY <1>4 DEF Refused, Arrives, ErrorInv
        <3>2. child[e] = "none" /\ ~Recorded(e)
            BY <3>1 DEF RunInv
        <3> QED BY <1>4, <2>1, <2>2, <3>2 DEF Refused, ReplyInv, RepliesTyped, Recorded
    <2>3. CASE d # e
        BY <1>0, <1>4, <2>1, <2>3 DEF Refused, ReplyInv, RepliesTyped, ErrorInv, ErrorMeansNotRun,
                                Recorded
    <2> QED BY <2>2, <2>3
<1>5. ASSUME UNCHANGED vars, UNCHANGED reply \/ Answers PROVE Goal
    <2>1. phase' = phase /\ child' = child /\ completedExecs' = completedExecs
        BY <1>5 DEF vars
    <2>2. reply'[d] = reply[d]
        BY <1>5, <2>1 DEF Answers, Settling
    <2> QED BY <1>0, <2>1, <2>2 DEF ErrorInv, ErrorMeansNotRun, Recorded
<1> QED BY <1>1, <1>2, <1>3, <1>4, <1>5, AgentStepCases

LEMMA RejectStep ==
    ASSUME Laws, HistoryTypeOK, AloneTells, [HistoryNext]_systemVars
    PROVE  RejectsDisturbed
<1> USE DEF Laws
<1>1. ~Undisturbed => ~Undisturbed'
    BY DEF HistoryNext, AppendStep, ReadHistory, OpenHistory, WriteHistory, FailHistory,
           OtherStep, NoteOverlap, systemVars, historyVars, Undisturbed
<1>2. ASSUME NEW e \in Execs, ReadHistory(e) PROVE RejectsDisturbed
    <2>1. CASE Unreadable
        <3>1. ~Undisturbed
            BY <1>2, <2>1 DEF ReadHistory, AloneTells, Tells, Persisting
        <3> QED BY <1>1, <3>1 DEF RejectsDisturbed
    <2>2. CASE ~Unreadable
        <3>1. phase' = phase
            BY <1>2, <2>2 DEF ReadHistory, allVars, vars
        <3> QED BY <1>1, <3>1 DEF RejectsDisturbed
    <2> QED BY <2>1, <2>2
<1>3. ASSUME NEW e \in Execs, OpenHistory(e) PROVE RejectsDisturbed
    BY <1>1, <1>3 DEF OpenHistory, allVars, vars, RejectsDisturbed
<1>4. ASSUME NEW e \in Execs, WriteHistory(e) PROVE RejectsDisturbed
    <2>1. phase'[e] = "settled" /\ \A d \in Execs \ {e} : phase'[d] = phase[d]
        BY <1>4, HookEndsAlone DEF WriteHistory
    <2> QED BY <1>1, <2>1 DEF RejectsDisturbed
<1>5. ASSUME NEW e \in Execs, FailHistory(e) PROVE RejectsDisturbed
    BY <1>1, <1>5 DEF FailHistory, RejectsDisturbed, Undisturbed
<1>6. ASSUME OtherStep PROVE RejectsDisturbed
    BY <1>1, <1>6 DEF OtherStep, Persisting, RejectsDisturbed
<1>7. ASSUME UNCHANGED systemVars PROVE RejectsDisturbed
    BY <1>1, <1>7 DEF systemVars, allVars, vars, RejectsDisturbed
<1> QED BY <1>2, <1>3, <1>4, <1>5, <1>6, <1>7 DEF HistoryNext, AppendStep

\* agent-loop.ts, execute and session_exec: an error reply says that the
\* command did not run, or that its hook rejected; and a hook rejects only
\* after the agent found the file torn, two appends overlapped or a file
\* operation threw.
THEOREM ErrorsMeanNotRun == HistorySpec => []ErrorMeansNotRun
<1>1. HistoryInit => ErrorInv
    BY DEF HistoryInit, AgentInit, Init, ErrorInv, ErrorMeansNotRun
<1>2. Laws /\ Laws' /\ HistoryInv /\ ErrorInv /\ [Final]_vars /\ [HistoryNext]_systemVars
        => ErrorInv'
    BY ErrorStep, RejectStep, HistoryStepIsAgentStep DEF HistoryInv
<1>3. ErrorInv => ErrorMeansNotRun
    BY DEF ErrorInv
<1>4. HistorySpec => [][Final]_vars
    BY HistoryUsesAgent, AgentUsesService, ResultsFinal, PTL
       DEF UsesHostExec, ResultsAreFinal, Final
<1> QED BY <1>1, <1>2, <1>3, <1>4, HistoryLaws, PTL DEF HistorySpec

-----------------------------------------------------------------------------
(* The cap is what keeps appends apart.                                      *)

\* The history lists the latest runs, and an error says that the command did
\* not run.
Reliable ==
    /\ Persisting = {} => Entries = Latest(appended)
    /\ \A e \in Execs : reply[e] = "error" => child[e] = "none" /\ ~Recorded(e)

\* With room for one run appends never overlap: the history is reliable for as
\* long as file operations succeed, if the agent did not find the file torn.
THEOREM OneRunNeverOverlaps ==
    ASSUME MaxConcurrentExecs = 1
    PROVE  HistorySpec => [](~overlapped /\ (~torn /\ ~failed => Reliable))
<1>1. HistoryInit => ~overlapped
    BY DEF HistoryInit
<1>2. Laws' /\ ~overlapped /\ [HistoryNext]_systemVars => ~overlapped'
    <2> SUFFICES ASSUME Laws', ~overlapped, [HistoryNext]_systemVars PROVE ~overlapped'
        OBVIOUS
    <2>1. /\ Persisting' \in SUBSET activeExecs'
          /\ IsFiniteSet(activeExecs') /\ Cardinality(activeExecs') <= 1
        BY DEF Laws, SlotInv, Persisting, InFlight
    <2>2. ~(Cardinality(Persisting') > 1)
        BY <2>1, FS_Subset, FS_CardinalityType
    <2>3. NoteOverlap => ~overlapped'
        BY <2>2 DEF NoteOverlap
    <2> QED BY <2>3 DEF HistoryNext, AppendStep, ReadHistory, OpenHistory, WriteHistory,
                        FailHistory, OtherStep, systemVars, historyVars
<1>3. HistoryTellsRuns /\ ErrorMeansNotRun /\ ~overlapped => (~torn /\ ~failed => Reliable)
    BY DEF HistoryTellsRuns, ErrorMeansNotRun, Undisturbed, Reliable
<1> QED BY <1>1, <1>2, <1>3, LawsHold, HistoryTells, ErrorsMeanNotRun, PTL DEF HistorySpec

-----------------------------------------------------------------------------
(* Types                                                                     *)

\* Sockets, and the one each request came on.
SocketsTyped ==
    /\ acks \in [Jobs -> 0..MaxAborts]
    /\ socket \in 1..MaxSockets
    /\ isOpen \in BOOLEAN
    /\ via \in [Execs -> 0..socket]
    /\ \A e \in Execs : via[e] = 0 <=> reply[e] = "none"

LEMMA SocketsStep ==
    ASSUME SlotInv, SlotInv', ReplyInv, SocketsTyped, [AgentNext]_allVars
    PROVE  SocketsTyped'
<1> USE DEF SocketsTyped
<1>1. ASSUME NEW e \in Execs, Arrives(e), reply' \in [Execs -> Replies], reply'[e] # "none",
             \A d \in Execs : d # e => reply'[d] = reply[d]
      PROVE  SocketsTyped'
    BY <1>1, AgentAssumption DEF Arrives
<1>2. ASSUME NEW e \in Execs, Refused(e) \/ Accepted(e) \/ Broken(e) PROVE SocketsTyped'
    <2>1. Arrives(e) /\ reply' \in [Execs -> Replies] /\ reply'[e] # "none"
          /\ \A d \in Execs : d # e => reply'[d] = reply[d]
        BY <1>2 DEF Refused, Accepted, Broken, ReplyInv, RepliesTyped, Replies
    <2> QED BY <1>1, <2>1
<1>3. ASSUME Answers, UNCHANGED <<socket, isOpen, via>>, acks' \in [Jobs -> 0..MaxAborts]
      PROVE  SocketsTyped'
    <2>1. \A e \in Execs : reply'[e] = "none" <=> reply[e] = "none"
        BY <1>3 DEF Answers, Sent, Settling, ReplyInv, ReplyFreesSlot, SlotInv
    <2> QED BY <1>3, <2>1
<1>4. ASSUME NEW e \in Execs, RunStep(e) PROVE SocketsTyped'
    BY <1>3, <1>4 DEF RunStep
<1>5. ASSUME NEW j \in Jobs, HandleAbort(j) PROVE SocketsTyped'
    <2>1. acks' \in [Jobs -> 0..MaxAborts]
        BY <1>5, AgentAssumption DEF HandleAbort
    <2> QED BY <1>3, <1>5, <2>1 DEF HandleAbort
<1>6. ASSUME Drop PROVE SocketsTyped'
    BY <1>6 DEF Drop
<1>8. ASSUME Reconnect PROVE SocketsTyped'
    <2>1. /\ socket' = socket + 1 /\ socket' \in 1..MaxSockets /\ isOpen' = TRUE
          /\ via' = via /\ reply' = reply /\ acks' = acks
        BY <1>8, AgentAssumption DEF Reconnect
    <2>2. \A e \in Execs : via[e] \in 0..socket'
        BY <2>1
    <2> QED BY <2>1, <2>2
<1>7. ASSUME UNCHANGED allVars PROVE SocketsTyped'
    BY <1>7 DEF allVars, agentVars
<1> QED BY <1>2, <1>4, <1>5, <1>6, <1>7, <1>8 DEF AgentNext

\* The types of the service and the agent loop over it.
THEOREM AgentTypesHold == AgentSpec => []AgentTypeOK
<1>1. AgentInit => SocketsTyped
    BY AgentAssumption DEF AgentInit, SocketsTyped
<1>2. SlotInv /\ SlotInv' /\ ReplyInv /\ SocketsTyped /\ [AgentNext]_allVars => SocketsTyped'
    BY SocketsStep
<1>3. TypeOK /\ JobsTyped /\ ReplyInv /\ SocketsTyped => AgentTypeOK
    BY DEF JobsTyped, ReplyInv, RepliesTyped, SocketsTyped, AgentTypeOK
<1>4. AgentSpec => [](TypeOK /\ SlotInv)
    BY AgentUsesService, TypeCorrect, SlotsCorrect, PTL DEF UsesHostExec
<1> QED BY <1>1, <1>2, <1>3, <1>4, JobsLaw, ReplyLaw, PTL DEF AgentSpec

\* The types of the history, and of the agent and the service that use it.
THEOREM HistoryTypesHold == HistorySpec => [](HistoryTypeOK /\ AgentTypeOK)
<1>1. HistoryInv => HistoryTypeOK
    BY DEF HistoryInv
<1> QED BY <1>1, HistoryLaws, HistoryUsesAgent, AgentTypesHold, PTL
=============================================================================
