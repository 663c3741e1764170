---------------------------- MODULE LaunchProofs ----------------------------
(* Theorems of Launch: the loop gets a whole credential, whatever crashes    *)
(* and commands came before; for one process at a time, a node keeps the key *)
(* it enrolled with, and a reset leaves nothing.                             *)
EXTENDS Launch, TLAPS

-----------------------------------------------------------------------------
(* The types of files and locals                                             *)

SavedStates == {s \in States : s.token = 0}

DiskTyped ==
    /\ DOMAIN disk = Files
    /\ disk["identity"] \in Keys \cup {Missing, Empty}
    /\ disk["config"] \in BOOLEAN \cup {Missing, Empty}
    /\ disk["state"] \in SavedStates \cup {Missing, Empty}
    /\ disk["credential"] \in Creds \cup {Missing, Empty}

\* What a launch may have read so far: an empty config.json or state.json
\* ended it.
ReadTyped(read) ==
    /\ DOMAIN read = Files \ {"identity"}
    /\ read["config"] \in BOOLEAN \cup {Missing, NotRead}
    /\ read["state"] \in SavedStates \cup {Missing, NotRead}
    /\ read["credential"] \in Creds \cup {Missing, Empty, NotRead}

MemTyped(m) ==
    /\ m = [key |-> m.key, given |-> m.given, read |-> m.read, state |-> m.state]
    /\ m.key \in Keys \cup {0}
    /\ m.given \in BOOLEAN
    /\ ReadTyped(m.read)
    /\ m.state \in States

WorldTyped ==
    /\ keys \in 0..MaxKeys
    /\ approved \subseteq Keys /\ enrolled \subseteq Keys /\ discarded \subseteq Keys
    /\ age \in [Creds -> {"fresh", "near", "expired"}]
    /\ crashes \in 0..MaxCrashes /\ resets \in 0..MaxResets

LaunchTyped ==
    /\ DiskTyped
    /\ pc \in [Procs -> Stages]
    /\ DOMAIN mem = Procs /\ \A p \in Procs : MemTyped(mem[p])
    /\ todo \in [Procs -> SUBSET (ResetSteps \cup {"openConfig", "fillConfig"})]
    /\ WorldTyped

\* The stages of a launch that has its identity.
Keyed == {<<"open", "identity">>, <<"fill", "identity">>, <<"read", "rest">>,
          <<"open", "config">>, <<"fill", "config">>, Redeeming,
          <<"open", "state">>, <<"fill", "state">>, <<"remove", "credential">>,
          <<"open", "credential">>, <<"fill", "credential">>}

\* The stages in which the result of a redemption is in memory.
Redeemed == {<<"open", "state">>, <<"fill", "state">>, <<"remove", "credential">>,
             <<"open", "credential">>, <<"fill", "credential">>}

\* What the locals of a launch are at each stage.
Locals(stage, m) ==
    /\ stage \in Keyed => m.key \in Keys
    /\ stage \in {<<"open", "config">>, <<"fill", "config">>} =>
        \A f \in Files \ {"identity"} : m.read[f] # NotRead
    /\ stage \in {<<"open", "credential">>, <<"fill", "credential">>} =>
        m.state.token \in Creds
    /\ stage \in Redeemed \cup {Running} => m.state.token = m.state.expires

LocalsInv == \A p \in Procs : Locals(pc[p], mem[p])

-----------------------------------------------------------------------------
(* The pure parts of handleLaunch                                            *)

LEMMA NoMarkers ==
    /\ DefaultState \in SavedStates
    /\ ReadTyped(Unread) /\ MemTyped(Blank)
    /\ \A given \in BOOLEAN : MemTyped([Blank EXCEPT !.given = given])
<1>1. DefaultState \in SavedStates
    BY DEF DefaultState, SavedStates, States
<1>2. ReadTyped(Unread)
    BY DEF ReadTyped, Unread, Files
<1>3. DefaultState \in States
    BY <1>1 DEF SavedStates
<1> QED BY <1>1, <1>2, <1>3 DEF MemTyped, Blank

\* loadState gives the token and the expiry of one credential, or no token.
LEMMA LoadedWhole ==
    ASSUME NEW read, ReadTyped(read), \A f \in Files \ {"identity"} : read[f] # NotRead
    PROVE  /\ LoadedState(read) \in States
           /\ LoadedState(read).token = 0 \/ LoadedState(read).token = LoadedState(read).expires
BY MarkerAssumption, NoMarkers
   DEF LoadedState, Merged, ReadTyped, SavedStates, States, DefaultState, Files, Creds

\* The loop is entered only with a valid state.
LEMMA DecideStep ==
    ASSUME NEW p \in Procs, LaunchTyped, NEW s \in States, Decide(p, s),
           s.token = 0 \/ s.token = s.expires
    PROVE  /\ pc' \in [Procs -> Stages] /\ DOMAIN mem' = Procs
           /\ pc'[p] \in {Idle, Running}
           /\ MemTyped(mem'[p]) /\ Locals(pc'[p], mem'[p])
           /\ \A q \in Procs \ {p} : pc'[q] = pc[q] /\ mem'[q] = mem[q]
<1>1. CASE s.approved /\ Valid(s) /\ Goto(p, Running) /\ mem' = [mem EXCEPT ![p].state = s]
    <2>1. /\ pc' = [pc EXCEPT ![p] = Running] /\ mem' = [mem EXCEPT ![p].state = s]
          /\ p \in DOMAIN mem /\ p \in DOMAIN pc
        BY <1>1 DEF Goto, LaunchTyped
    <2>2. MemTyped(mem[p])
        BY DEF LaunchTyped
    <2>3. /\ mem'[p].key = mem[p].key /\ mem'[p].state = s
          /\ MemTyped(mem'[p])
        BY <2>1, <2>2 DEF MemTyped
    <2>4. s.token = s.expires
        BY <1>1 DEF Valid
    <2> QED BY <2>1, <2>3, <2>4 DEF LaunchTyped, Stages, Locals, Keyed, Redeemed, Running, Idle,
                Redeeming
<1>2. CASE Exit(p)
    BY <1>2, NoMarkers DEF Exit, Goto, LaunchTyped, Stages, Locals, Keyed, Redeemed, Running,
                           Idle, Redeeming
<1> QED BY <1>1, <1>2 DEF Decide

-----------------------------------------------------------------------------
(* Every step keeps the types, and the locals go with the stage              *)

\* What a step of p leaves.
StepTyped(p) ==
    /\ DiskTyped' /\ WorldTyped'
    /\ pc' \in [Procs -> Stages] /\ DOMAIN mem' = Procs
    /\ todo' \in [Procs -> SUBSET (ResetSteps \cup {"openConfig", "fillConfig"})]
    /\ MemTyped(mem'[p]) /\ Locals(pc'[p], mem'[p])
    /\ \A q \in Procs \ {p} : pc'[q] = pc[q] /\ mem'[q] = mem[q]

LEMMA StageNames ==
    /\ Idle = <<"idle", "">> /\ Redeeming = <<"redeem", "">> /\ Running = <<"running", "">>
    /\ Wiping = <<"wipe", "">> /\ Wiped = <<"wiped", "">>
BY DEF Idle, Redeeming, Running, Wiping, Wiped

LEMMA StageSets ==
    /\ Keyed \cup {Idle, Wiping, Wiped, Running, <<"read", "identity">>} \subseteq Stages
    /\ \A f \in Files : <<"fill", f>> \in Stages
    /\ \A stage \in Stages : stage[1] = "open" => \E f \in Files : stage = <<"open", f>>
<1>1. {"open", "fill"} \X Files \subseteq Stages
    BY DEF Stages
<1>2. \A act \in {"open", "fill"}, f \in Files : <<act, f>> \in Stages
    BY <1>1
<1>3. Keyed \cup {Idle, Wiping, Wiped, Running, <<"read", "identity">>} \subseteq Stages
    BY <1>2 DEF Stages, Keyed, Files
<1>4. ASSUME NEW stage \in {"open", "fill"} \X Files, stage[1] = "open"
      PROVE  \E f \in Files : stage = <<"open", f>>
    BY <1>4
<1>5. /\ Idle[1] # "open" /\ Redeeming[1] # "open" /\ Running[1] # "open"
      /\ Wiping[1] # "open" /\ Wiped[1] # "open" /\ <<"read", "identity">>[1] # "open"
      /\ <<"read", "rest">>[1] # "open" /\ <<"remove", "credential">>[1] # "open"
    BY StageNames
<1>6. ASSUME NEW stage \in Stages \ ({"open", "fill"} \X Files) PROVE stage[1] # "open"
    BY <1>5, <1>6, Zenon DEF Stages
<1> QED BY <1>2, <1>3, <1>4, <1>6

\* Only a launch that has its identity, or whose loop runs, says anything.
LEMMA FreeStage ==
    ASSUME NEW stage \in {Idle, Wiping, Wiped, <<"read", "identity">>}, NEW m
    PROVE  Locals(stage, m)
<1>1. /\ Locals(Idle, m) /\ Locals(Wiping, m) /\ Locals(Wiped, m)
      /\ Locals(<<"read", "identity">>, m)
    BY StageNames DEF Locals, Keyed, Redeemed
<1> QED BY <1>1

\* A stage that asks nothing of the locals but their types.
LEMMA LeaveStep ==
    ASSUME NEW p \in Procs, LaunchTyped,
           NEW stage \in {Idle, Wiping, Wiped, <<"read", "identity">>},
           pc' = [pc EXCEPT ![p] = stage],
           NEW m, MemTyped(m),
           mem' = [mem EXCEPT ![p] = m] \/ (mem' = mem /\ m = mem[p]),
           DiskTyped', WorldTyped',
           todo' \in [Procs -> SUBSET (ResetSteps \cup {"openConfig", "fillConfig"})]
    PROVE  StepTyped(p)
<1>1. stage \in Stages
    BY StageSets
<1>2. Locals(stage, m)
    BY FreeStage
<1> QED BY <1>1, <1>2 DEF StepTyped, LaunchTyped

LEMMA LaunchTypes ==
    ASSUME NEW p \in Procs, LaunchTyped, LocalsInv, LaunchStep(p)
    PROVE  StepTyped(p)
<1> USE DEF LaunchTyped, Goto
<1>0. Locals(pc[p], mem[p]) /\ MemTyped(mem[p]) /\ p \in DOMAIN mem
    BY DEF LocalsInv
<1>1. CASE ReadIdentity(p)
    <2>1. /\ UNCHANGED <<disk, todo, approved, age, enrolled, discarded, crashes, resets>>
          /\ keys' = keys \/ (keys < MaxKeys /\ keys' = keys + 1)
        BY <1>1 DEF ReadIdentity
    <2>2. DiskTyped' /\ WorldTyped' /\ todo' = todo
        BY <2>1, LaunchAssumption DEF DiskTyped, WorldTyped
    <2>3. CASE Exit(p)
        BY <2>2, <2>3, LeaveStep, NoMarkers DEF Exit
    <2>4. CASE \E k \in Keys : \E stage \in {<<"open", "identity">>, <<"read", "rest">>} :
                mem' = [mem EXCEPT ![p].key = k] /\ pc' = [pc EXCEPT ![p] = stage]
        <3>1. PICK k \in Keys, stage \in {<<"open", "identity">>, <<"read", "rest">>} :
                mem' = [mem EXCEPT ![p].key = k] /\ pc' = [pc EXCEPT ![p] = stage]
            BY <2>4
        <3>2. stage \in Stages
            BY StageSets DEF Keyed
        <3>3. MemTyped(mem'[p]) /\ mem'[p].key = k /\ DOMAIN mem' = Procs
            BY <1>0, <3>1 DEF MemTyped
        <3>4. Locals(<<"open", "identity">>, mem'[p]) /\ Locals(<<"read", "rest">>, mem'[p])
            BY <3>3, StageNames DEF Locals, Redeemed
        <3> QED BY <2>2, <3>1, <3>2, <3>3, <3>4 DEF StepTyped
    <2>5. \/ Exit(p)
          \/ \E k \in Keys : \E stage \in {<<"open", "identity">>, <<"read", "rest">>} :
                mem' = [mem EXCEPT ![p].key = k] /\ pc' = [pc EXCEPT ![p] = stage]
        <3>1. keys < MaxKeys => keys + 1 \in Keys
            BY LaunchAssumption DEF WorldTyped, Keys
        <3> QED BY <1>1, <3>1 DEF ReadIdentity, DiskTyped
    <2> QED BY <2>3, <2>4, <2>5
<1>2. CASE ReadRest(p)
    <2>1. PICK f \in Files \ {"identity"} :
            /\ mem[p].read[f] = NotRead
            /\ IF f # "credential" /\ disk[f] = Empty THEN Exit(p)
               ELSE LET read == [mem[p].read EXCEPT ![f] = disk[f]] IN
                    /\ mem' = [mem EXCEPT ![p].read = read]
                    /\ pc' = [pc EXCEPT ![p] = IF \E g \in DOMAIN read : read[g] = NotRead
                               THEN <<"read", "rest">> ELSE <<"open", "config">>]
        BY <1>2 DEF ReadRest, Unread
    <2>2. DiskTyped' /\ WorldTyped' /\ todo' = todo /\ pc[p] = <<"read", "rest">>
        BY <1>2 DEF ReadRest, DiskTyped, WorldTyped, worldVars
    <2>3. CASE Exit(p)
        BY <2>2, <2>3, LeaveStep, NoMarkers DEF Exit
    <2>4. CASE ~(f # "credential" /\ disk[f] = Empty)
        <3> DEFINE read == [mem[p].read EXCEPT ![f] = disk[f]]
        <3>1. ReadTyped(read)
            BY <1>0, <2>4 DEF ReadTyped, MemTyped, DiskTyped, Files
        <3>2. /\ mem' = [mem EXCEPT ![p].read = read]
              /\ \/ pc' = [pc EXCEPT ![p] = <<"read", "rest">>]
                 \/ /\ pc' = [pc EXCEPT ![p] = <<"open", "config">>]
                    /\ \A g \in DOMAIN read : read[g] # NotRead
            BY <2>1, <2>4
        <3> HIDE DEF read
        <3>3. /\ mem'[p].key = mem[p].key /\ mem'[p].read = read /\ MemTyped(mem'[p])
              /\ DOMAIN mem' = Procs
            BY <1>0, <3>1, <3>2 DEF MemTyped
        <3>4. mem[p].key \in Keys
            BY <1>0, <2>2 DEF Locals, Keyed
        <3>5. DOMAIN read = Files \ {"identity"}
            BY <3>1 DEF ReadTyped
        <3>6. /\ <<"read", "rest">> \in Stages /\ <<"open", "config">> \in Stages
              /\ Locals(<<"read", "rest">>, mem'[p])
              /\ (\A g \in DOMAIN read : read[g] # NotRead)
                    => Locals(<<"open", "config">>, mem'[p])
            BY <3>3, <3>4, <3>5, StageNames, StageSets DEF Locals, Keyed, Redeemed
        <3> QED BY <2>2, <3>2, <3>3, <3>6 DEF StepTyped
    <2> QED BY <2>1, <2>3, <2>4
<1>3. CASE OpenFile(p)
    <2>1. PICK f \in Files : pc[p] = <<"open", f>>
        BY <1>3, StageSets DEF OpenFile
    <2>2. disk' = [disk EXCEPT ![f] = Empty] /\ pc' = [pc EXCEPT ![p] = <<"fill", f>>]
          /\ UNCHANGED <<mem, todo, worldVars>>
        BY <1>3, <2>1 DEF OpenFile
    <2>3. DiskTyped' /\ WorldTyped'
        BY <2>2 DEF DiskTyped, WorldTyped, worldVars, Files
    <2>4. <<"fill", f>> \in Stages /\ Locals(<<"fill", f>>, mem[p])
        BY <1>0, <2>1, StageNames, StageSets DEF Locals, Keyed, Redeemed, Files
    <2> QED BY <1>0, <2>2, <2>3, <2>4 DEF StepTyped
<1>4. CASE FillIdentity(p)
    <2>1. DiskTyped' /\ WorldTyped'
        BY <1>0, <1>4 DEF FillIdentity, Write, DiskTyped, WorldTyped, worldVars, Files, Locals, Keyed
    <2> QED BY <1>0, <1>4, <2>1, StageNames
            DEF FillIdentity, StepTyped, Stages, Locals, Keyed, Redeemed
<1>5. CASE FillConfig(p)
    <2> DEFINE s == LoadedState(mem[p].read)
    <2>1. HasToken(p) \in BOOLEAN
        BY <1>0 DEF HasToken, MemTyped
    <2>2. DiskTyped' /\ WorldTyped' /\ todo' = todo
        BY <1>5, <2>1 DEF FillConfig, Write, DiskTyped, WorldTyped, worldVars, Files
    <2>3. s \in States /\ (s.token = 0 \/ s.token = s.expires)
        BY <1>0, <1>5, LoadedWhole DEF FillConfig, Locals, MemTyped
    <2> HIDE DEF s
    <2>4. CASE Exit(p)
        BY <2>2, <2>4, LeaveStep, NoMarkers DEF Exit
    <2>5. CASE Goto(p, Redeeming) /\ UNCHANGED mem
        <3>1. mem[p].key \in Keys
            BY <1>0, <1>5 DEF FillConfig, Locals, Keyed
        <3> QED BY <1>0, <2>2, <2>5, <3>1, StageNames
                DEF StepTyped, Stages, Locals, Keyed, Redeemed
    <2>6. CASE Decide(p, s)
        BY <2>2, <2>3, <2>6, DecideStep DEF StepTyped
    <2> QED BY <1>5, <2>4, <2>5, <2>6 DEF FillConfig, s
<1>6. CASE Redeem(p)
    <2> DEFINE k == mem[p].key
    <2>1. k \in Keys
        BY <1>0, <1>6, StageNames DEF Redeem, Locals, Keyed
    <2>2. PICK s \in States : mem' = [mem EXCEPT ![p].state = s] /\ s.token = s.expires
                /\ (age' = age \/ \E c \in Creds : age' = [age EXCEPT ![c] = "fresh"])
        <3>1. [DefaultState EXCEPT !.node = k] \in States
            BY <2>1 DEF DefaultState, States
        <3>2. \A c \in Creds : [node |-> k, approved |-> TRUE, token |-> c, expires |-> c] \in States
            BY <2>1 DEF States
        <3>3. [DefaultState EXCEPT !.node = k].token = [DefaultState EXCEPT !.node = k].expires
            BY DEF DefaultState
        <3> QED BY <1>6, <3>1, <3>2, <3>3 DEF Redeem
    <2>3. DiskTyped' /\ WorldTyped' /\ todo' = todo /\ pc' = [pc EXCEPT ![p] = <<"open", "state">>]
        BY <1>6, <2>1, <2>2 DEF Redeem, DiskTyped, WorldTyped
    <2>4. MemTyped(mem'[p]) /\ mem'[p].key = k /\ mem'[p].state = s /\ DOMAIN mem' = Procs
        BY <1>0, <2>2 DEF MemTyped
    <2> QED BY <2>1, <2>2, <2>3, <2>4, StageNames
            DEF StepTyped, Stages, Locals, Keyed, Redeemed, Files
<1>7. CASE FillState(p)
    <2>1. Persisted(mem[p].state) \in SavedStates
        BY <1>0 DEF Persisted, SavedStates, States, MemTyped
    <2>2. DiskTyped' /\ WorldTyped'
        BY <1>7, <2>1 DEF FillState, Write, DiskTyped, WorldTyped, worldVars, Files
    <2>3. mem[p].state.token \in Creds \cup {0}
        BY <1>0 DEF MemTyped, States
    <2> QED BY <1>0, <1>7, <2>2, <2>3, StageNames
            DEF FillState, StepTyped, Stages, Locals, Keyed, Redeemed, Files
<1>8. CASE RemoveCredential(p) \/ FillCredential(p)
    <2>1. DiskTyped' /\ WorldTyped' /\ todo' = todo
        BY <1>0, <1>8 DEF RemoveCredential, FillCredential, Write, DiskTyped, WorldTyped, worldVars,
                          Files, Locals
    <2>2. mem[p].state \in States /\ mem[p].state.token = mem[p].state.expires
        BY <1>0, <1>8 DEF RemoveCredential, FillCredential, MemTyped, Locals, Redeemed
    <2>3. Decide(p, mem[p].state)
        BY <1>8 DEF RemoveCredential, FillCredential
    <2> QED BY <2>1, <2>2, <2>3, DecideStep DEF StepTyped
<1> QED BY <1>1, <1>2, <1>3, <1>4, <1>5, <1>6, <1>7, <1>8 DEF LaunchStep

LEMMA OtherTypes ==
    ASSUME NEW p \in Procs, LaunchTyped, LocalsInv,
           \/ \E given \in BOOLEAN : StartLaunch(p, given)
           \/ StartReset(p) \/ RedeemFails(p) \/ Stop(p) \/ Crash(p)
    PROVE  StepTyped(p)
<1> USE DEF LaunchTyped, Goto
<1>0. Locals(pc[p], mem[p]) /\ MemTyped(mem[p]) /\ p \in DOMAIN mem
    BY DEF LocalsInv
<1>1. ASSUME NEW given \in BOOLEAN, StartLaunch(p, given) PROVE StepTyped(p)
    <2>1. DiskTyped' /\ WorldTyped'
        BY <1>1 DEF StartLaunch, DiskTyped, WorldTyped, worldVars
    <2> QED BY <1>1, <2>1, LeaveStep, NoMarkers DEF StartLaunch
<1>2. CASE StartReset(p)
    <2>1. DiskTyped' /\ WorldTyped' /\ todo' = [todo EXCEPT ![p] = ResetSteps]
        BY <1>2, LaunchAssumption DEF StartReset, DiskTyped, WorldTyped
    <2>2. mem' = mem
        BY <1>2 DEF StartReset
    <2> QED BY <1>0, <1>2, <2>1, <2>2, LeaveStep DEF StartReset
<1>3. CASE RedeemFails(p)
    <2>1. mem[p].key \in Keys
        BY <1>0, <1>3 DEF RedeemFails, Locals, Keyed
    <2>2. DiskTyped' /\ WorldTyped' /\ todo' = todo
        BY <1>3, <2>1 DEF RedeemFails, DiskTyped, WorldTyped
    <2> QED BY <1>3, <2>2, LeaveStep, NoMarkers DEF RedeemFails, Exit
<1>4. CASE Stop(p) \/ Crash(p)
    <2>1. /\ DiskTyped' /\ WorldTyped' /\ Exit(p)
          /\ todo' = todo \/ todo' = [todo EXCEPT ![p] = {}]
        BY <1>4, LaunchAssumption DEF Stop, Crash, DiskTyped, WorldTyped, worldVars
    <2> QED BY <2>1, LeaveStep, NoMarkers DEF Exit
<1> QED BY <1>1, <1>2, <1>3, <1>4

LEMMA ResetTypes ==
    ASSUME NEW p \in Procs, LaunchTyped, LocalsInv, ResetStep(p)
    PROVE  StepTyped(p)
<1> USE DEF LaunchTyped, Goto
<1>0. MemTyped(mem[p])
    OBVIOUS
<1>1. mem' = mem
    BY DEF ResetStep, RemoveFile, ClearToken
<1>2. DiskTyped' /\ WorldTyped'
    <2>1. CASE \E f \in ResetSteps \cap Files : RemoveFile(p, f)
        BY <2>1, MarkerAssumption DEF RemoveFile, DiskTyped, WorldTyped, Files
    <2>2. CASE ClearToken(p)
        BY <2>2 DEF ClearToken, DiskTyped, WorldTyped, worldVars, Files, Write
    <2> QED BY <2>1, <2>2 DEF ResetStep
<1>3. /\ todo' \in [Procs -> SUBSET (ResetSteps \cup {"openConfig", "fillConfig"})]
      /\ \E stage \in {Idle, Wiping, Wiped} : pc' = [pc EXCEPT ![p] = stage]
    <2>1. CASE \E step : \E more \in SUBSET {"openConfig", "fillConfig"} : Done(p, step, more)
        BY <2>1 DEF Done
    <2>2. CASE Goto(p, Idle) /\ todo' = [todo EXCEPT ![p] = {}]
        BY <2>2
    <2>3. CASE \E f \in ResetSteps \cap Files : RemoveFile(p, f)
        BY <2>1, <2>3 DEF RemoveFile
    <2>4. CASE ClearToken(p)
        <3>1. \/ Goto(p, Idle) /\ todo' = [todo EXCEPT ![p] = {}]
              \/ Done(p, "loadConfig", {"openConfig"}) \/ Done(p, "loadConfig", {})
              \/ Done(p, "openConfig", {"fillConfig"}) \/ Done(p, "fillConfig", {})
            BY <2>4 DEF ClearToken
        <3> QED BY <2>1, <2>2, <3>1
    <2> QED BY <2>3, <2>4 DEF ResetStep
<1> QED BY <1>0, <1>1, <1>2, <1>3, LeaveStep

LEMMA TypesStep ==
    ASSUME LaunchTyped, LocalsInv, [Next]_vars
    PROVE  LaunchTyped' /\ LocalsInv'
<1>1. ASSUME NEW p \in Procs, ProcStep(p) PROVE LaunchTyped' /\ LocalsInv'
    <2>1. StepTyped(p)
        BY <1>1, LaunchTypes, OtherTypes, ResetTypes DEF ProcStep
    <2> QED BY <2>1 DEF StepTyped, LaunchTyped, LocalsInv
<1>2. ASSUME NEW k \in Keys, Approve(k) PROVE LaunchTyped' /\ LocalsInv'
    BY <1>2 DEF Approve, LaunchTyped, DiskTyped, WorldTyped, LocalsInv
<1>3. ASSUME NEW c \in Creds, Ages(c) PROVE LaunchTyped' /\ LocalsInv'
    BY <1>3 DEF Ages, LaunchTyped, DiskTyped, WorldTyped, LocalsInv
<1>4. CASE UNCHANGED vars
    BY <1>4 DEF vars, worldVars, LaunchTyped, DiskTyped, WorldTyped, LocalsInv
<1> QED BY <1>1, <1>2, <1>3, <1>4 DEF Next

LEMMA LaunchLaws == Spec => [](LaunchTyped /\ LocalsInv)
<1>1. Init => LaunchTyped /\ LocalsInv
    <2> SUFFICES ASSUME Init PROVE LaunchTyped /\ LocalsInv
        OBVIOUS
    <2>1. DiskTyped
        BY DEF Init, DiskTyped, Files
    <2>2. WorldTyped
        BY LaunchAssumption DEF Init, WorldTyped
    <2>3. pc \in [Procs -> Stages] /\ todo \in [Procs -> {{}}]
        BY StageSets DEF Init
    <2>4. DOMAIN mem = Procs /\ \A p \in Procs : MemTyped(mem[p]) /\ pc[p] = Idle
        BY NoMarkers DEF Init
    <2> QED BY <2>1, <2>2, <2>3, <2>4, FreeStage DEF LaunchTyped, LocalsInv
<1>2. LaunchTyped /\ LocalsInv /\ [Next]_vars => LaunchTyped' /\ LocalsInv'
    BY TypesStep
<1> QED BY <1>1, <1>2, PTL DEF Spec

-----------------------------------------------------------------------------
\* src/cli/index.ts: the types of the files and of the locals of the commands,
\* for any number of processes, keys, credentials and crashes. state.json
\* never holds a token.
THEOREM LaunchTypesHold == Spec => []TypeOK
<1>1. LaunchTyped => TypeOK
    BY DEF LaunchTyped, TypeOK, DiskTyped, WorldTyped, MemTyped, Content, Files, SavedStates
<1> QED BY <1>1, LaunchLaws, PTL

\* handleLaunch: the loop is started with the token and the expiry of one
\* redemption, for any number of processes that launch and reset together and
\* are killed anywhere.
THEOREM LoopGetsWholeCredential == Spec => []CredentialWhole
<1>1. LocalsInv => CredentialWhole
    BY StageNames DEF LocalsInv, Locals, CredentialWhole
<1> QED BY <1>1, LaunchLaws, PTL

-----------------------------------------------------------------------------
(* One process at a time: the key of an enrolled node                        *)

OneProcess == \A p, q \in Procs : p = q

\* The stages of a launch whose identity is on disk.
Rooted == Keyed \ {<<"open", "identity">>, <<"fill", "identity">>}

LEMMA KeyStages ==
    /\ Redeeming \in Rooted /\ <<"read", "rest">> \in Rooted
    /\ <<"remove", "credential">> \in Rooted
    /\ \A f \in Files \ {"identity"} : <<"open", f>> \in Rooted /\ <<"fill", f>> \in Rooted
    /\ \A stage \in {Idle, Running, Wiping, Wiped, <<"read", "identity">>} : stage \notin Keyed
    /\ <<"open", "identity">> \notin Rooted /\ <<"fill", "identity">> \notin Rooted
    /\ Rooted \subseteq Keyed
<1>1. Redeeming \in Rooted
    BY StageNames DEF Rooted, Keyed
<1>2. <<"read", "rest">> \in Rooted
    BY DEF Rooted, Keyed
<1>3. <<"remove", "credential">> \in Rooted
    BY DEF Rooted, Keyed
<1>4. ASSUME NEW f \in Files \ {"identity"}
      PROVE  <<"open", f>> \in Rooted /\ <<"fill", f>> \in Rooted
    BY DEF Rooted, Keyed, Files
<1>5. /\ Idle \notin Keyed /\ Running \notin Keyed /\ Wiping \notin Keyed /\ Wiped \notin Keyed
      /\ <<"read", "identity">> \notin Keyed
    BY StageNames DEF Keyed
<1>6. <<"open", "identity">> \notin Rooted /\ <<"fill", "identity">> \notin Rooted
    BY DEF Rooted
<1>7. Rooted \subseteq Keyed
    BY DEF Rooted
<1> QED BY <1>1, <1>2, <1>3, <1>4, <1>5, <1>6, <1>7

\* A launch works with the key on disk, and generates one where none was.
KeyAt(p) ==
    /\ pc[p] \in Rooted => disk["identity"] = mem[p].key
    /\ pc[p] = <<"open", "identity">> => disk["identity"] = Missing
    /\ pc[p] = <<"fill", "identity">> => disk["identity"] = Empty

KeyInv == EnrolledKeyKept /\ \A p \in Procs : KeyAt(p)

\* A step that leaves the identity alone and ends in a stage it asks nothing of.
LEMMA KeyLeft ==
    ASSUME NEW p \in Procs, KeyInv, pc'[p] \in {Idle, Running, Wiping, Wiped, <<"read", "identity">>},
           disk'["identity"] = disk["identity"], enrolled' = enrolled, discarded' = discarded
    PROVE  KeyAt(p)' /\ EnrolledKeyKept'
<1>1. /\ pc'[p] \notin Rooted /\ pc'[p] # <<"open", "identity">>
      /\ pc'[p] # <<"fill", "identity">>
    BY KeyStages DEF Keyed
<1>2. EnrolledKeyKept'
    BY DEF KeyInv, EnrolledKeyKept
<1> QED BY <1>1, <1>2 DEF KeyAt

\* A step of a launch that leaves the identity and its key alone.
LEMMA KeyUsed ==
    ASSUME NEW p \in Procs, KeyInv, pc[p] \in Rooted, pc'[p] \in Rooted,
           disk'["identity"] = disk["identity"], mem'[p].key = mem[p].key,
           discarded' = discarded, enrolled' \subseteq enrolled \cup {mem[p].key}
    PROVE  KeyAt(p)' /\ EnrolledKeyKept'
<1>1. pc'[p] \notin {<<"open", "identity">>, <<"fill", "identity">>}
    BY DEF Rooted
<1> QED BY <1>1 DEF KeyInv, KeyAt, EnrolledKeyKept

LEMMA KeyLaunch ==
    ASSUME NEW p \in Procs, LaunchTyped, LocalsInv, KeyInv, LaunchStep(p)
    PROVE  KeyAt(p)' /\ EnrolledKeyKept'
<1> USE DEF LaunchTyped, Goto
<1>0. KeyAt(p) /\ p \in DOMAIN mem /\ MemTyped(mem[p]) /\ Locals(pc[p], mem[p])
    BY DEF KeyInv, LocalsInv
<1>1. CASE ReadIdentity(p)
    <2>1. disk' = disk /\ enrolled' = enrolled /\ discarded' = discarded
        BY <1>1 DEF ReadIdentity
    <2>2. CASE Exit(p)
        BY <2>1, <2>2, KeyLeft DEF Exit
    <2>3. CASE disk["identity"] = Missing /\ pc' = [pc EXCEPT ![p] = <<"open", "identity">>]
        BY <2>1, <2>3, KeyStages DEF KeyInv, KeyAt, EnrolledKeyKept
    <2>4. CASE /\ mem' = [mem EXCEPT ![p].key = disk["identity"]]
               /\ pc' = [pc EXCEPT ![p] = <<"read", "rest">>]
        <3>1. mem'[p].key = disk["identity"]
            BY <1>0, <2>4 DEF MemTyped
        <3> QED BY <2>1, <2>4, <3>1 DEF KeyInv, KeyAt, EnrolledKeyKept
    <2> QED BY <1>1, <2>2, <2>3, <2>4 DEF ReadIdentity
<1>2. CASE ReadRest(p)
    <2>1. /\ pc[p] = <<"read", "rest">> /\ disk' = disk /\ enrolled' = enrolled
          /\ discarded' = discarded
        BY <1>2 DEF ReadRest, worldVars
    <2>2. CASE Exit(p)
        BY <2>1, <2>2, KeyLeft DEF Exit
    <2>3. CASE ~Exit(p)
        <3>1. /\ pc'[p] = <<"read", "rest">> \/ pc'[p] = <<"open", "config">>
              /\ mem'[p].key = mem[p].key
            BY <1>0, <1>2, <2>3 DEF ReadRest, MemTyped
        <3>2. pc[p] \in Rooted /\ pc'[p] \in Rooted
            BY <2>1, <3>1, KeyStages DEF Files
        <3> QED BY <2>1, <3>1, <3>2, KeyUsed
    <2> QED BY <2>2, <2>3
<1>3. CASE OpenFile(p)
    <2>1. PICK f \in Files : pc[p] = <<"open", f>>
        BY <1>3, StageSets DEF OpenFile
    <2>2. disk' = [disk EXCEPT ![f] = Empty] /\ pc' = [pc EXCEPT ![p] = <<"fill", f>>]
          /\ mem' = mem /\ enrolled' = enrolled /\ discarded' = discarded
        BY <1>3, <2>1 DEF OpenFile, worldVars
    <2>3. CASE f = "identity"
        <3>1. disk["identity"] = Missing /\ disk'["identity"] = Empty
            BY <1>0, <2>1, <2>2, <2>3 DEF KeyAt, DiskTyped, Files
        <3>2. EnrolledKeyKept'
            BY <2>2, <3>1, MarkerAssumption DEF KeyInv, EnrolledKeyKept, WorldTyped
        <3> QED BY <2>2, <2>3, <3>1, <3>2, KeyStages DEF KeyAt
    <2>4. CASE f # "identity"
        <3>1. pc[p] \in Rooted /\ pc'[p] \in Rooted
            BY <2>1, <2>2, <2>4, KeyStages
        <3> QED BY <2>2, <2>4, <3>1, KeyUsed
    <2> QED BY <2>3, <2>4
<1>4. CASE FillIdentity(p)
    <2>1. /\ disk["identity"] = Empty /\ disk'["identity"] = mem[p].key
          /\ pc'[p] = <<"read", "rest">> /\ mem' = mem /\ enrolled' = enrolled
          /\ discarded' = discarded
        BY <1>0, <1>4, MarkerAssumption
        DEF FillIdentity, Write, KeyAt, DiskTyped, Files, worldVars
    <2>2. EnrolledKeyKept'
        BY <2>1, MarkerAssumption DEF KeyInv, EnrolledKeyKept, WorldTyped
    <2> QED BY <2>1, <2>2 DEF KeyAt
<1>5. CASE FillConfig(p)
    <2>1. /\ pc[p] = <<"fill", "config">> /\ disk'["identity"] = disk["identity"]
          /\ enrolled' = enrolled /\ discarded' = discarded
        BY <1>5 DEF FillConfig, Write, DiskTyped, Files, worldVars
    <2>2. CASE pc'[p] = Idle \/ pc'[p] = Running
        BY <2>1, <2>2, KeyLeft
    <2>3. CASE Goto(p, Redeeming) /\ UNCHANGED mem
        <3>1. /\ pc[p] \in Rooted /\ pc'[p] \in Rooted
              /\ mem'[p].key = mem[p].key
            BY <2>1, <2>3, KeyStages DEF Files
        <3> QED BY <2>1, <3>1, KeyUsed
    <2> QED BY <1>5, <2>2, <2>3 DEF FillConfig, Decide, Exit
<1>6. CASE Redeem(p)
    <2>1. /\ pc[p] = Redeeming /\ pc'[p] = <<"open", "state">> /\ disk' = disk
          /\ enrolled' = enrolled \cup {mem[p].key} /\ discarded' = discarded
        BY <1>6 DEF Redeem
    <2>2. mem'[p].key = mem[p].key
        BY <1>0, <1>6 DEF Redeem, MemTyped
    <2>3. pc[p] \in Rooted /\ pc'[p] \in Rooted
        BY <2>1, KeyStages DEF Files
    <2> QED BY <2>1, <2>2, <2>3, KeyUsed
<1>7. CASE FillState(p)
    <2>1. /\ pc[p] = <<"fill", "state">> /\ disk'["identity"] = disk["identity"]
          /\ pc'[p] = <<"remove", "credential">> \/ pc'[p] = <<"open", "credential">>
          /\ mem' = mem /\ enrolled' = enrolled /\ discarded' = discarded
        BY <1>7 DEF FillState, Write, DiskTyped, Files, worldVars
    <2>2. pc[p] \in Rooted /\ pc'[p] \in Rooted
        BY <2>1, KeyStages DEF Files
    <2> QED BY <2>1, <2>2, KeyUsed
<1>8. CASE RemoveCredential(p) \/ FillCredential(p)
    <2>1. /\ disk'["identity"] = disk["identity"] /\ enrolled' = enrolled
          /\ discarded' = discarded
        BY <1>8 DEF RemoveCredential, FillCredential, Write, DiskTyped, Files, worldVars
    <2>2. pc'[p] = Idle \/ pc'[p] = Running
        BY <1>8 DEF RemoveCredential, FillCredential, Decide, Exit
    <2> QED BY <2>1, <2>2, KeyLeft
<1> QED BY <1>1, <1>2, <1>3, <1>4, <1>5, <1>6, <1>7, <1>8 DEF LaunchStep

LEMMA KeyStep ==
    ASSUME OneProcess, LaunchTyped, LocalsInv, KeyInv, [Next]_vars
    PROVE  KeyInv'
<1> USE DEF LaunchTyped, Goto
<1>1. ASSUME NEW p \in Procs, KeyAt(p)' /\ EnrolledKeyKept' PROVE KeyInv'
    BY <1>1 DEF KeyInv, OneProcess
<1>2. ASSUME NEW p \in Procs, LaunchStep(p) PROVE KeyInv'
    BY <1>1, <1>2, KeyLaunch
<1>3. ASSUME NEW p \in Procs,
             (\E given \in BOOLEAN : StartLaunch(p, given)) \/ StartReset(p) \/ Stop(p) \/ Crash(p)
      PROVE  KeyInv'
    <2>1. /\ disk' = disk /\ enrolled' = enrolled /\ discarded' = discarded
          /\ pc'[p] \in {Idle, Wiping, <<"read", "identity">>}
        BY <1>3 DEF StartLaunch, StartReset, Stop, Crash, Exit, worldVars
    <2> QED BY <1>1, <2>1, KeyLeft
<1>4. ASSUME NEW p \in Procs, RedeemFails(p) PROVE KeyInv'
    <2>1. /\ pc[p] = Redeeming /\ pc'[p] = Idle /\ disk' = disk /\ discarded' = discarded
          /\ enrolled' \subseteq enrolled \cup {mem[p].key}
        BY <1>4 DEF RedeemFails, Exit
    <2>2. disk["identity"] = mem[p].key
        BY <2>1, KeyStages DEF KeyInv, KeyAt
    <2>3. EnrolledKeyKept'
        BY <2>1, <2>2 DEF KeyInv, EnrolledKeyKept
    <2>4. KeyAt(p)'
        BY <2>1, KeyStages DEF KeyAt, Keyed
    <2> QED BY <1>1, <2>3, <2>4
<1>5. ASSUME NEW p \in Procs, ResetStep(p) PROVE KeyInv'
    <2>1. pc'[p] \in {Idle, Wiping, Wiped} /\ enrolled' = enrolled
        BY <1>5 DEF ResetStep, RemoveFile, ClearToken, Done, worldVars
    <2>2. CASE disk'["identity"] = disk["identity"] /\ discarded' = discarded
        BY <1>1, <2>1, <2>2, KeyLeft
    <2>3. CASE RemoveFile(p, "identity")
        <3>1. /\ discarded' = IF disk["identity"] \in Keys
                              THEN discarded \cup {disk["identity"]} ELSE discarded
            BY <2>3 DEF RemoveFile
        <3>2. EnrolledKeyKept'
            BY <2>1, <3>1 DEF KeyInv, EnrolledKeyKept, WorldTyped
        <3>3. KeyAt(p)'
            BY <2>1, KeyStages DEF KeyAt, Keyed
        <3> QED BY <1>1, <3>2, <3>3
    <2> QED BY <1>5, <2>2, <2>3
            DEF ResetStep, RemoveFile, ClearToken, DiskTyped, Files, Write, worldVars, ResetSteps
<1>6. ASSUME NEW k \in Keys, Approve(k) PROVE KeyInv'
    BY <1>6 DEF Approve, KeyInv, KeyAt, EnrolledKeyKept
<1>7. ASSUME NEW c \in Creds, Ages(c) PROVE KeyInv'
    BY <1>7 DEF Ages, KeyInv, KeyAt, EnrolledKeyKept
<1>8. CASE UNCHANGED vars
    BY <1>8 DEF vars, worldVars, KeyInv, KeyAt, EnrolledKeyKept
<1> QED BY <1>2, <1>3, <1>4, <1>5, <1>6, <1>7, <1>8 DEF Next, ProcStep

\* ensureIdentity and reset: with one command at a time a node keeps the key
\* it enrolled with until a reset removes it, over any number of launches,
\* resets and crashes, also within the write of identity.json.
THEOREM KeyOutlivesCrashes ==
    ASSUME OneProcess
    PROVE  Spec => []EnrolledKeyKept
<1>1. Init => KeyInv
    <2> SUFFICES ASSUME Init PROVE KeyInv
        OBVIOUS
    <2> QED BY KeyStages DEF Init, KeyInv, KeyAt, EnrolledKeyKept, Keyed
<1>2. LaunchTyped /\ LocalsInv /\ KeyInv /\ [Next]_vars => KeyInv'
    BY KeyStep
<1>3. KeyInv => EnrolledKeyKept
    BY DEF KeyInv
<1> QED BY <1>1, <1>2, <1>3, LaunchLaws, PTL DEF Spec

-----------------------------------------------------------------------------
(* One process at a time: what a reset leaves                                *)

\* What is gone from the files, or still to be done by the tasks of a reset.
GoneOr(files, tasks) ==
    /\ \A f \in {"identity", "state", "credential"} : f \in tasks \/ files[f] = Missing
    /\ \/ tasks \cap {"loadConfig", "openConfig", "fillConfig"} # {}
       \/ files["config"] \in {Missing, FALSE}

WipeInv == \A p \in Procs : pc[p] = Wiping => GoneOr(disk, todo[p])

LEMMA ResetProgress ==
    ASSUME NEW p \in Procs, LaunchTyped, WipeInv, ResetStep(p)
    PROVE  \/ pc'[p] = Idle
           \/ GoneOr(disk', todo'[p]) /\ (pc'[p] = Wiped => todo'[p] = {})
<1> USE DEF LaunchTyped, Goto
<1>1. pc[p] = Wiping /\ GoneOr(disk, todo[p]) /\ DiskTyped /\ Wiping # Wiped
    BY StageNames DEF ResetStep, RemoveFile, ClearToken, WipeInv
<1>2. ASSUME NEW step, NEW more, Done(p, step, more)
      PROVE  /\ todo'[p] = (todo[p] \ {step}) \cup more
             /\ pc'[p] = Wiped => todo'[p] = {}
    BY <1>1, <1>2 DEF Done
<1>3. ASSUME NEW f \in ResetSteps \cap Files, RemoveFile(p, f)
      PROVE  GoneOr(disk', todo'[p]) /\ (pc'[p] = Wiped => todo'[p] = {})
    <2>1. f \in {"identity", "state", "credential"}
        BY DEF ResetSteps, Files
    <2>2. Done(p, f, {}) /\ disk' = [disk EXCEPT ![f] = Missing]
        BY <1>3 DEF RemoveFile
    <2>3. todo'[p] = todo[p] \ {f} /\ (pc'[p] = Wiped => todo'[p] = {})
        BY <1>2, <2>2
    <2>4. /\ disk'[f] = Missing /\ disk'["config"] = disk["config"]
          /\ \A g \in Files \ {f} : disk'[g] = disk[g]
        BY <1>1, <2>1, <2>2 DEF DiskTyped, Files
    <2> QED BY <1>1, <2>1, <2>3, <2>4 DEF GoneOr, Files
<1>4. ASSUME ClearToken(p), pc'[p] # Idle
      PROVE  GoneOr(disk', todo'[p]) /\ (pc'[p] = Wiped => todo'[p] = {})
    <2>1. \A g \in {"identity", "state", "credential"} : disk'[g] = disk[g]
        BY <1>1, <1>4 DEF ClearToken, Write, DiskTyped, Files
    <2>2. CASE disk["config"] = TRUE /\ Done(p, "loadConfig", {"openConfig"})
        <3>1. /\ todo'[p] = (todo[p] \ {"loadConfig"}) \cup {"openConfig"}
              /\ pc'[p] = Wiped => todo'[p] = {}
            BY <1>2, <2>2
        <3>2. todo'[p] \cap {"loadConfig", "openConfig", "fillConfig"} # {}
            BY <3>1
        <3> QED BY <1>1, <2>1, <3>1, <3>2 DEF GoneOr
    <2>3. CASE disk' = disk /\ disk["config"] \notin {Empty, TRUE} /\ Done(p, "loadConfig", {})
        <3>1. disk'["config"] \in {Missing, FALSE}
            BY <1>1, <2>3 DEF DiskTyped
        <3>2. todo'[p] = todo[p] \ {"loadConfig"} /\ (pc'[p] = Wiped => todo'[p] = {})
            BY <1>2, <2>3
        <3> QED BY <1>1, <2>1, <3>1, <3>2 DEF GoneOr
    <2>4. CASE Done(p, "openConfig", {"fillConfig"})
        <3>1. /\ todo'[p] = (todo[p] \ {"openConfig"}) \cup {"fillConfig"}
              /\ pc'[p] = Wiped => todo'[p] = {}
            BY <1>2, <2>4
        <3>2. todo'[p] \cap {"loadConfig", "openConfig", "fillConfig"} # {}
            BY <3>1
        <3> QED BY <1>1, <2>1, <3>1, <3>2 DEF GoneOr
    <2>5. CASE Write("config", FALSE) /\ Done(p, "fillConfig", {})
        <3>1. disk'["config"] \in {Missing, FALSE}
            BY <1>1, <2>5 DEF Write, DiskTyped, Files
        <3>2. todo'[p] = todo[p] \ {"fillConfig"} /\ (pc'[p] = Wiped => todo'[p] = {})
            BY <1>2, <2>5
        <3> QED BY <1>1, <2>1, <3>1, <3>2 DEF GoneOr
    <2>6. ~(Goto(p, Idle) /\ todo' = [todo EXCEPT ![p] = {}])
        BY <1>4
    <2> QED BY <1>4, <2>2, <2>3, <2>4, <2>5, <2>6 DEF ClearToken
<1> QED BY <1>3, <1>4 DEF ResetStep

\* The steps of the commands but those of a reset.
LEMMA OtherStages ==
    ASSUME NEW p \in Procs, LaunchTyped, ProcStep(p), ~ResetStep(p), ~StartReset(p)
    PROVE  pc'[p] \notin {Wiping, Wiped}
<1> USE DEF LaunchTyped, Goto
<1>0. ASSUME NEW act \in {"open", "fill", "read", "remove"}, NEW f
      PROVE  <<act, f>> \notin {Wiping, Wiped}
    BY StageNames
<1>1. /\ Idle \notin {Wiping, Wiped} /\ Running \notin {Wiping, Wiped}
      /\ Redeeming \notin {Wiping, Wiped}
    BY StageNames
<1>2. \A s : Decide(p, s) => pc'[p] \in {Idle, Running}
    BY DEF Decide, Exit
<1>3. Exit(p) => pc'[p] = Idle
    BY DEF Exit
<1>4. CASE LaunchStep(p)
    BY <1>0, <1>1, <1>2, <1>3, <1>4
    DEF LaunchStep, ReadIdentity, ReadRest, OpenFile, FillIdentity, FillConfig, Redeem,
        FillState, RemoveCredential, FillCredential
<1>5. CASE (\E given \in BOOLEAN : StartLaunch(p, given)) \/ RedeemFails(p) \/ Stop(p) \/ Crash(p)
    BY <1>0, <1>1, <1>3, <1>5 DEF StartLaunch, RedeemFails, Stop, Crash
<1> QED BY <1>4, <1>5 DEF ProcStep

Clean(files) ==
    /\ \A f \in {"identity", "state", "credential"} : files[f] = Missing
    /\ files["config"] \in {Missing, FALSE}

LEMMA WipeStep ==
    ASSUME OneProcess, LaunchTyped, WipeInv, [Next]_vars
    PROVE  WipeInv' /\ \A p \in Procs : pc[p] # Wiped /\ pc'[p] = Wiped => Clean(disk')
<1>1. ASSUME NEW p \in Procs, ProcStep(p)
      PROVE  (pc'[p] = Wiping => GoneOr(disk', todo'[p])) /\ (pc'[p] = Wiped => Clean(disk'))
    <2>1. CASE ResetStep(p)
        <3>1. Idle # Wiping /\ Idle # Wiped
            BY StageNames
        <3> QED BY <2>1, <3>1, ResetProgress DEF GoneOr, Clean
    <2>2. CASE StartReset(p)
        <3>1. pc'[p] = Wiping /\ todo'[p] = ResetSteps
            BY <2>2 DEF StartReset, Goto, LaunchTyped
        <3>2. GoneOr(disk', ResetSteps) /\ Wiping # Wiped
            BY StageNames DEF GoneOr, ResetSteps
        <3> QED BY <3>1, <3>2
    <2> QED BY <1>1, <2>1, <2>2, OtherStages
<1>2. CASE \E p \in Procs : ProcStep(p)
    BY <1>1, <1>2 DEF OneProcess, WipeInv
<1>3. CASE UNCHANGED <<disk, pc, todo>>
    BY <1>3 DEF WipeInv
<1> QED BY <1>2, <1>3 DEF Next, Approve, Ages, vars

\* handleReset: with one command at a time, a reset that ran to its end has
\* removed the identity, the state, the credential and the bootstrap token,
\* whatever earlier commands left behind when they were killed.
THEOREM ResetLeavesNothing ==
    ASSUME OneProcess
    PROVE  Spec => ResetCleans
<1>1. Init => WipeInv
    <2>1. Idle # Wiping
        BY StageNames
    <2> QED BY <2>1 DEF Init, WipeInv
<1>2. LaunchTyped /\ WipeInv /\ [Next]_vars
        => WipeInv' /\ [\A p \in Procs : pc[p] # Wiped /\ pc'[p] = Wiped =>
                           /\ \A f \in {"identity", "state", "credential"} : disk'[f] = Missing
                           /\ disk'["config"] \in {Missing, FALSE}]_vars
    BY WipeStep DEF Clean
<1> QED BY <1>1, <1>2, LaunchLaws, PTL DEF Spec, ResetCleans
=============================================================================
