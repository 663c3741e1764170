-------------------------- MODULE FileServiceProofs -------------------------
(* Theorems of FileService: what overlapping requests may do to a file, and  *)
(* that a request nothing overlaps is atomic.                                *)
EXTENDS FileService, FiniteSetTheorems, TLAPS

-----------------------------------------------------------------------------
(* The state of a request                                                    *)

StagesOf(kind) ==
    [read |-> {"resolve", "stat", "load"},
     write |-> {"mkdir", "open", "fill"},
     writeNew |-> {"check", "mkdir", "open", "fill"},
     delete |-> {"unlink"},
     deleteTree |-> {"clear", "rmdir"},
     browse |-> {"root", "list", "size"}][kind]

FileTyped ==
    /\ dir \in BOOLEAN
    /\ file \in Requests \cup {Old, Huge, Missing, Empty, Garbled}
    /\ file # Missing => dir
    /\ inode \in Nat \ {0}
    /\ op \in [Requests -> Kinds \cup {"none"}]
    /\ stage \in [Requests -> Stages]
    /\ held \in [Requests -> Nat]
    /\ DOMAIN answer = Requests
    /\ DOMAIN start = Requests
    /\ crowded \subseteq Requests
    /\ \A r \in Requests :
        /\ held[r] <= inode
        /\ stage[r] \in {"new", "done"} \/ (op[r] \in Kinds /\ stage[r] \in StagesOf(op[r]))

\* A request in flight with another one is crowded.
Alone == \A r \in InFlight : r \in crowded \/ \A d \in InFlight : d = r

\* A step of a request ends it or leads to its next await, and is about that
\* request only.
LEMMA StepFrame ==
    ASSUME FileTyped, NEW r \in Requests, Step(r)
    PROVE  /\ r \in InFlight /\ InFlight' \subseteq InFlight
           /\ op' = op /\ start' = start /\ crowded' = crowded
           /\ stage' \in [Requests -> Stages] /\ DOMAIN answer' = Requests
           /\ stage'[r] = "done" \/ stage'[r] \in StagesOf(op[r])
           /\ \A d \in Requests \ {r} :
                stage'[d] = stage[d] /\ held'[d] = held[d] /\ answer'[d] = answer[d]
           /\ answer'[r] = answer[r] \/ answer'[r] # Lost
BY DEF Step, Resolve, Stat, Load, TooLarge, Check, Mkdir, Open, Fill, Unlink, Clear, Rmdir,
       BrowseRoot, BrowseDir, BrowseStat, At, Goto, Reply, FileTyped, StagesOf, Kinds,
       Stages, InFlight, Error, Lost

\* What a step does to the disk, and which file it then has open.
LEMMA StepDisk ==
    ASSUME FileTyped, NEW r \in Requests, Step(r)
    PROVE  \/ UNCHANGED diskVars /\ held' = held /\ stage'[r] # "fill"
           \/ dir' = TRUE /\ UNCHANGED <<file, inode, held>> /\ stage[r] = "mkdir"
           \/ file' = Missing /\ UNCHANGED <<dir, inode, held>> /\ stage'[r] # "fill"
           \/ dir' = FALSE /\ file = Missing /\ UNCHANGED <<file, inode, held>>
              /\ stage'[r] # "fill"
           \/ /\ dir /\ dir' = dir /\ file' = Empty
              /\ inode' = IF file = Missing THEN inode + 1 ELSE inode
              /\ held' = [held EXCEPT ![r] = inode']
              /\ stage[r] = "open" /\ stage'[r] = "fill"
           \/ Fill(r)
BY DEF Step, Resolve, Stat, Load, TooLarge, Check, Mkdir, Open, Unlink, Clear, Rmdir,
       BrowseRoot, BrowseDir, BrowseStat, At, Goto, Reply, FileTyped, diskVars, Kinds, Stages

LEMMA FillProperties ==
    ASSUME FileTyped, NEW r \in Requests, Fill(r)
    PROVE  /\ stage[r] = "fill" /\ stage'[r] = "done"
           /\ answer'[r] = <<"wrote">>
           /\ UNCHANGED <<dir, inode, held>>
           /\ file = Missing \/ held[r] # inode => file' = file
           /\ file = Empty /\ held[r] = inode => file' = r
           /\ file \notin {Missing, Empty} /\ held[r] = inode => file' \in {r, Garbled}
BY FileAssumption DEF Fill, At, Reply, FileTyped

LEMMA TypedStep ==
    ASSUME FileTyped, [Next]_vars
    PROVE  FileTyped'
<1>1. ASSUME NEW r \in Requests, Step(r) PROVE FileTyped'
    <2>1. /\ op' = op /\ start' = start /\ crowded' = crowded
          /\ stage' \in [Requests -> Stages] /\ DOMAIN answer' = Requests
          /\ \A d \in Requests :
                stage'[d] \in {"new", "done"} \/ (op'[d] \in Kinds /\ stage'[d] \in StagesOf(op'[d]))
        BY <1>1, StepFrame DEF FileTyped, InFlight
    <2>2. /\ dir' \in BOOLEAN
          /\ file' \in Requests \cup {Old, Huge, Missing, Empty, Garbled}
          /\ file' # Missing => dir'
          /\ inode' \in Nat \ {0}
          /\ held' \in [Requests -> Nat]
          /\ \A d \in Requests : held'[d] <= inode'
        <3>1. CASE Fill(r)
            BY <3>1, FillProperties DEF FileTyped
        <3>2. CASE UNCHANGED diskVars /\ held' = held
            BY <3>2 DEF FileTyped, diskVars
        <3>3. CASE dir' = TRUE /\ UNCHANGED <<file, inode, held>>
            BY <3>3 DEF FileTyped
        <3>4. CASE file' = Missing /\ UNCHANGED <<dir, inode, held>>
            BY <3>4 DEF FileTyped
        <3>5. CASE dir' = FALSE /\ file = Missing /\ UNCHANGED <<file, inode, held>>
            BY <3>5 DEF FileTyped
        <3>6. CASE /\ dir /\ dir' = dir /\ file' = Empty
                   /\ inode' = IF file = Missing THEN inode + 1 ELSE inode
                   /\ held' = [held EXCEPT ![r] = inode']
            BY <3>6 DEF FileTyped
        <3> QED BY <1>1, <3>1, <3>2, <3>3, <3>4, <3>5, <3>6, StepDisk
    <2> QED BY <2>1, <2>2 DEF FileTyped
<1>2. ASSUME NEW r \in Requests, NEW kind \in Kinds, Arrive(r, kind) PROVE FileTyped'
    <2>1. FirstStage(kind) \in StagesOf(kind) /\ FirstStage(kind) \in Stages
        BY DEF FirstStage, StagesOf, Kinds, Stages
    <2> QED BY <1>2, <2>1 DEF Arrive, FileTyped, InFlight, diskVars
<1>3. ASSUME Kill PROVE FileTyped'
    BY <1>3 DEF Kill, FileTyped, InFlight, diskVars, Stages
<1>4. ASSUME UNCHANGED vars PROVE FileTyped'
    BY <1>4 DEF vars, diskVars, FileTyped
<1> QED BY <1>1, <1>2, <1>3, <1>4 DEF Next

LEMMA AloneStep ==
    ASSUME FileTyped, Alone, [Next]_vars
    PROVE  Alone'
<1>1. ASSUME NEW r \in Requests, Step(r) PROVE Alone'
    BY <1>1, StepFrame DEF Alone
<1>2. ASSUME NEW r \in Requests, NEW kind \in Kinds, Arrive(r, kind) PROVE Alone'
    <2>1. InFlight' \subseteq InFlight \cup {r}
        BY <1>2 DEF Arrive, InFlight, FileTyped
    <2>2. crowded' = IF InFlight = {} THEN crowded ELSE crowded \cup InFlight \cup {r}
        BY <1>2 DEF Arrive
    <2> QED BY <2>1, <2>2 DEF Alone
<1>3. ASSUME Kill PROVE Alone'
    BY <1>3 DEF Kill, Alone, InFlight, FileTyped
<1>4. ASSUME UNCHANGED vars PROVE Alone'
    BY <1>4 DEF vars, Alone, InFlight
<1> QED BY <1>1, <1>2, <1>3, <1>4 DEF Next

-----------------------------------------------------------------------------
(* Torn files                                                                *)

\* Two writers of the file that overlapped, r one of them.
Overlap(r) ==
    \E d \in Requests \ {r} : {r, d} \subseteq crowded /\ held[r] = inode /\ held[d] = inode

\* An empty file is open or was open at a kill; a file that got content under
\* a writer that has it open, or is garbled, had two writers.
TornInv ==
    /\ file = Empty =>
        \E r \in Requests : held[r] = inode /\ (stage[r] = "fill" \/ answer[r] = Lost)
    /\ file = Garbled => \E r \in Requests : Overlap(r)
    /\ \A r \in Requests :
        /\ stage[r] = "fill" /\ held[r] = inode /\ file \notin {Missing, Empty} => Overlap(r)
        /\ answer[r] = Lost => stage[r] = "done"

\* A step of r that is not in its write leaves the file as it is, or removes it.
LEMMA TornByOther ==
    ASSUME FileTyped, TornInv, NEW r \in Requests, Step(r),
           file' \in {file, Missing}, UNCHANGED <<inode, held>>,
           stage[r] # "fill", stage'[r] # "fill"
    PROVE  TornInv'
<1>1. /\ crowded' = crowded /\ stage[r] \notin {"new", "done"}
      /\ \A d \in Requests \ {r} : stage'[d] = stage[d] /\ answer'[d] = answer[d]
      /\ answer[r] # Lost /\ answer'[r] # Lost
    BY StepFrame DEF InFlight, TornInv
<1>2. \A d \in Requests : Overlap(d) => Overlap(d)'
    BY <1>1 DEF Overlap
<1>3. ASSUME file' = Empty
      PROVE  \E d \in Requests : held'[d] = inode' /\ (stage'[d] = "fill" \/ answer'[d] = Lost)
    BY <1>1, <1>3, FileAssumption DEF TornInv
<1>4. ASSUME file' = Garbled PROVE \E d \in Requests : Overlap(d)'
    BY <1>2, <1>4, FileAssumption DEF TornInv
<1>5. ASSUME NEW d \in Requests
      PROVE  /\ stage'[d] = "fill" /\ held'[d] = inode' /\ file' \notin {Missing, Empty}
                    => Overlap(d)'
             /\ answer'[d] = Lost => stage'[d] = "done"
    BY <1>1, <1>2 DEF TornInv
<1> QED BY <1>3, <1>4, <1>5 DEF TornInv

LEMMA TornByOpen ==
    ASSUME FileTyped, TornInv, NEW r \in Requests, Step(r), file' = Empty,
           held' = [held EXCEPT ![r] = inode'], stage'[r] = "fill"
    PROVE  TornInv'
<1>1. /\ stage[r] \notin {"new", "done"}
      /\ \A d \in Requests \ {r} : stage'[d] = stage[d] /\ answer'[d] = answer[d]
      /\ answer[r] # Lost /\ answer'[r] # Lost
    BY StepFrame DEF InFlight, TornInv
<1>2. held'[r] = inode'
    BY DEF FileTyped
<1> QED BY <1>1, <1>2, FileAssumption DEF TornInv

\* Of the writers that have the file open one writes it.
LEMMA TornByFill ==
    ASSUME FileTyped, Alone, TornInv, NEW r \in Requests, Step(r), Fill(r)
    PROVE  TornInv'
<1>1. /\ r \in InFlight /\ crowded' = crowded /\ answer'[r] # Lost
      /\ \A d \in Requests \ {r} : stage'[d] = stage[d] /\ answer'[d] = answer[d]
    BY StepFrame DEF InFlight, TornInv
<1>2. /\ stage[r] = "fill" /\ stage'[r] = "done" /\ UNCHANGED <<inode, held>>
    BY FillProperties
<1>3. \A d \in Requests : Overlap(d) => Overlap(d)'
    BY <1>1, <1>2 DEF Overlap
<1>4. ASSUME NEW d \in Requests PROVE answer'[d] = Lost => stage'[d] = "done"
    BY <1>1, <1>2 DEF TornInv
<1>5. CASE file = Missing \/ held[r] # inode
    <2>1. file' = file
        BY <1>5, FillProperties
    <2>2. file = Empty => \E d \in Requests \ {r} :
                held[d] = inode /\ (stage[d] = "fill" \/ answer[d] = Lost)
        BY <1>5, FileAssumption DEF TornInv
    <2> QED BY <1>1, <1>2, <1>3, <1>4, <2>1, <2>2 DEF TornInv
<1>6. CASE file = Empty /\ held[r] = inode
    <2>1. file' = r /\ file' \notin {Empty, Garbled}
        BY <1>6, FillProperties, FileAssumption
    <2>2. ASSUME NEW d \in Requests, stage'[d] = "fill", held'[d] = inode' PROVE Overlap(d)'
        <3>1. d # r /\ d \in InFlight /\ held[d] = inode
            BY <1>1, <1>2, <2>2 DEF InFlight
        <3>2. {r, d} \subseteq crowded
            BY <1>1, <3>1 DEF Alone
        <3> QED BY <1>1, <1>2, <1>6, <3>1, <3>2 DEF Overlap
    <2> QED BY <1>4, <2>1, <2>2 DEF TornInv
<1>7. CASE file \notin {Missing, Empty} /\ held[r] = inode
    <2>1. file' \in {r, Garbled} /\ file' # Empty
        BY <1>7, FillProperties, FileAssumption
    <2>2. Overlap(r)'
        BY <1>2, <1>3, <1>7 DEF TornInv
    <2>3. ASSUME NEW d \in Requests, stage'[d] = "fill", held'[d] = inode' PROVE Overlap(d)'
        BY <1>1, <1>2, <1>3, <1>7, <2>3 DEF TornInv
    <2> QED BY <1>4, <2>1, <2>2, <2>3 DEF TornInv
<1> QED BY <1>5, <1>6, <1>7

LEMMA TornStep ==
    ASSUME FileTyped, Alone, TornInv, [Next]_vars
    PROVE  TornInv'
<1>1. ASSUME NEW r \in Requests, Step(r) PROVE TornInv'
    <2>1. CASE Fill(r)
        BY <1>1, <2>1, TornByFill
    <2>2. CASE /\ file' = Empty /\ held' = [held EXCEPT ![r] = inode'] /\ stage'[r] = "fill"
        BY <1>1, <2>2, TornByOpen
    <2>3. CASE stage[r] # "fill" /\ stage'[r] # "fill" /\ file' \in {file, Missing}
               /\ UNCHANGED <<inode, held>>
        BY <1>1, <2>3, TornByOther
    <2>4. stage[r] = "fill" => Fill(r)
        BY <1>1 DEF Step, Resolve, Stat, Load, TooLarge, Check, Mkdir, Open, Unlink, Clear,
                    Rmdir, BrowseRoot, BrowseDir, BrowseStat, At
    <2>5. stage[r] = "mkdir" => stage'[r] # "fill"
        BY <1>1 DEF Step, Resolve, Stat, Load, TooLarge, Check, Mkdir, Open, Fill, Unlink,
                    Clear, Rmdir, BrowseRoot, BrowseDir, BrowseStat, At, Goto, Reply, FileTyped
    <2> QED BY <1>1, <2>1, <2>2, <2>3, <2>4, <2>5, StepDisk DEF diskVars
<1>2. ASSUME NEW r \in Requests, NEW kind \in Kinds, Arrive(r, kind) PROVE TornInv'
    <2>1. /\ file' = file /\ inode' = inode /\ held' = held /\ answer' = answer
          /\ crowded \subseteq crowded' /\ stage[r] = "new"
          /\ stage' = [stage EXCEPT ![r] = FirstStage(kind)]
        BY <1>2 DEF Arrive, diskVars
    <2>2. FirstStage(kind) # "fill"
        BY DEF FirstStage, Kinds
    <2>3. \A d \in Requests : Overlap(d) => Overlap(d)'
        BY <2>1 DEF Overlap
    <2> QED BY <2>1, <2>2, <2>3 DEF TornInv, FileTyped
<1>3. ASSUME Kill PROVE TornInv'
    <2>1. /\ file' = file /\ inode' = inode /\ held' = held /\ crowded' = crowded
          /\ stage' = [r \in Requests |-> IF r \in InFlight THEN "done" ELSE stage[r]]
          /\ answer' = [r \in Requests |-> IF r \in InFlight THEN Lost ELSE answer[r]]
        BY <1>3 DEF Kill, diskVars
    <2>2. \A d \in Requests : Overlap(d) => Overlap(d)'
        BY <2>1 DEF Overlap
    <2> QED BY <2>1, <2>2 DEF TornInv, InFlight
<1>4. ASSUME UNCHANGED vars PROVE TornInv'
    <2>1. /\ file' = file /\ inode' = inode /\ held' = held /\ crowded' = crowded
          /\ stage' = stage /\ answer' = answer
        BY <1>4 DEF vars, diskVars
    <2> QED BY <2>1 DEF TornInv, Overlap
<1> QED BY <1>1, <1>2, <1>3, <1>4 DEF Next

-----------------------------------------------------------------------------
(* A request that nothing overlaps                                           *)

\* How far it has come with the disk it found.
Progress(r) ==
    LET d0 == start[r][1]  f0 == start[r][2] IN
    /\ stage[r] \notin {"open", "fill", "rmdir"} => dir = d0 /\ file = f0
    /\ stage[r] = "stat" => file # Missing
    /\ stage[r] = "load" => file \notin {Missing, Huge}
    /\ stage[r] \in {"mkdir", "open", "fill"} /\ op[r] = "writeNew" => f0 = Missing
    /\ stage[r] = "open" => dir
    /\ stage[r] = "fill" => dir /\ file = Empty /\ held[r] = inode
    /\ stage[r] = "rmdir" => d0 /\ dir /\ file = Missing
    /\ stage[r] = "list" => dir
    /\ stage[r] = "size" => dir /\ file # Missing

ProgressInv == \A r \in InFlight \ crowded : Progress(r)

LEMMA ProgressStep ==
    ASSUME FileTyped, Alone, ProgressInv, [Next]_vars
    PROVE  ProgressInv'
<1>1. ASSUME NEW r \in Requests, Step(r) PROVE ProgressInv'
    <2> SUFFICES ASSUME NEW d \in InFlight', d \notin crowded' PROVE Progress(d)'
        BY DEF ProgressInv
    <2>1. d \in InFlight /\ d \notin crowded /\ r \in InFlight
        BY <1>1, StepFrame
    <2>2. d = r /\ Progress(r)
        BY <2>1 DEF Alone, ProgressInv
    <2>3. stage'[r] # "done"
        BY <2>2 DEF InFlight
    <2> QED BY <1>1, <2>2, <2>3, FileAssumption
            DEF Progress, Step, Resolve, Stat, Load, TooLarge, Check, Mkdir, Open, Fill, Unlink,
                Clear, Rmdir, BrowseRoot, BrowseDir, BrowseStat, At, Goto, Reply, FileTyped,
                diskVars
<1>2. ASSUME NEW r \in Requests, NEW kind \in Kinds, Arrive(r, kind) PROVE ProgressInv'
    <2>1. /\ InFlight' \subseteq InFlight \cup {r}
          /\ crowded' = IF InFlight = {} THEN crowded ELSE crowded \cup InFlight \cup {r}
          /\ stage'[r] = FirstStage(kind) /\ start'[r] = <<dir, file, inode>>
          /\ UNCHANGED diskVars
        BY <1>2 DEF Arrive, InFlight, FileTyped
    <2>2. FirstStage(kind) \in {"resolve", "mkdir", "check", "unlink", "clear", "root"}
          /\ (kind = "writeNew" => FirstStage(kind) # "mkdir") /\ op'[r] = kind
        BY <1>2 DEF FirstStage, Kinds, Arrive, FileTyped
    <2>3. ASSUME NEW d \in InFlight', d \notin crowded' PROVE d = r
        BY <2>1, <2>3
    <2>4. Progress(r)'
        BY <2>1, <2>2 DEF Progress, diskVars
    <2> QED BY <2>3, <2>4 DEF ProgressInv
<1>3. ASSUME Kill PROVE ProgressInv'
    BY <1>3 DEF Kill, ProgressInv, InFlight
<1>4. ASSUME UNCHANGED vars PROVE ProgressInv'
    BY <1>4 DEF vars, diskVars, ProgressInv, InFlight, Progress
<1> QED BY <1>1, <1>2, <1>3, <1>4 DEF Next

-----------------------------------------------------------------------------
LEMMA FileLaws == Spec => [](FileTyped /\ Alone /\ TornInv /\ ProgressInv)
<1>1. Init => FileTyped /\ Alone /\ TornInv /\ ProgressInv
    BY FileAssumption, NoneAssumption
    DEF Answers, Init, FileTyped, Alone, TornInv, ProgressInv, InFlight, Stages
<1>2. FileTyped /\ Alone /\ TornInv /\ ProgressInv /\ [Next]_vars
        => FileTyped' /\ Alone' /\ TornInv' /\ ProgressInv'
    BY TypedStep, AloneStep, TornStep, ProgressStep
<1> QED BY <1>1, <1>2, PTL DEF Spec

\* A torn file means writers, for any number of requests and kills: it is
\* empty only under a write or after a killed one, and garbled only if two
\* overlapping writes opened it (files.ts, write()).
THEOREM TornFilesHadWriters ==
    ASSUME IsFiniteSet(Requests)
    PROVE  Spec => []TornMeansWriters
<1>1. FileTyped /\ TornInv => TornMeansWriters
    <2> SUFFICES ASSUME FileTyped, TornInv PROVE TornMeansWriters
        OBVIOUS
    <2> DEFINE writers == {r \in Requests : held[r] = inode}
    <2>1. ASSUME file = Garbled PROVE Cardinality(writers \cap crowded) > 1
        <3>1. PICK r \in Requests, d \in Requests :
                d # r /\ {r, d} \subseteq crowded /\ held[r] = inode /\ held[d] = inode
            BY <2>1 DEF TornInv, Overlap
        <3>2. {r, d} \subseteq writers \cap crowded
            BY <3>1
        <3>3. IsFiniteSet(writers \cap crowded)
            BY FS_Subset
        <3>4. IsFiniteSet({r}) /\ Cardinality({r}) = 1
            BY FS_Singleton
        <3>5. Cardinality({r} \cup {d}) = 2
            BY <3>1, <3>4, FS_AddElement
        <3>6. Cardinality({r, d}) <= Cardinality(writers \cap crowded)
            BY <3>2, <3>3, FS_Subset
        <3>7. Cardinality(writers \cap crowded) \in Nat /\ {r, d} = {r} \cup {d}
            BY <3>3, FS_CardinalityType
        <3> QED BY <3>5, <3>6, <3>7
    <2>2. file = Empty => \E r \in writers : stage[r] = "fill" \/ answer[r] = Lost
        BY DEF TornInv
    <2> QED BY <2>1, <2>2 DEF TornMeansWriters
<1> QED BY <1>1, FileLaws, PTL

\* A request that no other one overlaps is atomic, for any number of requests
\* and kills before and after it (files.ts and the file_* handlers).
THEOREM AloneIsAtomic == Spec => IsolatedIsAtomic
<1> DEFINE Whole(r) ==
        stage[r] # "done" /\ stage'[r] = "done" /\ r \notin crowded /\ answer'[r] # Lost =>
            Atomic(r, start[r][1], start[r][2], answer'[r], dir', file')
<1>1. ASSUME FileTyped, ProgressInv, [Next]_vars, NEW r \in Requests PROVE Whole(r)
    <2> SUFFICES ASSUME stage[r] # "done", stage'[r] = "done", r \notin crowded,
                        answer'[r] # Lost
                 PROVE  Atomic(r, start[r][1], start[r][2], answer'[r], dir', file')
        OBVIOUS
    <2>1. ASSUME NEW d \in Requests, Step(d) PROVE d = r
        BY <1>1, <2>1, StepFrame DEF Alone, InFlight
    <2>2. ASSUME NEW d \in Requests, NEW kind \in Kinds, Arrive(d, kind) PROVE FALSE
        <3>1. FirstStage(kind) # "done"
            BY DEF FirstStage, Kinds
        <3> QED BY <1>1, <2>2, <3>1 DEF Arrive, FileTyped
    <2>3. ~Kill
        BY <1>1 DEF Kill, FileTyped, InFlight
    <2>4. ~UNCHANGED vars
        BY DEF vars
    <2>5. Step(r)
        BY <1>1, <2>1, <2>2, <2>3, <2>4 DEF Next
    <2>6. Progress(r) /\ op[r] \in Kinds /\ stage[r] \in StagesOf(op[r])
        BY <1>1, <2>5, StepFrame DEF ProgressInv, FileTyped, InFlight
    <2>7. /\ stage[r] \in {"resolve", "stat", "load"} => op[r] = "read"
          /\ stage[r] \in {"check", "mkdir", "open", "fill"} => op[r] \in {"write", "writeNew"}
          /\ stage[r] = "check" => op[r] = "writeNew"
          /\ stage[r] = "unlink" => op[r] = "delete"
          /\ stage[r] \in {"clear", "rmdir"} => op[r] = "deleteTree"
          /\ stage[r] \in {"root", "list", "size"} => op[r] = "browse"
        BY <2>6 DEF Kinds, StagesOf
    <2>8. CASE Resolve(r) \/ Stat(r) \/ Load(r)
        BY <1>1, <2>6, <2>7, <2>8
        DEF Resolve, Stat, Load, diskVars, Progress, FileTyped, At, Goto, Reply, Atomic
    <2>9. CASE TooLarge(r) \/ Check(r) \/ Mkdir(r) \/ Open(r)
        BY <1>1, <2>6, <2>7, <2>9 DEF TooLarge, Check, Mkdir, Open, diskVars, FirstStage,
            Progress, FileTyped, At, Goto, Reply, Atomic
    <2>10. CASE Fill(r)
        <3>1. dir' /\ file' = r /\ answer'[r] = <<"wrote">>
            BY <1>1, <2>6, <2>10, FillProperties DEF Progress
        <3>2. stage[r] = "fill"
            BY <1>1, <2>10, FillProperties
        <3> QED BY <2>6, <2>7, <3>1, <3>2 DEF Atomic, Progress
    <2>11. CASE Unlink(r) \/ Clear(r) \/ Rmdir(r)
        BY <1>1, <2>6, <2>7, <2>11
        DEF Unlink, Clear, Rmdir, Progress, FileTyped, At, Goto, Reply, Atomic
    <2>12. CASE BrowseRoot(r)
        <3>1. op[r] = "browse" /\ UNCHANGED diskVars /\ dir = start[r][1] /\ file = start[r][2]
              /\ ~dir /\ answer'[r] = <<"listed", {}>>
            BY <1>1, <2>6, <2>7, <2>12 DEF BrowseRoot, Progress, FileTyped, At, Goto, Reply
        <3> QED BY <3>1 DEF Atomic, diskVars
    <2>13. CASE BrowseDir(r)
        <3>1. op[r] = "browse" /\ UNCHANGED diskVars /\ dir = start[r][1] /\ file = start[r][2]
              /\ dir /\ file = Missing /\ answer'[r] = <<"listed", {"dir"}>>
            BY <1>1, <2>6, <2>7, <2>13 DEF BrowseDir, Progress, FileTyped, At, Goto, Reply
        <3> QED BY <3>1 DEF Atomic, diskVars
    <2>14. CASE BrowseStat(r)
        <3>1. op[r] = "browse" /\ UNCHANGED diskVars /\ dir = start[r][1] /\ file = start[r][2]
              /\ dir /\ file # Missing
              /\ answer'[r] = <<"listed", {"dir", "file"} \cup {"size"}>>
            BY <1>1, <2>6, <2>7, <2>14 DEF BrowseStat, Progress, FileTyped, At, Goto, Reply
        <3>2. {"dir", "file"} \cup {"size"} = {"dir", "file", "size"}
            OBVIOUS
        <3> QED BY <3>1, <3>2 DEF Atomic, diskVars
    <2> QED BY <2>5, <2>8, <2>9, <2>10, <2>11, <2>12, <2>13, <2>14 DEF Step
<1>2. FileTyped /\ ProgressInv /\ [Next]_vars => [\A r \in Requests : Whole(r)]_vars
    BY <1>1
<1> QED BY <1>2, FileLaws, PTL DEF Spec, IsolatedIsAtomic

-----------------------------------------------------------------------------
(* overwrite = false                                                         *)

\* A write that found no file meets one only if another request made it since.
SpareInv ==
    \A r \in Requests :
        /\ start[r][3] \in Nat /\ start[r][3] <= inode
        /\ op[r] = "writeNew" /\ stage[r] \in {"mkdir", "open"} =>
                file = Missing \/ (r \in crowded /\ inode > start[r][3])

LEMMA SpareStep ==
    ASSUME FileTyped, Alone, SpareInv, [Next]_vars
    PROVE  SpareInv'
<1>1. ASSUME NEW r \in Requests, Step(r) PROVE SpareInv'
    <2>1. /\ start' = start /\ crowded' = crowded /\ op' = op /\ r \in InFlight
          /\ \A d \in Requests \ {r} : stage'[d] = stage[d]
        BY <1>1, StepFrame
    <2>2. \/ UNCHANGED <<file, inode>>
          \/ file' = Missing /\ inode' = inode
          \/ /\ file' = Empty /\ stage'[r] = "fill"
             /\ inode' = IF file = Missing THEN inode + 1 ELSE inode
          \/ inode' = inode /\ (file = Missing => file' = Missing) /\ stage'[r] = "done"
        BY <1>1, StepDisk, FillProperties DEF diskVars
    <2>3. stage'[r] = "mkdir" => file = Missing /\ stage[r] = "check" /\ file' = file
        BY <1>1 DEF Step, Resolve, Stat, Load, TooLarge, Check, Mkdir, Open, Fill, Unlink,
                    Clear, Rmdir, BrowseRoot, BrowseDir, BrowseStat, At, Goto, Reply,
                    FileTyped, diskVars
    <2>4. stage'[r] = "open" => stage[r] = "mkdir" /\ UNCHANGED <<file, inode>>
        BY <1>1 DEF Step, Resolve, Stat, Load, TooLarge, Check, Mkdir, Open, Fill, Unlink,
                    Clear, Rmdir, BrowseRoot, BrowseDir, BrowseStat, At, Goto, Reply,
                    FileTyped, diskVars
    <2> SUFFICES ASSUME NEW d \in Requests
                 PROVE  /\ start'[d][3] \in Nat /\ start'[d][3] <= inode'
                        /\ op'[d] = "writeNew" /\ stage'[d] \in {"mkdir", "open"} =>
                             file' = Missing \/ (d \in crowded' /\ inode' > start'[d][3])
        BY DEF SpareInv
    <2>5. inode \in Nat /\ inode' \in Nat /\ inode <= inode'
        BY <2>2 DEF FileTyped
    <2>6. start'[d][3] \in Nat /\ start'[d][3] <= inode'
        BY <2>1, <2>5 DEF SpareInv
    <2>7. ASSUME d # r, op'[d] = "writeNew", stage'[d] \in {"mkdir", "open"}
          PROVE  file' = Missing \/ (d \in crowded' /\ inode' > start'[d][3])
        <3>1. d \in crowded
            BY <2>1, <2>7 DEF Alone, InFlight
        <3>2. file = Missing \/ inode > start[d][3]
            BY <2>1, <2>7 DEF SpareInv
        <3>3. start[d][3] \in Nat /\ start[d][3] <= inode
            BY DEF SpareInv
        <3> QED BY <2>1, <2>2, <2>5, <3>1, <3>2, <3>3
    <2>8. ASSUME d = r, op'[d] = "writeNew", stage'[d] \in {"mkdir", "open"}
          PROVE  file' = Missing \/ (d \in crowded' /\ inode' > start'[d][3])
        BY <2>1, <2>3, <2>4, <2>8 DEF SpareInv
    <2> QED BY <2>6, <2>7, <2>8
<1>2. ASSUME NEW r \in Requests, NEW kind \in Kinds, Arrive(r, kind) PROVE SpareInv'
    <2>1. /\ UNCHANGED <<file, inode>> /\ crowded \subseteq crowded'
          /\ start' = [start EXCEPT ![r] = <<dir, file, inode>>]
          /\ op' = [op EXCEPT ![r] = kind]
          /\ stage' = [stage EXCEPT ![r] = FirstStage(kind)]
        BY <1>2 DEF Arrive, diskVars
    <2>2. kind = "writeNew" => FirstStage(kind) = "check"
        BY DEF FirstStage
    <2> QED BY <2>1, <2>2 DEF SpareInv, FileTyped
<1>3. ASSUME Kill PROVE SpareInv'
    BY <1>3 DEF Kill, SpareInv, InFlight, diskVars
<1>4. ASSUME UNCHANGED vars PROVE SpareInv'
    BY <1>4 DEF vars, diskVars, SpareInv
<1> QED BY <1>1, <1>2, <1>3, <1>4 DEF Next

\* What a write with overwrite=false replaces was created while it was in
\* flight, for any requests and kills (files.ts, the access check of write()).
THEOREM NoOverwriteOfOld == Spec => ExclusiveSparesOld
<1> DEFINE Spares(r) ==
        op[r] = "writeNew" /\ stage[r] = "open" /\ stage'[r] = "fill" =>
            file = Missing \/ (r \in crowded /\ inode # start[r][3])
<1>1. Init => SpareInv
    BY DEF Init, SpareInv
<1>2. FileTyped /\ Alone /\ SpareInv /\ [Next]_vars => SpareInv'
    BY SpareStep
<1>3. FileTyped /\ SpareInv /\ [Next]_vars => [\A r \in Requests : Spares(r)]_vars
    BY DEF SpareInv, FileTyped
<1> QED BY <1>1, <1>2, <1>3, FileLaws, PTL DEF Spec, ExclusiveSparesOld

-----------------------------------------------------------------------------
(* Types                                                                     *)

AnswersTyped ==
    /\ answer \in [Requests -> Answers \cup {None}]
    /\ \A r \in Requests : stage[r] = "done" <=> answer[r] # None

LEMMA NoneIsNoAnswer ==
    /\ \A a \in {Error, Lost, <<"wrote">>, <<"deleted">>, <<"notFound">>} : a \in Answers
    /\ \A content \in Contents : <<"read", content>> \in Answers
    /\ \A names \in SUBSET {"dir", "file", "size"} : <<"listed", names>> \in Answers
    /\ None \notin Answers
BY NoneAssumption DEF Answers

\* A step goes on without an answer, or gives one and ends the request.
LEMMA StepAnswers ==
    ASSUME FileTyped, NEW r \in Requests, Step(r)
    PROVE  \/ stage'[r] # "done" /\ answer' = answer
           \/ /\ stage'[r] = "done"
              /\ \E a \in Answers : answer' = [answer EXCEPT ![r] = a]
<1> DEFINE Goes == stage'[r] # "done" /\ answer' = answer
           Ends == stage'[r] = "done" /\ \E a \in Answers : answer' = [answer EXCEPT ![r] = a]
<1>0. stage \in [Requests -> Stages] /\ file \in Contents \cup {Missing}
    BY DEF FileTyped, Contents
<1>1. ASSUME NEW s \in Stages \ {"done"}, Goto(r, s) PROVE Goes
    BY <1>0, <1>1 DEF Goto
<1>2. ASSUME NEW a \in Answers, Reply(r, a) PROVE Ends
    BY <1>0, <1>2 DEF Reply
<1> SUFFICES Goes \/ Ends
    OBVIOUS
<1> HIDE DEF Goes, Ends
<1>3. Error \in Answers
    BY NoneIsNoAnswer
<1>4. CASE Resolve(r) \/ Stat(r)
    <2>1. Reply(r, Error) \/ Goto(r, "stat") \/ Goto(r, "load")
        BY <1>4 DEF Resolve, Stat
    <2> QED BY <1>1, <1>2, <1>3, <2>1 DEF Stages
<1>5. CASE Load(r)
    <2>1. file # Missing => <<"read", file>> \in Answers
        BY <1>0, NoneIsNoAnswer
    <2> QED BY <1>2, <1>3, <1>5, <2>1 DEF Load
<1>6. CASE TooLarge(r) \/ Check(r) \/ Mkdir(r) \/ Open(r)
    <2>1. Reply(r, Error) \/ Goto(r, "mkdir") \/ Goto(r, "open") \/ Goto(r, "fill")
        BY <1>6 DEF TooLarge, Check, Mkdir, Open
    <2> QED BY <1>1, <1>2, <1>3, <2>1 DEF Stages
<1>7. CASE Fill(r)
    <2>1. Reply(r, <<"wrote">>)
        BY <1>7 DEF Fill
    <2> QED BY <1>2, <2>1, NoneIsNoAnswer
<1>8. CASE Unlink(r) \/ Clear(r) \/ Rmdir(r)
    <2>1. \/ Reply(r, Error) \/ Reply(r, <<"deleted">>) \/ Reply(r, <<"notFound">>)
          \/ Goto(r, "rmdir") \/ Goto(r, "clear")
        BY <1>8 DEF Unlink, Clear, Rmdir
    <2> QED BY <1>1, <1>2, <1>3, <2>1, NoneIsNoAnswer DEF Stages
<1>9. CASE BrowseRoot(r) \/ BrowseDir(r)
    <2>1. \/ Reply(r, Error) \/ Reply(r, <<"listed", {}>>) \/ Reply(r, <<"listed", {"dir"}>>)
          \/ Goto(r, "list") \/ Goto(r, "size")
        BY <1>9 DEF BrowseRoot, BrowseDir
    <2> QED BY <1>1, <1>2, <1>3, <2>1, NoneIsNoAnswer DEF Stages
<1>10. CASE BrowseStat(r)
    <2>1. PICK names \in SUBSET {"dir", "file", "size"} : Reply(r, <<"listed", names>>)
        BY <1>10 DEF BrowseStat
    <2> QED BY <1>2, <2>1, NoneIsNoAnswer
<1> QED BY <1>4, <1>5, <1>6, <1>7, <1>8, <1>9, <1>10 DEF Step

LEMMA AnswersStep ==
    ASSUME FileTyped, AnswersTyped, [Next]_vars
    PROVE  AnswersTyped'
<1>1. ASSUME NEW r \in Requests, Step(r) PROVE AnswersTyped'
    <2>1. /\ r \in InFlight
          /\ \A d \in Requests \ {r} : stage'[d] = stage[d] /\ answer'[d] = answer[d]
        BY <1>1, StepFrame
    <2>2. answer[r] = None
        BY <2>1 DEF AnswersTyped, InFlight
    <2>3. CASE stage'[r] # "done" /\ answer' = answer
        BY <2>1, <2>2, <2>3 DEF AnswersTyped
    <2>4. CASE stage'[r] = "done" /\ \E a \in Answers : answer' = [answer EXCEPT ![r] = a]
        <3>1. PICK a \in Answers : answer' = [answer EXCEPT ![r] = a]
            BY <2>4
        <3>2. a # None
            BY NoneIsNoAnswer
        <3> QED BY <2>1, <2>4, <3>1, <3>2 DEF AnswersTyped
    <2> QED BY <1>1, <2>3, <2>4, StepAnswers
<1>2. ASSUME NEW r \in Requests, NEW kind \in Kinds, Arrive(r, kind) PROVE AnswersTyped'
    <2>1. FirstStage(kind) # "done"
        BY DEF FirstStage, Kinds
    <2> QED BY <1>2, <2>1 DEF Arrive, AnswersTyped, FileTyped
<1>3. ASSUME Kill PROVE AnswersTyped'
    BY <1>3, NoneIsNoAnswer DEF Kill, AnswersTyped, FileTyped, InFlight
<1>4. ASSUME UNCHANGED vars PROVE AnswersTyped'
    BY <1>4 DEF vars, AnswersTyped
<1> QED BY <1>1, <1>2, <1>3, <1>4 DEF Next

\* The requests that opened the file. A request opens it once, so there are
\* no more files than those, and the one that was there.
Openers == {r \in Requests : held[r] # 0}

OpensInv ==
    /\ \A r \in Requests : stage[r] \notin {"fill", "done"} => held[r] = 0
    /\ inode <= Cardinality(Openers) + 1
    /\ kills \in 0..MaxKills

LEMMA OpensStep ==
    ASSUME IsFiniteSet(Requests), FileTyped, OpensInv, [Next]_vars
    PROVE  OpensInv'
<1>0. IsFiniteSet(Openers) /\ Cardinality(Openers) \in Nat
    BY FS_Subset, FS_CardinalityType DEF Openers
<1>1. ASSUME NEW r \in Requests, Step(r) PROVE OpensInv'
    <2>1. /\ r \in InFlight /\ kills' = kills
          /\ stage'[r] = "done" \/ stage'[r] \in StagesOf(op[r])
          /\ \A d \in Requests \ {r} : stage'[d] = stage[d] /\ held'[d] = held[d]
        <3>1. kills' = kills
            BY <1>1 DEF Step, Resolve, Stat, Load, TooLarge, Check, Mkdir, Open, Fill, Unlink,
                        Clear, Rmdir, BrowseRoot, BrowseDir, BrowseStat, At
        <3> QED BY <1>1, <3>1, StepFrame
    <2>2. CASE held' = held /\ inode' = inode /\ (stage[r] = "fill" => stage'[r] = "done")
        <3>1. Openers' = Openers
            BY <2>2 DEF Openers
        <3>2. ASSUME NEW d \in Requests, stage'[d] \notin {"fill", "done"} PROVE held'[d] = 0
            <4>1. stage[d] \notin {"fill", "done"}
                BY <2>1, <2>2, <3>2 DEF InFlight
            <4> QED BY <2>2, <4>1 DEF OpensInv
        <3> QED BY <2>1, <2>2, <3>1, <3>2 DEF OpensInv
    <2>3. CASE Open(r) /\ dir
        <3>1. /\ stage[r] = "open" /\ stage'[r] = "fill"
              /\ inode' = IF file = Missing THEN inode + 1 ELSE inode
              /\ held' = [held EXCEPT ![r] = inode']
            BY <2>3 DEF Open, At, Goto, FileTyped
        <3>2. held[r] = 0 /\ inode' \in Nat \ {0} /\ inode' <= inode + 1
            BY <3>1 DEF OpensInv, FileTyped
        <3>3. Openers' = Openers \cup {r} /\ r \notin Openers
            BY <3>1, <3>2 DEF Openers, FileTyped
        <3>4. Cardinality(Openers') = Cardinality(Openers) + 1
            BY <1>0, <3>3, FS_AddElement
        <3>5. inode' <= Cardinality(Openers') + 1
            BY <1>0, <3>2, <3>4 DEF OpensInv, FileTyped
        <3>6. ASSUME NEW d \in Requests, stage'[d] \notin {"fill", "done"} PROVE held'[d] = 0
            <4>1. d # r
                BY <3>1, <3>6
            <4> QED BY <2>1, <3>6, <4>1 DEF OpensInv
        <3> QED BY <2>1, <3>5, <3>6 DEF OpensInv
    <2>4. CASE ~(Open(r) /\ dir)
        <3>1. held' = held /\ inode' = inode /\ (stage[r] = "fill" => stage'[r] = "done")
            BY <1>1, <2>4 DEF Step, Resolve, Stat, Load, TooLarge, Check, Mkdir, Open, Fill,
                Unlink, Clear, Rmdir, BrowseRoot, BrowseDir, BrowseStat, At, Reply, Goto,
                diskVars, FileTyped
        <3> QED BY <2>2, <3>1
    <2> QED BY <2>3, <2>4
<1>2. ASSUME NEW r \in Requests, NEW kind \in Kinds, Arrive(r, kind) PROVE OpensInv'
    BY <1>2 DEF Arrive, OpensInv, FileTyped, Openers, diskVars
<1>3. ASSUME Kill PROVE OpensInv'
    <2>1. /\ held' = held /\ inode' = inode /\ Openers' = Openers
          /\ kills < MaxKills /\ kills' = kills + 1
          /\ \A d \in Requests : stage'[d] = stage[d] \/ stage'[d] = "done"
        BY <1>3 DEF Kill, diskVars, Openers, FileTyped
    <2>2. kills' \in 0..MaxKills
        BY <2>1, FileAssumption DEF OpensInv
    <2> QED BY <2>1, <2>2 DEF OpensInv
<1>4. ASSUME UNCHANGED vars PROVE OpensInv'
    BY <1>4 DEF vars, diskVars, OpensInv, Openers
<1> QED BY <1>1, <1>2, <1>3, <1>4 DEF Next

\* The types of the files, the requests and their answers, for finitely many
\* requests and any number of kills.
THEOREM FileTypesHold ==
    ASSUME IsFiniteSet(Requests)
    PROVE  Spec => []TypeOK
<1>1. Init => AnswersTyped /\ OpensInv
    <2> SUFFICES ASSUME Init PROVE AnswersTyped /\ OpensInv
        OBVIOUS
    <2>1. AnswersTyped
        BY DEF Init, AnswersTyped
    <2>2. Openers = {}
        BY DEF Init, Openers
    <2>3. Cardinality(Openers) = 0
        BY <2>2, FS_EmptySet
    <2> QED BY <2>1, <2>3, FileAssumption DEF Init, OpensInv
<1>2. FileTyped /\ AnswersTyped /\ OpensInv /\ [Next]_vars => AnswersTyped' /\ OpensInv'
    BY AnswersStep, OpensStep
<1>3. FileTyped /\ AnswersTyped /\ OpensInv => TypeOK
    <2> SUFFICES ASSUME FileTyped, AnswersTyped, OpensInv PROVE TypeOK
        OBVIOUS
    <2>1. IsFiniteSet(Openers) /\ Cardinality(Openers) <= Cardinality(Requests)
        BY FS_Subset DEF Openers
    <2>2. Cardinality(Openers) \in Nat /\ Cardinality(Requests) \in Nat
        BY <2>1, FS_CardinalityType
    <2>3. inode \in 1..(Cardinality(Requests) + 1)
        BY <2>1, <2>2 DEF FileTyped, OpensInv
    <2>4. held \in [Requests -> 0..inode]
        BY DEF FileTyped
    <2> QED BY <2>3, <2>4 DEF FileTyped, AnswersTyped, OpensInv, TypeOK, Contents
<1> QED BY <1>1, <1>2, <1>3, FileLaws, PTL DEF Spec
=============================================================================
