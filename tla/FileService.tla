---------------------------- MODULE FileService -----------------------------
(* HostFileService (src/host-control/files.ts) and the file_* requests of    *)
(* NodeAgentLoop: read, write, delete and browse, several at a time. Each    *)
(* await is a step. One directory under an allowed root and one file in it,  *)
(* without links; a request that the path policy refuses changes nothing.    *)
(* fs.writeFile opens and truncates the file and writes it later, from its   *)
(* start: of two writers that have it open the later may leave the tail of   *)
(* a longer text. A request's own content is represented by the request.     *)
EXTENDS Naturals, FiniteSets

CONSTANTS
    Requests,  \* file requests
    Old,       \* what the file holds before any of them
    Huge,      \* the same, longer than maxFileBytes
    Missing,   \* no such file
    Empty,     \* truncated and not yet written
    Garbled,   \* parts of two writes
    None,      \* no answer yet
    MaxKills   \* bound: times the agent is killed

ASSUME FileAssumption ==
    /\ MaxKills \in Nat
    /\ Missing \notin {Old, Huge, Empty, Garbled}
    /\ Empty \notin {Old, Huge, Garbled}
    /\ Garbled \notin {Old, Huge}
    /\ Old # Huge
    /\ Requests \cap {Old, Huge, Missing, Empty, Garbled} = {}

VARIABLES
    dir,      \* the directory exists
    file,     \* the content of the file
    inode,    \* which file has the name: one more for each that was created
    op,       \* what each request asks for
    stage,    \* the await it is in: "new" before it came, "done" at the end
    held,     \* the file a write has open
    answer,   \* what it is answered
    start,    \* <<dir, file, inode>> when it came
    crowded,  \* requests that were in flight together with another one
    kills

diskVars == <<dir, file, inode>>
vars == <<diskVars, op, stage, held, answer, start, crowded, kills>>

-----------------------------------------------------------------------------
Kinds == {"read", "write", "writeNew", "delete", "deleteTree", "browse"}
Stages == {"new", "resolve", "stat", "load", "check", "mkdir", "open", "fill",
           "unlink", "clear", "rmdir", "root", "list", "size", "done"}

Error == <<"error">>
Lost == <<"lost">>

Contents == Requests \cup {Old, Huge, Empty, Garbled}
Answers ==
    {Error, Lost, <<"wrote">>, <<"deleted">>, <<"notFound">>}
        \cup {<<"read", content>> : content \in Contents}
        \cup {<<"listed", names>> : names \in SUBSET {"dir", "file", "size"}}

ASSUME NoneAssumption == None \notin Answers

\* The types of the state; each request creates the file at most once.

TypeOK ==
    /\ dir \in BOOLEAN
    /\ file \in Contents \cup {Missing}
    /\ file # Missing => dir
    /\ inode \in 1..(Cardinality(Requests) + 1)
    /\ op \in [Requests -> Kinds \cup {"none"}]
    /\ stage \in [Requests -> Stages]
    /\ held \in [Requests -> 0..inode]
    /\ answer \in [Requests -> Answers \cup {None}]
    /\ \A r \in Requests : stage[r] = "done" <=> answer[r] # None
    /\ crowded \subseteq Requests
    /\ kills \in 0..MaxKills

Init ==
    /\ dir \in BOOLEAN
    /\ file \in IF dir THEN {Missing, Old, Huge} ELSE {Missing}
    /\ inode = 1
    /\ op = [r \in Requests |-> "none"]
    /\ stage = [r \in Requests |-> "new"]
    /\ held = [r \in Requests |-> 0]
    /\ answer = [r \in Requests |-> None]
    /\ start = [r \in Requests |-> <<dir, file, inode>>]
    /\ crowded = {}
    /\ kills = 0

-----------------------------------------------------------------------------
InFlight == {r \in Requests : stage[r] \notin {"new", "done"}}

FirstStageUnchecked(kind) ==
    [read |-> "resolve", write |-> "mkdir", writeNew |-> "mkdir", delete |-> "unlink",
     deleteTree |-> "clear", browse |-> "root"][kind]

\* The first await that the outcome depends on.
FirstStage(kind) ==
    [read |-> "resolve", write |-> "mkdir", writeNew |-> "check", delete |-> "unlink",
     deleteTree |-> "clear", browse |-> "root"][kind]

\* The handler calls the service.
Arrive(r, kind) ==
    /\ stage[r] = "new"
    /\ op' = [op EXCEPT ![r] = kind]
    /\ stage' = [stage EXCEPT ![r] = FirstStage(kind)]
    /\ start' = [start EXCEPT ![r] = <<dir, file, inode>>]
    /\ crowded' = IF InFlight = {} THEN crowded ELSE crowded \cup InFlight \cup {r}
    /\ UNCHANGED <<diskVars, held, answer, kills>>

At(r, s) == stage[r] = s /\ UNCHANGED <<op, start, crowded, kills>>

Goto(r, s) == stage' = [stage EXCEPT ![r] = s] /\ UNCHANGED answer

\* The service returns or throws, and the handler answers in that turn.
Reply(r, a) ==
    /\ stage' = [stage EXCEPT ![r] = "done"]
    /\ answer' = [answer EXCEPT ![r] = a]

-----------------------------------------------------------------------------
(* read(): realpath, stat with the size cap, readFile                        *)

Resolve(r) ==
    /\ At(r, "resolve")
    /\ IF file = Missing THEN Reply(r, Error) ELSE Goto(r, "stat")
    /\ UNCHANGED <<diskVars, held>>

StatUncapped(r) ==
    /\ At(r, "stat")
    /\ IF file = Missing THEN Reply(r, Error) ELSE Goto(r, "load")
    /\ UNCHANGED <<diskVars, held>>

Stat(r) ==
    /\ At(r, "stat")
    /\ IF file \in {Missing, Huge} THEN Reply(r, Error) ELSE Goto(r, "load")
    /\ UNCHANGED <<diskVars, held>>

Load(r) ==
    /\ At(r, "load")
    /\ Reply(r, IF file = Missing THEN Error ELSE <<"read", file>>)
    /\ UNCHANGED <<diskVars, held>>

-----------------------------------------------------------------------------
(* write(): access if overwrite is false, mkdir, writeFile                   *)

Check(r) ==
    /\ At(r, "check")
    /\ IF file = Missing THEN Goto(r, "mkdir") ELSE Reply(r, Error)
    /\ UNCHANGED <<diskVars, held>>

TooLargeLate(r) ==
    /\ At(r, "fill")
    /\ Reply(r, Error)
    /\ UNCHANGED <<diskVars, held>>

\* Content over the cap is refused before anything is touched.
TooLarge(r) ==
    /\ stage[r] \in {"check", "mkdir"}
    /\ At(r, FirstStage(op[r]))
    /\ Reply(r, Error)
    /\ UNCHANGED <<diskVars, held>>

Mkdir(r) ==
    /\ At(r, "mkdir")
    /\ dir' = TRUE
    /\ Goto(r, "open")
    /\ UNCHANGED <<file, inode, held>>

\* The open fails if the directory is gone again.
Open(r) ==
    /\ At(r, "open")
    /\ IF ~dir THEN Reply(r, Error) /\ UNCHANGED <<diskVars, held>>
       ELSE /\ file' = Empty
            /\ inode' = IF file = Missing THEN inode + 1 ELSE inode
            /\ held' = [held EXCEPT ![r] = inode']
            /\ Goto(r, "fill")
            /\ UNCHANGED dir

\* Nobody sees what is written to a file that was removed.
Fill(r) ==
    /\ At(r, "fill")
    /\ file' \in IF file = Missing \/ held[r] # inode THEN {file}
                ELSE IF file = Empty THEN {r} ELSE {r, Garbled}
    /\ Reply(r, <<"wrote">>)
    /\ UNCHANGED <<dir, inode, held>>

-----------------------------------------------------------------------------
(* delete(): rm, of the file or recursively of its directory                 *)

Unlink(r) ==
    /\ At(r, "unlink")
    /\ file' = Missing
    /\ Reply(r, IF file = Missing THEN <<"notFound">> ELSE <<"deleted">>)
    /\ UNCHANGED <<dir, inode, held>>

Clear(r) ==
    /\ At(r, "clear")
    /\ IF dir THEN file' = Missing /\ Goto(r, "rmdir")
       ELSE Reply(r, <<"notFound">>) /\ UNCHANGED file
    /\ UNCHANGED <<dir, inode, held>>

\* rm finds its directory filled again, or gone.
Rmdir(r) ==
    /\ At(r, "rmdir")
    /\ IF file # Missing
       THEN (Reply(r, Error) \/ Goto(r, "clear")) /\ UNCHANGED dir
       ELSE /\ dir' = FALSE
            /\ \E a \in IF dir THEN {"deleted"} ELSE {"deleted", "notFound"} : Reply(r, <<a>>)
    /\ UNCHANGED <<file, inode, held>>

-----------------------------------------------------------------------------
(* browse(): readdir of the root and of the directory, stat of the file      *)

BrowseRoot(r) ==
    /\ At(r, "root")
    /\ IF dir THEN Goto(r, "list") ELSE Reply(r, <<"listed", {}>>)
    /\ UNCHANGED <<diskVars, held>>

\* A directory that is gone by then fails the whole request.
BrowseDir(r) ==
    /\ At(r, "list")
    /\ IF ~dir THEN Reply(r, Error)
       ELSE IF file = Missing THEN Reply(r, <<"listed", {"dir"}>>) ELSE Goto(r, "size")
    /\ UNCHANGED <<diskVars, held>>

\* A file that is gone by then is listed without its size.
BrowseStat(r) ==
    /\ At(r, "size")
    /\ Reply(r, <<"listed", {"dir", "file"} \cup (IF file = Missing THEN {} ELSE {"size"})>>)
    /\ UNCHANGED <<diskVars, held>>

-----------------------------------------------------------------------------
\* The agent is killed and started again: its requests end without an answer.
Kill ==
    /\ kills < MaxKills
    /\ kills' = kills + 1
    /\ stage' = [r \in Requests |-> IF r \in InFlight THEN "done" ELSE stage[r]]
    /\ answer' = [r \in Requests |-> IF r \in InFlight THEN Lost ELSE answer[r]]
    /\ UNCHANGED <<diskVars, op, held, start, crowded>>

Step(r) ==
    \/ Resolve(r) \/ Stat(r) \/ Load(r)
    \/ TooLarge(r) \/ Check(r) \/ Mkdir(r) \/ Open(r) \/ Fill(r)
    \/ Unlink(r) \/ Clear(r) \/ Rmdir(r)
    \/ BrowseRoot(r) \/ BrowseDir(r) \/ BrowseStat(r)

Next ==
    \/ \E r \in Requests : Step(r) \/ \E kind \in Kinds : Arrive(r, kind)
    \/ Kill

Spec == Init /\ [][Next]_vars

-----------------------------------------------------------------------------
(* Properties                                                                *)

\* What one request does to a disk that no other request touches: from the
\* directory d0 and the file f0, it is answered a and leaves d and f.
Atomic(r, d0, f0, a, d, f) ==
    \/ /\ op[r] = "read"
       /\ a = IF f0 \in {Missing, Huge} THEN Error ELSE <<"read", f0>>
       /\ d = d0 /\ f = f0
    \/ op[r] \in {"write", "writeNew"} /\ a = Error /\ d = d0 /\ f = f0
    \/ op[r] = "write" /\ a = <<"wrote">> /\ d /\ f = r
    \/ op[r] = "writeNew" /\ f0 = Missing /\ a = <<"wrote">> /\ d /\ f = r
    \/ /\ op[r] = "delete"
       /\ a = IF f0 = Missing THEN <<"notFound">> ELSE <<"deleted">>
       /\ d = d0 /\ f = Missing
    \/ /\ op[r] = "deleteTree"
       /\ a = IF d0 THEN <<"deleted">> ELSE <<"notFound">>
       /\ ~d /\ f = Missing
    \/ /\ op[r] = "browse"
       /\ a = <<"listed", IF ~d0 THEN {} ELSE IF f0 = Missing THEN {"dir"}
                          ELSE {"dir", "file", "size"}>>
       /\ d = d0 /\ f = f0

\* A request that no other overlaps is atomic, for all the awaits in it: its
\* answer and what it leaves on disk are those of one operation on the disk
\* it found, also if that holds what overlapping requests left.
IsolatedIsAtomic ==
    [][\A r \in Requests :
        stage[r] # "done" /\ stage'[r] = "done" /\ r \notin crowded /\ answer'[r] # Lost =>
            Atomic(r, start[r][1], start[r][2], answer'[r], dir', file')]_vars

\* With overwrite=false a file is replaced only if it was created while the
\* request was in flight, between its check and its open: what was there when
\* the request came is never overwritten.
ExclusiveSparesOld ==
    [][\A r \in Requests :
        op[r] = "writeNew" /\ stage[r] = "open" /\ stage'[r] = "fill" =>
            file = Missing \/ (r \in crowded /\ inode # start[r][3])]_vars

\* The file is empty only while a write has it open, or since one was killed,
\* and garbled only if two overlapping writes opened that same file: nothing
\* else, no delete and no refused request, leaves it torn once the requests
\* are answered.
TornMeansWriters ==
    LET writers == {r \in Requests : held[r] = inode} IN
    /\ file = Empty => \E r \in writers : stage[r] = "fill" \/ answer[r] = Lost
    /\ file = Garbled => Cardinality(writers \cap crowded) > 1
=============================================================================
