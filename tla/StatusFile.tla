----------------------------- MODULE StatusFile -----------------------------
(* connection-state.json (src/info/connection-state.ts), composed with       *)
(* Connection: each reported state is saved by a call nobody awaits, and the *)
(* commands info, status and doctor of another process read the file.        *)
(* fs.writeFile opens and truncates the file and writes it later, from its   *)
(* start: of two writers that have it open the later may leave the tail of   *)
(* a longer text.                                                            *)
EXTENDS Connection, Sequences

CONSTANTS
    Missing,   \* no such file
    Empty,     \* truncated and not yet written
    Garbled    \* not JSON: the rest of another text follows

VARIABLES
    file,      \* connection-state.json
    saves,     \* the calls of saveConnectionState, in their order
    lastEvent  \* the last event of the socket: "none", "open", "error" or "close"

vars == <<connVars, file, saves, lastEvent>>

States == [state : {"connected", "disconnected"}, error : BOOLEAN]

\* The types of the state.
TypeOK ==
    /\ ConnTypeOK
    /\ file \in States \cup {Missing, Empty, Garbled}
    /\ saves \in Seq([state : States, stage : {"open", "write", "done"}])
    /\ lastEvent \in {"none", "open", "error", "close"}

Init ==
    /\ ConnInit
    /\ file = Missing
    /\ saves = <<>>
    /\ lastEvent = "none"

\* updateConnectionState calls saveConnectionState, which begins with mkdir.
Save(state) == saves' = Append(saves, [state |-> state, stage |-> "open"])

Reports(c) == ~(closeDue = c /\ ~opened[c])

\* A socket event and the state it reports, if it does.
SocketStep(c) ==
    /\ \/ OpenEvent(c) /\ lastEvent' = "open"
       \/ (ErrorBeforeOpen(c) \/ ErrorAfterOpen(c)) /\ lastEvent' = "error"
       \/ CloseEvent(c) /\ lastEvent' = IF closeDue = c THEN "error" ELSE "close"
    /\ IF Reports(c) THEN Save(reported') ELSE UNCHANGED saves
    /\ UNCHANGED file

\* writeFile opens the file.
OpenSave(i) ==
    /\ saves[i].stage = "open"
    /\ file' = Empty
    /\ saves' = [saves EXCEPT ![i].stage = "write"]
    /\ UNCHANGED <<connVars, lastEvent>>

WriteSave(i) ==
    /\ saves[i].stage = "write"
    /\ file' \in IF file = Empty THEN {saves[i].state} ELSE {saves[i].state, Garbled}
    /\ saves' = [saves EXCEPT ![i].stage = "done"]
    /\ UNCHANGED <<connVars, lastEvent>>

\* No other callback comes between an error and its close.
Next ==
    \/ (Start \/ SleepEnds \/ Abort) /\ UNCHANGED <<file, saves, lastEvent>>
    \/ \E c \in Sockets : SocketStep(c)
    \/ \E i \in DOMAIN saves : closeDue = 0 /\ (OpenSave(i) \/ WriteSave(i))

Spec == Init /\ [][Next]_vars

-----------------------------------------------------------------------------
(* Properties                                                                *)

Unknown == [state |-> "unknown", error |-> FALSE]
Fails == [state |-> "fails", error |-> TRUE]

\* What loadConnectionState tells the commands; it fails if JSON.parse throws.
Told ==
    IF file = Missing THEN Unknown
    ELSE IF file \in {Empty, Garbled} THEN Fails
    ELSE file

Saved == closeDue = 0 /\ \A i \in DOMAIN saves : saves[i].stage = "done"

\* Once every save has ended, info and status tell the state of the
\* connection, and the error if one ended it.
InfoTellsConnection ==
    Saved => CASE lastEvent = "none" -> Told = Unknown
               [] lastEvent = "open" -> Told = Connected
               [] lastEvent = "error" -> Told = Disconnected(TRUE)
               [] lastEvent = "close" -> Told = Disconnected(FALSE)
=============================================================================
