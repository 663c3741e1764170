------------------------------ MODULE AgentPty ------------------------------
(* PTYs over the connection: HostPtyService (src/host-control/pty.ts) and    *)
(* the pty_* handlers and events of NodeAgentLoop                            *)
(* (src/transport/agent-loop.ts), composed with Connection. A request id is  *)
(* represented by the connection the request came on. What a PTY process     *)
(* does, and when Bun reports its data and its exit, is the environment's.   *)
EXTENDS Connection, Sequences, FiniteSets

CONSTANTS
    Ptys,      \* pty ids; createId never repeats one
    MaxPtys    \* maxConcurrentPtys

ASSUME PtyAssumption == MaxPtys \in Nat

VARIABLES
    sessions,    \* keys of HostPtyService.sessions
    ptyRequest,  \* ptyRequestIds: the connection of the pty_open, 0 if absent
    terminal,    \* the terminal of each PTY: "none", "open" or "closed"
    proc,        \* its process; "reaped" once proc.exited.then has run
    openedOn,    \* the connection whose pty_open created it, 0 before that
    exitSent,    \* PTYs whose pty_exit event was sent
    wire         \* the events sent in the last step

ptyVars == <<sessions, ptyRequest, terminal, proc, openedOn, exitSent>>
vars == <<connVars, ptyVars, wire>>

PtyEvents == [event : {"pty_output", "pty_exit"}, pty : Ptys, conn : Sockets]

\* The types of the state; what is sent goes to a socket, never to none.
TypeOK ==
    /\ ConnTypeOK
    /\ sessions \subseteq Ptys
    /\ ptyRequest \in [Ptys -> 0..MaxAttempts]
    /\ terminal \in [Ptys -> {"none", "open", "closed"}]
    /\ proc \in [Ptys -> {"none", "running", "exited", "reaped"}]
    /\ openedOn \in [Ptys -> 0..MaxAttempts]
    /\ exitSent \subseteq Ptys
    /\ wire \in Seq(PtyEvents)

Init ==
    /\ ConnInit
    /\ sessions = {}
    /\ ptyRequest = [p \in Ptys |-> 0]
    /\ terminal = [p \in Ptys |-> "none"]
    /\ proc = [p \in Ptys |-> "none"]
    /\ openedOn = [p \in Ptys |-> 0]
    /\ exitSent = {}
    /\ wire = <<>>

-----------------------------------------------------------------------------
(* Requests, each from the connection it arrives on                          *)

HasRoomOffByOne == Cardinality(sessions) <= MaxPtys

\* The cap check of open().
HasRoom == Cardinality(sessions) < MaxPtys

\* handlePtyOpen and open(): refused, without a change, over the cap.
PtyOpen(c, p) ==
    /\ sock[c] = "open"
    /\ proc[p] = "none"
    /\ HasRoom
    /\ sessions' = sessions \cup {p}
    /\ ptyRequest' = [ptyRequest EXCEPT ![p] = c]
    /\ terminal' = [terminal EXCEPT ![p] = "open"]
    /\ proc' = [proc EXCEPT ![p] = "running"]
    /\ openedOn' = [openedOn EXCEPT ![p] = c]
    /\ wire' = <<>>
    /\ UNCHANGED exitSent

PtyCloseForgets(c, p) ==
    /\ sock[c] = "open"
    /\ p \in sessions
    /\ terminal' = [terminal EXCEPT ![p] = "closed"]
    /\ sessions' = sessions \ {p}
    /\ ptyRequest' = [ptyRequest EXCEPT ![p] = 0]
    /\ wire' = <<>>
    /\ UNCHANGED <<proc, openedOn, exitSent>>

\* handlePtyClose: the process is hung up and ends later; its request id
\* stays for the exit event.
PtyClose(c, p) ==
    /\ sock[c] = "open"
    /\ p \in sessions
    /\ terminal' = [terminal EXCEPT ![p] = "closed"]
    /\ sessions' = sessions \ {p}
    /\ wire' = <<>>
    /\ UNCHANGED <<ptyRequest, proc, openedOn, exitSent>>

-----------------------------------------------------------------------------
(* Events of the PTYs                                                        *)

\* emitPtyOutput and emitPtyExit send on currentSocket, for a known PTY.
Emit(event, p) ==
    IF current = 0 \/ ptyRequest[p] = 0 THEN <<>>
    ELSE <<[event |-> event, pty |-> p, conn |-> current]>>

ProcExits(p) ==
    /\ proc[p] = "running"
    /\ proc' = [proc EXCEPT ![p] = "exited"]
    /\ wire' = <<>>
    /\ UNCHANGED <<sessions, ptyRequest, terminal, openedOn, exitSent>>

\* The data callback, also with data left when the process has been reaped.
DataCallback(p) ==
    /\ proc[p] # "none"
    /\ wire' = Emit("pty_output", p)
    /\ UNCHANGED ptyVars

KeepRequest(p) == ptyRequest
DropRequest(p) == [ptyRequest EXCEPT ![p] = 0]

\* proc.exited.then: the decoder's tail, if any, and then the exit.
ExitCallback(p) ==
    /\ proc[p] = "exited"
    /\ proc' = [proc EXCEPT ![p] = "reaped"]
    /\ sessions' = sessions \ {p}
    /\ ptyRequest' = DropRequest(p)
    /\ \E tail \in {<<>>, Emit("pty_output", p)} :
          wire' = tail \o Emit("pty_exit", p)
    /\ exitSent' = IF Emit("pty_exit", p) = <<>> THEN exitSent ELSE exitSent \cup {p}
    /\ UNCHANGED <<terminal, openedOn>>

-----------------------------------------------------------------------------
(* The connection, and closeAll when one ends                                *)

CloseAllKeepsIds ==
    /\ terminal' = [p \in Ptys |-> IF p \in sessions THEN "closed" ELSE terminal[p]]
    /\ sessions' = {}
    /\ UNCHANGED <<ptyRequest, proc, openedOn, exitSent>>

\* closeAll and ptyRequestIds.clear of finishClosed.
CloseAll ==
    /\ terminal' = [p \in Ptys |-> IF p \in sessions THEN "closed" ELSE terminal[p]]
    /\ sessions' = {}
    /\ ptyRequest' = [p \in Ptys |-> 0]
    /\ UNCHANGED <<proc, openedOn, exitSent>>

FinishedByClose == finished' # finished /\ closeDue' = 0

\* The step ran the guarded part of some finishClosed.
Finished == finished' # finished

ConnectionStep ==
    /\ ConnNext
    /\ IF Finished THEN CloseAll ELSE UNCHANGED ptyVars
    /\ wire' = <<>>

PtyStep(p) ==
    \/ \E c \in Sockets : PtyOpen(c, p) \/ PtyClose(c, p)
    \/ ProcExits(p) \/ DataCallback(p) \/ ExitCallback(p)

\* No other callback comes between an error and its close.
Next ==
    \/ ConnectionStep
    \/ \E p \in Ptys : closeDue = 0 /\ PtyStep(p) /\ UNCHANGED connVars

Spec == Init /\ [][Next]_vars

\* A process whose terminal was closed ends, and its exit is reported.
PtyFairness ==
    \A p \in Ptys :
        /\ WF_vars(terminal[p] = "closed" /\ closeDue = 0 /\ ProcExits(p) /\ UNCHANGED connVars)
        /\ WF_vars(closeDue = 0 /\ ExitCallback(p) /\ UNCHANGED connVars)

FairSpec == Spec /\ PtyFairness /\ ConnFairness

-----------------------------------------------------------------------------
(* Properties                                                                *)

\* The connection that opened p is still open.
Attached(p) == \E c \in Sockets : openedOn[p] = c /\ sock[c] = "open"

\* A PTY event goes only to the connection whose request opened the PTY, and
\* only while that socket is open: output and exits that come after a
\* reconnect, or while the next socket is still connecting (where send
\* throws), are not sent.
EventsOnOwnConnection ==
    \A i \in DOMAIN wire :
        /\ wire[i].conn = openedOn[wire[i].pty]
        /\ sock[wire[i].conn] = "open"

\* After pty_exit no further event of that PTY is sent, whatever data the
\* terminal still delivers.
NothingAfterExit ==
    [][\A i \in DOMAIN wire' : wire'[i].pty \notin exitSent]_vars

\* PTYs do not outlive their connection, whichever of error and close ends
\* it: a session or a request id left over belongs to the open socket.
PtysEndWithConnection ==
    \A p \in Ptys :
        /\ p \in sessions => Attached(p)
        /\ ptyRequest[p] # 0 => ptyRequest[p] = openedOn[p] /\ Attached(p)

\* The sessions are the PTYs whose terminal is open and whose exit has not
\* been handled, and they stay within the cap.
SessionsBounded ==
    /\ sessions = {p \in Ptys : terminal[p] = "open" /\ proc[p] # "reaped"}
    /\ Cardinality(sessions) <= MaxPtys

\* The exit of a PTY is observed after a close or the end of its process, as
\* long as the connection lasts.
ExitObserved ==
    \A p \in Ptys :
        openedOn[p] # 0 /\ (terminal[p] = "closed" \/ proc[p] = "exited")
            ~> p \in exitSent \/ ~Attached(p)
=============================================================================
