----------------------------- MODULE Connection -----------------------------
(* The connection of NodeAgentLoop (src/transport/agent-loop.ts): start(),   *)
(* which connects again and again, and connectOnce(), which makes one socket *)
(* and waits until it has closed. Sockets are numbered in the order of the   *)
(* attempts. Each action is one callback with the promise continuations it   *)
(* releases, among them the turn of start() that makes the next socket.      *)
(* WebSocket (external): a failure fires "error", then "close" with only     *)
(* those continuations between; a clean end fires "close" alone.             *)
EXTENDS Integers

CONSTANTS
    ReconnectDelay,     \* reconnectDelayMs
    MaxReconnectDelay,  \* maxReconnectDelayMs
    JitterPercent,      \* reconnectJitterRatio, in percent
    MaxAttempts         \* bound: sockets made in a behaviour

ASSUME ConnectionAssumption ==
    /\ {ReconnectDelay, MaxReconnectDelay, JitterPercent} \subseteq Nat
    /\ ReconnectDelay <= MaxReconnectDelay
    /\ JitterPercent <= 100
    /\ MaxAttempts \in Nat \ {0}

VARIABLES
    attempts,   \* sockets made so far
    sock,       \* readyState of each: "none", "connecting", "open", "closed"
    opened,     \* connectOnce saw its open event
    finished,   \* closedResolved of its connectOnce
    heartbeat,  \* its heartbeat interval is running
    current,    \* currentSocket, 0 for null
    loop,       \* what start() awaits
    delay,      \* delayMs
    wait,       \* the delay the running sleep was given
    failures,   \* attempts that failed since the last one that opened
    aborted,    \* signal.aborted
    closeDue,   \* a socket whose error fired and whose close comes next, or 0
    reported    \* the last connection state handed to persistConnectionState

connVars == <<attempts, sock, opened, finished, heartbeat, current, loop,
              delay, wait, failures, aborted, closeDue, reported>>

Sockets == 1..MaxAttempts

Disconnected(error) == [state |-> "disconnected", error |-> error]
Connected == [state |-> "connected", error |-> FALSE]

\* The types of the state; the base delay never exceeds its maximum.
ConnTypeOK ==
    /\ attempts \in 0..MaxAttempts
    /\ sock \in [Sockets -> {"none", "connecting", "open", "closed"}]
    /\ opened \in [Sockets -> BOOLEAN]
    /\ finished \in [Sockets -> BOOLEAN]
    /\ heartbeat \in [Sockets -> BOOLEAN]
    /\ current \in 0..MaxAttempts
    /\ loop \in {"idle", "opening", "attached", "sleeping", "stopped"}
    /\ delay \in 0..MaxReconnectDelay
    /\ wait \in Nat
    /\ failures \in 0..MaxAttempts
    /\ aborted \in BOOLEAN
    /\ closeDue \in 0..MaxAttempts
    /\ reported \in [state : {"unknown", "connected", "disconnected"}, error : BOOLEAN]

ConnInit ==
    /\ attempts = 0
    /\ sock = [c \in Sockets |-> "none"]
    /\ opened = [c \in Sockets |-> FALSE]
    /\ finished = [c \in Sockets |-> FALSE]
    /\ heartbeat = [c \in Sockets |-> FALSE]
    /\ current = 0
    /\ loop = "idle"
    /\ delay = ReconnectDelay
    /\ wait = 0
    /\ failures = 0
    /\ aborted = FALSE
    /\ closeDue = 0
    /\ reported = [state |-> "unknown", error |-> FALSE]

-----------------------------------------------------------------------------
(* Pure helpers                                                              *)

MinOf(a, b) == IF a <= b THEN a ELSE b
MaxOf(a, b) == IF a >= b THEN a ELSE b

\* Math.round(n / 10000).
Rounded(n) == (n + 5000) \div 10000

\* applyJitter, with random() in percent.
Jitter(ms, percent, random) ==
    IF ms = 0 \/ percent = 0 THEN ms
    ELSE MaxOf(1, Rounded(ms * ((100 - percent) * 100 + 2 * percent * random)))

\* delayMs after a sleep.
Doubled == MinOf(delay * 2, MaxReconnectDelay)

-----------------------------------------------------------------------------
(* start()                                                                   *)

ContinueUnchecked(socks, cur) ==
    /\ attempts < MaxAttempts
    /\ attempts' = attempts + 1
    /\ sock' = [socks EXCEPT ![attempts + 1] = "connecting"]
    /\ current' = attempts + 1
    /\ loop' = "opening"

\* The head of the while loop, reached with the sockets in states socks and
\* currentSocket = cur: stop, or make the next socket.
Continue(socks, cur) ==
    \/ /\ aborted
       /\ loop' = "stopped"
       /\ sock' = socks
       /\ current' = cur
       /\ UNCHANGED attempts
    \/ /\ ~aborted
       /\ attempts < MaxAttempts
       /\ attempts' = attempts + 1
       /\ sock' = [socks EXCEPT ![attempts + 1] = "connecting"]
       /\ current' = attempts + 1
       /\ loop' = "opening"

Start ==
    /\ loop = "idle"
    /\ Continue(sock, current)
    /\ UNCHANGED <<opened, finished, heartbeat, delay, wait, failures, aborted,
                   closeDue, reported>>

\* The sleep timer fires.
SleepEnds ==
    /\ loop = "sleeping"
    /\ closeDue = 0
    /\ delay' = Doubled
    /\ Continue(sock, current)
    /\ UNCHANGED <<opened, finished, heartbeat, wait, failures, aborted,
                   closeDue, reported>>

\* controller.abort(): the listener of a running sleep ends it at once; an
\* attempt or an attached connection does not notice.
Abort ==
    /\ ~aborted
    /\ closeDue = 0
    /\ aborted' = TRUE
    /\ IF loop = "sleeping"
       THEN loop' = "stopped" /\ delay' = Doubled
       ELSE UNCHANGED <<loop, delay>>
    /\ UNCHANGED <<attempts, sock, opened, finished, heartbeat, current, wait,
                   failures, closeDue, reported>>

-----------------------------------------------------------------------------
(* connectOnce()                                                             *)

OpenEvent(c) ==
    /\ sock[c] = "connecting"
    /\ closeDue = 0
    /\ sock' = [sock EXCEPT ![c] = "open"]
    /\ opened' = [opened EXCEPT ![c] = TRUE]
    /\ heartbeat' = [heartbeat EXCEPT ![c] = TRUE]
    /\ reported' = Connected
    /\ loop' = "attached"
    /\ failures' = 0
    /\ UNCHANGED <<attempts, finished, current, delay, wait, aborted, closeDue>>

\* connectOnce rejects; start() leaves if aborted, else sleeps. The socket
\* stays in currentSocket until its close event.
ErrorBeforeOpen(c) ==
    /\ sock[c] = "connecting"
    /\ closeDue = 0
    /\ sock' = [sock EXCEPT ![c] = "closed"]
    /\ closeDue' = c
    /\ reported' = Disconnected(TRUE)
    /\ failures' = failures + 1
    /\ IF aborted
       THEN loop' = "stopped" /\ UNCHANGED wait
       ELSE /\ loop' = "sleeping"
            /\ \E random \in {0, 50, 99} : wait' = Jitter(delay, JitterPercent, random)
    /\ UNCHANGED <<attempts, opened, finished, heartbeat, current, delay, aborted>>

StopHeartbeat(c) == heartbeat' = [heartbeat EXCEPT ![c] = FALSE]

KeepDelay == UNCHANGED delay
ResetDelay == delay' = ReconnectDelay

\* finishClosed, the first time: connectOnce resolves and start() goes on
\* without a sleep. socks is the state of the sockets then.
FinishClosed(c, socks) ==
    /\ finished' = [finished EXCEPT ![c] = TRUE]
    /\ ResetDelay
    /\ Continue(socks, 0)

ErrorAfterOpen(c) ==
    /\ sock[c] = "open"
    /\ closeDue = 0
    /\ closeDue' = c
    /\ reported' = Disconnected(TRUE)
    /\ StopHeartbeat(c)
    /\ FinishClosed(c, [sock EXCEPT ![c] = "closed"])
    /\ UNCHANGED <<opened, wait, failures, aborted>>

\* finishClosed when nobody awaits the close.
OnlyClear(c) ==
    /\ finished' = [finished EXCEPT ![c] = TRUE]
    /\ current' = 0
    /\ UNCHANGED <<attempts, sock, loop, delay>>

EndConnectionTwice(c) ==
    IF opened[c] /\ ~finished[c]
    THEN FinishClosed(c, [sock EXCEPT ![c] = "closed"])
    ELSE OnlyClear(c)

EndConnectionUnresolved(c) ==
    IF finished[c] THEN UNCHANGED <<finished, delay, attempts, sock, current, loop>>
    ELSE /\ finished' = [finished EXCEPT ![c] = TRUE]
         /\ current' = 0
         /\ sock' = [sock EXCEPT ![c] = "closed"]
         /\ UNCHANGED <<attempts, loop, delay>>

\* The guarded part of finishClosed, from onclose. After a failed open nobody
\* waits for it any more, but it clears currentSocket.
EndConnection(c) ==
    CASE finished[c] -> UNCHANGED <<finished, delay, attempts, sock, current, loop>>
      [] ~finished[c] /\ opened[c] -> FinishClosed(c, [sock EXCEPT ![c] = "closed"])
      [] OTHER -> OnlyClear(c)

ReportNothing(c) == UNCHANGED reported
ReportClose(c) == reported' = IF opened[c] THEN Disconnected(FALSE) ELSE reported

\* onclose, right after an error or by itself.
CloseEvent(c) ==
    /\ closeDue = c \/ (closeDue = 0 /\ sock[c] = "open")
    /\ closeDue' = 0
    /\ ReportClose(c)
    /\ StopHeartbeat(c)
    /\ EndConnection(c)
    /\ UNCHANGED <<opened, wait, failures, aborted>>

-----------------------------------------------------------------------------
SocketEvent(c) ==
    OpenEvent(c) \/ ErrorBeforeOpen(c) \/ ErrorAfterOpen(c) \/ CloseEvent(c)

ConnNext == Start \/ SleepEnds \/ Abort \/ \E c \in Sockets : SocketEvent(c)

ConnSpec == ConnInit /\ [][ConnNext]_connVars

\* Timers fire, an attempt is decided, and the close that follows an error
\* comes. Nothing makes an open connection end.
ConnFairness ==
    /\ WF_connVars(Start)
    /\ WF_connVars(SleepEnds)
    /\ \A c \in Sockets :
        /\ WF_connVars(OpenEvent(c) \/ ErrorBeforeOpen(c))
        /\ WF_connVars(closeDue = c /\ CloseEvent(c))

-----------------------------------------------------------------------------
(* Properties                                                                *)

\* However errors, closes and attempts overlap: at most one socket is
\* connecting or open, start() is attached exactly while one is open, its
\* heartbeat interval runs and no other's does, and currentSocket is the open
\* one, never null or another (it is where PTY events go).
OneLiveSocket ==
    /\ \A c, d \in Sockets :
        sock[c] \in {"connecting", "open"} /\ sock[d] \in {"connecting", "open"} => c = d
    /\ \A c \in Sockets : sock[c] = "open" => current = c
    /\ loop = "attached" <=> \E c \in Sockets : sock[c] = "open"
    /\ \A c \in Sockets : heartbeat[c] <=> sock[c] = "open"

\* The state handed to persistConnectionState is the truth: the late close of
\* an old socket never hides the connection that replaced it.
ReportedTruth ==
    reported.state = "connected" <=> \E c \in Sockets : sock[c] = "open"

\* base * 2^n.
Doublings[n \in Nat] == IF n = 0 THEN ReconnectDelay ELSE 2 * Doublings[n - 1]

\* The n-th failure in a row waits base * 2^(n-1), capped, within the jitter,
\* and never 0; a connection that opened starts the series again.
BackoffLaw ==
    loop = "sleeping" =>
        LET ms == MinOf(Doublings[failures - 1], MaxReconnectDelay) IN
        /\ 100 * (wait - 1) < ms * (100 + JitterPercent)
        /\ 100 * (wait + 1) > ms * (100 - JitterPercent)
        /\ ms > 0 => wait > 0

\* Once aborted, start() makes no further socket and is not in a backoff.
AbortEndsAttempts ==
    [][aborted => attempts' = attempts /\ loop # "sleeping"]_connVars

\* Until it is aborted, start() follows every socket that ended by another;
\* an aborted start() returns, unless a connection stays open.
KeepsConnecting ==
    /\ \A c \in 1..(MaxAttempts - 1) :
        sock[c] = "closed" ~> attempts > c \/ aborted
    /\ aborted ~> loop = "stopped" \/ \E c \in Sockets : sock[c] = "open"

\* A disconnect is retried with backoff: the callback that ends an open
\* connection does not make the next socket itself.
DisconnectBacksOff ==
    [][\A c \in Sockets :
        sock[c] = "open" /\ sock'[c] = "closed" => attempts' = attempts]_connVars
=============================================================================
