--------------------------- MODULE AgentPtyProofs ---------------------------
(* Theorems of Connection: one live socket, a truthful report of it, and no  *)
(* further attempt once start() is aborted. Theorems of AgentPty: PTYs and   *)
(* their events against the connection that opened them, and the cap on      *)
(* sessions.                                                                 *)
EXTENDS AgentPty, FiniteSetTheorems, SequenceTheorems, WellFoundedInduction, TLAPS

-----------------------------------------------------------------------------
(* What start() knows of its sockets                                         *)

States == {"none", "connecting", "open", "closed"}
Live == {"connecting", "open"}

\* What the events of a connection are decided by.
ConnTyped ==
    /\ attempts \in 0..MaxAttempts
    /\ sock \in [Sockets -> States]
    /\ opened \in [Sockets -> BOOLEAN]
    /\ finished \in [Sockets -> BOOLEAN]
    /\ heartbeat \in [Sockets -> BOOLEAN]
    /\ current \in 0..MaxAttempts
    /\ loop \in {"idle", "opening", "attached", "sleeping", "stopped"}
    /\ aborted \in BOOLEAN
    /\ closeDue \in 0..MaxAttempts

\* Sockets are made one after the other, and only the latest may be live,
\* which is then in currentSocket.
LiveIsLatest ==
    \A c \in Sockets :
        /\ sock[c] = "none" <=> c > attempts
        /\ sock[c] \in Live => c = attempts /\ c = current

\* What start() awaits is what its socket is doing.
LoopFollows ==
    /\ loop = "opening" <=> \E c \in Sockets : sock[c] = "connecting"
    /\ loop = "attached" <=> \E c \in Sockets : sock[c] = "open"
    /\ aborted => loop # "sleeping"

\* An open socket has a heartbeat and an unresolved close; one that was open
\* and is closed has neither.
OpenedThenFinished ==
    \A c \in Sockets :
        /\ heartbeat[c] <=> sock[c] = "open"
        /\ sock[c] = "open" <=> opened[c] /\ ~finished[c]
        /\ finished[c] => sock[c] = "closed"

\* While a close follows an error nothing is open, and if the error came
\* before the open event, start() has no other socket.
CloseFollows ==
    closeDue # 0 =>
        /\ sock[closeDue] = "closed"
        /\ loop # "attached"
        /\ ~finished[closeDue] => loop \in {"sleeping", "stopped"}

ConnInv == ConnTyped /\ LiveIsLatest /\ LoopFollows /\ OpenedThenFinished /\ CloseFollows

LEMMA SocketsAreNumbers ==
    /\ Sockets \subseteq Nat \ {0}
    /\ MaxAttempts \in Nat
    /\ \A c \in Sockets : c \in 0..MaxAttempts
BY ConnectionAssumption DEF Sockets

-----------------------------------------------------------------------------
(* The head of the loop, reached when no socket is live.                     *)

Ended(socks) ==
    /\ socks \in [Sockets -> States]
    /\ \A c \in Sockets :
        /\ socks[c] \notin Live
        /\ socks[c] = "none" <=> c > attempts

LEMMA ContinueStep ==
    ASSUME ConnTyped, NEW socks, NEW cur \in 0..MaxAttempts, Ended(socks),
           Continue(socks, cur)
    PROVE  /\ attempts' \in 0..MaxAttempts
           /\ sock' \in [Sockets -> States]
           /\ current' \in 0..MaxAttempts
           /\ loop' \in {"opening", "stopped"}
           /\ LiveIsLatest'
           /\ loop' = "opening" <=> \E c \in Sockets : sock'[c] = "connecting"
           /\ \A c \in Sockets : sock'[c] # "open"
           /\ \A c \in Sockets : socks[c] = "closed" <=> sock'[c] = "closed"
           /\ aborted => attempts' = attempts
<1>1. CASE aborted /\ loop' = "stopped" /\ sock' = socks /\ current' = cur /\ UNCHANGED attempts
    BY <1>1 DEF ConnTyped, Ended, LiveIsLatest, Live
<1>2. CASE /\ ~aborted
           /\ attempts < MaxAttempts
           /\ attempts' = attempts + 1
           /\ sock' = [socks EXCEPT ![attempts + 1] = "connecting"]
           /\ current' = attempts + 1
           /\ loop' = "opening"
    <2>1. attempts + 1 \in Sockets /\ attempts + 1 \in 0..MaxAttempts
        BY <1>2, ConnectionAssumption DEF ConnTyped, Sockets
    <2>2. socks[attempts + 1] = "none"
        BY <2>1, SocketsAreNumbers DEF Ended, ConnTyped
    <2>3. LiveIsLatest'
        BY <1>2, <2>1, SocketsAreNumbers DEF Ended, LiveIsLatest, Live, ConnTyped
    <2> QED BY <1>2, <2>1, <2>2, <2>3 DEF Ended, States, Live
<1> QED BY <1>1, <1>2 DEF Continue

\* finishClosed of the open socket: start() goes on without it.
LEMMA FinishStep ==
    ASSUME ConnInv, NEW c \in Sockets, sock[c] = "open",
           FinishClosed(c, [sock EXCEPT ![c] = "closed"]), StopHeartbeat(c),
           closeDue' \in {0, c}, UNCHANGED <<opened, aborted>>
    PROVE  /\ ConnInv'
           /\ \A d \in Sockets : sock'[d] # "open"
           /\ aborted => attempts' = attempts
<1> DEFINE socks == [sock EXCEPT ![c] = "closed"]
<1> USE SocketsAreNumbers
<1>1. Ended(socks)
    BY DEF ConnInv, ConnTyped, LiveIsLatest, Ended, States, Live
<1>2. socks[c] = "closed" /\ \A d \in Sockets \ {c} : socks[d] = sock[d]
    BY DEF ConnInv, ConnTyped
<1>3. Continue(socks, 0) /\ finished' = [finished EXCEPT ![c] = TRUE]
    BY DEF FinishClosed
<1> HIDE DEF socks
<1>4. /\ attempts' \in 0..MaxAttempts
      /\ sock' \in [Sockets -> States]
      /\ current' \in 0..MaxAttempts
      /\ loop' \in {"opening", "stopped"}
      /\ LiveIsLatest'
      /\ loop' = "opening" <=> \E d \in Sockets : sock'[d] = "connecting"
      /\ \A d \in Sockets : sock'[d] # "open"
      /\ \A d \in Sockets : socks[d] = "closed" <=> sock'[d] = "closed"
      /\ aborted => attempts' = attempts
    BY <1>1, <1>3, ContinueStep DEF ConnInv
<1>5. ConnTyped'
    <2>1. /\ finished' \in [Sockets -> BOOLEAN] /\ heartbeat' \in [Sockets -> BOOLEAN]
          /\ opened' \in [Sockets -> BOOLEAN] /\ aborted' \in BOOLEAN
        BY <1>3 DEF ConnInv, ConnTyped, StopHeartbeat
    <2>2. closeDue' \in 0..MaxAttempts
        BY DEF ConnInv, ConnTyped
    <2> QED BY <1>4, <2>1, <2>2 DEF ConnTyped
<1>6. LoopFollows'
    BY <1>4 DEF LoopFollows
<1>7. OpenedThenFinished'
    <2> SUFFICES ASSUME NEW d \in Sockets
                 PROVE  ~heartbeat'[d] /\ (opened'[d] => finished'[d])
                        /\ (finished'[d] => sock'[d] = "closed")
        BY <1>4 DEF OpenedThenFinished
    <2>1. CASE d = c
        BY <1>2, <1>3, <1>4, <2>1 DEF ConnInv, ConnTyped, StopHeartbeat
    <2>2. CASE d # c
        <3>1. sock[d] # "open"
            BY <2>2 DEF ConnInv, LiveIsLatest, Live
        <3> QED BY <1>2, <1>3, <1>4, <2>2, <3>1
                DEF ConnInv, ConnTyped, OpenedThenFinished, StopHeartbeat
    <2> QED BY <2>1, <2>2
<1>8. CloseFollows'
    BY <1>2, <1>3, <1>4 DEF CloseFollows, ConnInv, ConnTyped
<1> QED BY <1>4, <1>5, <1>6, <1>7, <1>8 DEF ConnInv

-----------------------------------------------------------------------------
(* One lemma per event.                                                      *)

LEMMA StartStep ==
    ASSUME ConnInv, Start \/ SleepEnds
    PROVE  /\ ConnInv'
           /\ \A d \in Sockets : sock[d] # "open" /\ sock'[d] # "open"
           /\ reported' = reported /\ finished' = finished
           /\ aborted => attempts' = attempts
<1> USE SocketsAreNumbers
<1>1. loop \in {"idle", "sleeping"} /\ Continue(sock, current)
    BY DEF Start, SleepEnds
<1>2. /\ opened' = opened /\ finished' = finished /\ heartbeat' = heartbeat
      /\ aborted' = aborted /\ closeDue' = closeDue /\ reported' = reported
    BY DEF Start, SleepEnds
<1>3. Ended(sock)
    BY <1>1 DEF ConnInv, ConnTyped, LiveIsLatest, LoopFollows, Ended, States, Live
<1>4. /\ attempts' \in 0..MaxAttempts
      /\ sock' \in [Sockets -> States]
      /\ current' \in 0..MaxAttempts
      /\ loop' \in {"opening", "stopped"}
      /\ LiveIsLatest'
      /\ loop' = "opening" <=> \E d \in Sockets : sock'[d] = "connecting"
      /\ \A d \in Sockets : sock'[d] # "open"
      /\ \A d \in Sockets : sock[d] = "closed" <=> sock'[d] = "closed"
      /\ aborted => attempts' = attempts
    BY <1>1, <1>3, ContinueStep DEF ConnInv, ConnTyped
<1>5. closeDue # 0 => finished[closeDue]
    BY <1>1 DEF ConnInv, CloseFollows, Start, SleepEnds
<1>6. ConnTyped'
    BY <1>2, <1>4 DEF ConnInv, ConnTyped
<1>7. LoopFollows'
    BY <1>4 DEF LoopFollows
<1>8. OpenedThenFinished'
    BY <1>2, <1>3, <1>4 DEF ConnInv, OpenedThenFinished, Ended, Live
<1>9. CloseFollows'
    <2>1. closeDue # 0 => closeDue \in Sockets
        BY ConnectionAssumption DEF ConnInv, ConnTyped, Sockets
    <2> QED BY <1>2, <1>4, <1>5, <2>1 DEF ConnInv, CloseFollows
<1> QED BY <1>2, <1>3, <1>4, <1>6, <1>7, <1>8, <1>9 DEF ConnInv, Ended, Live

LEMMA AbortStep ==
    ASSUME ConnInv, Abort
    PROVE  /\ ConnInv'
           /\ sock' = sock /\ reported' = reported /\ finished' = finished
           /\ attempts' = attempts
<1>1. /\ attempts' = attempts /\ sock' = sock /\ opened' = opened /\ finished' = finished
      /\ heartbeat' = heartbeat /\ current' = current /\ closeDue' = closeDue
      /\ reported' = reported /\ aborted' = TRUE
      /\ loop' = IF loop = "sleeping" THEN "stopped" ELSE loop
    BY DEF Abort
<1> QED BY <1>1 DEF ConnInv, ConnTyped, LiveIsLatest, LoopFollows, OpenedThenFinished,
                    CloseFollows, Live

LEMMA OpenStep ==
    ASSUME ConnInv, NEW c \in Sockets, OpenEvent(c)
    PROVE  /\ ConnInv'
           /\ sock'[c] = "open" /\ \A d \in Sockets : sock[d] # "open"
           /\ reported'.state = "connected" /\ finished' = finished
           /\ attempts' = attempts
<1> USE SocketsAreNumbers
<1>1. /\ sock[c] = "connecting" /\ closeDue = 0
      /\ sock' = [sock EXCEPT ![c] = "open"]
      /\ opened' = [opened EXCEPT ![c] = TRUE]
      /\ heartbeat' = [heartbeat EXCEPT ![c] = TRUE]
      /\ loop' = "attached" /\ finished' = finished /\ attempts' = attempts
      /\ current' = current /\ aborted' = aborted /\ closeDue' = closeDue
    BY DEF OpenEvent
<1>2. reported'.state = "connected"
    BY DEF OpenEvent, Connected
<1>3. \A d \in Sockets : sock[d] \in Live => d = c
    BY <1>1 DEF ConnInv, LiveIsLatest, Live
<1>4. ConnTyped' /\ LiveIsLatest'
    BY <1>1 DEF ConnInv, ConnTyped, LiveIsLatest, Live, States
<1>5. LoopFollows'
    BY <1>1, <1>3 DEF ConnInv, ConnTyped, LoopFollows, Live
<1>6. OpenedThenFinished'
    BY <1>1, <1>3 DEF ConnInv, ConnTyped, OpenedThenFinished, Live
<1>7. CloseFollows'
    BY <1>1 DEF CloseFollows
<1> QED BY <1>1, <1>2, <1>3, <1>4, <1>5, <1>6, <1>7 DEF ConnInv, ConnTyped, Live

LEMMA FailStep ==
    ASSUME ConnInv, NEW c \in Sockets, ErrorBeforeOpen(c)
    PROVE  /\ ConnInv'
           /\ \A d \in Sockets : sock[d] # "open" /\ sock'[d] # "open"
           /\ reported'.state = "disconnected" /\ finished' = finished
           /\ attempts' = attempts
<1> USE SocketsAreNumbers
<1>1. /\ sock[c] = "connecting"
      /\ sock' = [sock EXCEPT ![c] = "closed"]
      /\ closeDue' = c
      /\ loop' = IF aborted THEN "stopped" ELSE "sleeping"
      /\ opened' = opened /\ finished' = finished /\ heartbeat' = heartbeat
      /\ attempts' = attempts /\ current' = current /\ aborted' = aborted
    BY DEF ErrorBeforeOpen
<1>2. reported'.state = "disconnected"
    BY DEF ErrorBeforeOpen, Disconnected
<1>3. \A d \in Sockets : sock[d] \in Live => d = c
    BY <1>1 DEF ConnInv, LiveIsLatest, Live
<1>4. ConnTyped' /\ LiveIsLatest'
    BY <1>1 DEF ConnInv, ConnTyped, LiveIsLatest, Live, States
<1>5. LoopFollows'
    BY <1>1, <1>3 DEF ConnInv, ConnTyped, LoopFollows, Live
<1>6. OpenedThenFinished'
    BY <1>1, <1>3 DEF ConnInv, ConnTyped, OpenedThenFinished, Live
<1>7. CloseFollows'
    BY <1>1 DEF CloseFollows, ConnInv, ConnTyped
<1> QED BY <1>1, <1>2, <1>3, <1>4, <1>5, <1>6, <1>7 DEF ConnInv, ConnTyped, Live

LEMMA ErrorStep ==
    ASSUME ConnInv, NEW c \in Sockets, ErrorAfterOpen(c)
    PROVE  /\ ConnInv'
           /\ \A d \in Sockets : sock'[d] # "open"
           /\ reported'.state = "disconnected" /\ finished' # finished
           /\ aborted => attempts' = attempts
<1>1. /\ sock[c] = "open" /\ closeDue' = c /\ StopHeartbeat(c)
      /\ FinishClosed(c, [sock EXCEPT ![c] = "closed"])
      /\ UNCHANGED <<opened, aborted>>
    BY DEF ErrorAfterOpen
<1>2. reported'.state = "disconnected"
    BY DEF ErrorAfterOpen, Disconnected
<1>3. ~finished[c] /\ finished'[c]
    BY <1>1 DEF FinishClosed, ConnInv, ConnTyped, OpenedThenFinished
<1> QED BY <1>1, <1>2, <1>3, FinishStep

\* The close event, of the open socket or after an error.
LEMMA CloseStep ==
    ASSUME ConnInv, NEW c \in Sockets, CloseEvent(c)
    PROVE  /\ ConnInv'
           /\ \A d \in Sockets : sock'[d] # "open"
           /\ opened[c] => reported'.state = "disconnected"
           /\ ~opened[c] => reported' = reported
           /\ finished' = finished => \A d \in Sockets : sock[d] # "open"
           /\ aborted => attempts' = attempts
           /\ ~opened[c] => \A d \in Sockets : sock[d] # "open"
<1> USE SocketsAreNumbers
<1>0. /\ closeDue' = 0 /\ StopHeartbeat(c) /\ UNCHANGED <<opened, aborted>>
      /\ closeDue = c \/ (closeDue = 0 /\ sock[c] = "open")
    BY DEF CloseEvent
<1>a. /\ opened[c] => reported'.state = "disconnected"
      /\ ~opened[c] => reported' = reported
    BY DEF CloseEvent, ReportClose, Disconnected, ConnInv, ConnTyped
<1>1. CASE sock[c] = "open"
    <2>1. opened[c] /\ ~finished[c]
        BY <1>1 DEF ConnInv, OpenedThenFinished
    <2>2. FinishClosed(c, [sock EXCEPT ![c] = "closed"])
        BY <2>1 DEF CloseEvent, EndConnection
    <2>3. finished'[c]
        BY <2>2 DEF FinishClosed, ConnInv, ConnTyped
    <2> QED BY <1>0, <1>a, <1>1, <2>1, <2>2, <2>3, FinishStep
<1>2. CASE sock[c] # "open"
    <2>1. closeDue = c /\ c # 0 /\ sock[c] = "closed" /\ loop # "attached"
        BY <1>0, <1>2 DEF ConnInv, CloseFollows
    <2>2. \A d \in Sockets : sock[d] # "open"
        BY <2>1 DEF ConnInv, LoopFollows
    <2>3. \A d \in Sockets : ~heartbeat[d]
        BY <2>2 DEF ConnInv, OpenedThenFinished, ConnTyped
    <2>4. heartbeat' = heartbeat
        BY <1>0, <2>3 DEF StopHeartbeat, ConnInv, ConnTyped
    <2>5. CASE finished[c]
        <3>1. UNCHANGED <<finished, attempts, sock, current, loop>>
            BY <2>5 DEF CloseEvent, EndConnection
        <3> QED BY <1>0, <1>a, <2>2, <2>4, <3>1
                DEF ConnInv, ConnTyped, LiveIsLatest, LoopFollows, OpenedThenFinished,
                    CloseFollows
    <2>6. CASE ~finished[c]
        <3>1. ~opened[c] /\ loop \in {"sleeping", "stopped"}
            BY <1>2, <2>1, <2>6 DEF ConnInv, ConnTyped, OpenedThenFinished, CloseFollows
        <3>2. OnlyClear(c)
            BY <2>6, <3>1 DEF CloseEvent, EndConnection
        <3>3. /\ finished' = [finished EXCEPT ![c] = TRUE] /\ current' = 0
              /\ attempts' = attempts /\ sock' = sock /\ loop' = loop
            BY <3>2 DEF OnlyClear
        <3>4. \A d \in Sockets : sock[d] \notin Live
            BY <2>2, <3>1 DEF ConnInv, LoopFollows, Live
        <3>5. ConnTyped' /\ LiveIsLatest' /\ LoopFollows'
            BY <1>0, <2>4, <3>3, <3>4 DEF ConnInv, ConnTyped, LiveIsLatest, LoopFollows
        <3>6. OpenedThenFinished' /\ CloseFollows'
            BY <1>0, <2>1, <2>4, <3>1, <3>3
               DEF ConnInv, ConnTyped, OpenedThenFinished, CloseFollows
        <3> QED BY <1>a, <2>2, <3>1, <3>3, <3>5, <3>6 DEF ConnInv
    <2> QED BY <2>5, <2>6
<1> QED BY <1>1, <1>2
-----------------------------------------------------------------------------
(* The specification                                                         *)

LEMMA ConnStep ==
    ASSUME ConnInv, ReportedTruth, [ConnNext]_connVars
    PROVE  /\ ConnInv' /\ ReportedTruth'
           /\ aborted => attempts' = attempts
           /\ \A d \in Sockets : sock[d] = "open" /\ sock'[d] # "open" => finished' # finished
<1> DEFINE Goal == /\ ConnInv' /\ ReportedTruth'
                   /\ aborted => attempts' = attempts
                   /\ \A d \in Sockets :
                        sock[d] = "open" /\ sock'[d] # "open" => finished' # finished
<1>1. ASSUME Start \/ SleepEnds PROVE Goal
    BY <1>1, StartStep DEF ReportedTruth
<1>2. ASSUME Abort PROVE Goal
    BY <1>2, AbortStep DEF ReportedTruth
<1>3. ASSUME NEW c \in Sockets, SocketEvent(c) PROVE Goal
    <2>1. CASE OpenEvent(c)
        BY <2>1, OpenStep DEF ReportedTruth
    <2>2. CASE ErrorBeforeOpen(c)
        BY <2>2, FailStep DEF ReportedTruth
    <2>3. CASE ErrorAfterOpen(c)
        BY <2>3, ErrorStep DEF ReportedTruth
    <2>4. CASE CloseEvent(c)
        BY <2>4, CloseStep DEF ReportedTruth
    <2> QED BY <1>3, <2>1, <2>2, <2>3, <2>4 DEF SocketEvent
<1>4. ASSUME UNCHANGED connVars PROVE Goal
    <2>1. /\ attempts' = attempts /\ sock' = sock /\ opened' = opened
          /\ finished' = finished /\ heartbeat' = heartbeat /\ current' = current
          /\ loop' = loop /\ aborted' = aborted /\ closeDue' = closeDue
          /\ reported' = reported
        BY <1>4 DEF connVars
    <2> QED BY <2>1 DEF ConnInv, ConnTyped, LiveIsLatest, LoopFollows, OpenedThenFinished,
                        CloseFollows, ReportedTruth
<1> QED BY <1>1, <1>2, <1>3, <1>4 DEF ConnNext

LEMMA ConnStart == ConnInit => ConnInv /\ ReportedTruth
<1> SUFFICES ASSUME ConnInit PROVE ConnInv /\ ReportedTruth
    OBVIOUS
<1> USE DEF ConnInit
<1>1. ConnTyped
    <2>1. 0 \in 0..MaxAttempts
        BY SocketsAreNumbers
    <2>2. /\ sock \in [Sockets -> States] /\ opened \in [Sockets -> BOOLEAN]
          /\ finished \in [Sockets -> BOOLEAN] /\ heartbeat \in [Sockets -> BOOLEAN]
        BY DEF States
    <2> QED BY <2>1, <2>2 DEF ConnTyped
<1>2. LiveIsLatest
    BY SocketsAreNumbers DEF LiveIsLatest, Live
<1>3. LoopFollows /\ OpenedThenFinished /\ CloseFollows /\ ReportedTruth
    BY DEF LoopFollows, OpenedThenFinished, CloseFollows, ReportedTruth
<1> QED BY <1>1, <1>2, <1>3 DEF ConnInv

LEMMA ConnLaws == ConnSpec => [](ConnInv /\ ReportedTruth)
<1>1. ConnInv /\ ReportedTruth /\ [ConnNext]_connVars => ConnInv' /\ ReportedTruth'
    BY ConnStep
<1> QED BY <1>1, ConnStart, PTL DEF ConnSpec

\* agent-loop.ts, connectOnce: in any order of errors, closes and attempts one
\* socket at most is live, and it is the one start() and PTY events go by.
THEOREM LiveSocketUnique == ConnSpec => []OneLiveSocket
<1>1. ConnInv => OneLiveSocket
    BY DEF ConnInv, LiveIsLatest, LoopFollows, OpenedThenFinished, OneLiveSocket, Live
<1> QED BY <1>1, ConnLaws, PTL

\* updateConnectionState: "connected" is reported exactly while a socket is
\* open, also when the close of an old one comes late.
THEOREM ReportIsTrue == ConnSpec => []ReportedTruth
BY ConnLaws, PTL

\* start(): no socket is made after an abort, and no backoff goes on.
THEOREM AbortIsFinal == ConnSpec => AbortEndsAttempts
<1>1. ConnInv /\ ReportedTruth /\ [ConnNext]_connVars
        => [aborted => attempts' = attempts /\ loop # "sleeping"]_connVars
    BY ConnStep DEF ConnInv, LoopFollows
<1> QED BY <1>1, ConnLaws, PTL DEF ConnSpec, AbortEndsAttempts

-----------------------------------------------------------------------------
(* Induction over numbers, stated of sets, and recursion                     *)

LEMMA LeastNumber ==
    ASSUME NEW T \in SUBSET Nat, T # {}
    PROVE  \E n \in T : \A m \in T : n <= m
<1>1. IsWellFoundedOn(OpToRel(<, Nat), Nat)
    BY NatLessThanWellFounded
<1>2. PICK n \in T : \A m \in T : ~ (<<m, n>> \in OpToRel(<, Nat))
    BY <1>1, WFMin
<1>3. \A m \in T : m < n => <<m, n>> \in OpToRel(<, Nat)
    BY DEF OpToRel
<1>4. \A m \in T : ~(m < n)
    BY <1>2, <1>3, Zenon
<1> QED BY <1>4

LEMMA Induction ==
    ASSUME NEW T, 0 \in T, \A n \in Nat : n \in T => n + 1 \in T
    PROVE  Nat \subseteq T
<1> SUFFICES ASSUME Nat \ T # {} PROVE FALSE
    OBVIOUS
<1>1. PICK n \in Nat \ T : \A m \in Nat \ T : n <= m
    BY LeastNumber
<1>2. n # 0 /\ n - 1 \in Nat /\ ~(n <= n - 1)
    BY <1>1
<1>3. n - 1 \in T
    BY <1>1, <1>2
<1>4. (n - 1) + 1 = n
    BY <1>1
<1> QED BY <1>1, <1>2, <1>3, <1>4

\* The functions that follow a recursion up to n.
Follows(V, base, h, n) ==
    {f \in [Nat -> V] : f[0] = base /\ \A i \in 0..(n - 1) : f[i + 1] = h[i][f[i]]}

Solves(f, base, h) == f[0] = base /\ \A n \in Nat : f[n + 1] = h[n][f[n]]

\* A recursion over the natural numbers has a solution.
LEMMA Recursion ==
    ASSUME NEW V, NEW base \in V, NEW h \in [Nat -> [V -> V]]
    PROVE  \E f \in [Nat -> V] : Solves(f, base, h)
<1> DEFINE F(n) == Follows(V, base, h, n)
<1>1. \A n \in Nat : F(n) # {}
    <2> DEFINE T == {n \in Nat : F(n) # {}}
    <2>1. 0 \in T
        <3>1. [i \in Nat |-> base] \in F(0)
            BY DEF Follows
        <3> QED BY <3>1
    <2>2. ASSUME NEW n \in Nat, n \in T PROVE n + 1 \in T
        <3>1. PICK f : f \in F(n)
            BY <2>2
        <3> DEFINE g == [f EXCEPT ![n + 1] = h[n][f[n]]]
        <3>2. f \in [Nat -> V] /\ h[n][f[n]] \in V
            BY <3>1 DEF Follows
        <3>3. g \in [Nat -> V] /\ g[n + 1] = h[n][f[n]] /\ \A i \in Nat : i # n + 1 => g[i] = f[i]
            BY <3>2
        <3>4. \A i \in 0..n : g[i + 1] = h[i][g[i]]
            BY <3>1, <3>3 DEF Follows
        <3>5. g[0] = base
            BY <3>1, <3>3 DEF Follows
        <3> HIDE DEF g
        <3>6. g \in F(n + 1)
            BY <3>3, <3>4, <3>5 DEF Follows
        <3> QED BY <3>6
    <2> HIDE DEF T
    <2>3. Nat \subseteq T
        BY <2>1, <2>2, Induction
    <2> QED BY <2>3 DEF T
<1>2. ASSUME NEW n \in Nat, NEW m \in Nat, NEW f \in F(n), NEW g \in F(m)
      PROVE  \A i \in Nat : i <= n /\ i <= m => f[i] = g[i]
    <2> DEFINE T == {i \in Nat : i <= n /\ i <= m => f[i] = g[i]}
    <2>1. 0 \in T
        BY DEF Follows
    <2>2. ASSUME NEW i \in Nat, i \in T PROVE i + 1 \in T
        <3> SUFFICES ASSUME i + 1 <= n, i + 1 <= m PROVE f[i + 1] = g[i + 1]
            OBVIOUS
        <3>1. i \in 0..(n - 1) /\ i \in 0..(m - 1) /\ f[i] = g[i]
            BY <2>2
        <3> QED BY <3>1 DEF Follows
    <2> HIDE DEF T
    <2>3. Nat \subseteq T
        BY <2>1, <2>2, Induction
    <2> QED BY <2>3 DEF T
<1> DEFINE pick == [n \in Nat |-> CHOOSE f : f \in F(n)]
           sol == [n \in Nat |-> pick[n][n]]
<1>3. \A n \in Nat : pick[n] \in F(n)
    BY <1>1
<1> HIDE DEF pick
<1>4. sol \in [Nat -> V]
    BY <1>3 DEF Follows
<1>5. sol[0] = base
    BY <1>3 DEF Follows
<1>6. ASSUME NEW n \in Nat PROVE sol[n + 1] = h[n][sol[n]]
    <2>1. pick[n + 1] \in F(n + 1) /\ pick[n] \in F(n) /\ n \in 0..((n + 1) - 1)
        BY <1>3
    <2>2. pick[n + 1][n + 1] = h[n][pick[n + 1][n]]
        BY <2>1 DEF Follows
    <2>3. pick[n + 1][n] = pick[n][n]
        BY <1>2, <2>1
    <2> QED BY <2>2, <2>3
<1> QED BY <1>4, <1>5, <1>6 DEF Solves

-----------------------------------------------------------------------------
(* The backoff                                                               *)

LEMMA DoublingsDouble ==
    /\ Doublings \in [Nat -> Nat]
    /\ Doublings[0] = ReconnectDelay
    /\ \A n \in Nat : Doublings[n + 1] = 2 * Doublings[n]
<1> DEFINE h == [n \in Nat |-> [v \in Nat |-> 2 * v]]
           Law(f) == f = [n \in Nat |-> IF n = 0 THEN ReconnectDelay ELSE 2 * f[n - 1]]
<1>0. ReconnectDelay \in Nat
    BY ConnectionAssumption
<1>1. PICK f \in [Nat -> Nat] : Solves(f, ReconnectDelay, h)
    <2>1. h \in [Nat -> [Nat -> Nat]]
        OBVIOUS
    <2> HIDE DEF h
    <2> QED BY <1>0, <2>1, Recursion
<1>2. \A n \in Nat : f[n] = IF n = 0 THEN ReconnectDelay ELSE 2 * f[n - 1]
    <2>1. f[0] = ReconnectDelay /\ \A n \in Nat : f[n + 1] = 2 * f[n]
        BY <1>1 DEF Solves
    <2>2. ASSUME NEW n \in Nat, n # 0 PROVE f[n] = 2 * f[n - 1]
        <3>1. n - 1 \in Nat /\ (n - 1) + 1 = n
            BY <2>2
        <3>2. f[(n - 1) + 1] = 2 * f[n - 1]
            BY <2>1, <3>1
        <3> QED BY <3>1, <3>2
    <2> QED BY <2>1, <2>2
<1>3. Law(f)
    BY <1>2
<1>4. Doublings = CHOOSE g : Law(g)
    BY DEF Doublings
<1> HIDE DEF Law
<1>5. Law(Doublings)
    BY <1>3, <1>4
<1>6. \A n \in Nat : Doublings[n] = IF n = 0 THEN ReconnectDelay ELSE 2 * Doublings[n - 1]
    BY <1>5 DEF Law
<1>7. Doublings[0] = ReconnectDelay
    BY <1>6
<1>8. \A n \in Nat : Doublings[n + 1] = 2 * Doublings[n]
    <2> TAKE n \in Nat
    <2>1. n + 1 \in Nat /\ n + 1 # 0 /\ (n + 1) - 1 = n
        OBVIOUS
    <2> QED BY <1>6, <2>1
<1>9. Doublings \in [Nat -> Nat]
    <2> DEFINE T == {n \in Nat : Doublings[n] \in Nat}
    <2>1. 0 \in T
        BY <1>0, <1>7
    <2>2. \A n \in Nat : n \in T => n + 1 \in T
        BY <1>8
    <2> HIDE DEF T
    <2>3. Nat \subseteq T
        BY <2>1, <2>2, Induction
    <2>4. \A n \in Nat : Doublings[n] \in Nat
        BY <2>3 DEF T
    <2>5. DOMAIN Doublings = Nat /\ Doublings = [n \in Nat |-> Doublings[n]]
        BY <1>5 DEF Law
    <2> QED BY <2>4, <2>5
<1> QED BY <1>7, <1>8, <1>9

\* The delay after n failures in a row.
DelayAfter(n) == MinOf(Doublings[n], MaxReconnectDelay)

LEMMA DelayLaws ==
    /\ \A n \in Nat : DelayAfter(n) \in 0..MaxReconnectDelay
    /\ DelayAfter(0) = ReconnectDelay
    /\ \A n \in Nat : DelayAfter(n + 1) = MinOf(DelayAfter(n) * 2, MaxReconnectDelay)
<1>1. /\ \A n \in Nat : Doublings[n] \in Nat
      /\ ReconnectDelay \in Nat /\ MaxReconnectDelay \in Nat
      /\ ReconnectDelay <= MaxReconnectDelay
    BY DoublingsDouble, ConnectionAssumption
<1>2. \A n \in Nat : DelayAfter(n) \in 0..MaxReconnectDelay
    BY <1>1 DEF DelayAfter, MinOf
<1>3. DelayAfter(0) = ReconnectDelay
    BY <1>1, DoublingsDouble DEF DelayAfter, MinOf
<1>4. ASSUME NEW n \in Nat
      PROVE  DelayAfter(n + 1) = MinOf(DelayAfter(n) * 2, MaxReconnectDelay)
    <2>1. Doublings[n] \in Nat /\ Doublings[n + 1] = 2 * Doublings[n]
        BY <1>1, DoublingsDouble
    <2> QED BY <1>1, <2>1 DEF DelayAfter, MinOf
<1> QED BY <1>2, <1>3, <1>4

\* What the sleep of a backoff of ms milliseconds may be given.
WithinJitter(ms, w) ==
    /\ 100 * (w - 1) < ms * (100 + JitterPercent)
    /\ 100 * (w + 1) > ms * (100 - JitterPercent)
    /\ ms > 0 => w > 0

LEMMA JitterLaw ==
    ASSUME NEW ms \in Nat, NEW random \in {0, 50, 99}
    PROVE  /\ Jitter(ms, JitterPercent, random) \in Nat
           /\ WithinJitter(ms, Jitter(ms, JitterPercent, random))
<1> DEFINE J == JitterPercent
           Y == ms * J
           N == ms * ((100 - J) * 100 + 2 * J * random)
           W == Rounded(N)
<1>0. J \in Nat /\ J <= 100
    BY ConnectionAssumption
<1>1. Y \in Nat /\ Y <= 100 * ms
    BY <1>0
<1>2. ms * (100 + J) = 100 * ms + Y /\ ms * (100 - J) = 100 * ms - Y
    BY <1>0
<1>3. N = 10000 * ms - 100 * Y + 2 * random * Y
    <2>1. CASE random = 0
        BY <1>0, <2>1
    <2>2. CASE random = 50
        BY <1>0, <2>2
    <2>3. CASE random = 99
        BY <1>0, <2>3
    <2> QED BY <2>1, <2>2, <2>3
<1> HIDE DEF Y, N
<1>4. N \in Int /\ 10000 * ms - 100 * Y <= N /\ N <= 10000 * ms + 98 * Y
    BY <1>1, <1>3
<1>5. W \in Int /\ 10000 * W <= N + 5000 /\ N + 5000 < 10000 * W + 10000
    BY <1>4 DEF Rounded
<1> HIDE DEF W
<1>6. CASE ms = 0 \/ J = 0
    <2>1. Jitter(ms, JitterPercent, random) = ms
        BY <1>6 DEF Jitter
    <2>2. Y = 0
        BY <1>0, <1>6 DEF Y
    <2> QED BY <1>2, <2>1, <2>2 DEF WithinJitter
<1>7. CASE ms # 0 /\ J # 0
    <2>1. Jitter(ms, JitterPercent, random) = MaxOf(1, W)
        BY <1>7 DEF Jitter, W, N
    <2>2. MaxOf(1, W) \in Nat /\ MaxOf(1, W) >= 1 /\ (MaxOf(1, W) = W \/ (MaxOf(1, W) = 1 /\ W <= 1))
        BY <1>5 DEF MaxOf
    <2> DEFINE w == MaxOf(1, W)
    <2> HIDE DEF w
    <2>3. 100 * (w - 1) < 100 * ms + Y
        BY <1>1, <1>4, <1>5, <1>7, <2>2 DEF w
    <2>4. 100 * (w + 1) > 100 * ms - Y
        BY <1>1, <1>4, <1>5, <1>7, <2>2 DEF w
    <2> QED BY <1>2, <2>1, <2>2, <2>3, <2>4 DEF WithinJitter, w
<1> QED BY <1>6, <1>7

\* The delay, and the sleep, go by the failures in a row.
BackoffInv ==
    /\ failures \in 0..attempts /\ wait \in Nat /\ delay \in 0..MaxReconnectDelay
    /\ loop = "opening" => failures < attempts
    /\ loop \in {"idle", "opening"} => delay = DelayAfter(failures)
    /\ loop = "attached" => failures = 0
    /\ loop = "sleeping" =>
        /\ failures > 0
        /\ delay = DelayAfter(failures - 1)
        /\ WithinJitter(delay, wait)

LEMMA BackoffStep ==
    ASSUME ConnInv, BackoffInv, [ConnNext]_connVars
    PROVE  BackoffInv'
<1>0. /\ attempts \in Nat /\ failures \in Nat /\ failures <= attempts
      /\ ReconnectDelay \in 0..MaxReconnectDelay
    BY SocketsAreNumbers, ConnectionAssumption DEF ConnInv, ConnTyped, BackoffInv
<1>1. CASE Start
    BY <1>0, <1>1 DEF Start, Continue, BackoffInv
<1>2. CASE SleepEnds
    <2>1. failures - 1 \in Nat /\ (failures - 1) + 1 = failures /\ delay = DelayAfter(failures - 1)
        BY <1>0, <1>2 DEF SleepEnds, BackoffInv
    <2>2. delay' = DelayAfter(failures) /\ delay' \in 0..MaxReconnectDelay
        BY <1>0, <1>2, <2>1, DelayLaws DEF SleepEnds, Doubled
    <2> QED BY <1>0, <1>2, <2>2 DEF SleepEnds, Continue, BackoffInv
<1>3. CASE Abort
    <2>1. delay' \in 0..MaxReconnectDelay
        BY <1>3, ConnectionAssumption DEF Abort, Doubled, MinOf, BackoffInv
    <2> QED BY <1>0, <1>3, <2>1 DEF Abort, BackoffInv
<1>4. ASSUME NEW c \in Sockets, OpenEvent(c) PROVE BackoffInv'
    BY <1>0, <1>4 DEF OpenEvent, BackoffInv
<1>5. ASSUME NEW c \in Sockets, ErrorBeforeOpen(c) PROVE BackoffInv'
    <2>1. loop = "opening"
        BY <1>5 DEF ErrorBeforeOpen, ConnInv, LoopFollows
    <2>2. failures < attempts /\ delay = DelayAfter(failures) /\ delay \in Nat
        BY <2>1 DEF BackoffInv
    <2>3. failures' = failures + 1 /\ attempts' = attempts /\ delay' = delay
        BY <1>5 DEF ErrorBeforeOpen
    <2>4. CASE aborted
        BY <1>0, <1>5, <2>2, <2>3, <2>4 DEF ErrorBeforeOpen, BackoffInv
    <2>5. CASE ~aborted
        <3>1. loop' = "sleeping" /\ wait' \in Nat /\ WithinJitter(delay, wait')
            BY <1>5, <2>2, <2>5, JitterLaw DEF ErrorBeforeOpen
        <3>2. failures' - 1 = failures
            BY <1>0, <2>3
        <3> QED BY <1>0, <2>2, <2>3, <3>1, <3>2 DEF BackoffInv, WithinJitter
    <2> QED BY <2>4, <2>5
<1>6. ASSUME NEW c \in Sockets, NEW socks, sock[c] = "open", FinishClosed(c, socks),
             UNCHANGED <<wait, failures>>
      PROVE  BackoffInv'
    <2>1. failures = 0
        BY <1>6 DEF ConnInv, LoopFollows, BackoffInv
    <2>2. delay' = DelayAfter(0)
        BY <1>6, DelayLaws DEF FinishClosed, ResetDelay
    <2> QED BY <1>0, <1>6, <2>1, <2>2, DelayLaws DEF FinishClosed, ResetDelay, Continue, BackoffInv
<1>7. ASSUME NEW c \in Sockets, ErrorAfterOpen(c) PROVE BackoffInv'
    BY <1>6, <1>7 DEF ErrorAfterOpen
<1>8. ASSUME NEW c \in Sockets, CloseEvent(c) PROVE BackoffInv'
    <2>1. CASE ~finished[c] /\ opened[c]
        <3>1. sock[c] = "open"
            BY <2>1 DEF ConnInv, OpenedThenFinished
        <3> QED BY <1>6, <1>8, <2>1, <3>1 DEF CloseEvent, EndConnection
    <2>2. CASE finished[c] \/ ~opened[c]
        <3>1. UNCHANGED <<attempts, loop, delay, wait, failures>>
            BY <1>8, <2>2 DEF CloseEvent, EndConnection, OnlyClear
        <3> QED BY <3>1 DEF BackoffInv, WithinJitter
    <2> QED BY <2>1, <2>2
<1>9. CASE UNCHANGED connVars
    BY <1>9 DEF connVars, BackoffInv, WithinJitter
<1> QED BY <1>1, <1>2, <1>3, <1>4, <1>5, <1>7, <1>8, <1>9 DEF ConnNext, SocketEvent

LEMMA BackoffAlways == ConnSpec => []BackoffInv
<1>1. ConnInit => BackoffInv
    BY DelayLaws, ConnectionAssumption DEF ConnInit, BackoffInv
<1>2. ConnInv /\ BackoffInv /\ [ConnNext]_connVars => BackoffInv'
    BY BackoffStep
<1> QED BY <1>1, <1>2, ConnLaws, PTL DEF ConnSpec

\* start(), connectOnce, applyJitter: the n-th failure in a row waits
\* base * 2^(n-1), capped, within the jitter, for any delays, any jitter up to
\* 100% and any number of failures; a connection that opened starts again.
THEOREM BackoffDoubles == ConnSpec => []BackoffLaw
<1>1. BackoffInv => BackoffLaw
    BY DEF BackoffInv, BackoffLaw, DelayAfter, WithinJitter
<1> QED BY <1>1, BackoffAlways, PTL

\* The types of the connection's state; delayMs never exceeds its maximum.
THEOREM ConnTypesHold == ConnSpec => []ConnTypeOK
<1> DEFINE ReportTyped ==
        reported \in [state : {"unknown", "connected", "disconnected"}, error : BOOLEAN]
<1>1. ConnInit => ReportTyped
    BY DEF ConnInit
<1>2. ReportTyped /\ [ConnNext]_connVars => ReportTyped'
    <2>1. Connected \in [state : {"unknown", "connected", "disconnected"}, error : BOOLEAN]
        BY DEF Connected
    <2>2. \A error \in BOOLEAN : Disconnected(error)
                \in [state : {"unknown", "connected", "disconnected"}, error : BOOLEAN]
        BY DEF Disconnected
    <2>3. [ConnNext]_connVars
            => reported' \in {reported, Connected, Disconnected(TRUE), Disconnected(FALSE)}
        BY DEF ConnNext, SocketEvent, Start, SleepEnds, Abort, OpenEvent, ErrorBeforeOpen,
               ErrorAfterOpen, CloseEvent, ReportClose, connVars
    <2> QED BY <2>1, <2>2, <2>3
<1>3. ConnInv /\ BackoffInv /\ ReportTyped => ConnTypeOK
    BY SocketsAreNumbers DEF ConnInv, ConnTyped, States, BackoffInv, ConnTypeOK
<1> HIDE DEF ReportTyped
<1> QED BY <1>1, <1>2, <1>3, ConnLaws, BackoffAlways, PTL DEF ConnSpec

-----------------------------------------------------------------------------
(* The connection takes only its own steps.                                  *)

LEMMA PtyStepIsConnStep == [Next]_vars => [ConnNext]_connVars
BY DEF Next, ConnectionStep, vars

LEMMA UsesConnection == Spec => ConnSpec
<1>1. Init => ConnInit
    BY DEF Init
<1> QED BY <1>1, PtyStepIsConnStep, PTL DEF Spec, ConnSpec

-----------------------------------------------------------------------------
(* What is kept of each PTY                                                  *)

PtyTyped ==
    /\ sessions \subseteq Ptys
    /\ ptyRequest \in [Ptys -> 0..MaxAttempts]
    /\ terminal \in [Ptys -> {"none", "open", "closed"}]
    /\ proc \in [Ptys -> {"none", "running", "exited", "reaped"}]
    /\ openedOn \in [Ptys -> 0..MaxAttempts]
    /\ exitSent \subseteq Ptys

\* An exit that was sent, or handled unsent, leaves no request id behind.
ReapedIsForgotten ==
    \A p \in Ptys :
        /\ proc[p] \in {"none", "reaped"} => ptyRequest[p] = 0
        /\ p \in exitSent => proc[p] = "reaped"

PtyInv ==
    /\ PtyTyped
    /\ PtysEndWithConnection
    /\ ReapedIsForgotten
    /\ IsFiniteSet(sessions)
    /\ SessionsBounded

\* A step of a PTY leaves the connection alone, and most leave its owner.
LEMMA AttachedStays ==
    ASSUME NEW p \in Ptys, sock' = sock, openedOn'[p] = openedOn[p]
    PROVE  Attached(p)' <=> Attached(p)
BY DEF Attached

LEMMA PtyOpenStep ==
    ASSUME ConnInv, PtyInv, UNCHANGED connVars, NEW c \in Sockets, NEW p \in Ptys, PtyOpen(c, p)
    PROVE  PtyInv'
<1> USE DEF PtyInv
<1>0. sock' = sock
    BY DEF connVars
<1>1. /\ sessions' = sessions \cup {p}
      /\ ptyRequest' = [ptyRequest EXCEPT ![p] = c]
      /\ terminal' = [terminal EXCEPT ![p] = "open"]
      /\ proc' = [proc EXCEPT ![p] = "running"]
      /\ openedOn' = [openedOn EXCEPT ![p] = c]
      /\ exitSent' = exitSent
      /\ sock[c] = "open" /\ proc[p] = "none" /\ HasRoom
    BY DEF PtyOpen
<1>2. PtyTyped'
    BY <1>1, SocketsAreNumbers DEF PtyTyped
<1>3. PtysEndWithConnection'
    <2> SUFFICES ASSUME NEW q \in Ptys
                 PROVE  /\ q \in sessions' => Attached(q)'
                        /\ ptyRequest'[q] # 0 =>
                              ptyRequest'[q] = openedOn'[q] /\ Attached(q)'
        BY DEF PtysEndWithConnection
    <2>1. CASE q = p
        BY <1>0, <1>1, <2>1 DEF PtyTyped, Attached
    <2>2. CASE q # p
        <3>1. openedOn'[q] = openedOn[q] /\ ptyRequest'[q] = ptyRequest[q]
            BY <1>1, <2>2 DEF PtyTyped
        <3>2. q \in sessions' => q \in sessions
            BY <1>1, <2>2
        <3> QED BY <1>0, <3>1, <3>2, AttachedStays DEF PtysEndWithConnection
    <2> QED BY <2>1, <2>2
<1>4. ReapedIsForgotten'
    BY <1>1 DEF ReapedIsForgotten, PtyTyped
<1>5. IsFiniteSet(sessions') /\ SessionsBounded'
    <2>1. IsFiniteSet(sessions') /\ Cardinality(sessions') <= Cardinality(sessions) + 1
        <3>1. Cardinality(sessions) \in Nat
            BY FS_CardinalityType
        <3>2. /\ IsFiniteSet(sessions \cup {p})
              /\ \/ Cardinality(sessions \cup {p}) = Cardinality(sessions)
                 \/ Cardinality(sessions \cup {p}) = Cardinality(sessions) + 1
            BY FS_AddElement
        <3> QED BY <1>1, <3>1, <3>2
    <2>2. Cardinality(sessions') <= MaxPtys
        BY <1>1, <2>1, FS_CardinalityType, PtyAssumption DEF HasRoom
    <2>3. sessions' = {q \in Ptys : terminal'[q] = "open" /\ proc'[q] # "reaped"}
        BY <1>1 DEF SessionsBounded, PtyTyped
    <2> QED BY <2>1, <2>2, <2>3 DEF SessionsBounded
<1> QED BY <1>2, <1>3, <1>4, <1>5

\* A close, an exit or a data event: sessions and request ids only go.
LEMMA PtyEventStep ==
    ASSUME PtyInv, UNCHANGED connVars, NEW p \in Ptys,
           \/ \E c \in Sockets : PtyClose(c, p)
           \/ ProcExits(p) \/ DataCallback(p) \/ ExitCallback(p)
    PROVE  PtyInv'
<1> USE DEF PtyInv
<1>0. sock' = sock
    BY DEF connVars
<1>1. /\ sessions' \subseteq sessions
      /\ openedOn' = openedOn
      /\ ptyRequest' = ptyRequest \/ ptyRequest' = [ptyRequest EXCEPT ![p] = 0]
    BY DEF PtyClose, ProcExits, DataCallback, ExitCallback, DropRequest, ptyVars
<1>2. PtyTyped'
    <2>1. ptyRequest' \in [Ptys -> 0..MaxAttempts]
        BY <1>1, SocketsAreNumbers DEF PtyTyped
    <2>2. /\ terminal' \in [Ptys -> {"none", "open", "closed"}]
          /\ proc' \in [Ptys -> {"none", "running", "exited", "reaped"}]
          /\ exitSent' \subseteq Ptys
        BY DEF PtyTyped, PtyClose, ProcExits, DataCallback, ExitCallback, ptyVars
    <2> QED BY <1>1, <2>1, <2>2 DEF PtyTyped
<1>3. PtysEndWithConnection'
    <2>1. ASSUME NEW q \in Ptys
          PROVE  ptyRequest'[q] = ptyRequest[q] \/ ptyRequest'[q] = 0
        BY <1>1 DEF PtyTyped
    <2>2. ASSUME NEW q \in Ptys PROVE Attached(q)' <=> Attached(q)
        BY <1>0, <1>1, AttachedStays
    <2> QED BY <1>1, <2>1, <2>2 DEF PtysEndWithConnection
<1>4. ReapedIsForgotten'
    BY DEF ReapedIsForgotten, PtyTyped, PtyClose, ProcExits, DataCallback, ExitCallback,
           DropRequest, ptyVars
<1>5. sessions' = {q \in Ptys : terminal'[q] = "open" /\ proc'[q] # "reaped"}
    BY DEF SessionsBounded, PtyTyped, PtyClose, ProcExits, DataCallback, ExitCallback, ptyVars
<1>6. IsFiniteSet(sessions') /\ Cardinality(sessions') <= MaxPtys
    BY <1>1, FS_Subset, FS_CardinalityType, PtyAssumption DEF SessionsBounded
<1> QED BY <1>2, <1>3, <1>4, <1>5, <1>6 DEF SessionsBounded

\* A step of the connection: it runs closeAll, or every open socket stays.
LEMMA PtyConnStep ==
    ASSUME ConnInv, ReportedTruth, PtyInv, ConnectionStep
    PROVE  PtyInv'
<1> USE DEF PtyInv
<1>1. \A d \in Sockets : sock[d] = "open" /\ sock'[d] # "open" => Finished
    BY ConnStep DEF ConnectionStep, Finished
<1>2. CASE Finished
    <2>1. /\ terminal' = [p \in Ptys |-> IF p \in sessions THEN "closed" ELSE terminal[p]]
          /\ sessions' = {} /\ ptyRequest' = [p \in Ptys |-> 0]
          /\ proc' = proc /\ openedOn' = openedOn /\ exitSent' = exitSent
        BY <1>2 DEF ConnectionStep, CloseAll
    <2>2. PtyTyped'
        BY <2>1, SocketsAreNumbers DEF PtyTyped
    <2>3. PtysEndWithConnection' /\ ReapedIsForgotten'
        BY <2>1 DEF PtysEndWithConnection, ReapedIsForgotten
    <2>4. sessions' = {p \in Ptys : terminal'[p] = "open" /\ proc'[p] # "reaped"}
        BY <2>1 DEF SessionsBounded, PtyTyped
    <2>5. IsFiniteSet(sessions') /\ Cardinality(sessions') <= MaxPtys
        BY <2>1, FS_EmptySet, PtyAssumption
    <2> QED BY <2>2, <2>3, <2>4, <2>5 DEF SessionsBounded
<1>3. CASE ~Finished
    <2>1. /\ terminal' = terminal /\ sessions' = sessions /\ ptyRequest' = ptyRequest
          /\ proc' = proc /\ openedOn' = openedOn /\ exitSent' = exitSent
        BY <1>3 DEF ConnectionStep, ptyVars
    <2>2. ASSUME NEW p \in Ptys, Attached(p) PROVE Attached(p)'
        BY <1>1, <1>3, <2>1, <2>2 DEF Attached
    <2>3. PtysEndWithConnection'
        BY <2>1, <2>2 DEF PtysEndWithConnection
    <2> QED BY <2>1, <2>3 DEF PtyTyped, ReapedIsForgotten, SessionsBounded
<1> QED BY <1>2, <1>3

-----------------------------------------------------------------------------
(* Events                                                                    *)

\* Emit sends one event, to the connection that opened the PTY, or none.
LEMMA EmitProperties ==
    ASSUME ConnInv, PtyInv, NEW p \in Ptys, NEW event \in {"pty_output", "pty_exit"}
    PROVE  /\ Emit(event, p) \in Seq(PtyEvents)
           /\ \A i \in DOMAIN Emit(event, p) :
                /\ Emit(event, p)[i].conn = openedOn[p]
                /\ sock[openedOn[p]] = "open"
                /\ Emit(event, p)[i].pty = p
                /\ ptyRequest[p] # 0
<1>1. CASE current = 0 \/ ptyRequest[p] = 0
    <2>1. Emit(event, p) = <<>>
        BY <1>1 DEF Emit
    <2> QED BY <2>1, EmptySeq
<1>2. CASE current # 0 /\ ptyRequest[p] # 0
    <2> DEFINE e == [event |-> event, pty |-> p, conn |-> current]
    <2>1. Emit(event, p) = <<e>>
        BY <1>2 DEF Emit
    <2>2. Attached(p)
        BY <1>2 DEF PtyInv, PtysEndWithConnection
    <2>3. openedOn[p] \in Sockets /\ sock[openedOn[p]] = "open" /\ current = openedOn[p]
        BY <2>2 DEF Attached, ConnInv, LiveIsLatest, Live
    <2>4. e \in PtyEvents
        BY <2>3 DEF PtyEvents
    <2>5. e.conn = openedOn[p] /\ e.pty = p
        BY <2>3
    <2> HIDE DEF e
    <2>6. <<e>> \in Seq(PtyEvents) /\ DOMAIN <<e>> = {1} /\ <<e>>[1] = e
        BY <2>4
    <2> QED BY <1>2, <2>1, <2>3, <2>5, <2>6
<1> QED BY <1>1, <1>2

\* What a step sends.
SendsRightly ==
    \A i \in DOMAIN wire' :
        /\ wire'[i].pty \in Ptys
        /\ wire'[i].conn = openedOn[wire'[i].pty]
        /\ sock[openedOn[wire'[i].pty]] = "open"
        /\ ptyRequest[wire'[i].pty] # 0

LEMMA SendStep ==
    ASSUME ConnInv, PtyInv, NEW p \in Ptys, DataCallback(p) \/ ExitCallback(p)
    PROVE  SendsRightly
<1> DEFINE out == Emit("pty_output", p)
           exit == Emit("pty_exit", p)
<1>1. /\ out \in Seq(PtyEvents)
      /\ \A i \in DOMAIN out : /\ out[i].conn = openedOn[p] /\ sock[openedOn[p]] = "open"
                               /\ out[i].pty = p /\ ptyRequest[p] # 0
    BY EmitProperties
<1>2. /\ exit \in Seq(PtyEvents)
      /\ \A i \in DOMAIN exit : /\ exit[i].conn = openedOn[p] /\ sock[openedOn[p]] = "open"
                                /\ exit[i].pty = p /\ ptyRequest[p] # 0
    BY EmitProperties
<1>3. wire' = out \/ wire' = <<>> \o exit \/ wire' = out \o exit
    BY DEF DataCallback, ExitCallback
<1> HIDE DEF out, exit
<1>4. CASE wire' = out
    BY <1>1, <1>4 DEF SendsRightly
<1>5. ASSUME NEW tail \in Seq(PtyEvents), tail = <<>> \/ tail = out, wire' = tail \o exit
      PROVE  SendsRightly
    <2>1. /\ wire' \in Seq(PtyEvents)
          /\ Len(wire') = Len(tail) + Len(exit)
          /\ \A i \in 1..Len(wire') :
                wire'[i] = IF i <= Len(tail) THEN tail[i] ELSE exit[i - Len(tail)]
        BY <1>2, <1>5, ConcatProperties
    <2>2. /\ DOMAIN wire' = 1..Len(wire') /\ DOMAIN tail = 1..Len(tail)
          /\ DOMAIN exit = 1..Len(exit)
          /\ Len(tail) \in Nat /\ Len(exit) \in Nat
        BY <1>2, <1>5, <2>1, LenProperties
    <2>3. \A i \in DOMAIN tail : i \in DOMAIN out /\ tail[i] = out[i]
        BY <1>5, EmptySeq
    <2> SUFFICES ASSUME NEW i \in DOMAIN wire'
                 PROVE  /\ wire'[i].pty = p /\ wire'[i].conn = openedOn[p]
                        /\ sock[openedOn[p]] = "open" /\ ptyRequest[p] # 0
        BY DEF SendsRightly
    <2>4. CASE i <= Len(tail)
        BY <1>1, <2>1, <2>2, <2>3, <2>4
    <2>5. CASE ~(i <= Len(tail))
        <3>1. i - Len(tail) \in DOMAIN exit /\ wire'[i] = exit[i - Len(tail)]
            BY <2>1, <2>2, <2>5
        <3> QED BY <1>2, <3>1
    <2> QED BY <2>4, <2>5
<1> QED BY <1>1, <1>3, <1>4, <1>5, EmptySeq

\* The other steps send nothing.
LEMMA StepCases ==
    ASSUME [Next]_vars
    PROVE  \/ ConnectionStep /\ wire' = <<>>
           \/ \E p \in Ptys : /\ DataCallback(p) \/ ExitCallback(p)
                              /\ UNCHANGED connVars /\ openedOn' = openedOn
           \/ \E p \in Ptys : /\ ProcExits(p) \/ \E c \in Sockets : PtyOpen(c, p) \/ PtyClose(c, p)
                              /\ UNCHANGED connVars
                              /\ wire' = <<>>
           \/ UNCHANGED vars
BY DEF Next, PtyStep, ConnectionStep, DataCallback, ExitCallback, ProcExits, PtyOpen, PtyClose,
       ptyVars

LEMMA PtyInvStep ==
    ASSUME ConnInv, ReportedTruth, PtyInv, [Next]_vars
    PROVE  PtyInv'
<1>1. ASSUME NEW p \in Ptys, PtyStep(p), UNCHANGED connVars PROVE PtyInv'
    BY <1>1, PtyOpenStep, PtyEventStep DEF PtyStep
<1>2. ASSUME UNCHANGED vars PROVE PtyInv'
    <2>1. /\ terminal' = terminal /\ sessions' = sessions /\ ptyRequest' = ptyRequest
          /\ proc' = proc /\ openedOn' = openedOn /\ exitSent' = exitSent /\ sock' = sock
        BY <1>2 DEF vars, ptyVars, connVars
    <2> QED BY <2>1 DEF PtyInv, PtyTyped, PtysEndWithConnection, ReapedIsForgotten,
                        SessionsBounded, Attached
<1> QED BY <1>1, <1>2, PtyConnStep DEF Next

LEMMA PtyStart == Init => PtyInv /\ EventsOnOwnConnection
<1> SUFFICES ASSUME Init PROVE PtyInv /\ EventsOnOwnConnection
    OBVIOUS
<1> USE DEF Init
<1>1. 0 \in 0..MaxAttempts
    BY SocketsAreNumbers
<1>2. PtyTyped /\ PtysEndWithConnection /\ ReapedIsForgotten
    BY <1>1 DEF PtyTyped, PtysEndWithConnection, ReapedIsForgotten
<1>3. IsFiniteSet(sessions) /\ SessionsBounded
    <2>1. IsFiniteSet(sessions) /\ Cardinality(sessions) = 0
        BY FS_EmptySet
    <2>2. sessions = {p \in Ptys : terminal[p] = "open" /\ proc[p] # "reaped"}
        OBVIOUS
    <2> QED BY <2>1, <2>2, PtyAssumption DEF SessionsBounded
<1>4. EventsOnOwnConnection
    BY EmptySeq DEF EventsOnOwnConnection
<1> QED BY <1>2, <1>3, <1>4 DEF PtyInv

LEMMA PtyLaws == Spec => [](ConnInv /\ ReportedTruth /\ PtyInv)
<1>1. ConnInv /\ ReportedTruth /\ PtyInv /\ [Next]_vars => PtyInv'
    BY PtyInvStep
<1> QED BY <1>1, PtyStart, UsesConnection, ConnLaws, PTL DEF Spec

\* finishClosed: no session and no request id outlives its connection.
THEOREM PtysEnd == Spec => []PtysEndWithConnection
<1>1. PtyInv => PtysEndWithConnection
    BY DEF PtyInv
<1> QED BY <1>1, PtyLaws, PTL

\* HostPtyService: the sessions are the open terminals, within the cap.
THEOREM SessionsWithinCap == Spec => []SessionsBounded
<1>1. PtyInv => SessionsBounded
    BY DEF PtyInv
<1> QED BY <1>1, PtyLaws, PTL

\* emitPtyOutput, emitPtyExit: events go only to the connection that opened
\* the PTY, while it is open.
THEOREM EventsStayHome == Spec => []EventsOnOwnConnection
<1>1. ConnInv /\ PtyInv /\ EventsOnOwnConnection /\ [Next]_vars => EventsOnOwnConnection'
    <2> SUFFICES ASSUME ConnInv, PtyInv, EventsOnOwnConnection, [Next]_vars
                 PROVE  EventsOnOwnConnection'
        OBVIOUS
    <2>1. ASSUME NEW p \in Ptys, DataCallback(p) \/ ExitCallback(p),
                 UNCHANGED connVars, openedOn' = openedOn
          PROVE  EventsOnOwnConnection'
        <3>1. SendsRightly /\ sock' = sock
            BY <2>1, SendStep DEF connVars
        <3> QED BY <2>1, <3>1 DEF SendsRightly, EventsOnOwnConnection
    <2>2. CASE wire' = <<>>
        BY <2>2, EmptySeq DEF EventsOnOwnConnection
    <2>3. CASE UNCHANGED vars
        BY <2>3 DEF vars, ptyVars, connVars, EventsOnOwnConnection
    <2> QED BY <2>1, <2>2, <2>3, StepCases
<1> QED BY <1>1, PtyStart, PtyLaws, PTL DEF Spec

\* pty.ts, the exit handler: nothing of a PTY is sent after its exit.
THEOREM ExitIsLast == Spec => NothingAfterExit
<1>1. ConnInv /\ PtyInv /\ [Next]_vars
        => [\A i \in DOMAIN wire' : wire'[i].pty \notin exitSent]_vars
    <2> SUFFICES ASSUME ConnInv, PtyInv, [Next]_vars, ~UNCHANGED vars
                 PROVE  \A i \in DOMAIN wire' : wire'[i].pty \notin exitSent
        OBVIOUS
    <2>1. ASSUME NEW p \in Ptys, DataCallback(p) \/ ExitCallback(p)
          PROVE  \A i \in DOMAIN wire' : wire'[i].pty \notin exitSent
        <3>1. SendsRightly
            BY <2>1, SendStep
        <3> QED BY <3>1 DEF SendsRightly, PtyInv, ReapedIsForgotten
    <2>2. CASE wire' = <<>>
        BY <2>2, EmptySeq
    <2> QED BY <2>1, <2>2, StepCases
<1> QED BY <1>1, PtyLaws, PTL DEF Spec, NothingAfterExit

\* The types of the connection and of the PTYs; what is sent goes to a socket.
THEOREM PtyTypesHold == Spec => []TypeOK
<1> DEFINE WireTyped == wire \in Seq(PtyEvents)
<1>1. Init => WireTyped
    BY EmptySeq DEF Init
<1>2. ConnInv /\ PtyInv /\ WireTyped /\ [Next]_vars => WireTyped'
    <2> SUFFICES ASSUME ConnInv, PtyInv, WireTyped, [Next]_vars PROVE WireTyped'
        OBVIOUS
    <2>1. ASSUME NEW p \in Ptys, DataCallback(p) \/ ExitCallback(p) PROVE WireTyped'
        <3> DEFINE out == Emit("pty_output", p)
                   exit == Emit("pty_exit", p)
        <3>1. out \in Seq(PtyEvents) /\ exit \in Seq(PtyEvents) /\ <<>> \in Seq(PtyEvents)
            BY EmitProperties, EmptySeq
        <3>2. wire' = out \/ wire' = <<>> \o exit \/ wire' = out \o exit
            BY <2>1 DEF DataCallback, ExitCallback
        <3> HIDE DEF out, exit
        <3> QED BY <3>1, <3>2, ConcatProperties
    <2>2. CASE wire' = <<>>
        BY <2>2, EmptySeq
    <2>3. CASE UNCHANGED vars
        BY <2>3 DEF vars
    <2> QED BY <2>1, <2>2, <2>3, StepCases
<1>3. ConnTypeOK /\ PtyInv /\ WireTyped => TypeOK
    BY DEF PtyInv, PtyTyped, TypeOK
<1> HIDE DEF WireTyped
<1> QED BY <1>1, <1>2, <1>3, PtyLaws, UsesConnection, ConnTypesHold, PTL DEF Spec
=============================================================================
