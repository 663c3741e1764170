---------------------------- MODULE LogContract ----------------------------
(* What get_logs promises a control plane that pages through the log of a    *)
(* session by the last cursor it was given: of the last LogLimit entries it  *)
(* gets those it has not read yet, oldest first and without a gap, and is    *)
(* told whether more are left. How a log is stored is not part of it.        *)
EXTENDS Integers, Sequences

CONSTANTS Sessions, LogLimit, PageSizes

VARIABLES live,      \* the sessions there are
          next,      \* the cursor the next entry of each gets
          position,  \* the last cursor the reader was given of each
          given      \* what the last step gave the reader

vars == <<live, next, position, given>>

Nothing == [session |-> {}, cursors |-> <<>>, more |-> FALSE]

\* The oldest cursor that is retained and unread; next if there is none.
Oldest(s) ==
    IF position[s] + 1 > next[s] - LogLimit THEN position[s] + 1 ELSE next[s] - LogLimit

Init ==
    /\ live = {}
    /\ next = [s \in Sessions |-> 1]
    /\ position = [s \in Sessions |-> 0]
    /\ given = Nothing

\* A session has an empty log when it is created, also not for the first time.
Create(s) ==
    /\ s \notin live
    /\ live' = live \cup {s}
    /\ next' = [next EXCEPT ![s] = 1]
    /\ position' = [position EXCEPT ![s] = 0]
    /\ given' = Nothing

Destroy(s) ==
    /\ s \in live
    /\ live' = live \ {s}
    /\ given' = Nothing
    /\ UNCHANGED <<next, position>>

\* A chunk, or a chunk and a warning about it.
Record(s) ==
    /\ s \in live
    /\ \E n \in {1, 2} : next' = [next EXCEPT ![s] = @ + n]
    /\ given' = Nothing
    /\ UNCHANGED <<live, position>>

Give(s) ==
    /\ s \in live
    /\ \E limit \in PageSizes :
        LET unread == next[s] - Oldest(s)
            size == IF limit < unread THEN limit ELSE unread
        IN
        /\ given' = [session |-> {s},
                     cursors |-> [k \in 1..size |-> Oldest(s) + k - 1],
                     more |-> size < unread]
        /\ position' = [position EXCEPT ![s] = IF size = 0 THEN @ ELSE Oldest(s) + size - 1]
    /\ UNCHANGED <<live, next>>

\* Anything else the agent does.
Elsewhere ==
    /\ given' = Nothing
    /\ UNCHANGED <<live, next, position>>

Next ==
    \/ \E s \in Sessions : Create(s) \/ Destroy(s) \/ Record(s) \/ Give(s)
    \/ Elsewhere

Spec == Init /\ [][Next]_vars
=============================================================================
