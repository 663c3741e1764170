-------------------------- MODULE SessionLogProofs --------------------------
(* Theorems of SessionLog: what the retained entries of a session are, that  *)
(* a cursor names one entry, and what a reader is given.                     *)
EXTENDS SessionLog, FiniteSetTheorems, SequenceTheorems, TLAPS

-----------------------------------------------------------------------------
(* Lists of entries with consecutive cursors                                 *)

\* The last entries before the cursor c, as many as the limit allows.
TailUpTo(entries, c) ==
    /\ entries \in Seq(Entries)
    /\ Len(entries) = MinOf(LogLimit, c - 1)
    /\ \A i \in 1..Len(entries) : entries[i].cursor = c - Len(entries) + i - 1

\* What new lists is in old, or has a cursor from c on.
Adds(old, new, c) ==
    \A j \in DOMAIN new :
        (\E k \in DOMAIN old : new[j] = old[k]) \/ new[j].cursor >= c

LEMMA PushProperties ==
    ASSUME NEW entries, NEW c \in Nat \ {0}, TailUpTo(entries, c),
           NEW stream \in Streams, NEW w \in Writers
    PROVE  /\ TailUpTo(Push(entries, c, stream, w), c + 1)
           /\ Adds(entries, Push(entries, c, stream, w), c)
<1> DEFINE new == [cursor |-> c, stream |-> stream, by |-> w]
           all == Append(entries, new)
           n == Len(entries)
<1>1. new \in Entries /\ new.cursor = c
    BY DEF Entries
<1>2. entries \in Seq(Entries) /\ n \in Nat /\ DOMAIN entries = 1..n
    BY LenProperties DEF TailUpTo
<1>3. n = MinOf(LogLimit, c - 1) /\ LogLimit \in Nat
    BY LogAssumption DEF TailUpTo
<1> HIDE DEF new
<1>4. /\ all \in Seq(Entries) /\ Len(all) = n + 1
      /\ \A i \in 1..n : all[i] = entries[i]
      /\ all[n + 1] = new
    BY <1>1, <1>2, AppendProperties
<1>5. /\ \A i \in 1..(n + 1) : all[i].cursor = c - n + i - 1
      /\ \A i \in 1..(n + 1) : i <= n \/ all[i].cursor = c
    BY <1>1, <1>2, <1>4 DEF TailUpTo
<1>6. Push(entries, c, stream, w) = Cut(all)
    BY DEF Push, new
<1> HIDE DEF all, n
<1>7. CASE Len(all) > LogLimit
    <2>1. n = LogLimit
        BY <1>2, <1>3, <1>4, <1>7 DEF MinOf
    <2>2. Cut(all) = SubSeq(all, 2, n + 1)
        <3>1. Len(all) - LogLimit + 1 = 2
            BY <1>2, <1>4, <2>1
        <3> QED BY <1>4, <1>7, <3>1 DEF Cut
    <2>3. \A i \in 2..(n + 1) : all[i] \in Entries
        BY <1>2, <1>4, ElementOfSeq
    <2>4. /\ Cut(all) \in Seq(Entries)
          /\ Len(Cut(all)) = n
          /\ \A i \in 1..n : Cut(all)[i] = all[i + 1]
        BY <1>2, <2>2, <2>3, SubSeqProperties
    <2>5. MinOf(LogLimit, (c + 1) - 1) = n
        BY <1>2, <1>3, <2>1 DEF MinOf
    <2>6. \A i \in 1..n : Cut(all)[i].cursor = (c + 1) - n + i - 1
        BY <1>2, <1>5, <2>4
    <2>7. DOMAIN Cut(all) = 1..n
        BY <2>4, LenProperties
    <2>8. Adds(entries, Cut(all), c)
        <3> SUFFICES ASSUME NEW j \in 1..n
                     PROVE  (\E k \in DOMAIN entries : Cut(all)[j] = entries[k])
                            \/ Cut(all)[j].cursor >= c
            BY <2>7 DEF Adds
        <3>1. CASE j + 1 <= n
            <4>1. j + 1 \in 1..n /\ Cut(all)[j] = all[j + 1]
                BY <1>2, <2>4, <3>1
            <4>2. Cut(all)[j] = entries[j + 1]
                BY <1>4, <4>1
            <4> QED BY <1>2, <4>1, <4>2
        <3>2. CASE j + 1 = n + 1
            BY <1>2, <1>5, <2>4, <3>2
        <3> QED BY <1>2, <3>1, <3>2
    <2> QED BY <1>6, <2>4, <2>5, <2>6, <2>8 DEF TailUpTo
<1>8. CASE ~(Len(all) > LogLimit)
    <2>1. Cut(all) = all
        BY <1>8 DEF Cut
    <2>2. n = c - 1 /\ MinOf(LogLimit, (c + 1) - 1) = n + 1
        BY <1>2, <1>3, <1>4, <1>8 DEF MinOf
    <2>3. Adds(entries, all, c)
        <3> SUFFICES ASSUME NEW j \in 1..(n + 1)
                     PROVE  (\E k \in DOMAIN entries : all[j] = entries[k])
                            \/ all[j].cursor >= c
            BY <1>4, LenProperties DEF Adds
        <3> QED BY <1>2, <1>4, <1>5
    <2>4. \A i \in 1..(n + 1) : all[i].cursor = (c + 1) - (n + 1) + i - 1
        BY <1>2, <1>5
    <2> QED BY <1>4, <1>6, <2>1, <2>2, <2>3, <2>4 DEF TailUpTo
<1> QED BY <1>7, <1>8

\* Entries of one such list, or of one and the list it becomes, that have the
\* same cursor are the same.
LEMMA SameCursorSameEntry ==
    ASSUME NEW old, NEW new, NEW c \in Nat \ {0}, TailUpTo(old, c), Adds(old, new, c),
           NEW i \in DOMAIN old, NEW j \in DOMAIN new, old[i].cursor = new[j].cursor
    PROVE  old[i] = new[j]
<1>1. DOMAIN old = 1..Len(old) /\ Len(old) \in Nat
    BY LenProperties DEF TailUpTo
<1>2. \A k \in DOMAIN old : old[k].cursor = c - Len(old) + k - 1
    BY <1>1 DEF TailUpTo
<1>3. old[i].cursor < c
    BY <1>1, <1>2
<1>4. PICK k \in DOMAIN old : new[j] = old[k]
    BY <1>1, <1>2, <1>3 DEF Adds
<1>5. k = i
    BY <1>1, <1>2, <1>4
<1> QED BY <1>4, <1>5

-----------------------------------------------------------------------------
(* The steps                                                                 *)

LogInv ==
    /\ nextCursor \in [Sessions -> Nat \ {0}]
    /\ target \in [Writers -> Sessions \cup {"none"}]
    /\ logs \in [Sessions -> Seq(Entries)]
    /\ \A s \in Sessions : TailUpTo(logs[s], nextCursor[s])

\* No log of a session that stays live loses the meaning of its cursors.
Stable ==
    \A s \in Sessions : s \in live /\ s \in live' => Adds(logs[s], logs'[s], nextCursor[s])

\* No log gains an entry but under a cursor that was not given out yet.
Grows ==
    \A s \in Sessions : /\ Adds(logs[s], logs'[s], nextCursor[s])
                        /\ nextCursor[s] <= nextCursor'[s]

LEMMA SameAdds == \A entries, c : Adds(entries, entries, c)
BY DEF Adds

LEMMA PushOneStep ==
    ASSUME LogInv, NEW s \in Sessions, NEW stream \in Streams, NEW w \in Writers,
           PushOne(s, stream, w), target' = target
    PROVE  LogInv' /\ Grows
<1> DEFINE new == Push(logs[s], nextCursor[s], stream, w)
<1>1. TailUpTo(new, nextCursor[s] + 1) /\ Adds(logs[s], new, nextCursor[s])
    BY PushProperties DEF LogInv
<1>2. new \in Seq(Entries)
    BY <1>1 DEF TailUpTo
<1>3. /\ logs' = [logs EXCEPT ![s] = new]
      /\ nextCursor' = [nextCursor EXCEPT ![s] = nextCursor[s] + 1]
    BY DEF PushOne
<1> HIDE DEF new
<1>4. nextCursor[s] + 1 \in Nat \ {0}
    BY DEF LogInv
<1>5. \A r \in Sessions : /\ TailUpTo(logs'[r], nextCursor'[r])
                          /\ Adds(logs[r], logs'[r], nextCursor[r])
                          /\ nextCursor[r] <= nextCursor'[r]
    BY <1>1, <1>3, SameAdds DEF LogInv
<1> QED BY <1>2, <1>3, <1>4, <1>5 DEF LogInv, Grows

LEMMA PushTwoStep ==
    ASSUME LogInv, NEW s \in Sessions, NEW w \in Writers, PushTwo(s, w), target' = target
    PROVE  LogInv' /\ Grows
<1> DEFINE c == nextCursor[s]
           one == Push(logs[s], c, "output", w)
           two == Push(one, c + 1, "system", w)
<1>0. c \in Nat \ {0} /\ c + 1 \in Nat \ {0}
    BY DEF LogInv
<1>1. TailUpTo(one, c + 1) /\ Adds(logs[s], one, c)
    BY <1>0, PushProperties DEF LogInv, Streams
<1>3. /\ logs' = [logs EXCEPT ![s] = two]
      /\ nextCursor' = [nextCursor EXCEPT ![s] = c + 2]
    BY DEF PushTwo
<1> HIDE DEF one, c
<1>2. TailUpTo(two, (c + 1) + 1) /\ Adds(one, two, c + 1)
    BY <1>0, <1>1, PushProperties DEF Streams
<1> HIDE DEF two
<1>4. (c + 1) + 1 = c + 2 /\ c + 2 \in Nat \ {0}
    BY <1>0
<1>5. two \in Seq(Entries) /\ TailUpTo(two, c + 2)
    BY <1>2, <1>4 DEF TailUpTo
<1>6. Adds(logs[s], two, c)
    <2> SUFFICES ASSUME NEW j \in DOMAIN two
                 PROVE  (\E k \in DOMAIN logs[s] : two[j] = logs[s][k]) \/ two[j].cursor >= c
        BY DEF Adds
    <2>1. CASE two[j].cursor >= c + 1
        <3>1. two[j] \in Entries
            BY <1>5, LenProperties, ElementOfSeq
        <3> QED BY <1>0, <2>1, <3>1 DEF Entries
    <2>2. CASE \E k \in DOMAIN one : two[j] = one[k]
        BY <1>1, <2>2 DEF Adds
    <2> QED BY <1>2, <2>1, <2>2 DEF Adds
<1>7. \A r \in Sessions : /\ TailUpTo(logs'[r], nextCursor'[r])
                          /\ Adds(logs[r], logs'[r], nextCursor[r])
                          /\ nextCursor[r] <= nextCursor'[r]
    BY <1>3, <1>5, <1>6, SameAdds DEF LogInv, c
<1> QED BY <1>3, <1>4, <1>5, <1>7 DEF LogInv, Grows

LEMMA EmptyTail == TailUpTo(<<>>, FirstCursor) /\ FirstCursor \in Nat \ {0}
BY EmptySeq, LogAssumption DEF TailUpTo, FirstCursor, MinOf

LEMMA LogStep ==
    ASSUME LogInv, [Next]_vars
    PROVE  LogInv' /\ (Grows \/ \E s \in Sessions : CreateSession(s))
<1>1. ASSUME UNCHANGED <<logs, nextCursor>>, target' \in [Writers -> Sessions \cup {"none"}]
      PROVE  LogInv' /\ Grows
    BY <1>1, SameAdds DEF LogInv, Grows
<1>2. ASSUME NEW s \in Sessions, CreateSession(s) PROVE LogInv'
    <2>1. /\ logs' = [logs EXCEPT ![s] = <<>>]
          /\ nextCursor' = [nextCursor EXCEPT ![s] = FirstCursor]
          /\ target' = target
        BY <1>2 DEF CreateSession, execVars
    <2>2. <<>> \in Seq(Entries)
        BY EmptySeq
    <2> QED BY <2>1, <2>2, EmptyTail DEF LogInv
<1>3. ASSUME NEW s \in Sessions, DestroySession(s) \/ GetLogs(s) PROVE LogInv' /\ Grows
    BY <1>1, <1>3 DEF DestroySession, GetLogs, sessionVars, execVars, LogInv
<1>4. ASSUME NEW w \in Writers, NEW s \in Sessions, StartExec(w, s) PROVE LogInv' /\ Grows
    BY <1>1, <1>4 DEF StartExec, sessionVars, LogInv
<1>5. ASSUME NEW w \in Writers, Output(w) PROVE LogInv' /\ Grows
    <2>1. target[w] # "none" /\ target[w] \in Sessions \cup {"none"} /\ target' = target
        BY <1>5 DEF Output, LogInv
    <2>2. \/ Skip
          \/ PushTwo(target[w], w)
          \/ PushOne(target[w], "output", w)
        BY <1>5 DEF Output
    <2> QED BY <1>1, <2>1, <2>2, PushOneStep, PushTwoStep DEF Skip, Streams, LogInv
<1>6. ASSUME NEW w \in Writers, Result(w) PROVE LogInv' /\ Grows
    <2>1. /\ target[w] # "none" /\ target[w] \in Sessions \cup {"none"} /\ target' = target
          /\ PushOne(target[w], "system", w)
        BY <1>6 DEF Result, execVars, LogInv
    <2> QED BY <2>1, PushOneStep DEF Streams
<1>7. ASSUME UNCHANGED vars PROVE LogInv' /\ Grows
    BY <1>1, <1>7 DEF vars, sessionVars, execVars, LogInv
<1> QED BY <1>2, <1>3, <1>4, <1>5, <1>6, <1>7 DEF Next, SessionStep, ExecStep

LEMMA LogKeeps ==
    ASSUME LogInv, [Next]_vars
    PROVE  Stable
<1>1. Grows => Stable
    BY DEF Grows, Stable
<1>2. ASSUME NEW s \in Sessions, CreateSession(s) PROVE Stable
    BY <1>2, SameAdds DEF CreateSession, LogInv, Stable
<1> QED BY <1>1, <1>2, LogStep

LiveTyped == live \subseteq Sessions

LEMMA LiveLaw == Spec => []LiveTyped
<1>1. Init => LiveTyped
    BY DEF Init, LiveTyped
<1>2. LiveTyped /\ [Next]_vars => LiveTyped'
    BY DEF LiveTyped, Next, SessionStep, CreateSession, DestroySession, GetLogs, ExecStep, StartExec,
           Output, Result, vars, sessionVars
<1> QED BY <1>1, <1>2, PTL DEF Spec

LEMMA LogLaw == Spec => []LogInv
<1>1. Init => LogInv
    <2> SUFFICES ASSUME Init PROVE LogInv
        OBVIOUS
    <2>1. <<>> \in Seq(Entries)
        BY EmptySeq
    <2> QED BY <2>1, EmptyTail DEF Init, LogInv
<1>2. LogInv /\ [Next]_vars => LogInv'
    BY LogStep
<1> QED BY <1>1, <1>2, PTL DEF Spec

\* appendSessionLog: the log is the tail of what was appended, with
\* consecutive cursors, for any limit, sessions and execs.
THEOREM LogKeepsTail == Spec => []LogIsTail
<1>1. LogInv => LogIsTail
    <2> SUFFICES ASSUME LogInv, NEW s \in Sessions
                 PROVE  /\ Len(logs[s]) = MinOf(LogLimit, nextCursor[s] - 1)
                        /\ \A i \in DOMAIN logs[s] :
                              logs[s][i].cursor = nextCursor[s] - Len(logs[s]) + i - 1
        BY DEF LogIsTail
    <2>1. TailUpTo(logs[s], nextCursor[s])
        BY DEF LogInv
    <2>2. DOMAIN logs[s] = 1..Len(logs[s])
        BY <2>1, LenProperties DEF TailUpTo
    <2> QED BY <2>1, <2>2 DEF TailUpTo
<1> QED BY <1>1, LogLaw, PTL

\* nextCursor: a cursor names one entry for as long as its session exists,
\* whatever is evicted.
THEOREM CursorNamesEntry == Spec => CursorsStable
<1>1. LogInv /\ LiveTyped /\ [Next]_vars
        => [\A s \in live \cap live' : \A i \in DOMAIN logs[s], j \in DOMAIN logs'[s] :
                logs[s][i].cursor = logs'[s][j].cursor => logs[s][i] = logs'[s][j]]_vars
    <2> SUFFICES ASSUME LogInv, LiveTyped, [Next]_vars, NEW s \in live \cap live',
                        NEW i \in DOMAIN logs[s], NEW j \in DOMAIN logs'[s],
                        logs[s][i].cursor = logs'[s][j].cursor
                 PROVE  logs[s][i] = logs'[s][j]
        OBVIOUS
    <2>1. Stable
        BY LogKeeps
    <2>2. s \in Sessions
        BY DEF LiveTyped
    <2>3. TailUpTo(logs[s], nextCursor[s]) /\ Adds(logs[s], logs'[s], nextCursor[s])
          /\ nextCursor[s] \in Nat \ {0}
        BY <2>1, <2>2 DEF LogInv, Stable
    <2> QED BY <2>3, SameCursorSameEntry
<1> QED BY <1>1, LogLaw, LiveLaw, PTL DEF Spec, CursorsStable

-----------------------------------------------------------------------------
(* What get_logs returns                                                     *)

LEMMA IntervalSize ==
    ASSUME NEW a \in Int, NEW b \in Int, a <= b + 1
    PROVE  Cardinality(a..b) = b - a + 1
<1>1. Cardinality(a..b) = IF a > b THEN 0 ELSE b - a + 1
    BY FS_Interval, Zenon
<1> QED BY <1>1

\* The entries after the first lo of n.
Rest(entries, lo, n) == [k \in 1..(n - lo) |-> entries[lo + k]]

\* To filter an interval is to take it as it is.
LEMMA FilterInterval ==
    ASSUME NEW entries, NEW lo \in Nat, NEW n \in Nat, lo <= n
    PROVE  Filter(entries, (lo + 1)..n) = Rest(entries, lo, n)
<1> DEFINE M == (lo + 1)..n
<1>0. lo + 1 \in Int /\ n \in Int
    OBVIOUS
<1>1. Cardinality(M) = n - lo
    <2>1. Cardinality(M) = n - (lo + 1) + 1
        BY <1>0, IntervalSize
    <2>2. n - (lo + 1) + 1 = n - lo
        OBVIOUS
    <2> QED BY <2>1, <2>2
<1>2. ASSUME NEW k \in 1..(n - lo)
      PROVE  (CHOOSE i \in M : Cardinality({j \in M : j <= i}) = k) = lo + k
    <2>1. ASSUME NEW i \in M PROVE Cardinality({j \in M : j <= i}) = i - lo
        <3>1. {j \in M : j <= i} = (lo + 1)..i
            OBVIOUS
        <3>2. i \in Int /\ i >= lo + 1
            OBVIOUS
        <3>3. Cardinality((lo + 1)..i) = i - (lo + 1) + 1
            BY <1>0, <3>2, IntervalSize
        <3>4. i - (lo + 1) + 1 = i - lo
            BY <3>2
        <3> HIDE DEF M
        <3> QED BY <3>1, <3>3, <3>4, Zenon
    <2>3. \A i \in M : Cardinality({j \in M : j <= i}) = k <=> i = lo + k
        <3>1. \A i \in M : i - lo = k <=> i = lo + k
            OBVIOUS
        <3> HIDE DEF M
        <3> QED BY <2>1, <3>1
    <2>4. lo + k \in M
        OBVIOUS
    <2> HIDE DEF M
    <2> QED BY <2>3, <2>4
<1> HIDE DEF M
<1>3. Filter(entries, M) = [k \in 1..(n - lo) |-> entries[lo + k]]
    <2>1. Filter(entries, M) =
            [k \in 1..(n - lo) |->
                entries[CHOOSE i \in M : Cardinality({j \in M : j <= i}) = k]]
        BY <1>1 DEF Filter
    <2> QED BY <1>2, <2>1
<1> QED BY <1>3 DEF M, Rest

\* The number of entries up to a cursor.
UpTo(n, c, cursor) == IF cursor < c - n THEN 0 ELSE cursor - (c - n) + 1

\* A page is the retained entries that follow the cursor, up to the limit.
LEMMA PageProperties ==
    ASSUME NEW s \in Sessions, NEW c \in Nat \ {0}, TailUpTo(logs[s], c),
           NEW cursor \in Nat, cursor < c, NEW limit \in Nat \ {0}
    PROVE  LET n == Len(logs[s])
               lo == UpTo(n, c, cursor)
               page == Page(s, cursor, limit)
           IN  /\ n \in Nat /\ n < c /\ DOMAIN logs[s] = 1..n /\ lo \in 0..n
               /\ Len(page) = MinOf(limit, n - lo) /\ DOMAIN page = 1..MinOf(limit, n - lo)
               /\ page = <<>> <=> n = lo
               /\ \A k \in 1..MinOf(limit, n - lo) : page[k].cursor = c - n + lo + k - 1
               /\ \A i \in 1..n : logs[s][i].cursor = c - n + i - 1
<1> DEFINE n == Len(logs[s])
           lo == UpTo(n, c, cursor)
           m == MinOf(limit, n - lo)
           rest == [k \in 1..(n - lo) |-> logs[s][lo + k]]
           page == Page(s, cursor, limit)
<1>1. /\ n \in Nat /\ n < c /\ logs[s] \in Seq(Entries) /\ DOMAIN logs[s] = 1..n
      /\ \A i \in 1..n : logs[s][i].cursor = c - n + i - 1
    BY LenProperties, LogAssumption DEF TailUpTo, MinOf
<1>2. lo \in 0..n
    BY <1>1 DEF UpTo
<1>3. {i \in DOMAIN logs[s] : logs[s][i].cursor > cursor} = (lo + 1)..n
    <2> HIDE DEF n
    <2>1. \A i \in 1..n : logs[s][i].cursor > cursor <=> i >= lo + 1
        <3>1. \A i \in 1..n : c - n + i - 1 > cursor <=> i >= lo + 1
            BY <1>1 DEF UpTo
        <3> HIDE DEF lo
        <3> QED BY <1>1, <3>1
    <2> HIDE DEF lo
    <2> QED BY <1>1, <1>2, <2>1
<1> HIDE DEF n, lo
<1>4. After(s, cursor) = rest
    <2>1. n \in Nat /\ lo \in Nat /\ lo <= n
        BY <1>1, <1>2
    <2>2. After(s, cursor) = Filter(logs[s], (lo + 1)..n)
        BY <1>3, Zenon DEF After
    <2>3. Filter(logs[s], (lo + 1)..n) = Rest(logs[s], lo, n)
        BY <2>1, FilterInterval
    <2> QED BY <2>2, <2>3 DEF Rest
<1>5. rest \in Seq(Entries) /\ Len(rest) = n - lo
    <2>1. \A k \in 1..(n - lo) : logs[s][lo + k] \in Entries
        BY <1>1, <1>2, ElementOfSeq DEF n
    <2> QED BY <1>1, <1>2, <2>1, IsASeq, LenProperties
<1>6. m \in 0..(n - lo)
    BY <1>1, <1>2 DEF MinOf
<1>7. page = SubSeq(rest, 1, m)
    BY <1>4, <1>5 DEF Page
<1>8. \A k \in 1..m : rest[k] = logs[s][lo + k] /\ rest[k] \in Entries
    <2>1. \A k \in 1..m : rest[k] = logs[s][lo + k]
        BY <1>1, <1>2, <1>6
    <2>2. \A k \in 1..m : k \in 1..Len(rest)
        BY <1>1, <1>2, <1>5, <1>6
    <2> QED BY <1>5, <2>1, <2>2, ElementOfSeq
<1> HIDE DEF rest, page
<1>9. /\ page \in Seq(Entries) /\ Len(page) = m
      /\ \A k \in 1..m : page[k] = rest[k]
    BY <1>6, <1>7, <1>8, SubSeqProperties
<1>10. page = <<>> <=> n = lo
    <2>1. page = <<>> <=> m = 0
        BY <1>9, EmptySeq
    <2> QED BY <1>1, <1>2, <2>1 DEF MinOf
<1>11. \A k \in 1..m : page[k].cursor = c - n + lo + k - 1
    <2>1. \A k \in 1..m : lo + k \in 1..n /\ page[k] = logs[s][lo + k]
        <3>1. \A k \in 1..m : lo + k \in 1..n
            BY <1>1, <1>2, <1>6
        <3> HIDE DEF m
        <3> QED BY <1>8, <1>9, <3>1
    <2>2. \A k \in 1..m : logs[s][lo + k].cursor = c - n + (lo + k) - 1
        BY <1>1, <2>1
    <2> HIDE DEF m
    <2> QED BY <1>1, <1>2, <1>6, <2>1, <2>2
<1>12. DOMAIN page = 1..m
    BY <1>9, LenProperties
<1> QED BY <1>1, <1>2, <1>9, <1>10, <1>11, <1>12 DEF n, lo, page

-----------------------------------------------------------------------------
(* What the reader of a session was given                                    *)

\* The reader has every retained entry up to its cursor, and none after it,
\* and its cursor is one that was given out.
ReaderInv ==
    /\ position \in [Sessions -> Nat]
    /\ seen \in [Sessions -> SUBSET Nat]
    /\ \A s \in Sessions :
        /\ position[s] < nextCursor[s]
        /\ \A k \in seen[s] : k <= position[s]
        /\ \A i \in DOMAIN logs[s] :
              logs[s][i].cursor <= position[s] => logs[s][i].cursor \in seen[s]

\* What a response tells of the retained entries.
EndInv == response.session \subseteq Sessions /\ EndIsEnd

LEMMA GetLogsStep ==
    ASSUME LogInv, ReaderInv, NEW s \in Sessions, GetLogs(s)
    PROVE  /\ ReaderInv' /\ EndInv'
           /\ response'.session = {s}
           /\ \A i \in DOMAIN response'.page : response'.page[i].cursor \notin seen[s]
<1> DEFINE c == nextCursor[s]
           n == Len(logs[s])
           lo == UpTo(n, c, position[s])
<1>1. PICK limit \in PageSizes :
        LET page == Page(s, position[s], limit) IN
        /\ response' = [session |-> {s}, page |-> page, more |-> HasMore(s, page, limit)]
        /\ seen' = [seen EXCEPT ![s] = @ \cup {page[i].cursor : i \in DOMAIN page}]
        /\ position' = [position EXCEPT ![s] =
                IF page = <<>> THEN @ ELSE page[Len(page)].cursor]
    BY DEF GetLogs
<1> DEFINE page == Page(s, position[s], limit)
           m == MinOf(limit, n - lo)
<1>2. /\ logs' = logs /\ nextCursor' = nextCursor
      /\ response'.session = {s} /\ response'.page = page
      /\ response'.more = HasMore(s, page, limit)
      /\ seen'[s] = seen[s] \cup {page[i].cursor : i \in DOMAIN page}
      /\ position'[s] = IF page = <<>> THEN position[s] ELSE page[Len(page)].cursor
      /\ DOMAIN seen' = Sessions /\ DOMAIN position' = Sessions
      /\ \A r \in Sessions \ {s} : seen'[r] = seen[r] /\ position'[r] = position[r]
    BY <1>1 DEF GetLogs, sessionVars, ReaderInv
<1>3. /\ c \in Nat \ {0} /\ TailUpTo(logs[s], c) /\ position[s] \in Nat /\ position[s] < c
      /\ limit \in Nat \ {0}
    BY LogAssumption DEF LogInv, ReaderInv
<1>4. /\ n \in Nat /\ n < c /\ DOMAIN logs[s] = 1..n /\ lo \in 0..n
      /\ Len(page) = m /\ DOMAIN page = 1..m
      /\ page = <<>> <=> n = lo
      /\ \A k \in 1..m : page[k].cursor = c - n + lo + k - 1
      /\ \A i \in 1..n : logs[s][i].cursor = c - n + i - 1
    BY <1>3, PageProperties
<1>5. m \in 0..(n - lo) /\ (n # lo => m >= 1)
    BY <1>3, <1>4 DEF MinOf
<1>6. \A i \in 1..n : logs[s][i].cursor > position[s] <=> i > lo
    <2>1. \A i \in 1..n : c - n + i - 1 > position[s] <=> i > lo
        BY <1>3, <1>4 DEF UpTo
    <2> HIDE DEF lo, n, c
    <2> QED BY <1>4, <2>1
<1> HIDE DEF lo, n, c, page, m
<1>7. position'[s] = IF n = lo THEN position[s] ELSE c - n + lo + m - 1
    BY <1>2, <1>4, <1>5
<1>8. \A k \in 1..m : page[k].cursor > position[s] /\ page[k].cursor \in Nat
    <2>1. \A k \in 1..m : lo + k \in 1..n /\ lo + k > lo
        BY <1>4, <1>5
    <2>2. \A k \in 1..m : logs[s][lo + k].cursor = c - n + (lo + k) - 1
        BY <1>4, <2>1
    <2>3. \A k \in 1..m : page[k].cursor = logs[s][lo + k].cursor
        BY <1>3, <1>4, <1>5, <2>2
    <2>4. \A k \in 1..m : page[k].cursor > position[s]
        BY <1>6, <2>1, <2>3
    <2>5. \A k \in 1..m : c - n + lo + k - 1 \in Nat
        BY <1>3, <1>4, <1>5
    <2> QED BY <1>4, <2>4, <2>5
<1>9. /\ position'[s] \in Nat /\ position'[s] < c /\ position[s] <= position'[s]
      /\ \A k \in 1..m : page[k].cursor <= position'[s]
    <2>1. CASE n = lo
        <3>1. m = 0 /\ position'[s] = position[s]
            BY <1>4, <1>5, <1>7, <2>1
        <3> QED BY <1>3, <3>1
    <2>2. CASE n # lo
        <3>1. position'[s] = c - n + lo + m - 1 /\ m \in 1..m
            BY <1>5, <1>7, <2>2
        <3>2. \A k \in 1..m : page[k].cursor <= position'[s]
            BY <1>3, <1>4, <1>5, <3>1
        <3>3. position[s] < page[m].cursor /\ page[m].cursor = position'[s]
            BY <1>4, <1>8, <3>1
        <3> QED BY <1>3, <1>4, <1>5, <3>1, <3>2, <3>3
    <2> QED BY <2>1, <2>2
<1>10. seen'[s] \subseteq Nat /\ \A k \in seen'[s] : k <= position'[s]
    <2>1. \A k \in seen[s] : k \in Nat /\ k <= position[s]
        BY DEF ReaderInv
    <2>2. \A k \in seen[s] : k <= position'[s]
        BY <1>3, <1>9, <2>1
    <2> QED BY <1>2, <1>4, <1>8, <1>9, <2>1, <2>2
<1>11. ASSUME NEW i \in 1..n, logs[s][i].cursor <= position'[s] PROVE logs[s][i].cursor \in seen'[s]
    <2>1. CASE i <= lo
        <3>1. logs[s][i].cursor <= position[s]
            BY <1>3, <1>4, <1>6, <2>1
        <3> QED BY <1>2, <1>4, <3>1 DEF ReaderInv
    <2>2. CASE i > lo
        <3>1. i - lo \in 1..m
            BY <1>3, <1>4, <1>5, <1>7, <1>11, <2>2
        <3>2. page[i - lo].cursor = c - n + lo + (i - lo) - 1
            BY <1>4, <3>1
        <3>3. page[i - lo].cursor = logs[s][i].cursor
            BY <1>3, <1>4, <3>2
        <3> QED BY <1>2, <1>4, <3>1, <3>3
    <2> QED BY <1>4, <2>1, <2>2
<1>12. ReaderInv'
    <2>1. \A r \in Sessions : position'[r] \in Nat /\ seen'[r] \subseteq Nat
        BY <1>2, <1>9, <1>10 DEF ReaderInv
    <2>2. ASSUME NEW r \in Sessions
          PROVE  /\ position'[r] < nextCursor'[r]
                 /\ \A k \in seen'[r] : k <= position'[r]
                 /\ \A i \in DOMAIN logs'[r] :
                       logs'[r][i].cursor <= position'[r] => logs'[r][i].cursor \in seen'[r]
        <3>1. CASE r = s
            BY <1>2, <1>4, <1>9, <1>10, <1>11, <3>1 DEF c
        <3>2. CASE r # s
            BY <1>2, <3>2 DEF ReaderInv
        <3> QED BY <3>1, <3>2
    <2>3. position' \in [Sessions -> Nat] /\ seen' \in [Sessions -> SUBSET Nat]
        BY <1>1, <2>1 DEF ReaderInv
    <2> QED BY <2>2, <2>3 DEF ReaderInv
<1>13. EndInv'
    <2> SUFFICES ASSUME ~response'.more, NEW i \in 1..n PROVE logs[s][i].cursor \in seen'[s]
        BY <1>2, <1>4 DEF EndInv, EndIsEnd
    <2>1. logs[s][i].cursor <= position'[s]
        <3>1. CASE n = lo
            BY <1>3, <1>4, <1>6, <1>7, <3>1
        <3>2. CASE n # lo
            <4>1. page # <<>> /\ position'[s] = page[Len(page)].cursor
                BY <1>2, <1>4, <3>2
            <4>2. ~(logs[s][i].cursor > position'[s])
                BY <1>2, <1>4, <4>1 DEF HasMore
            <4>3. logs[s][i].cursor \in Int
                BY <1>3, <1>4
            <4> QED BY <1>9, <4>2, <4>3
        <3> QED BY <3>1, <3>2
    <2> QED BY <1>11, <2>1
<1>14. \A k \in 1..m : page[k].cursor \notin seen[s]
    BY <1>3, <1>8 DEF ReaderInv
<1> QED BY <1>2, <1>4, <1>12, <1>13, <1>14

LEMMA ReaderStep ==
    ASSUME LogInv, ReaderInv, EndInv, [Next]_vars
    PROVE  ReaderInv' /\ EndInv'
<1>1. ASSUME NEW s \in Sessions, GetLogs(s) PROVE ReaderInv' /\ EndInv'
    BY <1>1, GetLogsStep
<1>2. CASE UNCHANGED vars
    BY <1>2 DEF vars, sessionVars, readerVars, ReaderInv, EndInv, EndIsEnd
<1>3. response' = NoResponse => EndInv'
    BY DEF NoResponse, EndInv, EndIsEnd
<1>4. ASSUME NEW s \in Sessions, CreateSession(s) PROVE ReaderInv' /\ EndInv'
    <2>1. /\ logs' = [logs EXCEPT ![s] = <<>>]
          /\ nextCursor' = [nextCursor EXCEPT ![s] = 1]
          /\ position' = [position EXCEPT ![s] = 0]
          /\ seen' = [seen EXCEPT ![s] = {}]
          /\ response' = NoResponse
        BY <1>4 DEF CreateSession, FirstCursor
    <2> QED BY <1>3, <2>1 DEF ReaderInv, LogInv
<1>5. ASSUME Grows, UNCHANGED readerVars, response' = NoResponse PROVE ReaderInv' /\ EndInv'
    <2>1. ASSUME NEW s \in Sessions, NEW i \in DOMAIN logs'[s],
                 logs'[s][i].cursor <= position[s]
          PROVE  logs'[s][i].cursor \in seen[s]
        <3>0. logs'[s] \in Seq(Entries)
            BY LogStep DEF LogInv
        <3>1. ~(logs'[s][i].cursor >= nextCursor[s])
            <4>1. logs'[s][i] \in Entries
                BY <3>0, LenProperties, ElementOfSeq
            <4>2. logs'[s][i].cursor \in Nat /\ position[s] \in Nat /\ nextCursor[s] \in Nat
                BY <4>1 DEF Entries, ReaderInv, LogInv
            <4> QED BY <2>1, <4>2 DEF ReaderInv
        <3>2. PICK k \in DOMAIN logs[s] : logs'[s][i] = logs[s][k]
            BY <1>5, <3>1 DEF Grows, Adds
        <3> QED BY <2>1, <3>2 DEF ReaderInv
    <2>2. \A s \in Sessions : position[s] < nextCursor'[s]
        BY <1>5, LogStep DEF Grows, ReaderInv, LogInv
    <2> QED BY <1>3, <1>5, <2>1, <2>2 DEF readerVars, ReaderInv
<1>6. \/ UNCHANGED vars
      \/ \E s \in Sessions : GetLogs(s) \/ CreateSession(s)
      \/ UNCHANGED readerVars /\ response' = NoResponse
    BY DEF Next, SessionStep, ExecStep, DestroySession, StartExec, Output, Result
<1> QED BY <1>1, <1>2, <1>4, <1>5, <1>6, LogStep

LEMMA ReaderLaw == Spec => []ReaderInv /\ []EndInv
<1>1. Init => ReaderInv /\ EndInv
    BY DEF Init, ReaderInv, EndInv, EndIsEnd, NoResponse, FirstCursor
<1>2. LogInv /\ ReaderInv /\ EndInv /\ [Next]_vars => ReaderInv' /\ EndInv'
    BY ReaderStep
<1> QED BY <1>1, <1>2, LogLaw, PTL DEF Spec

\* handleGetLogs: when a response has no next_cursor the reader was given every
\* retained entry, for any limit, page sizes, sessions and execs.
THEOREM EndTellsTruth == Spec => []EndIsEnd
<1>1. EndInv => EndIsEnd
    BY DEF EndInv
<1> QED BY <1>1, ReaderLaw, PTL

\* handleGetLogs: a reader that pages by the last cursor it was given is given
\* no entry twice and misses none that is retained.
THEOREM ReaderGetsAllOnce == Spec => ReaderSeesOnce
<1>1. LogInv /\ ReaderInv /\ EndInv /\ [Next]_vars
        => [\A s \in response'.session :
              /\ \A i \in DOMAIN response'.page : response'.page[i].cursor \notin seen[s]
              /\ \A i \in DOMAIN logs[s] :
                    logs[s][i].cursor <= position'[s] => logs[s][i].cursor \in seen'[s]]_vars
    <2> SUFFICES ASSUME LogInv, ReaderInv, EndInv, Next
                 PROVE  \A s \in response'.session :
                          /\ \A i \in DOMAIN response'.page : response'.page[i].cursor \notin seen[s]
                          /\ \A i \in DOMAIN logs[s] :
                                logs[s][i].cursor <= position'[s] => logs[s][i].cursor \in seen'[s]
        OBVIOUS
    <2>1. CASE \E s \in Sessions : GetLogs(s)
        <3>1. PICK s \in Sessions : GetLogs(s)
            BY <2>1
        <3>2. logs' = logs
            BY <3>1 DEF GetLogs, sessionVars
        <3> QED BY <3>1, <3>2, GetLogsStep DEF ReaderInv
    <2>2. CASE response' = NoResponse
        BY <2>2 DEF NoResponse
    <2> QED BY <2>1, <2>2 DEF Next, SessionStep, ExecStep, CreateSession, DestroySession,
                              StartExec, Output, Result
<1> QED BY <1>1, LogLaw, ReaderLaw, PTL DEF Spec, ReaderSeesOnce

\* The types of the sessions, of their logs and of what the reader was given.
THEOREM SessionTypesHold == Spec => []TypeOK
<1> DEFINE WarnedTyped == warned \in [Writers -> BOOLEAN]
<1>1. Init => WarnedTyped
    BY DEF Init
<1>2. WarnedTyped /\ [Next]_vars => WarnedTyped'
    BY DEF Next, SessionStep, CreateSession, DestroySession, GetLogs, ExecStep, StartExec, Output,
           Result, vars, execVars
<1>3. LogInv /\ ReaderInv /\ LiveTyped /\ WarnedTyped => TypeOK
    BY DEF LogInv, ReaderInv, LiveTyped, TypeOK
<1> HIDE DEF WarnedTyped
<1> QED BY <1>1, <1>2, <1>3, LogLaw, ReaderLaw, LiveLaw, PTL DEF Spec

-----------------------------------------------------------------------------
(* The contract                                                              *)

\* The cursors that get_logs returns are a run of them, from the oldest that
\* is retained and unread.
LEMMA GivesWhatIsPromised ==
    ASSUME LogInv, ReaderInv, NEW s \in Sessions, GetLogs(s)
    PROVE  LogPromise!Give(s)
<1> DEFINE c == nextCursor[s]
           n == Len(logs[s])
           lo == UpTo(n, c, position[s])
           from == LogPromise!Oldest(s)
           unread == c - from
<1>1. PICK limit \in PageSizes :
        LET page == Page(s, position[s], limit) IN
        /\ response' = [session |-> {s}, page |-> page, more |-> HasMore(s, page, limit)]
        /\ position' = [position EXCEPT ![s] =
                IF page = <<>> THEN @ ELSE page[Len(page)].cursor]
    BY DEF GetLogs
<1> DEFINE page == Page(s, position[s], limit)
           m == MinOf(limit, n - lo)
           size == IF limit < unread THEN limit ELSE unread
<1>2. /\ c \in Nat \ {0} /\ TailUpTo(logs[s], c) /\ position[s] \in Nat /\ position[s] < c
      /\ limit \in Nat \ {0} /\ LogLimit \in Nat
    BY LogAssumption DEF LogInv, ReaderInv
<1>3. /\ n \in Nat /\ n < c /\ DOMAIN logs[s] = 1..n /\ lo \in 0..n
      /\ Len(page) = m /\ DOMAIN page = 1..m
      /\ page = <<>> <=> n = lo
      /\ \A k \in 1..m : page[k].cursor = c - n + lo + k - 1
      /\ \A i \in 1..n : logs[s][i].cursor = c - n + i - 1
    BY <1>2, PageProperties
<1>4. from = c - n + lo /\ from \in Nat
    <2>1. n = MinOf(LogLimit, c - 1)
        BY <1>2 DEF TailUpTo
    <2>2. from = IF position[s] + 1 > c - LogLimit THEN position[s] + 1 ELSE c - LogLimit
        BY DEF LogPromise!Oldest
    <2>3. lo = IF position[s] < c - n THEN 0 ELSE position[s] - (c - n) + 1
        BY DEF UpTo
    <2>4. c \in Nat /\ position[s] \in Nat /\ LogLimit \in Nat /\ n \in Nat /\ n < c
        BY <1>2, <1>3
    <2> HIDE DEF from, c, n, lo
    <2>5. CASE LogLimit <= c - 1
        <3>1. n = LogLimit
            BY <2>1, <2>5 DEF MinOf
        <3> QED BY <2>2, <2>3, <2>4, <3>1
    <2>6. CASE ~(LogLimit <= c - 1)
        <3>1. n = c - 1
            BY <2>1, <2>6 DEF MinOf
        <3>2. from = position[s] + 1
            BY <2>2, <2>4, <2>6
        <3>3. lo = position[s]
            BY <2>3, <2>4, <3>1
        <3> QED BY <2>4, <3>1, <3>2, <3>3
    <2> QED BY <2>5, <2>6
<1>5. /\ unread = n - lo /\ unread \in Nat /\ size = m /\ m \in 0..unread
      /\ size < unread <=> m < n - lo
      /\ m = 0 <=> n = lo
    <2> HIDE DEF from, c, n, lo
    <2> QED BY <1>2, <1>3, <1>4 DEF MinOf
<1> HIDE DEF from, c, n, lo, page, m, size, unread
<1>6. [k \in DOMAIN page |-> page[k].cursor] = [k \in 1..size |-> from + k - 1]
    <2>1. \A k \in 1..m : page[k].cursor = from + k - 1
        BY <1>3, <1>4
    <2> QED BY <1>3, <1>5, <2>1
<1>7. HasMore(s, page, limit) <=> size < unread
    <2>1. CASE n = lo
        BY <1>3, <1>5, <2>1 DEF HasMore
    <2>2. CASE n # lo
        <3>1. page # <<>> /\ Len(page) = m /\ m \in 1..m
            BY <1>3, <1>5, <2>2
        <3>2. page[m].cursor = c - n + (lo + m) - 1
            BY <1>2, <1>3, <3>1
        <3>3. HasMore(s, page, limit) <=> \E i \in 1..n : c - n + i - 1 > c - n + (lo + m) - 1
            BY <1>3, <3>1, <3>2 DEF HasMore
        <3>4. (\E i \in 1..n : c - n + i - 1 > c - n + (lo + m) - 1) <=> lo + m < n
            <4>1. ASSUME lo + m < n PROVE c - n + n - 1 > c - n + (lo + m) - 1 /\ n \in 1..n
                BY <1>2, <1>3, <1>5, <4>1
            <4>2. ASSUME NEW i \in 1..n, c - n + i - 1 > c - n + (lo + m) - 1 PROVE lo + m < n
                BY <1>2, <1>3, <1>5, <4>2
            <4> QED BY <4>1, <4>2
        <3>5. lo + m < n <=> m < n - lo
            BY <1>3, <1>5
        <3> QED BY <1>5, <3>3, <3>4, <3>5
    <2> QED BY <2>1, <2>2
<1>8. position' = [position EXCEPT ![s] = IF size = 0 THEN @ ELSE from + size - 1]
    <2>1. CASE m = 0
        BY <1>1, <1>3, <1>5, <2>1 DEF page
    <2>2. CASE m # 0
        <3>1. page # <<>> /\ Len(page) = m /\ m \in 1..m
            BY <1>3, <1>5, <2>2
        <3>2. page[m].cursor = from + m - 1
            BY <1>3, <1>4, <3>1
        <3> QED BY <1>1, <1>5, <2>2, <3>1, <3>2 DEF page
    <2> QED BY <2>1, <2>2
<1>9. [session |-> response'.session,
       cursors |-> [k \in DOMAIN response'.page |-> response'.page[k].cursor],
       more |-> response'.more]
        = [session |-> {s}, cursors |-> [k \in 1..size |-> from + k - 1], more |-> size < unread]
    <2>1. response' = [session |-> {s}, page |-> page, more |-> HasMore(s, page, limit)]
        BY <1>1 DEF page
    <2>2. HasMore(s, page, limit) = (size < unread)
        BY <1>7 DEF HasMore
    <2>3. /\ response'.session = {s} /\ response'.page = page
          /\ response'.more = (size < unread)
        BY <2>1, <2>2
    <2> QED BY <1>6, <2>3, Zenon
<1>10. s \in live /\ live' = live /\ nextCursor' = nextCursor
    BY DEF GetLogs, sessionVars
<1> QED BY <1>8, <1>9, <1>10 DEF LogPromise!Give, size, unread, from, c

\* Each step of the log is a step of the contract.
LEMMA LogContractStep ==
    ASSUME LogInv, ReaderInv, [Next]_vars
    PROVE  [LogPromise!Next]_(LogPromise!vars)
<1>1. ASSUME response' = NoResponse
      PROVE  [session |-> response'.session,
              cursors |-> [k \in DOMAIN response'.page |-> response'.page[k].cursor],
              more |-> response'.more] = LogPromise!Nothing
    BY <1>1 DEF NoResponse, LogPromise!Nothing
<1>2. ASSUME NEW s \in Sessions, CreateSession(s) PROVE LogPromise!Create(s)
    BY <1>1, <1>2 DEF CreateSession, FirstCursor, LogPromise!Create
<1>3. ASSUME NEW s \in Sessions, DestroySession(s) PROVE LogPromise!Destroy(s)
    BY <1>1, <1>3 DEF DestroySession, readerVars, LogPromise!Destroy
<1>4. ASSUME UNCHANGED <<live, nextCursor, position>>, response' = NoResponse
      PROVE  LogPromise!Elsewhere
    BY <1>1, <1>4 DEF LogPromise!Elsewhere
<1>5. ASSUME NEW s \in Sessions, s \in live, response' = NoResponse, UNCHANGED <<live, position>>,
             \/ nextCursor' = [nextCursor EXCEPT ![s] = @ + 1]
             \/ nextCursor' = [nextCursor EXCEPT ![s] = @ + 2]
      PROVE  LogPromise!Record(s)
    BY <1>1, <1>5 DEF LogPromise!Record
<1>6. ASSUME NEW w \in Writers, Output(w)
      PROVE  LogPromise!Elsewhere \/ \E s \in Sessions : LogPromise!Record(s)
    <2>1. target[w] # "none" /\ target[w] \in Sessions \cup {"none"}
        BY <1>6 DEF Output, LogInv
    <2>2. response' = NoResponse /\ UNCHANGED <<live, position>>
        BY <1>6 DEF Output, readerVars
    <2>3. \/ Skip
          \/ target[w] \in live /\ PushTwo(target[w], w)
          \/ target[w] \in live /\ PushOne(target[w], "output", w)
        BY <1>6 DEF Output
    <2> QED BY <1>4, <1>5, <2>1, <2>2, <2>3 DEF Skip, PushOne, PushTwo
<1>7. ASSUME NEW w \in Writers, Result(w) PROVE \E s \in Sessions : LogPromise!Record(s)
    <2>1. target[w] # "none" /\ target[w] \in Sessions \cup {"none"}
        BY <1>7 DEF Result, LogInv
    <2> QED BY <1>5, <1>7, <2>1 DEF Result, PushOne, readerVars
<1>8. ASSUME NEW w \in Writers, NEW s \in Sessions, StartExec(w, s) PROVE LogPromise!Elsewhere
    BY <1>4, <1>8 DEF StartExec, sessionVars, readerVars
<1>9. CASE UNCHANGED vars
    BY <1>9 DEF vars, sessionVars, readerVars, LogPromise!vars
<1> QED BY <1>2, <1>3, <1>6, <1>7, <1>8, <1>9, GivesWhatIsPromised
        DEF Next, SessionStep, ExecStep, LogPromise!Next

\* handleGetLogs: the stored, cut and filtered log gives a reader what the
\* contract says of cursors alone, for any limit, page sizes, sessions and
\* execs.
THEOREM LogContractImplemented == Spec => ImplementsLogContract
<1>1. Init => LogPromise!Init
    BY DEF Init, NoResponse, FirstCursor, LogPromise!Init, LogPromise!Nothing
<1>2. LogInv /\ ReaderInv /\ [Next]_vars => [LogPromise!Next]_(LogPromise!vars)
    BY LogContractStep
<1> QED BY <1>1, <1>2, LogLaw, ReaderLaw, PTL DEF Spec, ImplementsLogContract, LogPromise!Spec
=============================================================================
