------------------------- MODULE OutputBufferProofs -------------------------
(* Theorems of OutputBuffer, by induction over the text: truncateUtf8 gives  *)
(* the longest head that fits, and what appendBounded keeps is sound.        *)
EXTENDS OutputBuffer, FiniteSetTheorems, SequenceTheorems, WellFoundedInduction, TLAPS

-----------------------------------------------------------------------------
(* Induction over numbers, stated of sets, and recursion                     *)

LEMMA LeastNumber ==
    ASSUME NEW T \in SUBSET Nat, T # {}
    PROVE  \E n \in T : \A m \in T : n <= m
<1>1. IsWellFoundedOn(OpToRel(<, Nat), Nat)
    BY NatLessThanWellFounded
<1>2. PICK n \in T : \A m \in T : ~ (<<m, n>> \in OpToRel(<, Nat))
    BY <1>1, WFMin
<1>3. \A m \in T : m < n => <<m, n>> \in OpToRel(<, Nat)
    BY DEF OpToRel
<1>4. \A m \in T : ~(m < n)
    BY <1>2, <1>3, Zenon
<1> QED BY <1>4

LEMMA Induction ==
    ASSUME NEW T, 0 \in T, \A n \in Nat : n \in T => n + 1 \in T
    PROVE  Nat \subseteq T
<1> SUFFICES ASSUME Nat \ T # {} PROVE FALSE
    OBVIOUS
<1>1. PICK n \in Nat \ T : \A m \in Nat \ T : n <= m
    BY LeastNumber
<1>2. n # 0 /\ n - 1 \in Nat /\ ~(n <= n - 1)
    BY <1>1
<1>3. n - 1 \in T
    BY <1>1, <1>2
<1>4. (n - 1) + 1 = n
    BY <1>1
<1> QED BY <1>1, <1>2, <1>3, <1>4

\* The functions that follow a recursion up to n.
Follows(V, base, h, n) ==
    {f \in [Nat -> V] : f[0] = base /\ \A i \in 0..(n - 1) : f[i + 1] = h[i][f[i]]}

Solves(f, base, h) == f[0] = base /\ \A n \in Nat : f[n + 1] = h[n][f[n]]

\* A recursion over the natural numbers has a solution.
LEMMA Recursion ==
    ASSUME NEW V, NEW base \in V, NEW h \in [Nat -> [V -> V]]
    PROVE  \E f \in [Nat -> V] : Solves(f, base, h)
<1> DEFINE F(n) == Follows(V, base, h, n)
<1>1. \A n \in Nat : F(n) # {}
    <2> DEFINE T == {n \in Nat : F(n) # {}}
    <2>1. 0 \in T
        <3>1. [i \in Nat |-> base] \in F(0)
            BY DEF Follows
        <3> QED BY <3>1
    <2>2. ASSUME NEW n \in Nat, n \in T PROVE n + 1 \in T
        <3>1. PICK f : f \in F(n)
            BY <2>2
        <3> DEFINE g == [f EXCEPT ![n + 1] = h[n][f[n]]]
        <3>2. f \in [Nat -> V] /\ h[n][f[n]] \in V
            BY <3>1 DEF Follows
        <3>3. g \in [Nat -> V] /\ g[n + 1] = h[n][f[n]] /\ \A i \in Nat : i # n + 1 => g[i] = f[i]
            BY <3>2
        <3>4. \A i \in 0..n : g[i + 1] = h[i][g[i]]
            BY <3>1, <3>3 DEF Follows
        <3>5. g[0] = base
            BY <3>1, <3>3 DEF Follows
        <3> HIDE DEF g
        <3>6. g \in F(n + 1)
            BY <3>3, <3>4, <3>5 DEF Follows
        <3> QED BY <3>6
    <2> HIDE DEF T
    <2>3. Nat \subseteq T
        BY <2>1, <2>2, Induction
    <2> QED BY <2>3 DEF T
<1>2. ASSUME NEW n \in Nat, NEW m \in Nat, NEW f \in F(n), NEW g \in F(m)
      PROVE  \A i \in Nat : i <= n /\ i <= m => f[i] = g[i]
    <2> DEFINE T == {i \in Nat : i <= n /\ i <= m => f[i] = g[i]}
    <2>1. 0 \in T
        BY DEF Follows
    <2>2. ASSUME NEW i \in Nat, i \in T PROVE i + 1 \in T
        <3> SUFFICES ASSUME i + 1 <= n, i + 1 <= m PROVE f[i + 1] = g[i + 1]
            OBVIOUS
        <3>1. i \in 0..(n - 1) /\ i \in 0..(m - 1) /\ f[i] = g[i]
            BY <2>2
        <3> QED BY <3>1 DEF Follows
    <2> HIDE DEF T
    <2>3. Nat \subseteq T
        BY <2>1, <2>2, Induction
    <2> QED BY <2>3 DEF T
<1> DEFINE pick == [n \in Nat |-> CHOOSE f : f \in F(n)]
           sol == [n \in Nat |-> pick[n][n]]
<1>3. \A n \in Nat : pick[n] \in F(n)
    BY <1>1
<1> HIDE DEF pick
<1>4. sol \in [Nat -> V]
    BY <1>3 DEF Follows
<1>5. sol[0] = base
    BY <1>3 DEF Follows
<1>6. ASSUME NEW n \in Nat PROVE sol[n + 1] = h[n][sol[n]]
    <2>1. pick[n + 1] \in F(n + 1) /\ pick[n] \in F(n) /\ n \in 0..((n + 1) - 1)
        BY <1>3
    <2>2. pick[n + 1][n + 1] = h[n][pick[n + 1][n]]
        BY <2>1 DEF Follows
    <2>3. pick[n + 1][n] = pick[n][n]
        BY <1>2, <2>1
    <2> QED BY <2>2, <2>3
<1> QED BY <1>4, <1>5, <1>6 DEF Solves

-----------------------------------------------------------------------------
(* Byte lengths                                                              *)

\* A text: the widths of its characters, and a list of some of them.
Text(out, p) == out \in Seq(Nat) /\ p \in Seq(DOMAIN out)

\* sum[n] is the byte length of the first n of the characters p of out.
IsSum(out, p, sum) ==
    /\ sum \in [0..Len(p) -> Nat]
    /\ sum[0] = 0
    /\ \A n \in 0..(Len(p) - 1) : sum[n + 1] = sum[n] + out[p[n + 1]]

LEMMA TextTypes ==
    ASSUME NEW out, NEW p, Text(out, p)
    PROVE  /\ Len(p) \in Nat /\ DOMAIN p = 1..Len(p)
           /\ Len(out) \in Nat /\ DOMAIN out = 1..Len(out)
           /\ \A n \in 1..Len(p) : p[n] \in DOMAIN out /\ out[p[n]] \in Nat
           /\ \A n \in 0..(Len(p) - 1) : p[n + 1] \in DOMAIN out /\ out[p[n + 1]] \in Nat
<1>1. Len(p) \in Nat /\ DOMAIN p = 1..Len(p) /\ Len(out) \in Nat /\ DOMAIN out = 1..Len(out)
    BY LenProperties DEF Text
<1>2. \A n \in 1..Len(p) : p[n] \in DOMAIN out
    BY ElementOfSeq DEF Text
<1>3. \A i \in DOMAIN out : out[i] \in Nat
    BY <1>1, ElementOfSeq DEF Text
<1>4. \A n \in 0..(Len(p) - 1) : n + 1 \in 1..Len(p)
    BY <1>1
<1> QED BY <1>1, <1>2, <1>3, <1>4

LEMMA BytesIsSum ==
    ASSUME NEW out, NEW p, Text(out, p)
    PROVE  \E sum : IsSum(out, p, sum) /\ Bytes(out, p) = sum[Len(p)]
<1> DEFINE L == Len(p)
           h == [n \in Nat |-> [v \in Nat |-> IF n < L THEN v + out[p[n + 1]] ELSE v]]
           Law(f) == f = [n \in 0..L |-> IF n = 0 THEN 0 ELSE f[n - 1] + out[p[n]]]
<1>0. /\ L \in Nat
      /\ \A n \in 1..L : out[p[n]] \in Nat
      /\ \A n \in 0..(L - 1) : out[p[n + 1]] \in Nat
    BY TextTypes
<1> HIDE DEF L
<1>1. PICK f \in [Nat -> Nat] : Solves(f, 0, h)
    <2>1. h \in [Nat -> [Nat -> Nat]]
        BY <1>0
    <2> HIDE DEF h
    <2> QED BY <2>1, Recursion
<1>2. f[0] = 0 /\ \A n \in 0..(L - 1) : f[n + 1] = f[n] + out[p[n + 1]]
    <2>1. f[0] = 0 /\ \A n \in Nat : f[n + 1] = h[n][f[n]]
        BY <1>1 DEF Solves
    <2>2. ASSUME NEW n \in 0..(L - 1) PROVE h[n][f[n]] = f[n] + out[p[n + 1]]
        <3>1. n \in Nat /\ n < L /\ f[n] \in Nat
            BY <1>0, <1>1
        <3> QED BY <3>1
    <2> HIDE DEF h
    <2> QED BY <1>0, <2>1, <2>2
<1> HIDE DEF h
<1> DEFINE sum == [n \in 0..L |-> f[n]]
<1>3. IsSum(out, p, sum)
    <2>1. sum \in [0..L -> Nat] /\ sum[0] = 0
        BY <1>0, <1>1, <1>2
    <2>2. \A n \in 0..(L - 1) : n \in 0..L /\ n + 1 \in 0..L
        BY <1>0
    <2>3. \A n \in 0..(L - 1) : sum[n + 1] = sum[n] + out[p[n + 1]]
        BY <1>2, <2>2
    <2> HIDE DEF sum
    <2> QED BY <2>1, <2>3 DEF IsSum, L
<1>4. Law(sum)
    <2>1. \A n \in 0..L : n # 0 => n - 1 \in 0..(L - 1) /\ n - 1 \in 0..L /\ (n - 1) + 1 = n
        BY <1>0
    <2>2. \A n \in 0..L : n # 0 => f[n] = f[n - 1] + out[p[n]]
        BY <1>2, <2>1
    <2> QED BY <1>2, <2>1, <2>2
<1> DEFINE chosen == CHOOSE g : Law(g)
<1>5. Bytes(out, p) = chosen[L]
    BY DEF Bytes, L
<1>6. Law(chosen)
    <2> HIDE DEF Law
    <2> QED BY <1>4
<1>7. \A n \in 0..L : chosen[n] = IF n = 0 THEN 0 ELSE chosen[n - 1] + out[p[n]]
    BY <1>6
<1> HIDE DEF chosen, Law, sum
<1>8. \A n \in Nat : n <= L => chosen[n] = sum[n]
    <2> DEFINE T == {n \in Nat : n <= L => chosen[n] = sum[n]}
    <2>1. 0 \in T
        BY <1>0, <1>3, <1>7 DEF IsSum
    <2>2. ASSUME NEW n \in Nat, n \in T PROVE n + 1 \in T
        <3> SUFFICES ASSUME n + 1 <= L PROVE chosen[n + 1] = sum[n + 1]
            OBVIOUS
        <3>1. n \in 0..(L - 1) /\ n + 1 \in 0..L /\ n + 1 # 0 /\ (n + 1) - 1 = n /\ n <= L
            BY <1>0
        <3>2. chosen[n + 1] = chosen[n] + out[p[n + 1]]
            BY <1>7, <3>1
        <3>3. sum[n + 1] = sum[n] + out[p[n + 1]]
            BY <1>3, <3>1 DEF IsSum, L
        <3> QED BY <2>2, <3>1, <3>2, <3>3
    <2> HIDE DEF T
    <2>3. Nat \subseteq T
        BY <2>1, <2>2, Induction
    <2> QED BY <2>3 DEF T
<1> QED BY <1>0, <1>3, <1>5, <1>8 DEF L

\* The sums of a list begin with those of its head, and they grow.
LEMMA SumLaws ==
    ASSUME NEW out, NEW p, Text(out, p), NEW sum, IsSum(out, p, sum)
    PROVE  /\ \A k \in 0..Len(p) : Bytes(out, SubSeq(p, 1, k)) = sum[k]
           /\ \A i, j \in 0..Len(p) : i <= j => sum[i] <= sum[j]
<1> DEFINE L == Len(p)
<1>0. L \in Nat /\ \A n \in 0..(L - 1) : p[n + 1] \in DOMAIN out /\ out[p[n + 1]] \in Nat
    BY TextTypes
<1>1. ASSUME NEW k \in 0..L PROVE Bytes(out, SubSeq(p, 1, k)) = sum[k]
    <2> DEFINE q == SubSeq(p, 1, k)
    <2>1. /\ q \in Seq(DOMAIN out) /\ Len(q) = k
          /\ \A i \in 1..k : q[i] = p[i]
        <3>1. \A i \in 1..k : p[i] \in DOMAIN out
            BY <1>0, TextTypes
        <3> QED BY <1>0, <3>1, SubSeqProperties
    <2> HIDE DEF q
    <2>2. Text(out, q)
        BY <2>1 DEF Text
    <2>3. PICK g : IsSum(out, q, g) /\ Bytes(out, q) = g[k]
        BY <2>1, <2>2, BytesIsSum
    <2> DEFINE T == {i \in Nat : i <= k => g[i] = sum[i]}
    <2>4. 0 \in T
        BY <2>3 DEF IsSum
    <2>5. ASSUME NEW i \in Nat, i \in T PROVE i + 1 \in T
        <3> SUFFICES ASSUME i + 1 <= k PROVE g[i + 1] = sum[i + 1]
            OBVIOUS
        <3>1. i \in 0..(k - 1) /\ i \in 0..(L - 1) /\ i + 1 \in 1..k /\ i <= k
            BY <1>0
        <3>2. g[i + 1] = g[i] + out[q[i + 1]]
            BY <2>1, <2>3, <3>1 DEF IsSum
        <3>3. sum[i + 1] = sum[i] + out[p[i + 1]]
            BY <3>1 DEF IsSum
        <3> QED BY <2>1, <2>5, <3>1, <3>2, <3>3
    <2> HIDE DEF T
    <2>6. Nat \subseteq T
        BY <2>4, <2>5, Induction
    <2>7. k \in T /\ k <= k
        BY <1>0, <2>6
    <2> QED BY <2>3, <2>7 DEF T, q
<1>2. ASSUME NEW i \in 0..L PROVE \A j \in 0..L : i <= j => sum[i] <= sum[j]
    <2> DEFINE T == {n \in Nat : i + n <= L => sum[i] <= sum[i + n]}
    <2>1. 0 \in T
        BY <1>0 DEF IsSum
    <2>2. ASSUME NEW n \in Nat, n \in T PROVE n + 1 \in T
        <3> SUFFICES ASSUME i + (n + 1) <= L PROVE sum[i] <= sum[i + (n + 1)]
            OBVIOUS
        <3>1. i + n \in 0..(L - 1) /\ i + n <= L /\ i + (n + 1) = (i + n) + 1
            BY <1>0
        <3>2. sum[(i + n) + 1] = sum[i + n] + out[p[(i + n) + 1]]
            BY <3>1 DEF IsSum
        <3>3. /\ out[p[(i + n) + 1]] \in Nat /\ sum[i] \in Nat /\ sum[i + n] \in Nat
              /\ sum[i] <= sum[i + n]
            BY <1>0, <2>2, <3>1 DEF IsSum
        <3> QED BY <3>1, <3>2, <3>3
    <2> HIDE DEF T
    <2>3. Nat \subseteq T
        BY <2>1, <2>2, Induction
    <2>4. ASSUME NEW j \in 0..L, i <= j PROVE sum[i] <= sum[j]
        <3>1. j - i \in Nat /\ i + (j - i) = j /\ j <= L
            BY <1>0, <2>4
        <3>2. j - i \in T
            BY <2>3, <3>1
        <3> QED BY <3>1, <3>2 DEF T
    <2> QED BY <2>4
<1> QED BY <1>1, <1>2

-----------------------------------------------------------------------------
(* The loop of truncateUtf8                                                  *)

\* Its locals, and the whole of it: what they are after n turns.
Turns(out) == [stop : BOOLEAN, used : Nat, kept : Seq(DOMAIN out)]

IsRun(out, p, max, turn) ==
    /\ turn[0] = Entry
    /\ \A n \in 0..(Len(p) - 1) : turn[n + 1] = Keep(out, max, turn[n], p[n + 1])

LEMMA LoopRuns ==
    ASSUME NEW out, NEW p, Text(out, p), NEW max \in Nat
    PROVE  \E turn : IsRun(out, p, max, turn) /\ Loop(out, p, max) = turn[Len(p)].kept
<1> DEFINE L == Len(p)
           V == Turns(out)
           h == [n \in Nat |-> [v \in V |-> IF n < L THEN Keep(out, max, v, p[n + 1]) ELSE v]]
           Law(f) == f = [n \in 0..L |-> IF n = 0 THEN Entry ELSE Keep(out, max, f[n - 1], p[n])]
<1>0. L \in Nat /\ \A n \in 0..(L - 1) : p[n + 1] \in DOMAIN out /\ out[p[n + 1]] \in Nat
    BY TextTypes
<1> HIDE DEF L
<1>1. Entry \in V
    BY EmptySeq DEF Turns, Entry
<1>2. ASSUME NEW v \in V, NEW n \in 0..(L - 1) PROVE Keep(out, max, v, p[n + 1]) \in V
    <2>1. Append(v.kept, p[n + 1]) \in Seq(DOMAIN out)
        BY <1>0, AppendProperties DEF Turns
    <2>2. [v EXCEPT !.stop = TRUE] \in V
        BY DEF Turns
    <2>3. v.used + out[p[n + 1]] \in Nat
        BY <1>0 DEF Turns
    <2>4. [v EXCEPT !.used = v.used + out[p[n + 1]], !.kept = Append(v.kept, p[n + 1])] \in V
        BY <2>1, <2>3 DEF Turns
    <2> HIDE DEF V
    <2> QED BY <2>2, <2>4 DEF Keep
<1>3. PICK f \in [Nat -> V] : Solves(f, Entry, h)
    <2>1. h \in [Nat -> [V -> V]]
        <3>1. \A n \in Nat : n < L => n \in 0..(L - 1)
            BY <1>0
        <3> HIDE DEF V
        <3> QED BY <1>2, <3>1
    <2> HIDE DEF h, V
    <2> QED BY <1>1, <2>1, Recursion
<1>4. f[0] = Entry /\ \A n \in 0..(L - 1) : f[n + 1] = Keep(out, max, f[n], p[n + 1])
    <2>1. f[0] = Entry /\ \A n \in Nat : f[n + 1] = h[n][f[n]]
        BY <1>3 DEF Solves
    <2>2. ASSUME NEW n \in 0..(L - 1) PROVE h[n][f[n]] = Keep(out, max, f[n], p[n + 1])
        <3>1. n \in Nat /\ n < L /\ f[n] \in V
            BY <1>0, <1>3
        <3> HIDE DEF V
        <3> QED BY <3>1
    <2> HIDE DEF h
    <2> QED BY <1>0, <2>1, <2>2
<1> HIDE DEF h, V
<1> DEFINE turn == [n \in 0..L |-> f[n]]
<1>5. Law(turn)
    <2>1. \A n \in 0..L : n # 0 => n - 1 \in 0..(L - 1) /\ n - 1 \in 0..L /\ (n - 1) + 1 = n
        BY <1>0
    <2>2. \A n \in 0..L : n # 0 => f[n] = Keep(out, max, f[n - 1], p[n])
        BY <1>4, <2>1
    <2> QED BY <1>4, <2>1, <2>2
<1> DEFINE chosen == CHOOSE g : Law(g)
<1>6. Loop(out, p, max) = chosen[L].kept
    BY DEF Loop, L
<1>7. Law(chosen)
    <2> HIDE DEF Law
    <2> QED BY <1>5
<1>8. \A n \in 0..L : chosen[n] = IF n = 0 THEN Entry ELSE Keep(out, max, chosen[n - 1], p[n])
    BY <1>7
<1> HIDE DEF chosen
<1>9. IsRun(out, p, max, chosen)
    <2>1. \A n \in 0..(L - 1) : n + 1 \in 0..L /\ n + 1 # 0 /\ (n + 1) - 1 = n
        BY <1>0
    <2>2. 0 \in 0..L
        BY <1>0
    <2>3. \A n \in 0..(L - 1) : chosen[n + 1] = Keep(out, max, chosen[n], p[n + 1])
        BY <1>8, <2>1
    <2> QED BY <1>8, <2>2, <2>3 DEF IsRun, L
<1> QED BY <1>6, <1>9 DEF L

\* After n turns the head of k characters is kept: all n of them, or as many
\* as fit.
HeadKept(acc, p, sum, max, n, k) ==
    /\ sum[k] <= max
    /\ \/ /\ k = n
          /\ acc = [stop |-> FALSE, used |-> sum[k], kept |-> SubSeq(p, 1, k)]
       \/ /\ k < n /\ sum[k + 1] > max
          /\ acc = [stop |-> TRUE, used |-> sum[k], kept |-> SubSeq(p, 1, k)]

LEMMA LoopHead ==
    ASSUME NEW out, NEW p, Text(out, p), NEW max \in Nat, NEW sum, IsSum(out, p, sum)
    PROVE  \E k \in 0..Len(p) : /\ Loop(out, p, max) = SubSeq(p, 1, k)
                                /\ sum[k] <= max
                                /\ k < Len(p) => sum[k + 1] > max
<1> DEFINE L == Len(p)
<1>0. /\ L \in Nat /\ \A n \in 0..(L - 1) : p[n + 1] \in DOMAIN out /\ out[p[n + 1]] \in Nat
      /\ \A n \in 1..L : p[n] \in DOMAIN out
    BY TextTypes
<1>1. PICK turn : IsRun(out, p, max, turn) /\ Loop(out, p, max) = turn[L].kept
    BY LoopRuns
<1> DEFINE T == {n \in Nat : n <= L => \E k \in 0..n : HeadKept(turn[n], p, sum, max, n, k)}
<1>2. 0 \in T
    <2>1. SubSeq(p, 1, 0) = <<>>
        BY SubSeqEmpty
    <2>2. turn[0] = Entry /\ sum[0] = 0
        BY <1>1 DEF IsRun, IsSum
    <2>3. HeadKept(turn[0], p, sum, max, 0, 0)
        <3>1. turn[0] = [stop |-> FALSE, used |-> sum[0], kept |-> SubSeq(p, 1, 0)]
            BY <2>1, <2>2 DEF Entry
        <3>2. sum[0] <= max
            BY <2>2
        <3> QED BY <3>1, <3>2 DEF HeadKept
    <2> QED BY <2>3
<1>3. ASSUME NEW n \in Nat, n \in T PROVE n + 1 \in T
    <2> SUFFICES ASSUME n + 1 <= L
                 PROVE  \E k \in 0..(n + 1) : HeadKept(turn[n + 1], p, sum, max, n + 1, k)
        OBVIOUS
    <2>1. n \in 0..(L - 1) /\ n <= L
        BY <1>0
    <2>2. PICK k \in 0..n : HeadKept(turn[n], p, sum, max, n, k)
        BY <1>3, <2>1
    <2> DEFINE acc == turn[n]
               i == p[n + 1]
    <2>3. turn[n + 1] = Keep(out, max, acc, i) /\ sum[n + 1] = sum[n] + out[i]
        BY <1>1, <2>1 DEF IsRun, IsSum
    <2>4. sum[n] \in Nat /\ sum[n + 1] \in Nat /\ out[i] \in Nat /\ i \in DOMAIN out
        BY <1>0, <2>1 DEF IsSum
    <2> HIDE DEF T, acc, i, L
    <2>5. CASE k < n
        <3>1. acc.stop = TRUE /\ acc = [stop |-> TRUE, used |-> sum[k], kept |-> SubSeq(p, 1, k)]
            BY <2>2, <2>5 DEF HeadKept, acc
        <3>2. turn[n + 1] = [stop |-> TRUE, used |-> sum[k], kept |-> SubSeq(p, 1, k)]
            BY <2>3, <3>1 DEF Keep
        <3>3. HeadKept(turn[n + 1], p, sum, max, n + 1, k)
            BY <2>2, <2>5, <3>2 DEF HeadKept
        <3> QED BY <3>3
    <2>6. CASE k = n /\ sum[n + 1] > max
        <3>1. acc.used = sum[n] /\ acc = [stop |-> FALSE, used |-> sum[n], kept |-> SubSeq(p, 1, n)]
            BY <2>2, <2>6 DEF HeadKept, acc
        <3>2. turn[n + 1] = [stop |-> TRUE, used |-> sum[n], kept |-> SubSeq(p, 1, n)]
            BY <2>3, <2>6, <3>1 DEF Keep
        <3>3. HeadKept(turn[n + 1], p, sum, max, n + 1, k)
            BY <2>2, <2>6, <3>2 DEF HeadKept
        <3> QED BY <3>3
    <2>7. CASE k = n /\ ~(sum[n + 1] > max)
        <3>1. acc = [stop |-> FALSE, used |-> sum[n], kept |-> SubSeq(p, 1, n)]
            BY <2>2, <2>7 DEF HeadKept, acc
        <3>2. ~(acc.stop \/ acc.used + out[i] > max)
            BY <2>3, <2>7, <3>1
        <3>3. turn[n + 1] = [acc EXCEPT !.used = sum[n + 1], !.kept = Append(SubSeq(p, 1, n), i)]
            BY <2>3, <3>1, <3>2 DEF Keep
        <3>4. Append(SubSeq(p, 1, n), i) = SubSeq(p, 1, n + 1)
            <4>1. /\ SubSeq(p, 1, n) \in Seq(DOMAIN out) /\ Len(SubSeq(p, 1, n)) = n
                  /\ \A j \in 1..n : SubSeq(p, 1, n)[j] = p[j]
                <5>1. \A j \in 1..n : p[j] \in DOMAIN out
                    BY <1>0, <2>1
                <5> QED BY <5>1, SubSeqProperties
            <4>2. /\ SubSeq(p, 1, n + 1) \in Seq(DOMAIN out) /\ Len(SubSeq(p, 1, n + 1)) = n + 1
                  /\ \A j \in 1..(n + 1) : SubSeq(p, 1, n + 1)[j] = p[j]
                <5>1. \A j \in 1..(n + 1) : p[j] \in DOMAIN out
                    BY <1>0, <2>1
                <5> QED BY <5>1, SubSeqProperties
            <4>3. /\ Append(SubSeq(p, 1, n), i) \in Seq(DOMAIN out)
                  /\ Len(Append(SubSeq(p, 1, n), i)) = n + 1
                  /\ \A j \in 1..n : Append(SubSeq(p, 1, n), i)[j] = SubSeq(p, 1, n)[j]
                  /\ Append(SubSeq(p, 1, n), i)[n + 1] = i
                BY <2>4, <4>1, AppendProperties
            <4>4. \A j \in 1..(n + 1) : Append(SubSeq(p, 1, n), i)[j] = SubSeq(p, 1, n + 1)[j]
                BY <4>1, <4>2, <4>3 DEF i
            <4> QED BY <4>2, <4>3, <4>4, SeqEqual
        <3>5. HeadKept(turn[n + 1], p, sum, max, n + 1, n + 1)
            <4>1. turn[n + 1] = [stop |-> FALSE, used |-> sum[n + 1], kept |-> SubSeq(p, 1, n + 1)]
                BY <3>1, <3>3, <3>4
            <4>2. sum[n + 1] <= max
                BY <2>4, <2>7
            <4> QED BY <4>1, <4>2 DEF HeadKept
        <3> QED BY <3>5
    <2> QED BY <2>2, <2>5, <2>6, <2>7
<1> HIDE DEF T
<1>4. Nat \subseteq T
    BY <1>2, <1>3, Induction
<1>5. PICK k \in 0..L : HeadKept(turn[L], p, sum, max, L, k)
    BY <1>0, <1>4 DEF T
<1> QED BY <1>1, <1>5 DEF HeadKept

\* truncateUtf8 returns a head that fits, and one more character would not.
LEMMA TruncateHead ==
    ASSUME NEW out, NEW p, Text(out, p), NEW max \in Nat, NEW sum, IsSum(out, p, sum),
           \A i \in DOMAIN out : out[i] > 0
    PROVE  \E k \in 0..Len(p) : /\ Truncate(out, p, max) = SubSeq(p, 1, k)
                                /\ sum[k] <= max
                                /\ k < Len(p) => sum[k + 1] > max
<1> DEFINE L == Len(p)
<1>0. /\ L \in Nat /\ p \in Seq(DOMAIN out)
      /\ \A n \in 0..(L - 1) : p[n + 1] \in DOMAIN out /\ out[p[n + 1]] \in Nat
      /\ \A n \in 1..L : p[n] \in DOMAIN out
    BY TextTypes DEF Text
<1>1. CASE max = 0
    <2>1. SubSeq(p, 1, 0) = <<>>
        BY SubSeqEmpty
    <2>2. sum[0] = 0
        BY DEF IsSum
    <2>3. ASSUME 0 < L PROVE sum[1] > 0
        <3>1. 0 \in 0..(L - 1) /\ 0 + 1 = 1
            BY <1>0, <2>3
        <3>2. sum[1] = sum[0] + out[p[1]] /\ p[1] \in DOMAIN out
            BY <1>0, <3>1 DEF IsSum
        <3>3. out[p[1]] > 0 /\ out[p[1]] \in Nat
            BY <1>0, <3>1, <3>2
        <3>4. sum[1] = out[p[1]]
            BY <2>2, <3>2, <3>3
        <3> QED BY <3>3, <3>4
    <2>4. Truncate(out, p, max) = SubSeq(p, 1, 0)
        BY <1>1, <2>1 DEF Truncate
    <2> QED BY <1>0, <1>1, <2>2, <2>3, <2>4
<1>2. CASE max # 0 /\ Bytes(out, p) <= max
    <2>1. SubSeq(p, 1, L) = p
        <3>1. /\ SubSeq(p, 1, L) \in Seq(DOMAIN out) /\ Len(SubSeq(p, 1, L)) = L
              /\ \A j \in 1..L : SubSeq(p, 1, L)[j] = p[j]
            BY <1>0, SubSeqProperties
        <3> QED BY <1>0, <3>1, SeqEqual
    <2>2. Bytes(out, SubSeq(p, 1, L)) = sum[L]
        BY <1>0, SumLaws
    <2>3. Truncate(out, p, max) = SubSeq(p, 1, L)
        BY <1>2, <2>1 DEF Truncate
    <2>4. sum[L] <= max
        BY <1>2, <2>1, <2>2, Zenon
    <2>5. L \in 0..L /\ ~(L < L)
        BY <1>0
    <2> HIDE DEF L
    <2> QED BY <2>3, <2>4, <2>5 DEF L
<1>3. CASE max # 0 /\ ~(Bytes(out, p) <= max)
    BY <1>3, LoopHead DEF Truncate
<1> QED BY <1>1, <1>2, <1>3

-----------------------------------------------------------------------------
(* The state of the buffer                                                   *)

LEMMA UptoLaws ==
    ASSUME NEW n \in Nat
    PROVE  /\ Upto(n) \in Seq(1..n) /\ Len(Upto(n)) = n
           /\ \A i \in 1..n : Upto(n)[i] = i
           /\ \A k \in 0..n : SubSeq(Upto(n), 1, k) = Upto(k)
<1>1. ASSUME NEW m \in Nat
      PROVE  Upto(m) \in Seq(1..m) /\ Len(Upto(m)) = m /\ \A i \in 1..m : Upto(m)[i] = i
    <2>1. Upto(m) \in Seq(1..m)
        BY IsASeq DEF Upto
    <2>2. DOMAIN Upto(m) = 1..m /\ \A i \in 1..m : Upto(m)[i] = i
        BY DEF Upto
    <2>3. Len(Upto(m)) \in Nat /\ DOMAIN Upto(m) = 1..Len(Upto(m))
        BY <2>1, LenProperties
    <2>4. Len(Upto(m)) = m
        BY <2>2, <2>3
    <2> QED BY <2>1, <2>2, <2>4
<1>2. ASSUME NEW k \in 0..n PROVE SubSeq(Upto(n), 1, k) = Upto(k)
    <2>1. \A i \in 1..k : Upto(n)[i] \in 1..k
        BY <1>1
    <2>2. /\ SubSeq(Upto(n), 1, k) \in Seq(1..k) /\ Len(SubSeq(Upto(n), 1, k)) = k
          /\ \A i \in 1..k : SubSeq(Upto(n), 1, k)[i] = Upto(n)[i]
        BY <2>1, SubSeqProperties
    <2>3. k \in Nat /\ \A i \in 1..k : i \in 1..n
        OBVIOUS
    <2>4. Upto(k) \in Seq(1..k) /\ Len(Upto(k)) = k /\ \A i \in 1..k : Upto(k)[i] = i
        BY <1>1, <2>3
    <2>5. \A i \in 1..k : SubSeq(Upto(n), 1, k)[i] = Upto(k)[i]
        BY <1>1, <2>2, <2>3, <2>4
    <2> QED BY <2>2, <2>4, <2>5, SeqEqual
<1> QED BY <1>1, <1>2

WidthsTyped(out) == out \in Seq(Widths)

LEMMA WidthsAreText ==
    ASSUME NEW out, WidthsTyped(out)
    PROVE  /\ out \in Seq(Nat) /\ Len(out) \in Nat /\ DOMAIN out = 1..Len(out)
           /\ \A i \in DOMAIN out : out[i] > 0
<1>1. Widths \subseteq Nat /\ \A w \in Widths : w > 0
    BY BufferAssumption
<1>2. out \in Seq(Nat)
    BY <1>1, SeqMonotonic DEF WidthsTyped
<1>3. Len(out) \in Nat /\ DOMAIN out = 1..Len(out)
    BY LenProperties DEF WidthsTyped
<1>4. \A i \in 1..Len(out) : out[i] \in Widths
    BY ElementOfSeq DEF WidthsTyped
<1> QED BY <1>1, <1>2, <1>3, <1>4

\* The longest head that fits, of any text and for any cap.
LEMMA TruncateLongest ==
    ASSUME NEW out, WidthsTyped(out), NEW max \in Nat
    PROVE  Truncate(out, Upto(Len(out)), max) = Upto(LongestFit(out, max))
<1> DEFINE N == Len(out)
           p == Upto(N)
           fits == {n \in 0..N : Bytes(out, Upto(n)) <= max}
<1>0. N \in Nat /\ DOMAIN out = 1..N /\ p \in Seq(1..N) /\ Len(p) = N /\ Text(out, p)
    BY WidthsAreText, UptoLaws DEF Text
<1>1. PICK sum : IsSum(out, p, sum)
    BY <1>0, BytesIsSum
<1>2. PICK k \in 0..N : /\ Truncate(out, p, max) = SubSeq(p, 1, k)
                        /\ sum[k] <= max
                        /\ k < N => sum[k + 1] > max
    BY <1>0, <1>1, TruncateHead, WidthsAreText
<1>3. \A n \in 0..N : Bytes(out, Upto(n)) = sum[n] /\ SubSeq(p, 1, n) = Upto(n)
    <2>1. \A n \in 0..N : Bytes(out, SubSeq(p, 1, n)) = sum[n]
        BY <1>0, <1>1, SumLaws
    <2>2. \A n \in 0..N : SubSeq(p, 1, n) = Upto(n)
        BY <1>0, UptoLaws
    <2> QED BY <2>1, <2>2
<1>4. \A i, j \in 0..N : i <= j => sum[i] <= sum[j]
    BY <1>0, <1>1, SumLaws
<1>5. \A n \in 0..N : sum[n] \in Nat
    BY <1>0, <1>1 DEF IsSum
<1> HIDE DEF N, p
<1>6. k \in fits
    BY <1>2, <1>3
<1>7. \A n \in fits : n <= k
    <2> SUFFICES ASSUME NEW n \in 0..N, sum[n] <= max, ~(n <= k) PROVE FALSE
        BY <1>3
    <2>1. k + 1 \in 0..N /\ k + 1 <= n /\ k < N
        BY <1>0
    <2>2. sum[k + 1] <= sum[n] /\ sum[k + 1] > max
        BY <1>2, <1>4, <2>1
    <2> QED BY <1>5, <2>1, <2>2
<1>8. LongestFit(out, max) = k
    <2>1. LongestFit(out, max) = CHOOSE n \in fits : \A m \in fits : m <= n
        BY DEF LongestFit, N
    <2>2. \A n \in fits : (\A m \in fits : m <= n) => n = k
        BY <1>6, <1>7
    <2> HIDE DEF fits
    <2> QED BY <1>6, <1>7, <2>1, <2>2
<1> QED BY <1>2, <1>3, <1>8 DEF N, p

Increasing(p) == \A i, j \in DOMAIN p : i < j => p[i] < p[j]

\* What every step keeps: the buffer is a list of written characters in order
\* within its cap, whole exactly while the flag is down. Its order is what
\* shows that a buffer cut short is never the whole output.
BufferInv ==
    /\ WidthsTyped(output) /\ Len(output) <= MaxChars
    /\ value \in Seq(DOMAIN output) /\ Increasing(value)
    /\ Bytes(output, value) <= MaxBytes
    /\ truncated \in BOOLEAN
    /\ truncated <=> value # Upto(Len(output))

\* The text after a data event, and what the buffer would hold if it fitted.
LEMMA NextText ==
    ASSUME BufferInv, NEW n \in 1..MaxChunk, NEW chunk \in [1..n -> Widths]
    PROVE  LET out == output \o chunk
               next == value \o [i \in 1..n |-> Len(output) + i]
           IN  /\ WidthsTyped(out) /\ Len(out) = Len(output) + n
               /\ Text(out, next) /\ next \in Seq(1..Len(out)) /\ Len(next) \in Nat
               /\ Increasing(next)
               /\ value = Upto(Len(output)) <=> next = Upto(Len(out))
<1> DEFINE N == Len(output)
           V == Len(value)
           added == [i \in 1..n |-> N + i]
           out == output \o chunk
           next == value \o added
<1>0. n \in Nat /\ n >= 1
    BY BufferAssumption
<1>1. /\ output \in Seq(Widths) /\ N \in Nat /\ DOMAIN output = 1..N
      /\ value \in Seq(1..N) /\ V \in Nat /\ DOMAIN value = 1..V
      /\ \A i \in 1..V : value[i] \in 1..N
    <2>1. output \in Seq(Widths) /\ N \in Nat /\ DOMAIN output = 1..N /\ value \in Seq(1..N)
        BY WidthsAreText DEF BufferInv, WidthsTyped
    <2> HIDE DEF N
    <2> QED BY <2>1, LenProperties, ElementOfSeq
<1>2. chunk \in Seq(Widths) /\ Len(chunk) = n
    <2>1. chunk \in Seq(Widths)
        BY <1>0, IsASeq
    <2>2. Len(chunk) \in Nat /\ DOMAIN chunk = 1..Len(chunk) /\ DOMAIN chunk = 1..n
        BY <2>1, LenProperties
    <2> QED BY <1>0, <2>1, <2>2
<1>3. out \in Seq(Widths) /\ Len(out) = N + n
    BY <1>1, <1>2, ConcatProperties
<1> HIDE DEF N, out
<1>4. added \in Seq(1..(N + n)) /\ Len(added) = n /\ \A i \in 1..n : added[i] = N + i
    <2>1. \A i \in 1..n : N + i \in 1..(N + n)
        BY <1>0, <1>1
    <2>2. added \in Seq(1..(N + n))
        BY <1>0, <2>1, IsASeq
    <2>3. DOMAIN added = 1..n /\ \A i \in 1..n : added[i] = N + i
        OBVIOUS
    <2>4. Len(added) \in Nat /\ DOMAIN added = 1..Len(added)
        BY <2>2, LenProperties
    <2> HIDE DEF added
    <2> QED BY <1>0, <2>2, <2>3, <2>4
<1>5. value \in Seq(1..(N + n))
    <2>1. 1..N \subseteq 1..(N + n)
        BY <1>0, <1>1
    <2> QED BY <1>1, <2>1, SeqMonotonic
<1> HIDE DEF added, V
<1>6. /\ next \in Seq(1..(N + n)) /\ Len(next) = V + n
      /\ \A i \in 1..V : next[i] = value[i]
      /\ \A i \in 1..(V + n) : i > V => next[i] = N + (i - V)
    <2>1. /\ next \in Seq(1..(N + n)) /\ Len(next) = V + n
          /\ \A i \in 1..(V + n) : next[i] = IF i <= V THEN value[i] ELSE added[i - V]
        BY <1>4, <1>5, ConcatProperties DEF V
    <2>2. \A i \in 1..V : i \in 1..(V + n) /\ i <= V
        BY <1>0, <1>1
    <2>3. \A i \in 1..(V + n) : i > V => ~(i <= V) /\ i - V \in 1..n
        BY <1>0, <1>1
    <2> QED BY <1>4, <2>1, <2>2, <2>3
<1> HIDE DEF next
<1>7. DOMAIN next = 1..(V + n)
    BY <1>6, LenProperties
<1>8. Text(out, next) /\ Len(next) \in Nat
    <2>1. WidthsTyped(out)
        BY <1>3 DEF WidthsTyped
    <2>2. out \in Seq(Nat) /\ DOMAIN out = 1..(N + n)
        BY <1>3, <2>1, WidthsAreText
    <2> QED BY <1>0, <1>1, <1>6, <2>2 DEF Text
<1>9. Increasing(next)
    <2> SUFFICES ASSUME NEW i \in 1..(V + n), NEW j \in 1..(V + n), i < j
                 PROVE  next[i] < next[j]
        BY <1>7 DEF Increasing
    <2>1. CASE j <= V
        <3>1. i \in 1..V /\ j \in 1..V
            BY <1>1, <2>1
        <3>2. value[i] < value[j]
            BY <1>1, <3>1 DEF BufferInv, Increasing
        <3> QED BY <1>6, <3>1, <3>2
    <2>2. CASE i <= V /\ j > V
        <3>1. i \in 1..V /\ value[i] \in 1..N
            BY <1>1, <2>2
        <3>2. next[i] = value[i] /\ next[j] = N + (j - V)
            BY <1>6, <2>2, <3>1
        <3> QED BY <1>1, <2>2, <3>1, <3>2
    <2>3. CASE i > V /\ j > V
        <3>1. next[i] = N + (i - V) /\ next[j] = N + (j - V)
            BY <1>6, <2>3
        <3> QED BY <1>1, <2>3, <3>1
    <2> QED BY <1>1, <2>1, <2>2, <2>3
<1>10. value = Upto(N) <=> next = Upto(N + n)
    <2>1. /\ Upto(N) \in Seq(1..N) /\ Len(Upto(N)) = N /\ \A i \in 1..N : Upto(N)[i] = i
          /\ Upto(N + n) \in Seq(1..(N + n)) /\ Len(Upto(N + n)) = N + n
          /\ \A i \in 1..(N + n) : Upto(N + n)[i] = i
        <3>1. N + n \in Nat
            BY <1>0, <1>1
        <3> QED BY <1>1, <3>1, UptoLaws
    <2>2. ASSUME value = Upto(N) PROVE next = Upto(N + n)
        <3>1. V = N /\ \A i \in 1..V : value[i] = i
            BY <2>1, <2>2 DEF V
        <3>2. ASSUME NEW i \in 1..(N + n) PROVE next[i] = i
            <4>1. CASE i <= N
                BY <1>1, <1>6, <3>1, <4>1
            <4>2. CASE i > N
                <5>1. next[i] = N + (i - N)
                    BY <1>6, <3>1, <4>2
                <5> QED BY <1>1, <5>1
            <4> QED BY <1>1, <4>1, <4>2
        <3>3. \A i \in 1..(N + n) : next[i] = Upto(N + n)[i]
            BY <2>1, <3>2
        <3>4. Len(next) = N + n
            BY <1>6, <3>1
        <3> QED BY <1>6, <2>1, <3>3, <3>4, SeqEqual
    <2>3. ASSUME next = Upto(N + n) PROVE value = Upto(N)
        <3>1. V = N
            BY <1>0, <1>1, <1>6, <2>1, <2>3
        <3>2. \A i \in 1..N : i \in 1..(N + n)
            BY <1>0, <1>1
        <3>3. \A i \in 1..N : value[i] = Upto(N)[i]
            BY <1>6, <2>1, <2>3, <3>1, <3>2
        <3>4. Len(value) = N
            BY <3>1 DEF V
        <3> QED BY <1>1, <2>1, <3>3, <3>4, SeqEqual
    <2> QED BY <2>2, <2>3
<1> QED BY <1>3, <1>6, <1>8, <1>9, <1>10 DEF WidthsTyped, N, out, next, added

\* Cutting an increasing list to the cap leaves an increasing list within it;
\* what is lost is really lost.
LEMMA CutLaws ==
    ASSUME NEW out, WidthsTyped(out), NEW next \in Seq(1..Len(out)), Text(out, next),
           Increasing(next), ~(Bytes(out, next) <= MaxBytes)
    PROVE  LET cut == Truncate(out, next, MaxBytes)
           IN  /\ cut \in Seq(1..Len(out)) /\ Increasing(cut)
               /\ Bytes(out, cut) <= MaxBytes
               /\ Len(out) > 0 => cut # Upto(Len(out))
<1> DEFINE L == Len(next)
           N == Len(out)
           cut == Truncate(out, next, MaxBytes)
<1>0. /\ MaxBytes \in Nat /\ N \in Nat /\ L \in Nat /\ DOMAIN next = 1..L
      /\ \A i \in 1..L : next[i] \in 1..N
    <2>1. MaxBytes \in Nat
        BY BufferAssumption
    <2> QED BY <2>1, WidthsAreText, LenProperties, ElementOfSeq
<1>1. PICK sum : IsSum(out, next, sum)
    BY BytesIsSum
<1>2. PICK k \in 0..L : cut = SubSeq(next, 1, k) /\ sum[k] <= MaxBytes
    BY <1>0, <1>1, TruncateHead, WidthsAreText
<1>3. /\ cut \in Seq(1..N) /\ Len(cut) = k
      /\ \A i \in 1..k : cut[i] = next[i]
    <2>1. \A i \in 1..k : next[i] \in 1..N
        BY <1>0
    <2> QED BY <1>2, <2>1, SubSeqProperties
<1>4. DOMAIN cut = 1..k
    BY <1>3, LenProperties
<1> HIDE DEF cut, L, N
<1>5. Bytes(out, cut) <= MaxBytes
    BY <1>1, <1>2, SumLaws DEF L
<1>6. Increasing(cut)
    <2>1. \A i \in 1..k : i \in 1..L
        BY <1>0
    <2> QED BY <1>0, <1>3, <1>4, <2>1 DEF Increasing
<1>7. ASSUME N > 0, cut = Upto(N) PROVE FALSE
    <2>1. Len(Upto(N)) = N /\ \A i \in 1..N : Upto(N)[i] = i
        BY <1>0, UptoLaws
    <2>2. k = N /\ next[N] = N
        <3>1. k = N /\ N \in 1..N
            BY <1>0, <1>3, <1>7, <2>1
        <3> QED BY <1>3, <1>7, <2>1, <3>1
    <2>3. k # L
        <3>1. SubSeq(next, 1, L) = next
            BY SubSeqFull DEF L
        <3>2. ASSUME k = L PROVE FALSE
            BY <1>2, <1>5, <3>1, <3>2
        <3> QED BY <3>2
    <2>4. N \in 1..L /\ N + 1 \in 1..L /\ N < N + 1
        BY <1>0, <1>7, <2>2, <2>3
    <2>5. next[N] < next[N + 1] /\ next[N + 1] \in 1..N
        BY <1>0, <2>4 DEF Increasing
    <2> QED BY <1>0, <2>2, <2>5
<1> QED BY <1>3, <1>5, <1>6, <1>7 DEF cut, N

LEMMA BufferInit == Init => BufferInv
<1> SUFFICES ASSUME Init PROVE BufferInv
    OBVIOUS
<1>1. output = <<>> /\ value = <<>> /\ truncated = FALSE
    BY DEF Init
<1>2. WidthsTyped(output) /\ Len(output) = 0 /\ value \in Seq(DOMAIN output) /\ Len(value) = 0
    BY <1>1, EmptySeq DEF WidthsTyped
<1>3. Increasing(value)
    BY <1>1 DEF Increasing
<1>4. Bytes(output, value) = 0
    <2>1. Text(output, value)
        BY <1>2, WidthsAreText DEF Text
    <2> QED BY <1>2, <2>1, BytesIsSum DEF IsSum
<1>5. value = Upto(Len(output))
    <2>1. Upto(0) \in Seq(1..0) /\ Len(Upto(0)) = 0
        BY UptoLaws
    <2> QED BY <1>1, <1>2, <2>1, EmptySeq
<1>6. Len(output) <= MaxChars /\ Bytes(output, value) <= MaxBytes
    <2>1. MaxChars \in Nat /\ MaxBytes \in Nat
        BY BufferAssumption
    <2> QED BY <1>2, <1>4, <2>1
<1>7. truncated \in BOOLEAN /\ (truncated <=> value # Upto(Len(output)))
    BY <1>1, <1>5
<1> QED BY <1>2, <1>3, <1>6, <1>7, Zenon DEF BufferInv

LEMMA BufferStep == BufferInv /\ [Next]_vars => BufferInv'
<1> SUFFICES ASSUME BufferInv, [Next]_vars PROVE BufferInv'
    OBVIOUS
<1>1. CASE Data
    <2>0. PICK n \in 1..MaxChunk :
              /\ Len(output) + n <= MaxChars
              /\ \E chunk \in [1..n -> Widths] :
                    /\ output' = output \o chunk
                    /\ AppendBounded(output', [i \in 1..n |-> Len(output) + i])
        BY <1>1 DEF Data
    <2>1. PICK chunk \in [1..n -> Widths] :
              /\ Len(output) + n <= MaxChars
              /\ output' = output \o chunk
              /\ AppendBounded(output', [i \in 1..n |-> Len(output) + i])
        BY <2>0
    <2> DEFINE next == value \o [i \in 1..n |-> Len(output) + i]
    <2>2. /\ WidthsTyped(output') /\ Len(output') = Len(output) + n
          /\ Text(output', next) /\ next \in Seq(1..Len(output'))
          /\ Increasing(next)
          /\ value = Upto(Len(output)) <=> next = Upto(Len(output'))
        BY <2>1, NextText
    <2>3. IF Bytes(output', next) <= MaxBytes
          THEN value' = next /\ UNCHANGED truncated
          ELSE value' = Truncate(output', next, MaxBytes) /\ truncated' = TRUE
        BY <2>1 DEF AppendBounded
    <2> HIDE DEF next
    <2>4. DOMAIN output' = 1..Len(output') /\ Len(output') > 0 /\ Len(output') <= MaxChars
        <3>1. n \in Nat /\ n >= 1 /\ Len(output) \in Nat
            BY BufferAssumption, WidthsAreText DEF BufferInv
        <3>2. DOMAIN output' = 1..Len(output')
            BY <2>2, WidthsAreText
        <3>3. Len(output') > 0 /\ Len(output') <= MaxChars
            BY <2>1, <2>2, <3>1
        <3> QED BY <3>2, <3>3
    <2>5. CASE Bytes(output', next) <= MaxBytes
        BY <2>2, <2>3, <2>4, <2>5 DEF BufferInv
    <2>6. CASE ~(Bytes(output', next) <= MaxBytes)
        <3>1. value' = Truncate(output', next, MaxBytes) /\ truncated' = TRUE
            BY <2>3, <2>6
        <3>2. /\ value' \in Seq(1..Len(output')) /\ Increasing(value')
              /\ Bytes(output', value') <= MaxBytes
              /\ value' # Upto(Len(output'))
            BY <2>2, <2>4, <2>6, <3>1, CutLaws
        <3> QED BY <2>2, <2>4, <3>1, <3>2 DEF BufferInv
    <2> QED BY <2>5, <2>6
<1>2. CASE UNCHANGED vars
    BY <1>2 DEF vars, BufferInv, WidthsTyped, Increasing
<1> QED BY <1>1, <1>2 DEF Next

LEMMA BufferInvHolds == Spec => []BufferInv
<1> QED BY BufferInit, BufferStep, PTL DEF Spec

\* The buffer is a list of the characters written, in order and each at most
\* once, and the flag says exactly whether one is missing: for any widths of
\* characters, any cap and any way the pipe cuts the output into chunks.
THEOREM BufferIsSound == Spec => []BufferSound
<1>1. BufferInv => BufferSound
    BY DEF BufferInv, Increasing, BufferSound
<1> QED BY <1>1, BufferInvHolds, PTL

\* truncateUtf8 returns the longest head that fits, for every text a child
\* can write and every cap.
THEOREM LongestHeadTaken == Spec => []TruncateIsLongestHead
<1>1. BufferInv => TruncateIsLongestHead
    <2> SUFFICES ASSUME BufferInv, NEW max \in 0..MaxBytes
                 PROVE  Truncate(output, Upto(Len(output)), max)
                            = Upto(LongestFit(output, max))
        BY DEF TruncateIsLongestHead
    <2>1. max \in Nat
        BY BufferAssumption
    <2> QED BY <2>1, TruncateLongest DEF BufferInv
<1> QED BY <1>1, BufferInvHolds, PTL

\* The buffer never holds more bytes than its cap.
THEOREM BufferTypesHold == Spec => []TypeOK
<1>1. BufferInv => TypeOK
    <2> SUFFICES ASSUME BufferInv PROVE TypeOK
        OBVIOUS
    <2>1. Len(output) \in Nat /\ DOMAIN output = 1..Len(output) /\ Len(output) <= MaxChars
        BY WidthsAreText DEF BufferInv
    <2>2. DOMAIN output \subseteq Positions
        BY <2>1, BufferAssumption DEF Positions
    <2>3. value \in Seq(Positions)
        BY <2>2, SeqMonotonic DEF BufferInv
    <2> QED BY <2>3 DEF BufferInv, WidthsTyped, TypeOK
<1> QED BY <1>1, BufferInvHolds, PTL
=============================================================================
