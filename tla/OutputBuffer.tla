---------------------------- MODULE OutputBuffer ----------------------------
(* appendBounded (src/host-control/service.ts) and truncateUtf8              *)
(* (src/utils/utf8.ts): the buffer that keeps the head of a child's output   *)
(* within a byte cap without splitting a character. A character is its       *)
(* position in the output; Width gives its bytes in UTF-8.                   *)
EXTENDS Naturals, Sequences

CONSTANTS
    Widths,     \* byte widths of the characters a child may write
    MaxBytes,   \* maxStdoutBytes or maxStderrBytes
    MaxChars,   \* bound: characters written in all
    MaxChunk    \* bound: characters in one data event

ASSUME BufferAssumption ==
    /\ Widths \subseteq 1..4
    /\ {MaxBytes, MaxChars, MaxChunk} \subseteq Nat

VARIABLES
    output,     \* the width of every character written so far
    value,      \* the buffer: positions of the characters it keeps
    truncated   \* stdoutTruncated

vars == <<output, value, truncated>>

Positions == 1..MaxChars
Upto(n) == [i \in 1..n |-> i]

\* Buffer.byteLength of the characters at these positions of an output.
Bytes(out, positions) ==
    LET sum[n \in 0..Len(positions)] ==
            IF n = 0 THEN 0 ELSE sum[n - 1] + out[positions[n]]
    IN  sum[Len(positions)]

\* One turn of the loop of truncateUtf8, which stops at the first character
\* that does not fit.
Keep(out, maxBytes, acc, i) ==
    IF acc.stop \/ acc.used + out[i] > maxBytes
    THEN [acc EXCEPT !.stop = TRUE]
    ELSE [acc EXCEPT !.used = @ + out[i], !.kept = Append(@, i)]

KeepSkipping(out, maxBytes, acc, i) ==
    IF acc.used + out[i] > maxBytes
    THEN acc
    ELSE [acc EXCEPT !.used = @ + out[i], !.kept = Append(@, i)]

Entry == [stop |-> FALSE, used |-> 0, kept |-> <<>>]

Loop(out, positions, maxBytes) ==
    LET turn[n \in 0..Len(positions)] ==
            IF n = 0 THEN Entry ELSE Keep(out, maxBytes, turn[n - 1], positions[n])
    IN  turn[Len(positions)].kept

LoopSkipping(out, positions, maxBytes) ==
    LET turn[n \in 0..Len(positions)] ==
            IF n = 0 THEN Entry ELSE KeepSkipping(out, maxBytes, turn[n - 1], positions[n])
    IN  turn[Len(positions)].kept

TruncateSkipping(out, positions, maxBytes) ==
    IF Bytes(out, positions) <= maxBytes THEN positions
    ELSE LoopSkipping(out, positions, maxBytes)

Truncate(out, positions, maxBytes) ==
    IF maxBytes = 0 THEN <<>>
    ELSE IF Bytes(out, positions) <= maxBytes THEN positions
    ELSE Loop(out, positions, maxBytes)

AppendIfRoom(out, chunk) ==
    LET next == value \o chunk IN
    IF Bytes(out, next) <= MaxBytes THEN value' = next /\ truncated' = FALSE
    ELSE value' = Truncate(out, next, MaxBytes) /\ truncated' = TRUE

AppendBounded(out, chunk) ==
    LET next == value \o chunk IN
    IF Bytes(out, next) <= MaxBytes
    THEN value' = next /\ UNCHANGED truncated
    ELSE value' = Truncate(out, next, MaxBytes) /\ truncated' = TRUE

Init ==
    /\ output = <<>>
    /\ value = <<>>
    /\ truncated = FALSE

\* A data event. The stream decoder never splits a character.
Data ==
    \E n \in 1..MaxChunk :
        /\ Len(output) + n <= MaxChars
        /\ \E chunk \in [1..n -> Widths] :
              /\ output' = output \o chunk
              /\ AppendBounded(output', [i \in 1..n |-> Len(output) + i])

Next == Data

Spec == Init /\ [][Next]_vars

-----------------------------------------------------------------------------
\* The types of the state; the buffer never grows beyond its cap in bytes.
TypeOK ==
    /\ output \in Seq(Widths) /\ Len(output) <= MaxChars
    /\ value \in Seq(Positions) /\ Bytes(output, value) <= MaxBytes
    /\ truncated \in BOOLEAN

\* The longest head that fits: what truncateUtf8 is for.
LongestFit(out, maxBytes) ==
    LET fits == {n \in 0..Len(out) : Bytes(out, Upto(n)) <= maxBytes}
    IN  CHOOSE n \in fits : \A m \in fits : m <= n

\* truncateUtf8 returns the longest head of the text that fits, for every
\* text of the run and every cap.
TruncateIsLongestHead ==
    \A max \in 0..MaxBytes :
        Truncate(output, Upto(Len(output)), max)
            = Upto(LongestFit(output, max))

\* The buffer holds each character of the output at most
\* once and in order, whatever chunks the pipe cut the output into; the flag
\* says that something is missing exactly when something is, also when a
\* later chunk fits again.
BufferSound ==
    /\ \A i, j \in DOMAIN value : i < j => value[i] < value[j]
    /\ truncated <=> value # Upto(Len(output))

\* What is kept is the head of the output, up to the point of truncation.
KeepsHead == value = Upto(Len(value))

=============================================================================
