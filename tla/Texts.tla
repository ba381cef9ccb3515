-------------------------------- MODULE Texts --------------------------------
(***************************************************************************)
(* The log a test run collects from the chunks of two streams              *)
(* (pipeline/shell/testRunner.ts).  Each chunk is decoded by itself: of a  *)
(* character that is split over chunks every piece becomes U+FFFD.         *)
(*                                                                         *)
(* A text is a sequence of UTF-16 units, each a whole character, of which  *)
(* only the width in bytes is kept.  Characters of two units are left out. *)
(***************************************************************************)
EXTENDS Integers, SequencesExt

CONSTANTS
    Budget,             \* LOG_BUDGET_BYTES
    Widths,             \* of characters in UTF-8
    MaxChunk, MaxChunks \* bounds: whole characters of a chunk, chunks

ASSUME TextsAssumption ==
    /\ Budget \in Nat \ {0} /\ Widths \subseteq 1..3
    /\ MaxChunk \in Nat /\ MaxChunks \in Nat

VARIABLES
    written,            \* written[s]: the characters that a stream has begun
    missing,            \* missing[s]: bytes of the last of them still to come
    decoded,            \* decoded[s]: what its chunks were decoded to
    chunks,             \* chunks so far
    log                 \* what is kept of them

textVars == <<written, missing, decoded, chunks, log>>

Streams == {"stdout", "stderr"}

\* U+FFFD, of three bytes, which no character of the streams is.
Broken == 0
Units == Widths \cup {Broken}
Width(unit) == IF unit = Broken THEN 3 ELSE unit

\* A byte is a unit and which of its bytes.
ByteLength(text) == Cardinality({b \in (DOMAIN text) \X (1..3) : b[2] <= Width(text[b[1]])})

NothingYet == [stdout |-> <<>>, stderr |-> <<>>, bytesUsed |-> 0, truncated |-> FALSE]

\* Mutant: a chunk that just fills the budget is cut.
FitsInside(bytes, available) == bytes < available
Fits(bytes, available) == bytes <= available

\* What is kept of a chunk, so many bytes of the budget, and was it all.
Keep(target, text, bytes) == [log EXCEPT ![target] = @ \o text, !.bytesUsed = @ + bytes]
Truncated(kept) == [kept EXCEPT !.truncated = TRUE]

\* The budget left is counted in bytes, and cuts the chunk by units.
AppendLog(chunk, target) ==
    LET available == Budget - log.bytesUsed
        bytes == ByteLength(chunk)
        cut == IF available < Len(chunk) THEN available ELSE Len(chunk) IN
    IF log.truncated THEN log
    ELSE IF available <= 0 THEN Truncated(log)
    ELSE IF Fits(bytes, available) THEN Keep(target, chunk, bytes)
    ELSE Truncated(Keep(target, SubSeq(chunk, 1, cut), available))

\* A chunk brings bytes of a character that an earlier one broke off, whole characters,
\* and the first bytes of one that it breaks off itself.
Chunks ==
    [brought : 0..2, whole : UNION {[1..n -> Widths] : n \in 0..MaxChunk},
     begun : {<<>>} \cup {<<w>> : w \in Widths \ {1}}]

\* Each byte behind the first of a character is broken by itself; first bytes are one.
ToText(chunk) ==
    [i \in 1..chunk.brought |-> Broken] \o chunk.whole \o [i \in DOMAIN chunk.begun |-> Broken]

\* The "data" event of a stream.
Data(stream, chunk) ==
    LET more == chunk.whole \o chunk.begun IN
    /\ chunks < MaxChunks /\ chunks' = chunks + 1
    /\ Len(ToText(chunk)) > 0
    /\ chunk.brought <= missing[stream]
    /\ more # <<>> => chunk.brought = missing[stream]
    /\ IF chunk.begun = <<>>
       THEN missing' = [missing EXCEPT ![stream] = @ - chunk.brought]
       ELSE \E n \in 1..(chunk.begun[1] - 1) : missing' = [missing EXCEPT ![stream] = n]
    /\ written' = [written EXCEPT ![stream] = @ \o more]
    /\ decoded' = [decoded EXCEPT ![stream] = @ \o ToText(chunk)]
    /\ log' = AppendLog(ToText(chunk), stream)

Whole(text, n) == \A i \in 1..n : text[i] # Broken

\* What is kept of each stream is the beginning of what was decoded of it, and as far as
\* no character was split, how the stream itself began.  The flag is set whenever
\* something is missing, and for streams of single bytes only then.  No more bytes than
\* the budget are kept without the flag; with it no more units, which can be three times
\* as many bytes (testRunner.ts:38-60).
LogBudget ==
    LET complete == \A s \in Streams : log[s] = decoded[s]
        bytes == ByteLength(log.stdout) + ByteLength(log.stderr)
    IN  /\ \A s \in Streams : IsPrefix(log[s], decoded[s])
        /\ \A s \in Streams : \A n \in 1..Len(log[s]) : Whole(log[s], n) =>
                n <= Len(written[s]) /\ log[s][n] = written[s][n]
        /\ ~complete => log.truncated
        /\ (\A s \in Streams : ToSet(written[s]) \subseteq {1}) =>
                (~log.truncated <=> complete)
        /\ Len(log.stdout) + Len(log.stderr) <= Budget
        /\ bytes <= IF log.truncated THEN 3 * Budget ELSE Budget

TextsTypeOK ==
    /\ written \in [Streams -> Seq(Widths)] /\ missing \in [Streams -> 0..2]
    /\ decoded \in [Streams -> Seq(Units)] /\ chunks \in 0..MaxChunks
    /\ log \in [stdout : Seq(Units), stderr : Seq(Units), bytesUsed : 0..Budget,
                truncated : BOOLEAN]

TextsInit ==
    /\ written = [s \in Streams |-> <<>>] /\ missing = [s \in Streams |-> 0]
    /\ decoded = [s \in Streams |-> <<>>] /\ chunks = 0 /\ log = NothingYet

TextsStep == \E stream \in Streams, chunk \in Chunks : Data(stream, chunk)

TextsSpec == TextsInit /\ [][TextsStep]_textVars
=============================================================================
