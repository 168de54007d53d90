----------------------------- MODULE LoopGuard ------------------------------
(***************************************************************************)
(* repetitionDetector (src/llm/loopguard.go): a stream is cut when the     *)
(* tail of its text is one unit repeated, or when its reasoning keeps      *)
(* going over the same phrases.  Thresholds are parameters.                *)
(***************************************************************************)
EXTENDS SequencesExt, FiniteSetsExt, Integers

CONSTANTS
    Runes,
    MaxTail, CheckEvery, MinRepeatLen, MinReps, MaxCycle,       \* rd...
    Shingle, Stride, Window, ScanEvery, Persist,                \* nt...
    FloorNum, FloorDen,     \* ntNoveltyFloor as a fraction
    MaxPiece, MaxFed        \* bounds: runes of one fragment, of the whole text

ASSUME GuardAssumption ==
    /\ {MaxTail, CheckEvery, MinRepeatLen, MinReps, MaxCycle} \subseteq Nat \ {0}
    /\ {Shingle, Stride, Window, ScanEvery, Persist, FloorDen} \subseteq Nat \ {0}
    /\ MaxTail >= MinReps * MaxCycle /\ MaxTail >= MinRepeatLen + MaxCycle
    /\ Shingle <= Window /\ ScanEvery <= Window
    /\ MaxPiece \in Nat

VARIABLES
    tail, since,                \* runes of both channels, and since the last look
    rbuf, rsince, lowStreak,    \* the same of reasoning, and low scans in a row
    fed, thought,               \* all the text so far, all the reasoning so far
    tripped                     \* "no", "cycle" or "retread"

guardVars == <<tail, since, rbuf, rsince, lowStreak, fed, thought, tripped>>

-----------------------------------------------------------------------------
(* Mutants.                                                                *)

\* A full buffer starts again with what did not fit.
MutKept(s, n) == IF Len(s) > n THEN SubSeq(s, n + 1, Len(s)) ELSE s

\* A short unit counts after MinReps repetitions, however few runes they are.
MutSpan(unit) == unit * MinReps

-----------------------------------------------------------------------------
\* The buffer's last n runes.
Kept(s, n) == IF Len(s) > n THEN SubSeq(s, Len(s) - n + 1, Len(s)) ELSE s

\* The last span runes are the final unit-rune block repeated.
IsCyclicSuffix(b, unit, span) ==
    \A i \in (Len(b) - span + unit + 1)..Len(b) : b[i] = b[i - unit]

Span(unit) ==
    unit * (IF unit * MinReps < MinRepeatLen THEN (MinRepeatLen + unit - 1) \div unit ELSE MinReps)

Cyclic(b) ==
    /\ Len(b) >= MinRepeatLen
    /\ \E unit \in 1..Min({Len(b) \div MinReps, MaxCycle}) :
           Span(unit) <= Len(b) /\ IsCyclicSuffix(b, unit, Span(unit))

\* Shingles start at every Stride-th rune of the window.
Shingles(b) ==
    [k \in 1..((Len(b) - Shingle) \div Stride + 1) |-> SubSeq(b, (k-1)*Stride + 1, (k-1)*Stride + Shingle)]

\* distinctShingleRatio(b) < ntNoveltyFloor
LowNovelty(b) ==
    /\ Len(b) >= Shingle
    /\ Cardinality(Range(Shingles(b))) * FloorDen < FloorNum * Len(Shingles(b))

GuardInit ==
    /\ tail = <<>> /\ since = 0
    /\ rbuf = <<>> /\ rsince = 0 /\ lowStreak = 0
    /\ fed = <<>> /\ thought = <<>>
    /\ tripped = "no"

\* add: the common part of both channels.  The stream ends when it trips.
Add(s) ==
    LET due == since + Len(s) >= CheckEvery
    IN  /\ tripped = "no" /\ Len(fed) + Len(s) <= MaxFed
        /\ fed' = fed \o s
        /\ tail' = Kept(tail \o s, MaxTail)
        /\ since' = IF due THEN 0 ELSE since + Len(s)

AddTrips(s) == since + Len(s) >= CheckEvery /\ Cyclic(Kept(tail \o s, MaxTail))

FeedText(s) ==
    /\ Add(s)
    /\ tripped' = IF AddTrips(s) THEN "cycle" ELSE "no"
    /\ UNCHANGED <<rbuf, rsince, lowStreak, thought>>

\* addReasoning: judged only once a window is full and a scan is due.
FeedReasoning(s) ==
    LET buf  == Kept(rbuf \o s, Window)
        scan == Len(buf) >= Window /\ rsince + Len(s) >= ScanEvery
    IN  /\ Add(s)
        /\ thought' = thought \o s
        /\ IF AddTrips(s) THEN /\ tripped' = "cycle"
                               /\ UNCHANGED <<rbuf, rsince, lowStreak>>
           ELSE /\ rbuf' = buf
                /\ rsince' = IF scan THEN 0 ELSE rsince + Len(s)
                /\ lowStreak' = CASE ~scan -> lowStreak
                                  [] scan /\ LowNovelty(buf) -> lowStreak + 1
                                  [] OTHER -> 0
                /\ tripped' = IF scan /\ lowStreak' >= Persist THEN "retread" ELSE "no"

Fragments == UNION {[1..n -> Runes] : n \in 1..MaxPiece}

GuardNext == \E s \in Fragments : FeedText(s) \/ FeedReasoning(s)

-----------------------------------------------------------------------------
\* s ends with at least n runes of period unit.
EndsPeriodic(s, unit, n) ==
    Len(s) >= n /\ \A i \in 0..(n - unit - 1) : s[Len(s) - i] = s[Len(s) - i - unit]

Repeats(s, unit, extra) ==
    \E k \in MinReps..Len(s) :
        /\ unit * k >= MinRepeatLen
        /\ unit * (k - 1) < MinRepeatLen \/ k = MinReps
        /\ EndsPeriodic(s, unit, unit * k + extra)

\* The window that ends j runes before the end of the reasoning.
WindowBefore(j) == SubSeq(thought, Len(thought) - j - Window + 1, Len(thought) - j)

(* The guard cuts a stream only for what it is documented to look for, in  *)
(* the text as a whole: a unit of at most MaxCycle runes, repeated often   *)
(* enough at its very end; or reasoning that has filled its window, gone   *)
(* on for Persist - 1 more scans and is low on novelty now                 *)
(* (loopguard.go:37-60).                                                   *)
CutsOnlyLoops ==
    /\ tripped = "cycle" => \E unit \in 1..MaxCycle : Repeats(fed, unit, 0)
    /\ tripped = "retread" => /\ Len(thought) >= Window + (Persist - 1) * ScanEvery
                              /\ LowNovelty(WindowBefore(0))

(* A loop is cut in time, however the text is split into fragments: a      *)
(* stream that goes on has not repeated a unit for CheckEvery - 1 runes    *)
(* beyond the threshold, and has had a window with novelty within the last *)
(* Persist scans.                                                          *)
LoopsAreCut ==
    tripped = "no" =>
        /\ \A unit \in 1..MaxCycle : ~Repeats(fed, unit, CheckEvery - 1)
        /\ LET reach == (ScanEvery - 1) + (Persist - 1) * (ScanEvery + MaxPiece - 1)
           IN  Len(thought) >= Window + reach => \E j \in 0..reach : ~LowNovelty(WindowBefore(j))
=============================================================================
