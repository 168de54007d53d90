--------------------------- MODULE LibraryProofs ----------------------------
(***************************************************************************)
(* What the debug log, the IPC framing, the loop guard, the tool registry, *)
(* the tool-call accumulator and the inline recovery guarantee for any     *)
(* number of callers, any message size and length of prefix, any text and  *)
(* any thresholds, any tools, any fragments.  Each component is proved from *)
(* its own next-state relation.                                            *)
(***************************************************************************)
EXTENDS DebugLog, Frames, LoopGuard, Registry, ToolCalls, InlineCalls, SequenceLemmas

-----------------------------------------------------------------------------
(* The debug log.                                                          *)

Holds(s, f) == setting[s] = With("opened", f)
Held == {f \in Files : \E s \in Setters : Holds(s, f)}

DebugTypeOK ==
    /\ enabled \in BOOLEAN
    /\ opened \in Nat /\ writer \in 0..opened /\ closed \subseteq Files
    /\ DOMAIN setting = Setters
    /\ \A s \in Setters : \/ setting[s] \in {At("idle"), At("disabling"), At("enabling")}
                          \/ \E f \in Files : Holds(s, f)
    /\ DOMAIN logging = Loggers
    /\ \A l \in Loggers : logging[l] \in {At("idle"), At("checked")} \cup {With("loaded", f) : f \in Nat}
    /\ DOMAIN line = Loggers
    /\ calm \subseteq Loggers

\* An open file is the writer or in the hands of one setter.
OneOwner ==
    /\ Files \ closed = ({writer} \ {Discard}) \cup Held
    /\ \A s, t \in Setters, f \in Files : Holds(s, f) => f # writer /\ (Holds(t, f) => s = t)

\* Where the flag does not follow the writer, a setter is about to see to it.
FlagFollows ==
    writer # Discard /\ ~enabled =>
        \E s \in Setters : setting[s] \in {At("enabling"), At("disabling")}

\* A logger beside no setter has loaded the writer, and its line is missing
\* only where there is none.
CalmLines ==
    /\ calm # {} => Quiet
    /\ \A l \in calm :
         /\ logging[l] # At("idle") => line[l] = "none"
         /\ \A f \in Nat : logging[l] = With("loaded", f) => f = writer
         /\ line[l] \in {"skipped", "lost"} => writer = Discard

DebugInv == DebugTypeOK /\ OneOwner /\ FlagFollows /\ CalmLines

\* Places are told apart by their names.
LEMMA Places ==
    /\ \A p, q : At(p) = At(q) => p = q
    /\ \A p, f : At(p) = With("opened", f) => p = "opened"
    /\ \A p, f : At(p) = With("loaded", f) => p = "loaded"
    /\ \A p, q, f, g : With(p, f) = With(q, g) => p = q /\ f = g
    /\ \A p, f : With(p, f)[1] = p /\ With(p, f)[2] = f
    /\ \A p : At(p)[1] = p
BY DEF At, With

LEMMA InitDebugInv == DebugInit => DebugInv
<1> SUFFICES ASSUME DebugInit PROVE DebugInv
  OBVIOUS
<1>1. opened = 0 /\ Files = {} /\ Held = {}
  BY DEF DebugInit, Files, Held
<1>2. DebugTypeOK
  <2>1. enabled \in BOOLEAN /\ opened \in Nat /\ writer \in 0..opened /\ closed \subseteq Files
    <3>1. enabled = FALSE /\ opened = 0 /\ writer = 0 /\ closed = {}
      BY DEF DebugInit, Discard
    <3>2. opened \in Nat /\ writer \in 0..opened
      BY <3>1
    <3> QED
      BY <3>1, <3>2, Zenon
  <2>2. /\ DOMAIN setting = Setters /\ \A s \in Setters : setting[s] = At("idle")
        /\ DOMAIN logging = Loggers /\ \A l \in Loggers : logging[l] = At("idle")
        /\ DOMAIN line = Loggers /\ calm \subseteq Loggers
    BY DEF DebugInit
  <2> QED
    BY <2>1, <2>2 DEF DebugTypeOK
<1> QED
  BY <1>1, <1>2 DEF DebugInit, DebugInv, OneOwner, FlagFollows, CalmLines

(* A setter's step takes it from one place to another; the loggers stand   *)
(* still and none is calm.                                                 *)
LEMMA SetterMoves ==
    ASSUME DebugTypeOK, NEW s \in Setters, NEW p, Sets(s, p)
    PROVE  /\ DOMAIN setting' = Setters /\ setting'[s] = p
           /\ \A t \in Setters : t # s => setting'[t] = setting[t]
           /\ CalmLines' /\ UNCHANGED <<logging, line>> /\ calm' = {}
BY DEF DebugTypeOK, Sets, CalmLines

LEMMA SetterStep ==
    ASSUME DebugInv, NEW s \in Setters,
           Disable(s) \/ DiscardWriter(s) \/ OpenFile(s) \/ InstallWriter(s) \/ Enable(s)
    PROVE  DebugInv'
<1> USE DEF DebugInv
<1>0. opened \in Nat /\ Files \subseteq Nat \ {0} /\ writer \in Nat /\ (writer = 0 \/ writer \in Files)
  BY DEF DebugTypeOK, Files
<1>1. CASE Disable(s)
  <2>1. /\ setting[s] = At("idle") /\ setting'[s] = At("disabling") /\ UNCHANGED <<opened, writer, closed>>
        /\ DOMAIN setting' = Setters /\ \A t \in Setters : t # s => setting'[t] = setting[t]
        /\ CalmLines' /\ UNCHANGED <<logging, line>> /\ calm' = {} /\ enabled' = FALSE
    BY <1>1, SetterMoves DEF Disable
  <2>2. \A t \in Setters : \A f : Holds(t, f)' <=> Holds(t, f)
    BY <2>1, Places DEF Holds
  <2>3. DebugTypeOK'
    BY <2>1, <2>2 DEF DebugTypeOK, Files
  <2>4. OneOwner'
    BY <2>1, <2>2 DEF OneOwner, Held, Files
  <2>5. FlagFollows'
    BY <2>1 DEF FlagFollows
  <2> QED
    BY <2>1, <2>3, <2>4, <2>5
<1>2. CASE DiscardWriter(s)
  <2>1. /\ setting[s] = At("disabling") /\ setting'[s] = At("idle") /\ UNCHANGED <<opened, enabled>>
        /\ DOMAIN setting' = Setters /\ \A t \in Setters : t # s => setting'[t] = setting[t]
        /\ CalmLines' /\ UNCHANGED <<logging, line>> /\ calm' = {}
        /\ closed' = closed \cup ({writer} \ {Discard}) /\ writer' = Discard
    BY <1>2, SetterMoves DEF DiscardWriter, Replace
  <2>2. \A t \in Setters : \A f : Holds(t, f)' <=> Holds(t, f)
    BY <2>1, Places DEF Holds
  <2>3. DebugTypeOK'
    BY <1>0, <2>1, <2>2 DEF DebugTypeOK, Files, Discard
  <2>4. OneOwner'
    <3>1. Held' = Held /\ Files' = Files /\ writer \notin Held /\ Discard \notin Files
      BY <1>0, <2>1, <2>2 DEF Held, Files, OneOwner, Discard
    <3>2. (Files \ closed)' = ({writer} \ {Discard})' \cup Held'
      BY <2>1, <3>1 DEF OneOwner
    <3> QED
      BY <2>1, <2>2, <3>1, <3>2 DEF OneOwner
  <2>5. FlagFollows'
    BY <2>1 DEF FlagFollows
  <2> QED
    BY <2>1, <2>3, <2>4, <2>5
<1>3. CASE OpenFile(s)
  <2> DEFINE new == opened + 1
  <2>1. /\ setting[s] = At("idle") /\ setting'[s] = With("opened", new) /\ UNCHANGED <<writer, enabled, closed>>
        /\ DOMAIN setting' = Setters /\ \A t \in Setters : t # s => setting'[t] = setting[t]
        /\ CalmLines' /\ UNCHANGED <<logging, line>> /\ calm' = {} /\ opened' = opened + 1
    BY <1>3, SetterMoves DEF OpenFile
  <2>2. Files' = Files \cup {new} /\ new \notin Files /\ new # writer /\ new \in Nat
    BY <1>0, <2>1 DEF Files, DebugTypeOK
  <2> HIDE DEF new
  <2>3. \A t \in Setters : \A f : Holds(t, f)' <=> Holds(t, f) \/ (t = s /\ f = new)
    BY <2>1, Places DEF Holds
  <2>4. \A t \in Setters : \A f : Holds(t, f) => f \in Files
    BY Places DEF DebugTypeOK, Holds
  <2>5. DebugTypeOK'
    <3>1. opened' \in Nat /\ writer' \in 0..opened' /\ closed' \subseteq Files' /\ enabled' \in BOOLEAN
      BY <1>0, <2>1, <2>2 DEF DebugTypeOK
    <3>2. \A t \in Setters : \/ setting'[t] \in {At("idle"), At("disabling"), At("enabling")}
                             \/ \E f \in Files' : Holds(t, f)'
      BY <2>1, <2>2, <2>3 DEF DebugTypeOK
    <3> QED
      BY <2>1, <3>1, <3>2 DEF DebugTypeOK
  <2>6. OneOwner'
    <3>1. Held' = Held \cup {new}
      BY <2>2, <2>3, <2>4 DEF Held
    <3>2. new \notin closed
      BY <2>2 DEF DebugTypeOK
    <3>3. (Files \ closed)' = ({writer} \ {Discard})' \cup Held'
      BY <2>1, <2>2, <3>1, <3>2 DEF OneOwner
    <3> QED
      BY <2>1, <2>2, <2>3, <2>4, <3>3 DEF OneOwner
  <2>7. FlagFollows'
    BY <2>1, Places DEF FlagFollows
  <2> QED
    BY <2>1, <2>5, <2>6, <2>7
<1>4. CASE InstallWriter(s)
  <2>1. PICK f \in Files : Holds(s, f)
    BY <1>4, Places DEF InstallWriter, DebugTypeOK
  <2>2. /\ setting'[s] = At("enabling") /\ UNCHANGED <<opened, enabled>>
        /\ DOMAIN setting' = Setters /\ \A t \in Setters : t # s => setting'[t] = setting[t]
        /\ CalmLines' /\ UNCHANGED <<logging, line>> /\ calm' = {}
        /\ closed' = closed \cup ({writer} \ {Discard}) /\ writer' = f
    BY <1>4, <2>1, SetterMoves, Places DEF InstallWriter, Replace, Holds
  <2>3. \A t \in Setters : \A g : Holds(t, g)' <=> Holds(t, g) /\ t # s
    BY <2>2, Places DEF Holds
  <2>4. Files' = Files /\ f \in Nat \ {0}
    BY <1>0, <2>2 DEF Files
  <2>5. DebugTypeOK'
    <3>1. writer' \in 0..opened'
      BY <2>2 DEF Files, DebugTypeOK
    <3>2. \A t \in Setters : \/ setting'[t] \in {At("idle"), At("disabling"), At("enabling")}
                             \/ \E g \in Files' : Holds(t, g)'
      BY <2>2, <2>3, <2>4 DEF DebugTypeOK
    <3> QED
      BY <1>0, <2>2, <2>4, <3>1, <3>2 DEF DebugTypeOK, Discard
  <2>6. OneOwner'
    <3>1. \A t \in Setters : \A g \in Files : Holds(t, g) /\ t # s => g # f
      BY <2>1 DEF OneOwner
    <3>2. Held' = Held \ {f} /\ f \in Held /\ writer \notin Held
      <4>0. \A g : Holds(s, g) => g = f
        BY <2>1, Places DEF Holds
      <4>1. \A g \in Files : (\E t \in Setters : Holds(t, g)') <=> (\E t \in Setters : Holds(t, g)) /\ g # f
        BY <2>3, <3>1, <4>0
      <4>2. \A t \in Setters, g \in Files : Holds(t, g) => g # writer
        BY DEF OneOwner
      <4> QED
        BY <2>1, <2>4, <4>1, <4>2 DEF Held
    <3>3. (Files \ closed)' = ({writer} \ {Discard})' \cup Held'
      BY <2>2, <2>4, <3>2 DEF OneOwner, Discard
    <3>4. ASSUME NEW t \in Setters, NEW u \in Setters, NEW g \in Files, Holds(t, g)'
          PROVE  g # writer' /\ (Holds(u, g)' => t = u)
      <4>1. Holds(t, g) /\ t # s
        BY <2>3, <3>4
      <4>2. g # f
        BY <3>1, <4>1
      <4>3. Holds(u, g)' => Holds(u, g)
        BY <2>3
      <4> QED
        BY <2>2, <4>1, <4>2, <4>3 DEF OneOwner
    <3> QED
      BY <2>4, <3>3, <3>4 DEF OneOwner
  <2>7. FlagFollows'
    BY <2>2 DEF FlagFollows
  <2> QED
    BY <2>2, <2>5, <2>6, <2>7
<1>5. CASE Enable(s)
  <2>1. /\ setting[s] = At("enabling") /\ setting'[s] = At("idle") /\ UNCHANGED <<opened, writer, closed>>
        /\ DOMAIN setting' = Setters /\ \A t \in Setters : t # s => setting'[t] = setting[t]
        /\ CalmLines' /\ UNCHANGED <<logging, line>> /\ calm' = {} /\ enabled' = TRUE
    BY <1>5, SetterMoves DEF Enable
  <2>2. \A t \in Setters : \A f : Holds(t, f)' <=> Holds(t, f)
    BY <2>1, Places DEF Holds
  <2>3. DebugTypeOK'
    BY <2>1, <2>2 DEF DebugTypeOK, Files
  <2>4. OneOwner'
    BY <2>1, <2>2 DEF OneOwner, Held, Files
  <2>5. FlagFollows'
    BY <2>1 DEF FlagFollows
  <2> QED
    BY <2>1, <2>3, <2>4, <2>5
<1> QED
  BY <1>1, <1>2, <1>3, <1>4, <1>5

LEMMA LoggerStep ==
    ASSUME DebugInv, NEW l \in Loggers, CheckFlag(l) \/ LoadWriter(l) \/ WriteLine(l)
    PROVE  DebugInv'
<1> USE DEF DebugInv
<1>1. UNCHANGED <<enabled, writer, opened, closed, setting>>
  BY DEF CheckFlag, LoadWriter, WriteLine
<1>2. OneOwner' /\ FlagFollows' /\ (Quiet' <=> Quiet)
  BY <1>1 DEF OneOwner, Held, Holds, Files, FlagFollows, Quiet
<1>3. /\ DOMAIN logging' = Loggers /\ DOMAIN line' = Loggers /\ calm' \subseteq Loggers
      /\ \A m \in Loggers : m # l => /\ logging'[m] = logging[m] /\ line'[m] = line[m]
                                     /\ m \in calm' <=> m \in calm
  BY DEF CheckFlag, LoadWriter, WriteLine, DebugTypeOK
<1>4. writer \in Nat /\ (writer = Discard \/ writer \in Files \ closed)
  BY DEF DebugTypeOK, OneOwner, Files
<1>5. Quiet /\ ~enabled => writer = Discard
  BY Places DEF Quiet, FlagFollows
<1>6. /\ logging'[l] \in {At("idle"), At("checked")} \cup {With("loaded", f) : f \in Nat}
      /\ calm' # {} => Quiet
      /\ l \in calm' =>
           /\ logging'[l] # At("idle") => line'[l] = "none"
           /\ \A f \in Nat : logging'[l] = With("loaded", f) => f = writer
           /\ line'[l] \in {"skipped", "lost"} => writer = Discard
  <2>1. CASE CheckFlag(l)
    <3>1. /\ logging[l] = At("idle") /\ l \in calm' => Quiet
          /\ calm' # {} => Quiet
          /\ \/ enabled /\ logging'[l] = At("checked") /\ line'[l] = "none"
             \/ ~enabled /\ logging'[l] = At("idle") /\ line'[l] = "skipped"
      BY <2>1 DEF CheckFlag, DebugTypeOK, CalmLines
    <3> QED
      BY <1>5, <3>1, Places
  <2>2. CASE LoadWriter(l)
    <3>1. /\ logging[l] = At("checked") /\ logging'[l] = With("loaded", writer)
          /\ UNCHANGED <<line, calm>>
      BY <2>2 DEF LoadWriter, DebugTypeOK
    <3>2. logging[l] # At("idle")
      BY <3>1, Places
    <3> QED
      BY <1>4, <3>1, <3>2, Places DEF CalmLines
  <2>3. CASE WriteLine(l)
    <3>1. PICK f \in Nat : logging[l] = With("loaded", f)
      BY <2>3, Places DEF WriteLine, DebugTypeOK
    <3>2. /\ logging'[l] = At("idle") /\ calm' = calm
          /\ line'[l] = IF f \in Files \ closed THEN "written" ELSE "lost"
      BY <2>3, <3>1, Places DEF WriteLine, DebugTypeOK
    <3> QED
      BY <1>4, <3>1, <3>2, Places DEF CalmLines
  <2> QED
    BY <2>1, <2>2, <2>3
<1>7. DebugTypeOK'
  BY <1>1, <1>3, <1>6 DEF DebugTypeOK, Holds, Files
<1>8. CalmLines'
  BY <1>1, <1>2, <1>3, <1>6 DEF CalmLines
<1> QED
  BY <1>2, <1>7, <1>8

(* However many SetDebug and Debugf calls overlap: no file is leaked, the  *)
(* flag follows the writer once all have returned, and a line logged       *)
(* beside no SetDebug is written where there is a file.                    *)
THEOREM DebugLogFollows == DebugInit /\ [][DebugNext]_debugVars => []LogFollows
<1>1. DebugInv /\ [DebugNext]_debugVars => DebugInv'
  <2> SUFFICES ASSUME DebugInv, [DebugNext]_debugVars PROVE DebugInv'
    OBVIOUS
  <2>1. CASE UNCHANGED debugVars
    BY <2>1 DEF debugVars, DebugInv, DebugTypeOK, OneOwner, FlagFollows, CalmLines, Held, Holds, Files, Quiet
  <2>2. CASE DebugNext
    BY <2>2, SetterStep, LoggerStep DEF DebugNext
  <2> QED
    BY <2>1, <2>2
<1>2. DebugInv => LogFollows
  <2> SUFFICES ASSUME DebugInv PROVE LogFollows
    OBVIOUS
  <2>1. Quiet /\ writer # Discard => enabled
    BY Places DEF DebugInv, FlagFollows, Quiet
  <2> QED
    BY <2>1 DEF DebugInv, OneOwner, CalmLines, LogFollows, Held, Holds
<1> QED
  BY InitDebugInv, <1>1, <1>2, PTL

-----------------------------------------------------------------------------
(* IPC framing.                                                            *)

Bytes == Nat \X Nat
Whole(k) == PrefixLen + sizes[k]
Frame(k) == [i \in 1..Whole(k) |-> <<k, i>>]

\* A byte that Write may put on the stream, and the one it puts there next.
Sendable(b) == b[1] \in DOMAIN sizes /\ b[2] \in 1..Whole(b[1])
Succ(b) == IF b[2] < Whole(b[1]) THEN <<b[1], b[2] + 1>> ELSE <<b[1] + 1, 1>>

\* The byte Read waits for, and the one Write is about to send.
Awaited == <<Len(got) + 1, Len(part) + 1>>
Upcoming == IF halfway THEN <<Len(sizes), PrefixLen + 1>> ELSE <<Len(sizes) + 1, 1>>

FramesTypeOK ==
    /\ sizes \in Seq(1..MaxMessage) /\ pipe \in Seq(Bytes) /\ part \in Seq(Bytes)
    /\ got \in Seq(Seq(Bytes))
    /\ halfway \in BOOLEAN /\ cut \in BOOLEAN
    /\ halfway => sizes # <<>>

\* What was read: whole frames, and the beginning of the next one.
ReadInOrder ==
    /\ \A k \in DOMAIN got : k \in DOMAIN sizes /\ got[k] = Frame(k)
    /\ \A i \in DOMAIN part : part[i] = <<Len(got) + 1, i>>

\* What is under way: from the byte that Read waits for, without a gap, to the
\* one before Write's next, unless the connection broke.
PipeInOrder ==
    /\ \A j \in DOMAIN pipe : Sendable(pipe[j])
    /\ \A j \in DOMAIN pipe : j + 1 \in DOMAIN pipe => pipe[j + 1] = Succ(pipe[j])
    /\ pipe # <<>> => pipe[1] = Awaited
    /\ ~cut => Upcoming = IF pipe = <<>> THEN Awaited ELSE Succ(pipe[Len(pipe)])

EndInOrder == ended # "no" => cut /\ pipe = <<>> /\ ended = ReadError(part)

FramesInv == FramesTypeOK /\ ReadInOrder /\ PipeInOrder /\ EndInOrder

\* Every place of a sum of two lengths is one of the first or of the second.
LEMMA Sums ==
    ASSUME NEW m \in Nat, NEW n \in Nat
    PROVE  /\ \A j \in 1..m : j \in 1..m + n /\ j <= m
           /\ \A j \in 1..n : m + j \in 1..m + n /\ ~(m + j <= m) /\ (m + j) - m = j
           /\ \A j \in 1..m + n : j \in 1..m \/ \E i \in 1..n : j = m + i
<1>1. \A j \in 1..m + n : j \in 1..m \/ (j - m \in 1..n /\ j = m + (j - m))
  OBVIOUS
<1> QED
  BY <1>1

\* A concatenation, place by place.
LEMMA Concatenation ==
    ASSUME NEW S, NEW s \in Seq(S), NEW t \in Seq(S)
    PROVE  /\ s \o t \in Seq(S) /\ Len(s \o t) = Len(s) + Len(t)
           /\ DOMAIN (s \o t) = 1..Len(s) + Len(t)
           /\ \A j \in 1..Len(s) : (s \o t)[j] = s[j]
           /\ \A j \in 1..Len(t) : (s \o t)[Len(s) + j] = t[j]
<1> DEFINE u == s \o t
           m == Len(s)
           n == Len(t)
<1>1. m \in Nat /\ n \in Nat
  OBVIOUS
<1>2. u \in Seq(S) /\ Len(u) = m + n /\ \A i \in 1..m + n : u[i] = IF i <= m THEN s[i] ELSE t[i - m]
  BY ConcatProperties
<1>3. DOMAIN u = 1..m + n
  BY <1>2, LenProperties
<1> HIDE DEF m, n, u
<1>4. (\A j \in 1..m : u[j] = s[j]) /\ \A j \in 1..n : u[m + j] = t[j]
  BY <1>1, <1>2, Sums
<1> QED
  BY <1>2, <1>3, <1>4 DEF u, m, n

(* A frame is its prefix and its payload, one byte after the other.        *)
LEMMA FrameIsPrefixPayload ==
    ASSUME FramesTypeOK, NEW k \in DOMAIN sizes
    PROVE  /\ Prefix(k) \o Payload(k) = Frame(k)
           /\ Prefix(k) \in Seq(Bytes) /\ Len(Prefix(k)) = PrefixLen
           /\ Payload(k) \in Seq(Bytes) /\ Len(Payload(k)) = sizes[k]
           /\ k \in Nat /\ sizes[k] \in 1..MaxMessage /\ PrefixLen \in Nat \ {0}
<1>1. k \in Nat /\ sizes[k] \in 1..MaxMessage /\ PrefixLen \in Nat \ {0} /\ sizes[k] \in Nat
  BY FramesAssumption DEF FramesTypeOK
<1> DEFINE n == sizes[k]
<1> HIDE DEF n
<1>2. Payload(k) = [i \in 1..n |-> <<k, PrefixLen + i>>] /\ Whole(k) = PrefixLen + n
  BY DEF n, Payload, Whole
<1>3. n \in Nat
  BY <1>1 DEF n
<1>4. Prefix(k) \in Seq(Bytes) /\ Len(Prefix(k)) = PrefixLen /\ \A i \in 1..PrefixLen : Prefix(k)[i] = <<k, i>>
  BY <1>1 DEF Prefix, Bytes
<1>5. Payload(k) \in Seq(Bytes) /\ Len(Payload(k)) = n /\ \A i \in 1..n : Payload(k)[i] = <<k, PrefixLen + i>>
  BY <1>1, <1>2, <1>3 DEF Bytes
<1>6. Frame(k) \in Seq(Bytes) /\ Len(Frame(k)) = PrefixLen + n /\ \A i \in 1..PrefixLen + n : Frame(k)[i] = <<k, i>>
  <2>1. PrefixLen + n \in Nat
    BY <1>1, <1>3
  <2> QED
    BY <1>1, <1>2, <2>1 DEF Frame, Bytes
<1> DEFINE t == Prefix(k) \o Payload(k)
           p == Prefix(k)
           q == Payload(k)
<1> HIDE DEF p, q
<1>7. /\ t = p \o q
      /\ p \in Seq(Bytes) /\ Len(p) = PrefixLen /\ \A i \in 1..PrefixLen : p[i] = <<k, i>>
      /\ q \in Seq(Bytes) /\ Len(q) = n /\ \A i \in 1..n : q[i] = <<k, PrefixLen + i>>
  BY <1>4, <1>5 DEF p, q
<1> HIDE DEF t
<1>8. /\ t \in Seq(Bytes) /\ Len(t) = PrefixLen + n
      /\ \A i \in 1..PrefixLen : t[i] = <<k, i>>
      /\ \A i \in 1..n : t[PrefixLen + i] = <<k, PrefixLen + i>>
  BY <1>7, Concatenation, SMTT(30)
<1>9. t = Frame(k)
  <2>1. \A i \in 1..PrefixLen + n : t[i] = Frame(k)[i]
    <3> SUFFICES ASSUME NEW i \in 1..PrefixLen + n PROVE t[i] = <<k, i>>
      BY <1>6
    <3>1. i \in 1..PrefixLen \/ \E j \in 1..n : i = PrefixLen + j
      BY <1>1, <1>3, Sums
    <3> QED
      BY <1>8, <3>1
  <2> QED
    BY <1>6, <1>8, <2>1, SeqEqual
<1> QED
  BY <1>1, <1>4, <1>5, <1>9 DEF t, n

LEMMA InitFramesInv == FramesInit => FramesInv
<1> SUFFICES ASSUME FramesInit PROVE FramesInv
  OBVIOUS
<1>1. /\ sizes = <<>> /\ pipe = <<>> /\ part = <<>> /\ got = <<>>
      /\ halfway = FALSE /\ cut = FALSE /\ ended = "no"
  BY DEF FramesInit
<1>2. FramesTypeOK
  <2>1. /\ sizes \in Seq(1..MaxMessage) /\ pipe \in Seq(Bytes) /\ part \in Seq(Bytes)
        /\ got \in Seq(Seq(Bytes))
    BY <1>1, EmptySeq
  <2> QED
    BY <1>1, <2>1, Zenon DEF FramesTypeOK
<1>3. ReadInOrder
  BY <1>1 DEF ReadInOrder
<1>4. PipeInOrder
  BY <1>1 DEF PipeInOrder, Awaited, Upcoming
<1> QED
  BY <1>1, <1>2, <1>3, <1>4 DEF FramesInv, EndInOrder

(* Write puts a run of bytes q behind those under way; the bytes sent      *)
(* before keep their frames.                                               *)
LEMMA Written ==
    ASSUME FramesInv, FramesTypeOK', ~cut, UNCHANGED <<cut, part, got, ended>>,
           \A k \in DOMAIN sizes : k \in DOMAIN sizes' /\ sizes'[k] = sizes[k],
           NEW q \in Seq(Bytes), q # <<>>, pipe' = pipe \o q, q[1] = Upcoming,
           \A j \in 1..Len(q) : Sendable(q[j])',
           \A j \in 1..Len(q) : j + 1 \in 1..Len(q) => q[j + 1] = Succ(q[j])',
           Upcoming' = Succ(q[Len(q)])'
    PROVE  FramesInv'
<1> USE DEF FramesInv
<1>1. pipe \in Seq(Bytes) /\ Len(pipe) \in Nat /\ DOMAIN pipe = 1..Len(pipe) /\ Len(q) \in Nat \ {0}
  BY EmptySeq DEF FramesTypeOK
<1> DEFINE m == Len(pipe)
           n == Len(q)
<1>2. /\ DOMAIN pipe' = 1..m + n /\ Len(pipe') = m + n
      /\ \A j \in 1..m : pipe'[j] = pipe[j]
      /\ \A j \in 1..n : pipe'[m + j] = q[j]
  BY <1>1, Concatenation
<1>3. \A b : Sendable(b) => Sendable(b)' /\ Succ(b)' = Succ(b)
  BY DEF Sendable, Succ, Whole
<1>4. m \in Nat /\ n \in Nat \ {0} /\ (pipe = <<>> <=> m = 0)
  BY <1>1, EmptySeq
<1>5. \A j \in 1..m : Sendable(pipe[j]) /\ (j + 1 \in 1..m => pipe[j + 1] = Succ(pipe[j]))
  BY <1>1 DEF PipeInOrder
<1>6. IF m = 0 THEN q[1] = Awaited ELSE q[1] = Succ(pipe[m]) /\ pipe[1] = Awaited
  BY <1>4 DEF PipeInOrder
<1>7. \A j \in 1..n : Sendable(q[j])' /\ (j + 1 \in 1..n => q[j + 1] = Succ(q[j])')
  OBVIOUS
<1>8. Upcoming' = Succ(q[n])'
  OBVIOUS
<1> HIDE DEF m, n
<1>9. (\A j \in DOMAIN pipe : Sendable(pipe[j]))'
  <2>1. \A j \in 1..m + n : j \in 1..m \/ \E i \in 1..n : j = m + i
    BY <1>4, Sums
  <2>2. ASSUME NEW j \in 1..m PROVE (Sendable(pipe[j]))'
    BY <1>2, <1>3, <1>5 DEF Sendable
  <2>3. ASSUME NEW j \in 1..n, NEW i, i = m + j PROVE (Sendable(pipe[i]))'
    BY <1>2, <1>7, <2>3 DEF Sendable
  <2> QED
    BY <1>2, <2>1, <2>2, <2>3
<1>10. (\A j \in DOMAIN pipe : j + 1 \in DOMAIN pipe => pipe[j + 1] = Succ(pipe[j]))'
  <2>1. ASSUME NEW j \in 1..m + n, j + 1 \in 1..m + n
        PROVE  (pipe[j + 1] = Succ(pipe[j]))'
    <3>1. CASE j \in 1..m /\ j + 1 \in 1..m
      BY <1>2, <1>3, <1>5, <3>1, ZenonT(30) DEF Succ
    <3>2. CASE j = m
      <4>1. 1 \in 1..n /\ j + 1 = m + 1 /\ m \in 1..m /\ m # 0
        BY <1>4, <2>1, <3>2
      <4>2. pipe'[j + 1] = q[1] /\ pipe'[j] = pipe[m]
        BY <1>2, <3>2, <4>1
      <4>3. q[1] = Succ(pipe[m]) /\ Succ(pipe[m])' = Succ(pipe[m])'
        BY <1>6, <4>1
      <4>4. \A b : b = pipe[m] => Succ(b)' = Succ(pipe[m])
        BY <1>3, <1>5, <4>1
      <4> QED
        BY <4>2, <4>3, <4>4 DEF Succ
    <3>3. ASSUME NEW i \in 1..n, j = m + i PROVE (pipe[j + 1] = Succ(pipe[j]))'
      <4>1. i + 1 \in 1..n /\ j + 1 = m + (i + 1)
        BY <1>4, <2>1, <3>3
      <4>2. pipe'[j] = q[i] /\ pipe'[j + 1] = q[i + 1]
        BY <1>2, <3>3, <4>1
      <4> QED
        BY <1>7, <4>1, <4>2 DEF Succ
    <3>4. j \in 1..m => j = m \/ j + 1 \in 1..m
      BY <1>4
    <3> QED
      <4>1. j \in 1..m \/ \E i \in 1..n : j = m + i
        BY <1>4, Sums
      <4> QED
        BY <3>1, <3>2, <3>3, <3>4, <4>1
  <2> QED
    BY <1>2, <2>1
<1>11. (pipe # <<>> => pipe[1] = Awaited)'
  <2>1. Awaited' = Awaited
    BY DEF Awaited
  <2>2. 1 \in 1..n /\ (m # 0 => 1 \in 1..m) /\ (m = 0 => m + 1 = 1)
    BY <1>4
  <2> QED
    BY <1>2, <1>4, <1>6, <2>1, <2>2
<1>12. (~cut => Upcoming = IF pipe = <<>> THEN Awaited ELSE Succ(pipe[Len(pipe)]))'
  <2>1. n \in 1..n /\ Len(pipe') # 0
    BY <1>2, <1>4
  <2>2. pipe' # <<>>
    BY <2>1, EmptySeq
  <2>3. pipe'[Len(pipe')] = q[n]
    BY <1>2, <2>1
  <2> QED
    BY <1>8, <2>2, <2>3 DEF Succ
<1>13. PipeInOrder'
  BY <1>9, <1>10, <1>11, <1>12 DEF PipeInOrder
<1>14. ReadInOrder'
  <2>1. \A k \in DOMAIN sizes : Frame(k)' = Frame(k)
    BY DEF Frame, Whole
  <2> QED
    BY <2>1 DEF ReadInOrder
<1>15. EndInOrder'
  BY DEF EndInOrder
<1> QED
  BY <1>13, <1>14, <1>15

(* Write's two halves: the prefix of a new frame, then its payload.        *)
LEMMA WritePrefixStep ==
    ASSUME FramesInv, NEW n \in 1..MaxMessage + 1, WritePrefix(n)
    PROVE  FramesInv'
<1>a. PICK N : N = Len(sizes) + 1
  OBVIOUS
<1>b. PICK q : q = Prefix(N)
  OBVIOUS
<1>0. PrefixLen \in Nat \ {0} /\ MaxMessage \in Nat \ {0} /\ n \in 1..MaxMessage
  BY FramesAssumption DEF WritePrefix
<1>1. /\ ~cut /\ ~halfway /\ UNCHANGED <<cut, part, got, ended>> /\ halfway' = TRUE
      /\ sizes' = Append(sizes, n) /\ pipe' = pipe \o q
  BY <1>a, <1>b DEF WritePrefix
<1>2. sizes \in Seq(1..MaxMessage) /\ Len(sizes) \in Nat /\ N \in Nat /\ pipe \in Seq(Bytes)
  BY <1>a DEF FramesInv, FramesTypeOK
<1>3. /\ sizes' \in Seq(1..MaxMessage) /\ Len(sizes') = N /\ sizes'[N] = n /\ N \in DOMAIN sizes'
      /\ \A k \in DOMAIN sizes : k \in DOMAIN sizes' /\ sizes'[k] = sizes[k]
  BY <1>0, <1>1, <1>2, <1>a
<1>4. q \in Seq(Bytes) /\ Len(q) = PrefixLen /\ q # <<>> /\ \A j \in 1..PrefixLen : q[j] = <<N, j>>
  <2>1. q = [i \in 1..PrefixLen |-> <<N, i>>]
    BY <1>b DEF Prefix
  <2>2. q \in Seq(Bytes) /\ Len(q) = PrefixLen /\ \A j \in 1..PrefixLen : q[j] = <<N, j>>
    BY <1>0, <1>2, <2>1 DEF Bytes
  <2> QED
    BY <1>0, <2>2, EmptySeq
<1>5. FramesTypeOK'
  <2>1. pipe' \in Seq(Bytes)
    BY <1>1, <1>2, <1>4, ConcatProperties
  <2>2. sizes' # <<>>
    BY <1>2, <1>3, EmptySeq
  <2>3. part' \in Seq(Bytes) /\ got' \in Seq(Seq(Bytes)) /\ cut' \in BOOLEAN
    BY <1>1 DEF FramesInv, FramesTypeOK
  <2> QED
    BY <1>1, <1>3, <2>1, <2>2, <2>3 DEF FramesTypeOK
<1>6. Whole(N)' = PrefixLen + n
  BY <1>2, <1>3 DEF Whole
<1>7. q[1] = Upcoming
  BY <1>0, <1>1, <1>4, <1>a DEF Upcoming
<1>8. \A j \in 1..Len(q) : Sendable(q[j])'
  <2> SUFFICES ASSUME NEW j \in 1..PrefixLen, NEW b, b = <<N, j>> PROVE Sendable(b)'
    BY <1>4 DEF Sendable
  <2>1. j \in 1..PrefixLen + n
    BY <1>0
  <2>2. b[1] = N /\ b[2] = j
    OBVIOUS
  <2>3. \A k : k = N => Whole(k)' = PrefixLen + n
    BY <1>3 DEF Whole
  <2> QED
    BY <1>3, <2>1, <2>2, <2>3 DEF Sendable
<1>9. \A j \in 1..PrefixLen : \A b : b = <<N, j>> => Succ(b)' = <<N, j + 1>>
  <2>1. \A k : k = N => Whole(k)' = PrefixLen + n
    BY <1>3 DEF Whole
  <2>2. \A j \in 1..PrefixLen : j < PrefixLen + n
    BY <1>0
  <2> QED
    BY <2>1, <2>2 DEF Succ
<1>10. \A j \in 1..Len(q) : j + 1 \in 1..Len(q) => q[j + 1] = Succ(q[j])'
  BY <1>4, <1>9, ZenonT(30) DEF Succ
<1>11. Upcoming' = Succ(q[Len(q)])'
  <2>1. PrefixLen \in 1..PrefixLen
    BY <1>0
  <2>2. Succ(q[PrefixLen])' = <<N, PrefixLen + 1>>
    BY <1>4, <1>9, <2>1
  <2>3. Upcoming' = <<N, PrefixLen + 1>>
    BY <1>1, <1>3 DEF Upcoming
  <2> QED
    BY <1>4, <2>2, <2>3 DEF Succ
<1> QED
  BY <1>1, <1>3, <1>4, <1>5, <1>7, <1>8, <1>10, <1>11, Written

LEMMA WritePayloadStep ==
    ASSUME FramesInv, WritePayload
    PROVE  FramesInv'
<1>a. PICK N : N = Len(sizes)
  OBVIOUS
<1>b. PICK q : q = Payload(N)
  OBVIOUS
<1>c. PICK n : n = sizes[N]
  OBVIOUS
<1>1. /\ ~cut /\ halfway /\ UNCHANGED <<sizes, cut, part, got, ended>> /\ halfway' = FALSE
      /\ pipe' = pipe \o q
  BY <1>a, <1>b DEF WritePayload
<1>2. /\ sizes \in Seq(1..MaxMessage) /\ pipe \in Seq(Bytes) /\ FramesTypeOK /\ N \in DOMAIN sizes
      /\ N \in Nat /\ n \in 1..MaxMessage /\ PrefixLen \in Nat \ {0} /\ MaxMessage \in Nat
  <2>1. sizes # <<>> /\ sizes \in Seq(1..MaxMessage)
    BY <1>1 DEF FramesInv, FramesTypeOK
  <2>2. N \in Nat \ {0} /\ DOMAIN sizes = 1..N
    BY <1>a, <2>1, EmptySeq, LenProperties
  <2>3. N \in 1..N
    BY <2>2
  <2> QED
    BY <1>a, <1>c, <2>1, <2>2, <2>3, ElementOfSeq, FramesAssumption DEF FramesInv, FramesTypeOK
<1>3. /\ q \in Seq(Bytes) /\ Len(q) = n /\ q # <<>>
      /\ \A j \in 1..n : q[j] = <<N, PrefixLen + j>>
  <2>1. q \in Seq(Bytes) /\ Len(q) = n
    BY <1>2, <1>b, <1>c, FrameIsPrefixPayload
  <2>2. \A j \in 1..n : q[j] = <<N, PrefixLen + j>>
    BY <1>b, <1>c DEF Payload
  <2>3. n # 0
    BY <1>2
  <2> QED
    BY <2>1, <2>2, <2>3, EmptySeq
<1>4. Whole(N) = PrefixLen + n
  BY <1>c DEF Whole
<1>5. FramesTypeOK'
  <2>1. pipe' \in Seq(Bytes)
    BY <1>1, <1>2, <1>3, ConcatProperties
  <2> QED
    BY <1>1, <1>2, <2>1 DEF FramesTypeOK
<1>6. q[1] = Upcoming
  <2>1. 1 \in 1..n
    BY <1>2
  <2> QED
    BY <1>1, <1>3, <1>a, <2>1 DEF Upcoming
<1>7. \A j \in 1..n : Sendable(q[j]) /\ (j + 1 \in 1..n => q[j + 1] = Succ(q[j]))
  <2> SUFFICES ASSUME NEW j \in 1..n
               PROVE  Sendable(q[j]) /\ (j + 1 \in 1..n => q[j + 1] = Succ(q[j]))
    OBVIOUS
  <2>1. q[j] = <<N, PrefixLen + j>> /\ PrefixLen + j \in 1..PrefixLen + n
    BY <1>2, <1>3
  <2>2. Sendable(q[j])
    BY <1>2, <1>4, <2>1 DEF Sendable
  <2>3. ASSUME j + 1 \in 1..n PROVE q[j + 1] = Succ(q[j])
    <3>1. PrefixLen + j < PrefixLen + n /\ PrefixLen + (j + 1) = (PrefixLen + j) + 1
      BY <1>2, <2>3
    <3>2. q[j + 1] = <<N, (PrefixLen + j) + 1>>
      BY <1>3, <2>3, <3>1
    <3>3. Succ(q[j]) = <<N, (PrefixLen + j) + 1>>
      BY <1>4, <2>1, <3>1 DEF Succ
    <3> QED
      BY <3>2, <3>3
  <2> QED
    BY <2>2, <2>3
<1>8. Succ(q[n]) = <<N + 1, 1>>
  <2>1. n \in 1..n /\ ~(PrefixLen + n < PrefixLen + n)
    BY <1>2
  <2> QED
    BY <1>3, <1>4, <2>1 DEF Succ
<1>9. Upcoming' = <<N + 1, 1>>
  BY <1>1, <1>a DEF Upcoming
<1>10. \A b : (Sendable(b)' <=> Sendable(b)) /\ Succ(b)' = Succ(b)
  BY <1>1 DEF Sendable, Succ, Whole
<1> QED
  BY <1>1, <1>3, <1>5, <1>6, <1>7, <1>8, <1>9, <1>10, Written

(* The connection breaks: what is under way is cut short at its end.       *)
LEMMA CutStep ==
    ASSUME FramesInv, Cut
    PROVE  FramesInv'
<1>1. PICK n \in 0..Len(pipe) : pipe' = SubSeq(pipe, 1, n)
  BY DEF Cut
<1>2. cut' = TRUE /\ UNCHANGED <<sizes, halfway, part, got, ended>> /\ ended = "no"
  BY DEF Cut, FramesInv, EndInOrder
<1>3. pipe \in Seq(Bytes) /\ Len(pipe) \in Nat /\ DOMAIN pipe = 1..Len(pipe)
  BY LenProperties DEF FramesInv, FramesTypeOK
<1>4. /\ pipe' \in Seq(Bytes) /\ DOMAIN pipe' = 1..n /\ 1..n \subseteq DOMAIN pipe
      /\ \A j \in 1..n : pipe'[j] = pipe[j]
  BY <1>1, <1>3
<1>5. pipe' # <<>> => 1 \in 1..n /\ pipe # <<>>
  <2>1. pipe' # <<>> => n # 0
    BY <1>1, SubSeqEmpty
  <2>2. n # 0 => 1 \in 1..n /\ Len(pipe) # 0
    BY <1>1, <1>3
  <2> QED
    BY <2>1, <2>2, EmptySeq
<1>6. \A b : (Sendable(b)' <=> Sendable(b)) /\ Succ(b)' = Succ(b)
  BY <1>2 DEF Sendable, Succ, Whole
<1>7. FramesTypeOK'
  BY <1>2, <1>4 DEF FramesInv, FramesTypeOK
<1>8. ReadInOrder'
  BY <1>2 DEF FramesInv, ReadInOrder, Frame, Whole
<1>9. PipeInOrder'
  <2>1. (\A j \in DOMAIN pipe : Sendable(pipe[j]))'
    BY <1>2, <1>4 DEF FramesInv, PipeInOrder, Sendable, Whole
  <2>2. (\A j \in DOMAIN pipe : j + 1 \in DOMAIN pipe => pipe[j + 1] = Succ(pipe[j]))'
    BY <1>2, <1>4 DEF FramesInv, PipeInOrder, Succ, Whole
  <2>3. (pipe # <<>> => pipe[1] = Awaited)'
    BY <1>2, <1>4, <1>5 DEF FramesInv, PipeInOrder, Awaited
  <2> QED
    BY <1>2, <2>1, <2>2, <2>3 DEF PipeInOrder
<1> QED
  BY <1>2, <1>7, <1>8, <1>9 DEF FramesInv, EndInOrder

(* Reading one byte: it is the awaited one, it never announces a length    *)
(* that Write would have refused, and the last one of a frame makes the    *)
(* frame whole.                                                            *)
LEMMA ReadByteStep ==
    ASSUME FramesInv, ReadByte
    PROVE  FramesInv'
<1>a. PICK g : g = Len(got) + 1
  OBVIOUS
<1>b. PICK p : p = Len(part) + 1
  OBVIOUS
<1>c. PICK b : b = Append(part, Head(pipe))
  OBVIOUS
<1>0. PrefixLen \in Nat \ {0} /\ MaxMessage \in Nat \ {0}
  BY FramesAssumption
<1>1. ended = "no" /\ pipe # <<>> /\ pipe' = Tail(pipe) /\ UNCHANGED <<sizes, halfway, cut>>
  BY DEF ReadByte
<1>2. /\ pipe \in Seq(Bytes) /\ part \in Seq(Bytes) /\ got \in Seq(Seq(Bytes)) /\ sizes \in Seq(1..MaxMessage)
      /\ Len(pipe) \in Nat \ {0} /\ DOMAIN pipe = 1..Len(pipe) /\ Len(part) \in Nat /\ Len(got) \in Nat
      /\ DOMAIN got = 1..Len(got)
  BY <1>1, EmptySeq, LenProperties DEF FramesInv, FramesTypeOK
<1>3. Head(pipe) = <<g, p>> /\ Head(pipe) = pipe[1] /\ 1 \in DOMAIN pipe /\ g \in Nat \ {0} /\ p \in Nat \ {0}
  BY <1>1, <1>2, <1>a, <1>b DEF FramesInv, PipeInOrder, Awaited
<1>4. /\ g \in DOMAIN sizes /\ p \in 1..Whole(g) /\ sizes[g] \in 1..MaxMessage
      /\ Whole(g) = PrefixLen + sizes[g] /\ Whole(g) \in Nat
  <2>1. g \in DOMAIN sizes /\ p \in 1..Whole(g)
    BY <1>3 DEF FramesInv, PipeInOrder, Sendable
  <2>2. sizes[g] \in 1..MaxMessage
    BY <1>2, <2>1, ElementOfSeq, LenProperties
  <2> QED
    BY <1>0, <2>1, <2>2 DEF Whole
<1>5. b \in Seq(Bytes) /\ Len(b) = p /\ \A i \in 1..p : b[i] = <<g, i>>
  <2>1. <<g, p>> \in Bytes
    BY <1>3 DEF Bytes
  <2>2. b \in Seq(Bytes) /\ Len(b) = p /\ b[p] = <<g, p>> /\ \A i \in 1..Len(part) : b[i] = part[i]
    BY <1>2, <1>3, <1>b, <1>c, <2>1
  <2>3. \A i \in 1..Len(part) : part[i] = <<g, i>>
    BY <1>2, <1>a DEF FramesInv, ReadInOrder
  <2>4. \A i \in 1..p : i \in 1..Len(part) \/ i = p
    BY <1>2, <1>b
  <2> QED
    BY <2>2, <2>3, <2>4
<1>6. Announced(b) = sizes[g] /\ Announced(b) \in 1..MaxMessage
  <2>1. 1 \in 1..p
    BY <1>3
  <2>2. b[1] = <<g, 1>>
    BY <1>5, <2>1
  <2> QED
    BY <1>4, <2>2 DEF Announced
<1>7. ended' = "no" /\ \/ p = Whole(g) /\ got' = Append(got, b) /\ part' = <<>>
                       \/ p < Whole(g) /\ got' = got /\ part' = b
  <2>1. ended' = "no" /\ IF p > PrefixLen /\ p = Wants(b) THEN got' = Append(got, b) /\ part' = <<>>
                                                          ELSE got' = got /\ part' = b
    BY <1>1, <1>5, <1>6, <1>c DEF ReadByte
  <2>2. p > PrefixLen => Wants(b) = Whole(g)
    BY <1>0, <1>3, <1>4, <1>5, <1>6 DEF Wants
  <2>3. p <= Whole(g) /\ PrefixLen < Whole(g)
    BY <1>0, <1>4
  <2> HIDE DEF Whole
  <2> QED
    BY <1>0, <1>3, <1>4, <2>1, <2>2, <2>3
<1>8. \A x : (Sendable(x)' <=> Sendable(x)) /\ Succ(x)' = Succ(x)
  BY <1>1 DEF Sendable, Succ, Whole
<1>9. \A k : Frame(k)' = Frame(k)
  BY <1>1 DEF Frame, Whole
<1>10. Awaited' = Succ(pipe[1]) /\ ReadInOrder' /\ part' \in Seq(Bytes) /\ got' \in Seq(Seq(Bytes))
  <2>1. CASE p = Whole(g) /\ got' = Append(got, b) /\ part' = <<>>
    <3>1. b = Frame(g)
      <4>1. Frame(g) = [i \in 1..p |-> <<g, i>>]
        BY <2>1 DEF Frame
      <4>2. Frame(g) \in Seq(Bytes) /\ Len(Frame(g)) = p
        BY <1>3, <4>1 DEF Bytes
      <4> QED
        BY <1>5, <4>1, <4>2, SeqEqual
    <3>2. /\ got' \in Seq(Seq(Bytes)) /\ Len(got') = g /\ DOMAIN got' = 1..g
          /\ got'[g] = b /\ \A k \in 1..Len(got) : got'[k] = got[k]
      BY <1>2, <1>5, <1>a, <2>1
    <3>3. \A k \in 1..g : k \in 1..Len(got) \/ k = g
      BY <1>2, <1>a
    <3>4. ReadInOrder'
      <4>1. \A k \in DOMAIN got' : k \in DOMAIN sizes /\ got'[k] = Frame(k)
        BY <1>2, <1>4, <3>1, <3>2, <3>3 DEF FramesInv, ReadInOrder
      <4>2. DOMAIN part' = {}
        BY <2>1
      <4> QED
        BY <1>1, <1>9, <4>1, <4>2 DEF ReadInOrder
    <3>5. Awaited' = <<g + 1, 1>>
      <4>1. Len(part') = 0
        BY <2>1, EmptySeq
      <4> QED
        BY <3>2, <4>1 DEF Awaited
    <3>6. Succ(pipe[1]) = <<g + 1, 1>>
      BY <1>3, <1>4, <2>1 DEF Succ
    <3>7. part' \in Seq(Bytes)
      BY <2>1, EmptySeq
    <3> QED
      BY <3>2, <3>4, <3>5, <3>6, <3>7
  <2>2. CASE p < Whole(g) /\ got' = got /\ part' = b
    <3>1. ReadInOrder'
      <4>1. DOMAIN part' = 1..p
        BY <1>5, <2>2, LenProperties
      <4>2. \A i \in DOMAIN part' : part'[i] = <<Len(got') + 1, i>>
        BY <1>5, <1>a, <2>2, <4>1
      <4>3. \A k \in DOMAIN got' : k \in DOMAIN sizes' /\ got'[k] = Frame(k)'
        BY <1>1, <1>9, <2>2 DEF FramesInv, ReadInOrder
      <4> QED
        BY <4>2, <4>3 DEF ReadInOrder
    <3>2. Awaited' = <<g, p + 1>>
      BY <1>5, <1>a, <2>2 DEF Awaited
    <3>3. Succ(pipe[1]) = <<g, p + 1>>
      BY <1>3, <2>2 DEF Succ
    <3> QED
      BY <1>2, <1>5, <2>2, <3>1, <3>2, <3>3
  <2> QED
    BY <1>7, <2>1, <2>2
<1> DEFINE m == Len(pipe) - 1
<1>11. /\ pipe' \in Seq(Bytes) /\ Len(pipe') = m /\ DOMAIN pipe' = 1..m /\ m \in Nat
       /\ \A j \in 1..m : pipe'[j] = pipe[j + 1] /\ j + 1 \in DOMAIN pipe /\ j \in DOMAIN pipe
  <2>1. pipe' \in Seq(Bytes) /\ Len(pipe') = m /\ \A j \in 1..m : pipe'[j] = pipe[j + 1]
    BY <1>1, <1>2, HeadTailProperties
  <2>2. m \in Nat /\ \A j \in 1..m : j + 1 \in 1..Len(pipe) /\ j \in 1..Len(pipe)
    BY <1>2
  <2>3. DOMAIN pipe' = 1..m
    BY <2>1, LenProperties
  <2> QED
    BY <1>2, <2>1, <2>2, <2>3
<1>12. (\A j \in DOMAIN pipe : Sendable(pipe[j]))'
  BY <1>1, <1>11 DEF FramesInv, PipeInOrder, Sendable, Whole
<1>13. (\A j \in DOMAIN pipe : j + 1 \in DOMAIN pipe => pipe[j + 1] = Succ(pipe[j]))'
  BY <1>1, <1>11 DEF FramesInv, PipeInOrder, Succ, Whole
<1>14. (pipe # <<>> => pipe[1] = Awaited)'
  <2> SUFFICES ASSUME pipe' # <<>> PROVE pipe'[1] = Awaited'
    OBVIOUS
  <2>1. 1 \in 1..m
    BY <1>11, EmptySeq
  <2>2. pipe'[1] = pipe[1 + 1] /\ 1 + 1 \in DOMAIN pipe
    BY <1>11, <2>1
  <2> QED
    BY <1>3, <1>10, <2>2 DEF FramesInv, PipeInOrder
<1>15. (~cut => Upcoming = IF pipe = <<>> THEN Awaited ELSE Succ(pipe[Len(pipe)]))'
  <2> SUFFICES ASSUME ~cut
               PROVE  Upcoming' = IF pipe' = <<>> THEN Awaited' ELSE Succ(pipe[Len(pipe)])'
    BY <1>1
  <2>1. Upcoming' = Upcoming /\ Upcoming = Succ(pipe[Len(pipe)])
    BY <1>1 DEF Upcoming, FramesInv, PipeInOrder
  <2>2. CASE pipe' = <<>>
    <3>1. m = 0
      BY <1>11, <2>2, EmptySeq
    <3>2. Len(pipe) = 1
      <4>1. \A a \in Nat : a - 1 = 0 => a = 1
        OBVIOUS
      <4> QED
        BY <1>2, <3>1, <4>1
    <3> QED
      BY <1>10, <2>1, <2>2, <3>2
  <2>3. CASE pipe' # <<>>
    <3>1. m \in 1..m /\ m + 1 = Len(pipe)
      BY <1>2, <1>11, <2>3, EmptySeq
    <3>2. pipe'[Len(pipe')] = pipe[Len(pipe)]
      BY <1>11, <3>1
    <3> QED
      BY <1>8, <2>1, <2>3, <3>2 DEF Succ
  <2> QED
    BY <2>2, <2>3
<1>16. PipeInOrder'
  BY <1>12, <1>13, <1>14, <1>15 DEF PipeInOrder
<1>17. FramesTypeOK'
  BY <1>1, <1>10, <1>11 DEF FramesInv, FramesTypeOK
<1> QED
  BY <1>7, <1>10, <1>16, <1>17 DEF FramesInv, EndInOrder

(* The receiver gets the frames that were sent, whole and in order, and    *)
(* never refuses a length that Write let through; its error is io.EOF only *)
(* between two frames, and one that errors.Is takes for io.EOF only there  *)
(* and right behind a prefix.                                              *)
THEOREM FramesDoArrive == FramesInit /\ [][FramesNext]_framesVars => []FramesArrive
<1>1. FramesInv /\ [FramesNext]_framesVars => FramesInv'
  <2> SUFFICES ASSUME FramesInv, [FramesNext]_framesVars PROVE FramesInv'
    OBVIOUS
  <2>1. CASE UNCHANGED framesVars
    BY <2>1 DEF framesVars, FramesInv, FramesTypeOK, ReadInOrder, PipeInOrder, EndInOrder, Sendable,
       Succ, Whole, Frame, Awaited, Upcoming
  <2>2. CASE ReadEnds
    BY <2>2 DEF ReadEnds, FramesInv, FramesTypeOK, ReadInOrder, PipeInOrder, EndInOrder, Sendable,
       Succ, Whole, Frame, Awaited, Upcoming
  <2>3. CASE \E n \in 1..(MaxMessage + 1) : WritePrefix(n)
    BY <2>3, WritePrefixStep
  <2> QED
    BY <2>1, <2>2, <2>3, WritePayloadStep, CutStep, ReadByteStep DEF FramesNext
<1>2. FramesInv => FramesArrive
  <2> SUFFICES ASSUME FramesInv PROVE FramesArrive
    OBVIOUS
  <2>1. \A k \in DOMAIN got : k \in DOMAIN sizes /\ got[k] = Prefix(k) \o Payload(k)
    BY FrameIsPrefixPayload DEF FramesInv, ReadInOrder
  <2>2. Len(part) \in Nat /\ (Len(part) = 0 <=> part = <<>>)
    BY EmptySeq DEF FramesInv, FramesTypeOK
  <2>3. /\ ReadError(part) \notin {"no", "bad length"}
        /\ ReadError(part) = "EOF" <=> part = <<>>
        /\ IsEOF(ReadError(part)) <=> Len(part) \in {0, PrefixLen}
    BY <2>2, FramesAssumption DEF ReadError, IsEOF
  <2>4. ~IsEOF("no")
    BY DEF IsEOF
  <2> QED
    BY <2>1, <2>3, <2>4 DEF FramesInv, EndInOrder, FramesArrive
<1> QED
  BY InitFramesInv, <1>1, <1>2, PTL

-----------------------------------------------------------------------------
(* The loop guard.  Its buffers are the ends of the texts; it tripped on   *)
(* what it saw at its last look, or saw nothing then; and a streak of low  *)
(* scans takes the reasoning it was counted over.                          *)

GuardTypeOK ==
    /\ tail \in Seq(Runes) /\ rbuf \in Seq(Runes)
    /\ fed \in Seq(Runes) /\ thought \in Seq(Runes)
    /\ since \in Nat /\ rsince \in Nat /\ lowStreak \in Nat
    /\ tripped \in {"no", "cycle", "retread"}

BuffersKept ==
    /\ tail = Kept(fed, MaxTail)
    /\ tripped # "cycle" => rbuf = Kept(thought, Window)

CycleSeen == tripped = "cycle" => Cyclic(tail)

Looked ==
    tripped = "no" =>
        /\ since <= Len(fed) /\ since < CheckEvery
        /\ ~Cyclic(Kept(SubSeq(fed, 1, Len(fed) - since), MaxTail))

StreakEarned ==
    /\ tripped # "cycle" /\ lowStreak > 0 =>
         Len(thought) >= Window + (lowStreak - 1) * ScanEvery + rsince
    /\ tripped = "retread" => lowStreak >= Persist /\ Len(rbuf) >= Window /\ LowNovelty(rbuf)

\* The most runes of reasoning between two scans.
Gap == ScanEvery + MaxPiece - 1

NovelAt(j) == j + Window <= Len(thought) /\ ~LowNovelty(WindowBefore(j))

Scanned ==
    tripped = "no" =>
        IF Len(thought) < Window THEN rsince = Len(thought) /\ lowStreak = 0
        ELSE /\ rsince < ScanEvery /\ lowStreak < Persist
             /\ \/ \E j \in 0..(rsince + lowStreak * Gap) : NovelAt(j)
                \/ /\ lowStreak > 0
                   /\ Len(thought) < Window + MaxPiece + (lowStreak - 1) * Gap + rsince

GuardInv == GuardTypeOK /\ BuffersKept /\ CycleSeen /\ Looked /\ StreakEarned /\ Scanned

-----------------------------------------------------------------------------
(* Sequences, in numbers.                                                  *)
LEMMA LongConcat ==
    ASSUME NEW R, NEW a \in Seq(R), NEW b \in Seq(R)
    PROVE  /\ a \o b \in Seq(R) /\ Len(a) \in Nat /\ Len(b) \in Nat
           /\ Len(a \o b) = Len(a) + Len(b)
           /\ \A i \in 1..Len(a) : (a \o b)[i] = a[i]
           /\ \A i \in 1..Len(b) : (a \o b)[Len(a) + i] = b[i]
<1>1. /\ a \o b \in Seq(R) /\ Len(a) \in Nat /\ Len(b) \in Nat
      /\ Len(a \o b) = Len(a) + Len(b)
  BY ConcatProperties, LenProperties
<1>2. \A i \in 1..Len(a) + Len(b) : (a \o b)[i] = IF i <= Len(a) THEN a[i] ELSE b[i - Len(a)]
  BY ConcatProperties
<1> DEFINE c == a \o b
           m == Len(a)
           n == Len(b)
<1> HIDE DEF c, m, n
<1>3. m \in Nat /\ n \in Nat /\ \A i \in 1..(m + n) : c[i] = IF i <= m THEN a[i] ELSE b[i - m]
  BY <1>1, <1>2 DEF c, m, n
<1>4. \A i \in 1..m : c[i] = a[i]
  BY <1>3
<1>5. \A i \in 1..n : c[m + i] = b[i]
  <2> SUFFICES ASSUME NEW i \in 1..n PROVE c[m + i] = b[i]
    OBVIOUS
  <2>1. m + i \in 1..(m + n) /\ ~(m + i <= m) /\ (m + i) - m = i
    BY <1>3
  <2> QED
    BY <1>3, <2>1
<1> QED
  BY <1>1, <1>4, <1>5 DEF c, m, n

LEMMA Piece ==
    ASSUME NEW R, NEW s \in Seq(R), NEW m \in Nat \ {0}, NEW n \in Nat, n <= Len(s), m <= n + 1
    PROVE  /\ SubSeq(s, m, n) \in Seq(R)
           /\ Len(SubSeq(s, m, n)) = n - m + 1
           /\ \A i \in 1..(n - m + 1) : SubSeq(s, m, n)[i] = s[m + i - 1]
<1>1. Len(s) \in Nat /\ \A i \in 1..Len(s) : s[i] \in R
  BY LenProperties, ElementOfSeq
<1>2. \A i \in m..n : s[i] \in R
  BY <1>1
<1>3. /\ SubSeq(s, m, n) \in Seq(R)
      /\ Len(SubSeq(s, m, n)) = IF m <= n THEN n - m + 1 ELSE 0
      /\ \A i \in 1..(n - m + 1) : SubSeq(s, m, n)[i] = s[m + i - 1]
  BY <1>2, SubSeqProperties
<1> QED
  BY <1>3

\* The buffer is the end of the text.
LEMMA KeptIs ==
    ASSUME NEW R, NEW s \in Seq(R), NEW n \in Nat \ {0}
    PROVE  /\ Kept(s, n) \in Seq(R) /\ Len(s) \in Nat
           /\ Len(Kept(s, n)) = IF Len(s) > n THEN n ELSE Len(s)
           /\ \A i \in 1..Len(Kept(s, n)) : Kept(s, n)[i] = s[Len(s) - Len(Kept(s, n)) + i]
<1> DEFINE l == Len(s)
           k == SubSeq(s, l - n + 1, l)
<1>0. l \in Nat
  BY LenProperties
<1>1. CASE l > n
  <2>1. l - n + 1 \in Nat \ {0} /\ l - n + 1 <= l + 1 /\ l - (l - n + 1) + 1 = n
    BY <1>0, <1>1
  <2>2. /\ k \in Seq(R) /\ Len(k) = n
        /\ \A i \in 1..n : k[i] = s[(l - n + 1) + i - 1]
    BY <1>0, <2>1, Piece
  <2>3. \A i \in 1..n : (l - n + 1) + i - 1 = l - n + i
    BY <1>0
  <2>4. Kept(s, n) = k
    BY <1>1 DEF Kept
  <2> HIDE DEF l, k
  <2>5. \A i \in 1..n : k[i] = s[l - n + i]
    BY <2>2, <2>3
  <2> QED
    BY <1>0, <1>1, <2>2, <2>4, <2>5 DEF l
<1>2. CASE ~(l > n)
  <2>1. Kept(s, n) = s
    BY <1>2 DEF Kept
  <2> HIDE DEF l
  <2>2. \A i \in 1..l : s[i] = s[l - l + i]
    BY <1>0
  <2> QED
    BY <1>0, <1>2, <2>1, <2>2 DEF l
<1> QED
  BY <1>1, <1>2

\* What was dropped before would be dropped now.
LEMMA KeptGrows ==
    ASSUME NEW R, NEW a \in Seq(R), NEW b \in Seq(R), NEW n \in Nat \ {0}
    PROVE  Kept(Kept(a, n) \o b, n) = Kept(a \o b, n)
<1> DEFINE k == Kept(a, n)
           x == k \o b
           y == a \o b
           p == Kept(x, n)
           q == Kept(y, n)
<1>1. /\ k \in Seq(R) /\ Len(a) \in Nat /\ Len(k) = IF Len(a) > n THEN n ELSE Len(a)
      /\ \A i \in 1..Len(k) : k[i] = a[Len(a) - Len(k) + i]
  BY KeptIs
<1> HIDE DEF k
<1>2. /\ x \in Seq(R) /\ Len(k) \in Nat /\ Len(b) \in Nat /\ Len(x) = Len(k) + Len(b)
      /\ \A i \in 1..Len(k) : x[i] = k[i]
      /\ \A i \in 1..Len(b) : x[Len(k) + i] = b[i]
  <2>1. k \in Seq(R)
    BY <1>1
  <2> QED
    BY <2>1, LongConcat
<1>3. /\ y \in Seq(R) /\ Len(y) = Len(a) + Len(b)
      /\ \A i \in 1..Len(a) : y[i] = a[i]
      /\ \A i \in 1..Len(b) : y[Len(a) + i] = b[i]
  BY LongConcat
<1> HIDE DEF x, y
<1>4. /\ p \in Seq(R) /\ Len(p) = IF Len(x) > n THEN n ELSE Len(x)
      /\ \A i \in 1..Len(p) : p[i] = x[Len(x) - Len(p) + i]
  BY <1>2, KeptIs
<1>5. /\ q \in Seq(R) /\ Len(q) = IF Len(y) > n THEN n ELSE Len(y)
      /\ \A i \in 1..Len(q) : q[i] = y[Len(y) - Len(q) + i]
  BY <1>3, KeptIs
<1> HIDE DEF p, q
<1>6. /\ Len(k) <= Len(a) /\ Len(k) \in Nat /\ Len(a) \in Nat /\ Len(b) \in Nat
      /\ Len(x) = Len(k) + Len(b) /\ Len(y) = Len(a) + Len(b)
      /\ Len(p) \in Nat /\ Len(p) <= Len(x) /\ Len(p) = Len(q)
  <2>1. Len(k) = IF Len(a) > n THEN n ELSE Len(a)
    BY <1>1
  <2>2. Len(x) = Len(k) + Len(b) /\ Len(y) = Len(a) + Len(b)
        /\ Len(a) \in Nat /\ Len(b) \in Nat /\ Len(k) \in Nat
    BY <1>1, <1>2, <1>3
  <2>3. Len(p) = (IF Len(x) > n THEN n ELSE Len(x)) /\ Len(q) = IF Len(y) > n THEN n ELSE Len(y)
    BY <1>4, <1>5
  <2> QED
    BY <2>1, <2>2, <2>3
<1>7. ASSUME NEW i \in 1..Len(p) PROVE p[i] = q[i]
  <2> DEFINE j == Len(x) - Len(p) + i
             d == Len(a) - Len(k)
  <2>1. Len(p) \in Nat /\ Len(p) <= Len(x) /\ d \in Nat /\ Len(y) = Len(x) + d
    BY <1>6
  <2>2. j \in 1..Len(x) /\ Len(y) - Len(q) + i = d + j
    BY <1>6, <2>1
  <2>3. p[i] = x[j] /\ q[i] = y[d + j]
    BY <1>4, <1>5, <1>6, <2>2
  <2> HIDE DEF j
  <2>4. CASE j <= Len(k)
    <3>1. j \in 1..Len(k) /\ d + j \in 1..Len(a)
      BY <1>6, <2>2, <2>4
    <3> QED
      BY <1>1, <1>2, <1>3, <2>3, <3>1
  <2>5. CASE j > Len(k)
    <3>1. PICK m \in 1..Len(b) : j = Len(k) + m
      <4>1. j - Len(k) \in 1..Len(b) /\ j = Len(k) + (j - Len(k))
        BY <1>6, <2>2, <2>5
      <4> QED
        BY <4>1
    <3>2. d + j = Len(a) + m
      BY <1>6, <3>1
    <3> QED
      BY <1>2, <1>3, <2>3, <3>1, <3>2
  <2> QED
    BY <1>2, <2>2, <2>4, <2>5
<1>8. p = q
  BY <1>4, <1>5, <1>6, <1>7, SeqEqual
<1> QED
  BY <1>8 DEF p, q, x, y, k

-----------------------------------------------------------------------------
(* Cycles.  The span of a unit is the fewest repetitions that count.       *)
LEMMA Division ==
    ASSUME NEW a \in Nat, NEW u \in Nat \ {0}
    PROVE  a \div u \in Nat /\ u * (a \div u) <= a /\ a < u * (a \div u) + u
OBVIOUS

LEMMA Products ==
    /\ \A u, a, b \in Nat : a <= b => u * a <= u * b /\ a * u <= b * u
    /\ \A u, a, b \in Nat : u # 0 /\ u * a <= u * b => a <= b
    /\ \A u, a, b \in Nat : u * a < u * b => a < b
    /\ \A u \in Nat, a \in Int : u * (a - 1) = u * a - u /\ u * a = a * u
    /\ \A u, a \in Nat : u # 0 => a <= u * a
OBVIOUS

\* k repetitions of a unit count, and one less would not.
Fewest(unit, k) ==
    /\ k >= MinReps /\ unit * k >= MinRepeatLen
    /\ unit * (k - 1) < MinRepeatLen \/ k = MinReps

LEMMA FewestIsOne ==
    ASSUME NEW unit \in Nat \ {0}, NEW j \in Nat, NEW k \in Nat, Fewest(unit, j), Fewest(unit, k)
    PROVE  j = k
<1>0. MinReps \in Nat /\ MinRepeatLen \in Nat
  BY GuardAssumption
<1>1. ASSUME NEW m \in Nat, NEW n \in Nat, Fewest(unit, m), Fewest(unit, n) PROVE ~(m < n)
  <2>1. SUFFICES ASSUME m < n PROVE FALSE
    OBVIOUS
  <2>2. n # MinReps
    BY <1>0, <1>1, <2>1 DEF Fewest
  <2>3. unit * (n - 1) < unit * m
    <3>1. unit * (n - 1) \in Int /\ unit * m \in Int
      BY <1>1
    <3> QED
      BY <1>0, <1>1, <2>2, <3>1 DEF Fewest
  <2>4. n - 1 \in Nat
    BY <2>1
  <2>5. n - 1 < m
    BY <2>3, <2>4, Products
  <2> QED
    BY <2>1, <2>5
<1> QED
  BY <1>1

LEMMA SpanIsFewest ==
    ASSUME NEW unit \in 1..MaxCycle
    PROVE  \E k \in Nat : Span(unit) = unit * k /\ Fewest(unit, k) /\ unit * k <= MaxTail
<1>0. /\ MinReps \in Nat /\ MinReps # 0 /\ MinRepeatLen \in Nat /\ MinRepeatLen # 0
      /\ MaxCycle \in Nat /\ MaxTail \in Nat
      /\ MaxTail >= MinReps * MaxCycle /\ MaxTail >= MinRepeatLen + MaxCycle
      /\ unit \in Nat /\ unit # 0 /\ unit <= MaxCycle
  BY GuardAssumption
<1>1. CASE unit * MinReps < MinRepeatLen
  <2> DEFINE a == MinRepeatLen + unit - 1
             k == a \div unit
  <2>1. a \in Nat
    BY <1>0
  <2>2. k \in Nat /\ unit * k <= a /\ a < unit * k + unit
    BY <1>0, <2>1, Division
  <2>3. Span(unit) = unit * k
    BY <1>1 DEF Span
  <2> HIDE DEF k
  <2>4. unit * k >= MinRepeatLen /\ unit * k <= MinRepeatLen + unit - 1
    BY <1>0, <2>2
  <2>5. unit * (k - 1) = unit * k - unit
    BY <1>0, <2>2, Products
  <2>6. unit * (k - 1) < MinRepeatLen
    BY <1>0, <2>2, <2>4, <2>5
  <2>7. k >= MinReps
    <3>1. unit * MinReps < unit * k
      BY <1>0, <1>1, <2>2, <2>4
    <3> QED
      BY <1>0, <2>2, <3>1, Products
  <2>8. unit * k <= MaxTail
    BY <1>0, <2>2, <2>4
  <2> QED
    BY <2>2, <2>3, <2>4, <2>6, <2>7, <2>8 DEF Fewest
<1>2. CASE ~(unit * MinReps < MinRepeatLen)
  <2>1. Span(unit) = unit * MinReps
    BY <1>2 DEF Span
  <2>2. unit * MinReps \in Nat /\ MinReps * MaxCycle \in Nat /\ unit * MinReps <= MaxCycle * MinReps
        /\ MaxCycle * MinReps = MinReps * MaxCycle
    BY <1>0, Products
  <2>3. unit * MinReps <= MaxTail /\ unit * MinReps >= MinRepeatLen
    BY <1>0, <1>2, <2>2
  <2> QED
    BY <1>0, <2>1, <2>3 DEF Fewest
<1> QED
  BY <1>1, <1>2

\* The buffer ends in a cycle if and only if the text does.
LEMMA SuffixOfText ==
    ASSUME NEW s \in Seq(Runes), NEW unit \in Nat \ {0}, NEW n \in Nat,
           n <= Len(Kept(s, MaxTail))
    PROVE  IsCyclicSuffix(Kept(s, MaxTail), unit, n) <=> EndsPeriodic(s, unit, n)
<1> DEFINE b == Kept(s, MaxTail)
           l == Len(b)
           m == Len(s)
<1>1. /\ m \in Nat /\ l \in Nat /\ l <= m
      /\ \A i \in 1..l : b[i] = s[m - l + i]
  <2>1. MaxTail \in Nat \ {0}
    BY GuardAssumption
  <2> QED
    BY <2>1, KeptIs
<1> HIDE DEF b, l, m
<1>2. EndsPeriodic(s, unit, n) <=> \A i \in 0..(n - unit - 1) : s[m - i] = s[m - i - unit]
  BY <1>1 DEF EndsPeriodic, b, l, m
<1>3. IsCyclicSuffix(b, unit, n) <=> \A i \in (l - n + unit + 1)..l : b[i] = b[i - unit]
  BY DEF IsCyclicSuffix, l
<1>4. n <= l
  BY DEF l, b
<1>5. ASSUME NEW i \in 0..(n - unit - 1)
      PROVE  /\ l - i \in (l - n + unit + 1)..l
             /\ b[l - i] = s[m - i] /\ b[l - i - unit] = s[m - i - unit]
  <2>1. l - i \in 1..l /\ l - i - unit \in 1..l /\ l - i \in (l - n + unit + 1)..l
    BY <1>1, <1>4, SMTT(30)
  <2>2. m - l + (l - i) = m - i /\ m - l + (l - i - unit) = m - i - unit
    BY <1>1
  <2>3. b[l - i] = s[m - l + (l - i)] /\ b[l - i - unit] = s[m - l + (l - i - unit)]
    BY <1>1, <2>1
  <2> QED
    BY <2>1, <2>2, <2>3
<1>6. ASSUME NEW i \in (l - n + unit + 1)..l
      PROVE  l - i \in 0..(n - unit - 1) /\ l - (l - i) = i
  BY <1>1, <1>4
<1>7. ASSUME IsCyclicSuffix(b, unit, n) PROVE EndsPeriodic(s, unit, n)
  <2> SUFFICES ASSUME NEW i \in 0..(n - unit - 1) PROVE s[m - i] = s[m - i - unit]
    BY <1>2
  <2> QED
    BY <1>3, <1>5, <1>7
<1>8. ASSUME EndsPeriodic(s, unit, n) PROVE IsCyclicSuffix(b, unit, n)
  <2> SUFFICES ASSUME NEW i \in (l - n + unit + 1)..l PROVE b[i] = b[i - unit]
    BY <1>3
  <2>1. PICK j \in 0..(n - unit - 1) : i = l - j
    <3>1. l - i \in 0..(n - unit - 1) /\ i = l - (l - i)
      BY <1>1, <1>6
    <3> QED
      BY <3>1
  <2>2. s[m - j] = s[m - j - unit]
    BY <1>2, <1>8
  <2> QED
    BY <1>5, <2>1, <2>2
<1> QED
  BY <1>7, <1>8 DEF b

\* The guard looks for what the text is said to end with.
LEMMA CyclicIsRepeats ==
    ASSUME NEW s \in Seq(Runes)
    PROVE  Cyclic(Kept(s, MaxTail)) <=> \E unit \in 1..MaxCycle : Repeats(s, unit, 0)
<1> DEFINE b == Kept(s, MaxTail)
           l == Len(b)
           q == l \div MinReps
<1>0. /\ MinReps \in Nat /\ MinReps # 0 /\ MinRepeatLen \in Nat /\ MaxCycle \in Nat /\ MaxCycle # 0
      /\ MaxTail \in Nat /\ MaxTail # 0
  BY GuardAssumption
<1>1. /\ l \in Nat /\ Len(s) \in Nat /\ l = IF Len(s) > MaxTail THEN MaxTail ELSE Len(s)
  BY <1>0, KeptIs
<1>2. q \in Nat /\ l < MinReps * q + MinReps
  BY <1>0, <1>1, Division
<1>3. Min({q, MaxCycle}) = IF q <= MaxCycle THEN q ELSE MaxCycle
  BY <1>0, <1>2 DEF Min
<1>4. \A unit, k \in Nat : unit * k \in Nat /\ unit * k + 0 = unit * k
  OBVIOUS
<1>5. ASSUME Cyclic(b) PROVE \E unit \in 1..MaxCycle : Repeats(s, unit, 0)
  <2>1. PICK unit \in 1..Min({q, MaxCycle}) : Span(unit) <= l /\ IsCyclicSuffix(b, unit, Span(unit))
    BY <1>5 DEF Cyclic
  <2>2. unit \in 1..MaxCycle /\ unit \in Nat /\ unit # 0
    BY <1>0, <1>2, <1>3, <2>1
  <2>3. PICK k \in Nat : Span(unit) = unit * k /\ Fewest(unit, k) /\ unit * k <= MaxTail
    BY <2>2, SpanIsFewest
  <2>4. EndsPeriodic(s, unit, unit * k + 0)
    BY <1>4, <2>1, <2>2, <2>3, SuffixOfText
  <2>5. k \in MinReps..Len(s)
    <3>1. k <= unit * k /\ unit * k \in Nat /\ unit * k <= l
      BY <1>4, <2>1, <2>2, <2>3, Products
    <3> QED
      BY <1>0, <1>1, <2>3, <3>1 DEF Fewest
  <2> QED
    BY <2>2, <2>3, <2>4, <2>5 DEF Repeats, Fewest
<1>6. ASSUME NEW unit \in 1..MaxCycle, Repeats(s, unit, 0) PROVE Cyclic(b)
  <2>1. PICK k \in MinReps..Len(s) : Fewest(unit, k) /\ EndsPeriodic(s, unit, unit * k + 0)
    BY <1>0, <1>6 DEF Repeats, Fewest
  <2>2. unit \in Nat /\ unit # 0 /\ k \in Nat /\ unit * k \in Nat
    BY <1>0, <1>1, <1>4
  <2>3. Span(unit) = unit * k /\ unit * k <= MaxTail
    BY <2>1, <2>2, SpanIsFewest, FewestIsOne
  <2>4. EndsPeriodic(s, unit, unit * k) /\ unit * k <= Len(s)
    BY <1>4, <2>1, <2>2 DEF EndsPeriodic
  <2>5. unit * k <= l
    BY <1>0, <1>1, <2>2, <2>3, <2>4
  <2>6. IsCyclicSuffix(b, unit, unit * k)
    BY <2>2, <2>4, <2>5, SuffixOfText
  <2>7. l >= MinRepeatLen
    BY <1>0, <1>1, <2>1, <2>2, <2>5 DEF Fewest
  <2>8. unit \in 1..Min({q, MaxCycle})
    <3>1. unit * MinReps <= unit * k /\ unit * MinReps = MinReps * unit /\ MinReps * unit \in Nat
      BY <1>0, <2>1, <2>2, Products DEF Fewest
    <3>2. MinReps * unit < MinReps * q + MinReps
      <4>1. MinReps * unit <= l
        BY <1>1, <2>2, <2>5, <3>1
      <4> HIDE DEF q, l
      <4>2. MinReps * q \in Nat
        BY <1>0, <1>2
      <4> QED
        BY <1>0, <1>1, <1>2, <3>1, <4>1, <4>2
    <3>3. MinReps * (q + 1) = MinReps * q + MinReps
      BY <1>0, <1>2
    <3>4. MinReps * unit < MinReps * (q + 1)
      BY <3>2, <3>3
    <3> HIDE DEF q
    <3>5. unit < q + 1
      BY <1>0, <1>2, <2>2, <3>4, Products
    <3> QED
      BY <1>0, <1>2, <1>3, <2>2, <3>5
  <2> QED
    BY <2>3, <2>5, <2>6, <2>7, <2>8 DEF Cyclic
<1> QED
  BY <1>5, <1>6

\* A unit that repeats beyond the threshold repeated before the last runes.
LEMMA RepeatedBefore ==
    ASSUME NEW s \in Seq(Runes), NEW unit \in 1..MaxCycle, NEW e \in Nat, Repeats(s, unit, e),
           NEW d \in Nat, d <= e, d <= Len(s)
    PROVE  Repeats(SubSeq(s, 1, Len(s) - d), unit, 0)
<1> DEFINE n == Len(s) - d
           t == SubSeq(s, 1, n)
<1>0. MinReps \in Nat /\ MaxCycle \in Nat /\ unit \in Nat /\ unit # 0
  BY GuardAssumption
<1>1. n \in Nat /\ n + d = Len(s) /\ Len(s) \in Nat
  <2>1. Len(s) \in Nat
    BY LenProperties
  <2> QED
    BY <2>1
<1> HIDE DEF n
<1>2. t \in Seq(Runes) /\ Len(t) = n /\ \A i \in 1..n : t[i] = s[i]
  <2>1. n <= Len(s) /\ 1 <= n + 1 /\ n - 1 + 1 = n /\ 1 \in Nat \ {0}
    BY <1>1
  <2>2. /\ t \in Seq(Runes) /\ Len(t) = n - 1 + 1
        /\ \A i \in 1..(n - 1 + 1) : t[i] = s[1 + i - 1]
    BY <1>1, <2>1, Piece
  <2>3. \A i \in 1..n : 1 + i - 1 = i
    BY <1>1
  <2> QED
    BY <2>1, <2>2, <2>3
<1>3. PICK k \in MinReps..Len(s) :
         /\ unit * k >= MinRepeatLen
         /\ unit * (k - 1) < MinRepeatLen \/ k = MinReps
         /\ EndsPeriodic(s, unit, unit * k + e)
  BY DEF Repeats
<1> DEFINE p == unit * k
<1>4. p \in Nat /\ k <= p /\ k \in Nat /\ p + 0 = p
  BY <1>0, <1>1, Products
<1>5. Len(s) >= p + e /\ \A i \in 0..(p + e - unit - 1) : s[Len(s) - i] = s[Len(s) - i - unit]
  BY <1>3 DEF EndsPeriodic
<1> HIDE DEF t, p
<1>6. p <= n
  BY <1>1, <1>4, <1>5
<1>7. ASSUME NEW i \in 0..(p - unit - 1) PROVE t[n - i] = t[n - i - unit]
  <2>1. /\ d + i \in 0..(p + e - unit - 1) /\ Len(s) - (d + i) = n - i
        /\ n - i \in 1..n /\ n - i - unit \in 1..n
    BY <1>0, <1>1, <1>4, <1>6
  <2> QED
    BY <1>2, <1>5, <2>1
<1>8. EndsPeriodic(t, unit, p + 0)
  BY <1>2, <1>4, <1>6, <1>7 DEF EndsPeriodic
<1>9. k \in MinReps..Len(t)
  BY <1>0, <1>1, <1>2, <1>4, <1>6
<1> QED
  BY <1>3, <1>8, <1>9 DEF Repeats, t, p, n

-----------------------------------------------------------------------------
\* A part of a text is there still when the text goes on.
LEMMA PieceStays ==
    ASSUME NEW s \in Seq(Runes), NEW t \in Seq(Runes), NEW m \in Nat \ {0}, NEW n \in Nat,
           n <= Len(s), m <= n + 1
    PROVE  SubSeq(s \o t, m, n) = SubSeq(s, m, n)
<1> DEFINE u == s \o t
           a == SubSeq(u, m, n)
           b == SubSeq(s, m, n)
<1>1. /\ u \in Seq(Runes) /\ Len(s) \in Nat /\ Len(t) \in Nat /\ Len(u) = Len(s) + Len(t)
      /\ \A i \in 1..Len(s) : u[i] = s[i]
  BY LongConcat
<1> HIDE DEF u
<1>2. n <= Len(u)
  BY <1>1
<1>3. /\ a \in Seq(Runes) /\ Len(a) = n - m + 1
      /\ \A i \in 1..(n - m + 1) : a[i] = u[m + i - 1]
  BY <1>1, <1>2, Piece
<1>4. /\ b \in Seq(Runes) /\ Len(b) = n - m + 1
      /\ \A i \in 1..(n - m + 1) : b[i] = s[m + i - 1]
  BY Piece
<1> HIDE DEF a, b
<1>5. ASSUME NEW i \in 1..Len(a) PROVE a[i] = b[i]
  <2>1. i \in 1..(n - m + 1) /\ m + i - 1 \in 1..Len(s)
    BY <1>1, <1>3
  <2> QED
    BY <1>1, <1>3, <1>4, <2>1
<1>6. a = b
  BY <1>3, <1>4, <1>5, SeqEqual
<1> QED
  BY <1>6 DEF a, b, u

\* The window that ends j runes before the end of s.
Windowed(s, j) == SubSeq(s, Len(s) - j - Window + 1, Len(s) - j)

LEMMA WindowMoves ==
    ASSUME NEW s \in Seq(Runes), NEW t \in Seq(Runes), NEW j \in Nat, j + Window <= Len(s)
    PROVE  Windowed(s \o t, j + Len(t)) = Windowed(s, j)
<1>0. Window \in Nat /\ Window # 0
  BY GuardAssumption
<1>1. Len(s) \in Nat /\ Len(t) \in Nat /\ Len(s \o t) = Len(s) + Len(t)
  BY LongConcat
<1> DEFINE m == Len(s) - j - Window + 1
           n == Len(s) - j
<1>2. m \in Nat \ {0} /\ n \in Nat /\ n <= Len(s) /\ m <= n + 1
  BY <1>0, <1>1
<1>3. Len(s \o t) - (j + Len(t)) - Window + 1 = m /\ Len(s \o t) - (j + Len(t)) = n
  BY <1>0, <1>1
<1> HIDE DEF m, n
<1>4. SubSeq(s \o t, m, n) = SubSeq(s, m, n)
  BY <1>2, PieceStays
<1> QED
  BY <1>3, <1>4 DEF Windowed, m, n

\* A full buffer is the last window.
LEMMA KeptIsWindow ==
    ASSUME NEW s \in Seq(Runes), Len(s) >= Window
    PROVE  Kept(s, Window) = Windowed(s, 0)
<1>0. Window \in Nat /\ Window # 0 /\ Len(s) \in Nat
  BY GuardAssumption, LenProperties
<1>1. Windowed(s, 0) = SubSeq(s, Len(s) - Window + 1, Len(s))
  <2>1. Len(s) - 0 - Window + 1 = Len(s) - Window + 1 /\ Len(s) - 0 = Len(s)
    BY <1>0
  <2> QED
    BY <2>1 DEF Windowed
<1>2. CASE Len(s) > Window
  BY <1>1, <1>2 DEF Kept
<1>3. CASE ~(Len(s) > Window)
  <2>1. Len(s) - Window + 1 = 1
    BY <1>0, <1>3
  <2>2. Windowed(s, 0) = s
    BY <1>1, <2>1, SubSeqFull
  <2> QED
    BY <1>3, <2>2 DEF Kept
<1> QED
  BY <1>2, <1>3

\* What both channels share keeps the text and, unless it trips, its last look.
LEMMA AddStep ==
    ASSUME GuardInv, NEW s \in Fragments, Add(s)
    PROVE  /\ s \in Seq(Runes) /\ Len(s) \in 1..MaxPiece
           /\ fed' \in Seq(Runes) /\ tail' \in Seq(Runes) /\ since' \in Nat
           /\ tripped = "no" /\ tail' = Kept(fed', MaxTail)
           /\ AddTrips(s) => Cyclic(tail')
           /\ ~AddTrips(s) =>
                /\ since' <= Len(fed') /\ since' < CheckEvery
                /\ ~Cyclic(Kept(SubSeq(fed', 1, Len(fed') - since'), MaxTail))
<1>0. /\ MaxTail \in Nat \ {0} /\ CheckEvery \in Nat /\ CheckEvery # 0
      /\ fed \in Seq(Runes) /\ tail \in Seq(Runes) /\ since \in Nat /\ tripped = "no"
      /\ tail = Kept(fed, MaxTail)
  BY GuardAssumption DEF GuardInv, GuardTypeOK, BuffersKept, Add
<1>1. s \in Seq(Runes) /\ Len(s) \in 1..MaxPiece
  <2>1. PICK n \in 1..MaxPiece : s \in [1..n -> Runes]
    BY DEF Fragments
  <2>2. s \in Seq(Runes) /\ Len(s) = n
    BY <2>1, GuardAssumption
  <2> QED
    BY <2>2
<1>2. fed' = fed \o s /\ tail' = Kept(tail \o s, MaxTail)
      /\ since' = IF since + Len(s) >= CheckEvery THEN 0 ELSE since + Len(s)
  BY DEF Add
<1>3. /\ fed' \in Seq(Runes) /\ Len(fed) \in Nat /\ Len(s) \in Nat /\ Len(fed') = Len(fed) + Len(s)
  BY <1>0, <1>1, <1>2, LongConcat
<1>4. tail' = Kept(fed', MaxTail)
  BY <1>0, <1>1, <1>2, KeptGrows
<1>5. tail' \in Seq(Runes) /\ since' \in Nat
  <2>1. Kept(fed', MaxTail) \in Seq(Runes)
    BY <1>0, <1>3, KeptIs
  <2>2. since' \in Nat
    BY <1>0, <1>2, <1>3
  <2> QED
    BY <1>4, <2>1, <2>2
<1>6. AddTrips(s) => Cyclic(tail')
  BY <1>2 DEF AddTrips
<1>7. ASSUME ~AddTrips(s)
      PROVE  /\ since' <= Len(fed') /\ since' < CheckEvery
             /\ ~Cyclic(Kept(SubSeq(fed', 1, Len(fed') - since'), MaxTail))
  <2>1. CASE since + Len(s) >= CheckEvery
    <3>1. since' = 0 /\ ~Cyclic(tail')
      BY <1>2, <1>7, <2>1 DEF AddTrips
    <3>2. Len(fed') - since' = Len(fed')
      BY <1>3, <3>1
    <3>3. SubSeq(fed', 1, Len(fed') - since') = fed'
      BY <1>3, <3>2, SubSeqFull
    <3>4. ~Cyclic(Kept(SubSeq(fed', 1, Len(fed') - since'), MaxTail))
      BY <1>4, <3>1, <3>3
    <3>5. since' <= Len(fed') /\ since' < CheckEvery
      BY <1>0, <1>3, <3>1
    <3> QED
      BY <3>4, <3>5
  <2>2. CASE ~(since + Len(s) >= CheckEvery)
    <3>1. /\ since <= Len(fed)
          /\ ~Cyclic(Kept(SubSeq(fed, 1, Len(fed) - since), MaxTail))
      BY <1>0 DEF GuardInv, Looked
    <3>2. since' = since + Len(s) /\ Len(fed') - since' = Len(fed) - since
      BY <1>0, <1>2, <1>3, <2>2
    <3>3. SubSeq(fed', 1, Len(fed) - since) = SubSeq(fed, 1, Len(fed) - since)
      <4>1. Len(fed) - since \in Nat /\ Len(fed) - since <= Len(fed) /\ 1 <= Len(fed) - since + 1
            /\ 1 \in Nat \ {0}
        BY <1>0, <1>3, <3>1
      <4> QED
        BY <1>0, <1>1, <1>2, <4>1, PieceStays
    <3>4. since' <= Len(fed') /\ since' < CheckEvery
      BY <1>0, <1>3, <2>2, <3>1, <3>2
    <3> QED
      BY <3>1, <3>2, <3>3, <3>4
  <2> QED
    BY <2>1, <2>2
<1> QED
  BY <1>0, <1>1, <1>3, <1>4, <1>5, <1>6, <1>7

LEMMA OneMore == \A a \in Int, g \in Nat : (a + 1) * g = a * g + g /\ (a - 1) * g = a * g - g /\ a * g \in Int
OBVIOUS

\* The reasoning's buffer, and what a scan of it finds.
Buffer(s) == Kept(rbuf \o s, Window)
Scans(s) == Len(Buffer(s)) >= Window /\ rsince + Len(s) >= ScanEvery

LEMMA BufferIs ==
    ASSUME GuardInv, tripped = "no", NEW s \in Seq(Runes)
    PROVE  /\ thought \o s \in Seq(Runes) /\ Len(thought) \in Nat /\ Len(s) \in Nat
           /\ Len(thought \o s) = Len(thought) + Len(s)
           /\ Buffer(s) = Kept(thought \o s, Window) /\ Buffer(s) \in Seq(Runes)
           /\ Len(Buffer(s)) >= Window <=> Len(thought) + Len(s) >= Window
           /\ Len(Buffer(s)) >= Window => Buffer(s) = Windowed(thought \o s, 0)
<1>0. /\ Window \in Nat \ {0} /\ thought \in Seq(Runes) /\ rbuf = Kept(thought, Window)
  BY GuardAssumption DEF GuardInv, GuardTypeOK, BuffersKept
<1>1. /\ thought \o s \in Seq(Runes) /\ Len(thought) \in Nat /\ Len(s) \in Nat
      /\ Len(thought \o s) = Len(thought) + Len(s)
  BY <1>0, LongConcat
<1>2. Buffer(s) = Kept(thought \o s, Window)
  BY <1>0, KeptGrows DEF Buffer
<1> DEFINE t == thought \o s
<1> HIDE DEF t
<1>3. t \in Seq(Runes) /\ Len(t) \in Nat
  BY <1>1, LenProperties DEF t
<1>4. /\ Kept(t, Window) \in Seq(Runes)
      /\ Len(Kept(t, Window)) = IF Len(t) > Window THEN Window ELSE Len(t)
  BY <1>0, <1>3, KeptIs
<1>5. Len(Kept(t, Window)) >= Window <=> Len(t) >= Window
  BY <1>0, <1>3, <1>4
<1>6. Len(t) >= Window => Kept(t, Window) = Windowed(t, 0)
  BY <1>3, KeptIsWindow
<1> QED
  BY <1>1, <1>2, <1>4, <1>5, <1>6 DEF t

LEMMA TextStep ==
    ASSUME GuardInv, NEW s \in Fragments, FeedText(s)
    PROVE  GuardInv'
<1>1. /\ fed' \in Seq(Runes) /\ tail' \in Seq(Runes) /\ since' \in Nat
      /\ tripped = "no" /\ tail' = Kept(fed', MaxTail)
      /\ AddTrips(s) => Cyclic(tail')
      /\ ~AddTrips(s) =>
           /\ since' <= Len(fed') /\ since' < CheckEvery
           /\ ~Cyclic(Kept(SubSeq(fed', 1, Len(fed') - since'), MaxTail))
  BY AddStep DEF FeedText
<1>2. /\ tripped' = IF AddTrips(s) THEN "cycle" ELSE "no"
      /\ UNCHANGED <<rbuf, rsince, lowStreak, thought>>
  BY DEF FeedText
<1>3. GuardTypeOK'
  BY <1>1, <1>2 DEF GuardInv, GuardTypeOK
<1>4. BuffersKept'
  BY <1>1, <1>2 DEF GuardInv, BuffersKept
<1>5. CycleSeen' /\ Looked'
  BY <1>1, <1>2 DEF CycleSeen, Looked
<1>6. StreakEarned'
  BY <1>1, <1>2 DEF GuardInv, StreakEarned
<1>7. Scanned'
  BY <1>1, <1>2 DEF GuardInv, Scanned, NovelAt, WindowBefore
<1> QED
  BY <1>3, <1>4, <1>5, <1>6, <1>7 DEF GuardInv

\* The two conjuncts that a scan of the reasoning concerns.
LEMMA StreakStep ==
    ASSUME GuardInv, NEW s \in Fragments, FeedReasoning(s), ~AddTrips(s)
    PROVE  StreakEarned'
<1>0. /\ Window \in Nat /\ ScanEvery \in Nat /\ Persist \in Nat /\ Persist # 0
      /\ rsince \in Nat /\ lowStreak \in Nat
  BY GuardAssumption DEF GuardInv, GuardTypeOK
<1>1. s \in Seq(Runes) /\ tripped = "no"
  BY AddStep DEF FeedReasoning
<1> DEFINE buf == Buffer(s)
           n == Len(s)
           l == Len(thought)
<1>2. /\ l \in Nat /\ n \in Nat /\ Len(thought') = l + n
      /\ Len(buf) >= Window <=> l + n >= Window
  BY <1>1, BufferIs DEF FeedReasoning
<1>3. /\ rbuf' = buf
      /\ rsince' = IF Scans(s) THEN 0 ELSE rsince + n
      /\ lowStreak' = CASE ~Scans(s) -> lowStreak
                        [] Scans(s) /\ LowNovelty(buf) -> lowStreak + 1
                        [] OTHER -> 0
      /\ tripped' = IF Scans(s) /\ lowStreak' >= Persist THEN "retread" ELSE "no"
  BY DEF FeedReasoning, Buffer, Scans
<1>4. lowStreak > 0 => l >= Window + (lowStreak - 1) * ScanEvery + rsince
  BY <1>1 DEF GuardInv, StreakEarned
<1> HIDE DEF buf, n, l
<1>5. CASE ~Scans(s)
  <2>1. lowStreak' = lowStreak /\ rsince' = rsince + n /\ tripped' = "no"
    BY <1>3, <1>5
  <2>2. (lowStreak - 1) * ScanEvery \in Int
    BY <1>0, OneMore
  <2>3. lowStreak > 0 => l + n >= Window + (lowStreak - 1) * ScanEvery + (rsince + n)
    BY <1>0, <1>2, <1>4, <2>2
  <2> QED
    BY <1>2, <2>1, <2>3 DEF StreakEarned
<1>6. CASE Scans(s) /\ LowNovelty(buf)
  <2>1. lowStreak' = lowStreak + 1 /\ rsince' = 0
    BY <1>3, <1>6
  <2>2. l + n >= Window /\ rsince + n >= ScanEvery
    BY <1>2, <1>6 DEF Scans, buf, n
  <2>3. (lowStreak' - 1) * ScanEvery = lowStreak * ScanEvery
    BY <1>0, <2>1
  <2>4. l + n >= Window + lowStreak * ScanEvery
    <3>1. CASE lowStreak = 0
      BY <1>0, <1>2, <2>2, <3>1
    <3>2. CASE lowStreak > 0
      <4>1. (lowStreak - 1) * ScanEvery = lowStreak * ScanEvery - ScanEvery
            /\ lowStreak * ScanEvery \in Int
        BY <1>0, OneMore
      <4> QED
        BY <1>0, <1>2, <1>4, <2>2, <3>2, <4>1
    <3> QED
      BY <1>0, <3>1, <3>2
  <2>5. lowStreak * ScanEvery \in Int
    BY <1>0, OneMore
  <2>6. Len(thought') >= Window + (lowStreak' - 1) * ScanEvery + rsince'
    BY <1>0, <1>2, <2>1, <2>3, <2>4, <2>5
  <2>7. tripped' = "retread" => lowStreak' >= Persist
    BY <1>3
  <2>8. Len(rbuf') >= Window /\ LowNovelty(rbuf')
    BY <1>3, <1>6 DEF Scans, buf
  <2>9. LowNovelty(rbuf)'
    BY <2>8
  <2> QED
    BY <2>6, <2>7, <2>8, <2>9 DEF StreakEarned
<1>7. CASE Scans(s) /\ ~LowNovelty(buf)
  <2>1. lowStreak' = 0
    BY <1>3, <1>7
  <2>2. tripped' = "no"
    BY <1>0, <1>3, <2>1
  <2> QED
    BY <2>1, <2>2 DEF StreakEarned
<1> QED
  BY <1>5, <1>6, <1>7

LEMMA ScannedStep ==
    ASSUME GuardInv, NEW s \in Fragments, FeedReasoning(s), ~AddTrips(s)
    PROVE  Scanned'
<1>0. /\ Window \in Nat /\ ScanEvery \in Nat /\ ScanEvery # 0 /\ Persist \in Nat /\ Persist # 0
      /\ MaxPiece \in Nat /\ ScanEvery <= Window /\ rsince \in Nat /\ lowStreak \in Nat
      /\ thought \in Seq(Runes)
  BY GuardAssumption DEF GuardInv, GuardTypeOK
<1>1. s \in Seq(Runes) /\ Len(s) \in 1..MaxPiece /\ tripped = "no"
  BY AddStep DEF FeedReasoning
<1> DEFINE buf == Buffer(s)
           n == Len(s)
           l == Len(thought)
           g == Gap
<1>2. /\ l \in Nat /\ n \in Nat /\ n <= MaxPiece /\ Len(thought') = l + n
      /\ Len(buf) >= Window <=> l + n >= Window
      /\ l + n >= Window => buf = Windowed(thought', 0)
  BY <1>0, <1>1, BufferIs DEF FeedReasoning
<1>3. /\ rsince' = IF Scans(s) THEN 0 ELSE rsince + n
      /\ lowStreak' = CASE ~Scans(s) -> lowStreak
                        [] Scans(s) /\ LowNovelty(buf) -> lowStreak + 1
                        [] OTHER -> 0
      /\ tripped' = IF Scans(s) /\ lowStreak' >= Persist THEN "retread" ELSE "no"
  BY DEF FeedReasoning, Buffer, Scans
<1>4. Scans(s) <=> l + n >= Window /\ rsince + n >= ScanEvery
  BY <1>2 DEF Scans
<1>5. IF l < Window THEN rsince = l /\ lowStreak = 0
      ELSE /\ rsince < ScanEvery /\ lowStreak < Persist
           /\ \/ \E j \in 0..(rsince + lowStreak * g) : NovelAt(j)
              \/ lowStreak > 0 /\ l < Window + MaxPiece + (lowStreak - 1) * g + rsince
  BY <1>1 DEF GuardInv, Scanned
\* What was novel is so still, but farther from the end.
<1>6. ASSUME NEW j \in Nat, NovelAt(j) PROVE NovelAt(j + n)'
  <2>1. j + Window <= l /\ ~LowNovelty(Windowed(thought, j))
    BY <1>6 DEF NovelAt, WindowBefore, Windowed
  <2>2. thought' = thought \o s
    BY DEF FeedReasoning
  <2>3. Windowed(thought', j + n) = Windowed(thought, j)
    BY <1>0, <1>1, <2>1, <2>2, WindowMoves
  <2>4. (j + n) + Window <= l + n
    BY <1>0, <1>2, <2>1
  <2>5. ~LowNovelty(Windowed(thought', j + n))
    BY <2>1, <2>3
  <2> QED
    BY <1>2, <2>4, <2>5 DEF NovelAt, WindowBefore, Windowed
<1>7. g \in Nat /\ g = ScanEvery + MaxPiece - 1
  BY <1>0, <1>1 DEF Gap
<1>8. /\ lowStreak * g \in Nat /\ (lowStreak + 1) * g = lowStreak * g + g
      /\ (lowStreak - 1) * g = lowStreak * g - g
  BY <1>0, <1>7, OneMore
<1> HIDE DEF buf, n, l, g
<1> SUFFICES ASSUME tripped' = "no"
             PROVE  IF Len(thought') < Window THEN rsince' = Len(thought') /\ lowStreak' = 0
                    ELSE /\ rsince' < ScanEvery /\ lowStreak' < Persist
                         /\ \/ \E j \in 0..(rsince' + lowStreak' * g) : NovelAt(j)'
                            \/ /\ lowStreak' > 0
                               /\ Len(thought') < Window + MaxPiece + (lowStreak' - 1) * g + rsince'
  BY DEF Scanned, g, Gap
<1>9. CASE l + n < Window
  <2>1. l < Window /\ ~Scans(s)
    BY <1>0, <1>2, <1>4, <1>9
  <2> QED
    BY <1>2, <1>3, <1>5, <1>9, <2>1
<1>10. CASE l + n >= Window /\ ~Scans(s)
  <2>1. l >= Window
    <3>1. CASE l < Window
      BY <1>0, <1>2, <1>4, <1>5, <1>10, <3>1
    <3> QED
      BY <1>0, <1>2, <3>1
  <2>2. rsince' = rsince + n /\ lowStreak' = lowStreak /\ rsince + n < ScanEvery
    BY <1>0, <1>2, <1>3, <1>4, <1>10
  <2>3. lowStreak < Persist
    BY <1>0, <1>2, <1>5, <2>1
  <2>4. CASE \E j \in 0..(rsince + lowStreak * g) : NovelAt(j)
    <3>1. PICK j \in 0..(rsince + lowStreak * g) : NovelAt(j)
      BY <2>4
    <3>2. j \in Nat /\ j + n \in 0..((rsince + n) + lowStreak * g)
      BY <1>0, <1>2, <1>8
    <3>3. NovelAt(j + n)'
      BY <1>6, <3>1, <3>2
    <3>4. \E i \in 0..(rsince' + lowStreak' * g) : NovelAt(i)'
      BY <2>2, <3>2, <3>3
    <3> QED
      BY <1>0, <1>2, <1>10, <2>2, <2>3, <3>4
  <2>5. CASE lowStreak > 0 /\ l < Window + MaxPiece + (lowStreak - 1) * g + rsince
    <3>1. l + n < Window + MaxPiece + (lowStreak - 1) * g + (rsince + n)
      BY <1>0, <1>2, <1>7, <1>8, <2>5
    <3> QED
      BY <1>0, <1>2, <1>10, <2>2, <2>3, <2>5, <3>1
  <2> QED
    BY <1>0, <1>2, <1>5, <2>1, <2>4, <2>5
<1>11. CASE l + n >= Window /\ Scans(s) /\ ~LowNovelty(buf)
  <2>1. rsince' = 0 /\ lowStreak' = 0
    BY <1>3, <1>11
  <2>2. NovelAt(0)'
    <3>1. ~LowNovelty(Windowed(thought', 0)) /\ 0 + Window <= l + n
      BY <1>0, <1>2, <1>11
    <3> QED
      BY <1>2, <3>1 DEF NovelAt, WindowBefore, Windowed
  <2>3. 0 \in 0..(rsince' + lowStreak' * g)
    BY <1>7, <2>1
  <2> QED
    BY <1>0, <1>2, <1>11, <2>1, <2>2, <2>3
<1>12. CASE l + n >= Window /\ Scans(s) /\ LowNovelty(buf)
  <2>1. rsince' = 0 /\ lowStreak' = lowStreak + 1 /\ lowStreak + 1 < Persist
    BY <1>0, <1>3, <1>12
  <2>2. (lowStreak' - 1) * g = lowStreak * g /\ lowStreak' * g = lowStreak * g + g
    BY <1>0, <1>7, <1>8, <2>1
  <2>3. CASE l < Window
    <3>1. lowStreak = 0 /\ lowStreak * g = 0
      BY <1>0, <1>2, <1>5, <1>7, <2>3
    <3>2. l + n < Window + MaxPiece + lowStreak * g + 0
      BY <1>0, <1>2, <2>3, <3>1
    <3> QED
      BY <1>0, <1>2, <1>12, <2>1, <2>2, <3>2
  <2>4. CASE ~(l < Window) /\ \E j \in 0..(rsince + lowStreak * g) : NovelAt(j)
    <3>1. PICK j \in 0..(rsince + lowStreak * g) : NovelAt(j)
      BY <2>4
    <3>2. rsince < ScanEvery
      BY <1>5, <2>4
    <3>3. j \in Nat /\ j + n \in 0..(0 + (lowStreak * g + g))
      BY <1>0, <1>2, <1>7, <1>8, <3>2
    <3>4. NovelAt(j + n)'
      BY <1>6, <3>1, <3>3
    <3>5. \E i \in 0..(rsince' + lowStreak' * g) : NovelAt(i)'
      BY <2>1, <2>2, <3>3, <3>4
    <3> QED
      BY <1>0, <1>2, <1>12, <2>1, <3>5
  <2>5. CASE ~(l < Window) /\ lowStreak > 0 /\ l < Window + MaxPiece + (lowStreak - 1) * g + rsince
    <3>1. rsince < ScanEvery
      BY <1>5, <2>5
    <3>2. l + n < Window + MaxPiece + lowStreak * g + 0
      BY <1>0, <1>2, <1>7, <1>8, <2>5, <3>1
    <3> QED
      BY <1>0, <1>2, <1>12, <2>1, <2>2, <3>2
  <2> QED
    BY <1>5, <2>3, <2>4, <2>5
<1> QED
  BY <1>0, <1>2, <1>4, <1>9, <1>10, <1>11, <1>12

LEMMA ReasoningStep ==
    ASSUME GuardInv, NEW s \in Fragments, FeedReasoning(s)
    PROVE  GuardInv'
<1>1. /\ s \in Seq(Runes) /\ Len(s) \in Nat
      /\ fed' \in Seq(Runes) /\ tail' \in Seq(Runes) /\ since' \in Nat
      /\ tripped = "no" /\ tail' = Kept(fed', MaxTail)
      /\ AddTrips(s) => Cyclic(tail')
      /\ ~AddTrips(s) =>
           /\ since' <= Len(fed') /\ since' < CheckEvery
           /\ ~Cyclic(Kept(SubSeq(fed', 1, Len(fed') - since'), MaxTail))
  BY AddStep DEF FeedReasoning
<1>2. /\ thought' = thought \o s /\ thought' \in Seq(Runes)
      /\ Buffer(s) = Kept(thought', Window) /\ Buffer(s) \in Seq(Runes)
  BY <1>1, BufferIs DEF FeedReasoning
<1>3. rsince \in Nat /\ lowStreak \in Nat /\ rbuf \in Seq(Runes)
  BY DEF GuardInv, GuardTypeOK
<1>4. CASE AddTrips(s)
  <2>1. tripped' = "cycle" /\ UNCHANGED <<rbuf, rsince, lowStreak>>
    BY <1>4 DEF FeedReasoning
  <2>2. GuardTypeOK'
    BY <1>1, <1>2, <1>3, <2>1 DEF GuardTypeOK
  <2>3. BuffersKept' /\ CycleSeen' /\ Looked'
    BY <1>1, <1>4, <2>1 DEF BuffersKept, CycleSeen, Looked
  <2>4. StreakEarned' /\ Scanned'
    BY <2>1 DEF StreakEarned, Scanned
  <2> QED
    BY <2>2, <2>3, <2>4 DEF GuardInv
<1>5. CASE ~AddTrips(s)
  <2>1. /\ rbuf' = Buffer(s)
        /\ rsince' = IF Scans(s) THEN 0 ELSE rsince + Len(s)
        /\ lowStreak' = CASE ~Scans(s) -> lowStreak
                          [] Scans(s) /\ LowNovelty(Buffer(s)) -> lowStreak + 1
                          [] OTHER -> 0
        /\ tripped' \in {"no", "retread"}
    BY <1>5 DEF FeedReasoning, Buffer, Scans
  <2>2. rsince' \in Nat /\ lowStreak' \in Nat
    BY <1>1, <1>3, <2>1
  <2>3. GuardTypeOK'
    BY <1>1, <1>2, <2>1, <2>2 DEF GuardTypeOK
  <2>4. BuffersKept' /\ CycleSeen' /\ Looked'
    BY <1>1, <1>2, <1>5, <2>1 DEF BuffersKept, CycleSeen, Looked
  <2>5. StreakEarned' /\ Scanned'
    BY <1>5, StreakStep, ScannedStep
  <2> QED
    BY <2>3, <2>4, <2>5 DEF GuardInv
<1> QED
  BY <1>4, <1>5

LEMMA InitGuardInv == GuardInit => GuardInv
<1> SUFFICES ASSUME GuardInit PROVE GuardInv
  OBVIOUS
<1>1. /\ tail = <<>> /\ since = 0 /\ rbuf = <<>> /\ rsince = 0 /\ lowStreak = 0
      /\ fed = <<>> /\ thought = <<>> /\ tripped = "no"
  BY DEF GuardInit
<1>2. /\ <<>> \in Seq(Runes) /\ Len(<<>>) = 0
      /\ MaxTail \in Nat /\ Window \in Nat /\ Window # 0 /\ CheckEvery \in Nat /\ CheckEvery # 0
      /\ MinRepeatLen \in Nat /\ MinRepeatLen # 0
  BY GuardAssumption
<1>3. GuardTypeOK
  BY <1>1, <1>2 DEF GuardTypeOK
<1>4. Kept(<<>>, MaxTail) = <<>> /\ Kept(<<>>, Window) = <<>>
  BY <1>2 DEF Kept
<1>5. BuffersKept /\ CycleSeen /\ StreakEarned
  BY <1>1, <1>4 DEF BuffersKept, CycleSeen, StreakEarned
<1>6. Looked
  <2>1. ~Cyclic(<<>>)
    BY <1>2 DEF Cyclic
  <2>2. SubSeq(fed, 1, Len(fed) - since) = <<>>
    <3>1. Len(fed) - since = 0
      BY <1>1, <1>2
    <3> QED
      BY <1>1, <3>1, SubSeqEmpty
  <2>3. ~Cyclic(Kept(SubSeq(fed, 1, Len(fed) - since), MaxTail))
    BY <1>4, <2>1, <2>2
  <2>4. since <= Len(fed) /\ since < CheckEvery
    BY <1>1, <1>2
  <2> QED
    BY <2>3, <2>4 DEF Looked
<1>7. Scanned
  BY <1>1, <1>2 DEF Scanned
<1> QED
  BY <1>3, <1>5, <1>6, <1>7 DEF GuardInv

LEMMA GuardStep == GuardInv /\ [GuardNext]_guardVars => GuardInv'
<1> SUFFICES ASSUME GuardInv, [GuardNext]_guardVars PROVE GuardInv'
  OBVIOUS
<1>1. CASE GuardNext
  BY <1>1, TextStep, ReasoningStep DEF GuardNext
<1>2. CASE UNCHANGED guardVars
  BY <1>2 DEF guardVars, GuardInv, GuardTypeOK, BuffersKept, CycleSeen, Looked, StreakEarned, Scanned,
              NovelAt, WindowBefore
<1> QED
  BY <1>1, <1>2

\* A trip is one the whole text justifies.
LEMMA TripsAreLoops == GuardInv => CutsOnlyLoops
<1> SUFFICES ASSUME GuardInv PROVE CutsOnlyLoops
  OBVIOUS
<1>0. /\ fed \in Seq(Runes) /\ thought \in Seq(Runes) /\ Len(thought) \in Nat
      /\ Window \in Nat /\ Window # 0 /\ ScanEvery \in Nat /\ Persist \in Nat /\ Persist # 0
      /\ rsince \in Nat /\ lowStreak \in Nat
  BY GuardAssumption, LenProperties DEF GuardInv, GuardTypeOK
<1>1. ASSUME tripped = "cycle" PROVE \E unit \in 1..MaxCycle : Repeats(fed, unit, 0)
  <2>1. Cyclic(Kept(fed, MaxTail))
    BY <1>1 DEF GuardInv, CycleSeen, BuffersKept
  <2> QED
    BY <1>0, <2>1, CyclicIsRepeats
<1>2. ASSUME tripped = "retread"
      PROVE  Len(thought) >= Window + (Persist - 1) * ScanEvery /\ LowNovelty(WindowBefore(0))
  <2>1. /\ rbuf = Kept(thought, Window) /\ lowStreak >= Persist /\ Len(rbuf) >= Window
        /\ LowNovelty(rbuf)
        /\ lowStreak > 0 => Len(thought) >= Window + (lowStreak - 1) * ScanEvery + rsince
    BY <1>2 DEF GuardInv, BuffersKept, StreakEarned
  <2>2. (Persist - 1) * ScanEvery <= (lowStreak - 1) * ScanEvery /\ (Persist - 1) * ScanEvery \in Int
        /\ (lowStreak - 1) * ScanEvery \in Int
    <3>1. Persist - 1 \in Nat /\ lowStreak - 1 \in Nat /\ Persist - 1 <= lowStreak - 1
      BY <1>0, <2>1
    <3> QED
      BY <1>0, <3>1, Products
  <2>3. Len(thought) >= Window + (Persist - 1) * ScanEvery
    BY <1>0, <2>1, <2>2
  <2>4. Len(thought) >= Window
    <3>1. Window \in Nat \ {0} /\ Len(Kept(thought, Window)) >= Window
      BY <1>0, <2>1
    <3>2. Len(Kept(thought, Window)) = IF Len(thought) > Window THEN Window ELSE Len(thought)
      BY <1>0, <3>1, KeptIs
    <3> QED
      BY <1>0, <3>1, <3>2
  <2>5. LowNovelty(WindowBefore(0))
    BY <1>0, <2>1, <2>4, KeptIsWindow DEF WindowBefore, Windowed
  <2> QED
    BY <2>3, <2>5
<1> QED
  BY <1>1, <1>2 DEF CutsOnlyLoops

\* A stream that goes on had no reason to be cut at its last look and scans.
LEMMA LoopsTrip == GuardInv => LoopsAreCut
<1> SUFFICES ASSUME GuardInv, tripped = "no" PROVE LoopsAreCut
  BY DEF LoopsAreCut
<1>0. /\ fed \in Seq(Runes) /\ thought \in Seq(Runes) /\ Len(thought) \in Nat /\ since \in Nat
      /\ Window \in Nat /\ Window # 0 /\ ScanEvery \in Nat /\ ScanEvery # 0
      /\ Persist \in Nat /\ Persist # 0 /\ CheckEvery \in Nat /\ CheckEvery # 0
      /\ MaxPiece \in Nat /\ rsince \in Nat /\ lowStreak \in Nat
  BY GuardAssumption, LenProperties DEF GuardInv, GuardTypeOK
<1>1. ASSUME NEW unit \in 1..MaxCycle, Repeats(fed, unit, CheckEvery - 1) PROVE FALSE
  <2>1. since <= Len(fed) /\ since < CheckEvery
        /\ ~Cyclic(Kept(SubSeq(fed, 1, Len(fed) - since), MaxTail))
    BY DEF GuardInv, Looked
  <2>2. since <= CheckEvery - 1 /\ CheckEvery - 1 \in Nat
    BY <1>0, <2>1
  <2>3. Repeats(SubSeq(fed, 1, Len(fed) - since), unit, 0)
    BY <1>0, <1>1, <2>1, <2>2, RepeatedBefore
  <2>4. SubSeq(fed, 1, Len(fed) - since) \in Seq(Runes)
    <3>1. Len(fed) \in Nat
      BY <1>0, LenProperties
    <3>2. Len(fed) - since \in Nat /\ Len(fed) - since <= Len(fed) /\ 1 <= Len(fed) - since + 1
          /\ 1 \in Nat \ {0}
      BY <1>0, <2>1, <3>1
    <3> QED
      BY <1>0, <3>2, Piece
  <2> QED
    BY <2>1, <2>3, <2>4, CyclicIsRepeats
<1> DEFINE reach == (ScanEvery - 1) + (Persist - 1) * (ScanEvery + MaxPiece - 1)
<1>2. ASSUME Len(thought) >= Window + reach
      PROVE  \E j \in 0..reach : ~LowNovelty(WindowBefore(j))
  <2> DEFINE g == Gap
  <2>1. g \in Nat /\ g = ScanEvery + MaxPiece - 1
    BY <1>0 DEF Gap
  <2>2. (Persist - 1) * g \in Nat /\ reach = (ScanEvery - 1) + (Persist - 1) * g
    <3>1. Persist - 1 \in Nat
      BY <1>0
    <3> QED
      BY <2>1, <3>1
  <2> HIDE DEF g
  <2>3. reach \in Nat /\ Len(thought) >= Window
    BY <1>0, <1>2, <2>2
  <2>4. /\ rsince < ScanEvery /\ lowStreak < Persist
        /\ \/ \E j \in 0..(rsince + lowStreak * g) : NovelAt(j)
           \/ lowStreak > 0 /\ Len(thought) < Window + MaxPiece + (lowStreak - 1) * g + rsince
    <3>1. ~(Len(thought) < Window)
      BY <1>0, <2>3
    <3> QED
      BY <3>1 DEF GuardInv, Scanned, g
  <2>5. lowStreak * g <= (Persist - 1) * g /\ lowStreak * g \in Nat
        /\ (lowStreak - 1) * g = lowStreak * g - g
    <3>1. Persist - 1 \in Nat /\ lowStreak <= Persist - 1
      BY <1>0, <2>4
    <3> QED
      BY <1>0, <2>1, <3>1, Products, OneMore
  <2> HIDE DEF reach
  <2>6. CASE \E j \in 0..(rsince + lowStreak * g) : NovelAt(j)
    <3>1. PICK j \in 0..(rsince + lowStreak * g) : NovelAt(j)
      BY <2>6
    <3>2. j \in 0..reach
      BY <1>0, <2>2, <2>3, <2>4, <2>5
    <3> QED
      BY <3>1, <3>2 DEF NovelAt
  <2>7. CASE lowStreak > 0 /\ Len(thought) < Window + MaxPiece + (lowStreak - 1) * g + rsince
    <3>1. Len(thought) < Window + reach
      BY <1>0, <2>1, <2>2, <2>4, <2>5, <2>7
    <3> QED
      BY <1>0, <1>2, <2>3, <3>1
  <2> QED
    BY <2>4, <2>6, <2>7
<1> QED
  BY <1>1, <1>2 DEF LoopsAreCut

(* However the text is split into fragments, the guard cuts a stream only  *)
(* for a loop that is there: a unit repeated at the end of the text, or    *)
(* reasoning low on novelty for Persist scans of a full window.            *)
THEOREM GuardCutsOnlyLoops == GuardInit /\ [][GuardNext]_guardVars => []CutsOnlyLoops
BY InitGuardInv, GuardStep, TripsAreLoops, PTL

(* And it cuts every loop in time: the next look is at most CheckEvery - 1 *)
(* runes away, the next scan less than ScanEvery runes and one fragment.   *)
THEOREM GuardCutsLoops == GuardInit /\ [][GuardNext]_guardVars => []LoopsAreCut
BY InitGuardInv, GuardStep, LoopsTrip, PTL

-----------------------------------------------------------------------------
(* The tool registry.  ToolDefs is atomic.                                 *)

LEMMA EmptyMap == [n \in {} |-> n] \in Maps
<1>1. [n \in {} |-> n] \in [{} -> Versions]
  OBVIOUS
<1>2. {} \in SUBSET Names
  OBVIOUS
<1> QED BY <1>1, <1>2 DEF Maps

LEMMA OnlyIsMap ==
  ASSUME NEW m \in Maps, NEW S
  PROVE  Only(m, S) \in Maps
<1>1. PICK D \in SUBSET Names : m \in [D -> Versions]
  BY DEF Maps
<1>2. Only(m, S) \in [D \cap S -> Versions]
  BY <1>1 DEF Only
<1>3. D \cap S \in SUBSET Names
  OBVIOUS
<1> QED BY <1>2, <1>3 DEF Maps

LEMMA BoundIsMap ==
  ASSUME NEW m \in Maps, NEW n \in Names, NEW v \in Versions
  PROVE  [k \in DOMAIN m \cup {n} |-> IF k = n THEN v ELSE m[k]] \in Maps
<1>1. PICK D \in SUBSET Names : m \in [D -> Versions]
  BY DEF Maps
<1>2. [k \in DOMAIN m \cup {n} |-> IF k = n THEN v ELSE m[k]] \in [D \cup {n} -> Versions]
  BY <1>1
<1>3. D \cup {n} \in SUBSET Names
  OBVIOUS
<1> QED BY <1>2, <1>3 DEF Maps

LEMMA RegistryInitInv == RegistryInit => RegistryInv
  BY EmptyMap, RootAssumption
     DEF RegistryInit, RegistryInv, RegistryTypeOK, CacheFresh, CallsWatch, Snapshots

\* What Register and Unregister have in common.
LEMMA StoreInv ==
  ASSUME RegistryInv, NEW r \in Made, NEW m \in Maps, Store(r, m), UNCHANGED <<look, answer>>
  PROVE  RegistryInv'
<1>1. m # Nobody /\ r \in Registries
  BY NobodyAssumption DEF Made
<1>2. RegistryTypeOK'
  BY <1>1 DEF RegistryInv, RegistryTypeOK, Store, Witness
<1>3. CacheFresh'
  BY <1>1 DEF RegistryInv, RegistryTypeOK, CacheFresh, Made, Store
<1>4. CallsWatch'
  BY <1>1 DEF RegistryInv, RegistryTypeOK, CallsWatch, Made, Store, Witness
<1>5. Snapshots'
  BY <1>1, NobodyAssumption DEF RegistryInv, RegistryTypeOK, Snapshots, Store, Witness
<1> QED BY <1>2, <1>3, <1>4, <1>5 DEF RegistryInv

LEMMA RegistryNextInv == RegistryInv /\ [RegistryNext]_registryVars => RegistryInv'
<1> SUFFICES ASSUME RegistryInv, [RegistryNext]_registryVars PROVE RegistryInv'
  OBVIOUS
<1> USE DEF RegistryInv, RegistryTypeOK
<1>1. ASSUME NEW r \in Registries, NEW n \in Names, NEW v \in Versions, Register(r, n, v)
      PROVE  RegistryInv'
  <2>1. tools[r] \in Maps
    BY <1>1 DEF Register, Made
  <2> QED BY <1>1, <2>1, BoundIsMap, StoreInv DEF Register
<1>2. ASSUME NEW r \in Registries, NEW S \in SUBSET Names, Unregister(r, S)
      PROVE  RegistryInv'
  <2>1. tools[r] \in Maps
    BY <1>2 DEF Unregister, Made
  <2> QED BY <1>2, <2>1, OnlyIsMap, StoreInv DEF Unregister
<1>3. ASSUME NEW r \in Registries, NEW child \in Registries, NEW S \in SUBSET Names,
             Derive(r, child, S)
      PROVE  RegistryInv'
  <2>1. Only(tools[r], S) \in Maps
    BY <1>3, OnlyIsMap DEF Derive, Made
  <2>2. RegistryTypeOK'
    BY <1>3, <2>1 DEF Derive
  <2>3. CacheFresh'
    BY <1>3, <2>1, NobodyAssumption DEF Derive, CacheFresh, Made
  <2>4. CallsWatch' /\ Snapshots'
    BY <1>3, <2>1 DEF Derive, CallsWatch, Snapshots, Made
  <2> QED BY <2>2, <2>3, <2>4
<1>4. ASSUME NEW c \in Callers, NEW r \in Registries, FastHit(c, r)
      PROVE  RegistryInv'
  BY <1>4 DEF FastHit, CacheFresh, CallsWatch, Snapshots, Made
<1>5. ASSUME NEW c \in Callers, NEW r \in Registries, FastMiss(c, r)
      PROVE  RegistryInv'
  BY <1>5, NobodyAssumption DEF FastMiss, CacheFresh, CallsWatch, Snapshots, Made
<1>6. ASSUME NEW c \in Callers, SlowPath(c)
      PROVE  RegistryInv'
  <2> DEFINE r == look[c]
             defs == IF defsCache[r] # NoDefs THEN defsCache[r] ELSE Defs(tools[r])
  <2>1. r \in Made /\ r \in Registries /\ defs = Defs(tools[r]) /\ defs \in seen[c]
    BY <1>6 DEF SlowPath, CacheFresh, CallsWatch
  <2> QED BY <1>6, <2>1 DEF SlowPath, CacheFresh, CallsWatch, Snapshots, Made
<1>7. CASE UNCHANGED registryVars
  BY <1>7 DEF registryVars, CacheFresh, CallsWatch, Snapshots, Made
<1> QED BY <1>1, <1>2, <1>3, <1>4, <1>5, <1>6, <1>7 DEF RegistryNext

(* In every interleaving the memoized slice is fresh and every goroutine   *)
(* past its first look has witnessed the present content of its registry.  *)
THEOREM RegistryInvariant == RegistrySpec => []RegistryInv
  BY RegistryInitInv, RegistryNextInv, PTL DEF RegistrySpec

(* ToolDefs answers with the content of one moment of the call, although   *)
(* it lets go of the lock between its two looks (registry.go:122-131).     *)
THEOREM RegistrySnapshots == RegistrySpec => []Snapshots
<1>1. RegistryInv => Snapshots
  BY DEF RegistryInv
<1> QED BY <1>1, RegistryInvariant, PTL

(* A stored slice never outlives the content it was built from.            *)
THEOREM RegistryCacheFresh == RegistrySpec => []CacheFresh
<1>1. RegistryInv => CacheFresh
  BY DEF RegistryInv
<1> QED BY <1>1, RegistryInvariant, PTL

-----------------------------------------------------------------------------
(* Tool calls.  What is kept of an index is what was sent for it.           *)
Blank == [id |-> Empty, name |-> Empty, args |-> Empty]
Entry(acc, i) == IF i \in DOMAIN acc THEN acc[i] ELSE Blank

\* k is the place of the last id sent for index i.
LastIdAt(fs, i, k) == k \in IdsSent(fs, i) /\ \A j \in IdsSent(fs, i) : j <= k

KeptAsSent(acc, fs, i) ==
    /\ Entry(acc, i).name = NameSent(fs, i)
    /\ Entry(acc, i).args = ArgsSent(fs, i)
    /\ \/ IdsSent(fs, i) = {} /\ Entry(acc, i).id = Empty
       \/ \E k \in DOMAIN fs : LastIdAt(fs, i, k) /\ Entry(acc, i).id = fs[k].id

IsCall(c) == c = [id |-> c.id, name |-> c.name, args |-> c.args]

CallsInv ==
    /\ fragments \in Seq(Fragment)
    /\ finalized = <<>> =>
           /\ DOMAIN calls \subseteq 0..MaxIndex
           /\ \A i \in DOMAIN calls : IsCall(calls[i])
           /\ \A i \in 0..MaxIndex : KeptAsSent(calls, fragments, i)
    /\ CallsAsStreamed

LEMMA FragmentTypes ==
    ASSUME NEW f \in Fragment
    PROVE  /\ f.index \in 0..MaxIndex /\ f.name \in Seq(Pieces) /\ f.args \in Seq(Pieces)
           /\ Empty \in Seq(Pieces)
<1>1. Empty \in Seq(Pieces) /\ \A p \in Pieces : <<p>> \in Seq(Pieces)
  BY DEF Empty
<1>2. \A x \in OneOf(Pieces) : x \in Seq(Pieces)
  BY <1>1 DEF OneOf
<1>3. /\ f.index \in 0..MaxIndex /\ f.name \in OneOf(Pieces) /\ f.args \in OneOf(Pieces)
  BY DEF Fragment
<1> QED
  BY <1>1, <1>2, <1>3

\* The name and the arguments sent for an index grow with their fragments.
LEMMA SentGrows ==
    ASSUME NEW fs \in Seq(Fragment), NEW f \in Fragment, NEW i
    PROVE  /\ NameSent(Append(fs, f), i) = NameSent(fs, i) \o (IF f.index = i THEN f.name ELSE Empty)
           /\ ArgsSent(Append(fs, f), i) = ArgsSent(fs, i) \o (IF f.index = i THEN f.args ELSE Empty)
<1> DEFINE n == Len(fs)
           gs == Append(fs, f)
           names(hs) == [k \in DOMAIN hs |-> IF hs[k].index = i THEN hs[k].name ELSE Empty]
           args(hs) == [k \in DOMAIN hs |-> IF hs[k].index = i THEN hs[k].args ELSE Empty]
           name == IF f.index = i THEN f.name ELSE Empty
           arg == IF f.index = i THEN f.args ELSE Empty
<1>1. /\ n \in Nat /\ DOMAIN fs = 1..n /\ DOMAIN gs = 1..(n + 1)
      /\ \A k \in 1..n : gs[k] = fs[k] /\ fs[k] \in Fragment
      /\ gs[n + 1] = f
  BY AppendProperties, LenProperties, ElementOfSeq
<1>2. name \in Seq(Pieces) /\ arg \in Seq(Pieces)
  BY FragmentTypes
<1>3. \A k \in 1..n : /\ (IF fs[k].index = i THEN fs[k].name ELSE Empty) \in Seq(Pieces)
                      /\ (IF fs[k].index = i THEN fs[k].args ELSE Empty) \in Seq(Pieces)
  BY <1>1, FragmentTypes
<1> HIDE DEF gs, n, name, arg
<1>4. names(fs) \in Seq(Seq(Pieces)) /\ args(fs) \in Seq(Seq(Pieces))
  <2>1. names(fs) = [k \in 1..n |-> IF fs[k].index = i THEN fs[k].name ELSE Empty]
    BY <1>1
  <2>2. args(fs) = [k \in 1..n |-> IF fs[k].index = i THEN fs[k].args ELSE Empty]
    BY <1>1
  <2> QED
    BY <1>1, <1>3, <2>1, <2>2, IsASeq
<1>5. names(gs) = Append(names(fs), name)
  BY <1>1, <1>2, <1>3, <1>4 DEF name
<1>6. args(gs) = Append(args(fs), arg)
  BY <1>1, <1>2, <1>3, <1>4 DEF arg
<1>7. FlattenSeq(names(gs)) = FlattenSeq(names(fs)) \o name
  <2> HIDE DEF names
  <2> QED
    BY <1>2, <1>4, <1>5, FlattenMore
<1>8. FlattenSeq(args(gs)) = FlattenSeq(args(fs)) \o arg
  <2> HIDE DEF args
  <2> QED
    BY <1>2, <1>4, <1>6, FlattenMore
<1> QED
  BY <1>7, <1>8 DEF NameSent, ArgsSent, gs, name, arg

\* And the last id sent for it is the new fragment's, if that has one.
LEMMA LastIdMoves ==
    ASSUME NEW fs \in Seq(Fragment), NEW f \in Fragment, NEW i
    PROVE  LET gs == Append(fs, f)
               n == Len(fs)
           IN  /\ f.index = i /\ f.id # Empty => LastIdAt(gs, i, n + 1)
               /\ ~(f.index = i /\ f.id # Empty) =>
                    /\ IdsSent(gs, i) = IdsSent(fs, i)
                    /\ \A k \in DOMAIN fs : LastIdAt(fs, i, k) => LastIdAt(gs, i, k)
<1> DEFINE n == Len(fs)
           gs == Append(fs, f)
<1>1. /\ n \in Nat /\ DOMAIN fs = 1..n /\ DOMAIN gs = 1..(n + 1)
      /\ \A k \in 1..n : gs[k] = fs[k]
      /\ gs[n + 1] = f
  BY AppendProperties, LenProperties
<1> HIDE DEF n, gs
<1>2. ASSUME f.index = i, f.id # Empty PROVE LastIdAt(gs, i, n + 1)
  BY <1>1, <1>2 DEF LastIdAt, IdsSent
<1>3. ASSUME ~(f.index = i /\ f.id # Empty) PROVE IdsSent(gs, i) = IdsSent(fs, i)
  <2>1. n + 1 \notin IdsSent(gs, i)
    BY <1>1, <1>3 DEF IdsSent
  <2>2. \A k : k \in 1..n <=> k \in 1..(n + 1) /\ k # n + 1
    BY <1>1
  <2> QED
    BY <1>1, <2>1, <2>2 DEF IdsSent
<1> QED
  BY <1>2, <1>3 DEF n, gs, LastIdAt

\* A merged fragment is kept with what was sent before it.
LEMMA MergeKeeps ==
    ASSUME NEW fs \in Seq(Fragment), NEW f \in Fragment, NEW acc, NEW i \in 0..MaxIndex,
           KeptAsSent(acc, fs, i)
    PROVE  KeptAsSent(Merge(acc, f), Append(fs, f), i)
<1> DEFINE old == IF f.index \in DOMAIN acc THEN acc[f.index] ELSE Blank
           new == [id   |-> IF f.id # Empty THEN f.id ELSE old.id,
                   name |-> old.name \o f.name,
                   args |-> old.args \o f.args]
           e == Entry(Merge(acc, f), i)
           n == Len(fs)
           gs == Append(fs, f)
<1>1. e = IF i = f.index THEN new ELSE Entry(acc, i)
  BY DEF Merge, Entry, Blank
<1>2. /\ NameSent(gs, i) = NameSent(fs, i) \o (IF f.index = i THEN f.name ELSE Empty)
      /\ ArgsSent(gs, i) = ArgsSent(fs, i) \o (IF f.index = i THEN f.args ELSE Empty)
  BY SentGrows
<1>3. NameSent(fs, i) \in Seq(Pieces) /\ ArgsSent(fs, i) \in Seq(Pieces)
  <2>1. \A k \in DOMAIN fs : /\ (IF fs[k].index = i THEN fs[k].name ELSE Empty) \in Seq(Pieces)
                              /\ (IF fs[k].index = i THEN fs[k].args ELSE Empty) \in Seq(Pieces)
    <3>1. \A k \in DOMAIN fs : fs[k] \in Fragment
      BY LenProperties, ElementOfSeq
    <3> QED
      BY <3>1, FragmentTypes
  <2>2. /\ [k \in DOMAIN fs |-> IF fs[k].index = i THEN fs[k].name ELSE Empty] \in Seq(Seq(Pieces))
        /\ [k \in DOMAIN fs |-> IF fs[k].index = i THEN fs[k].args ELSE Empty] \in Seq(Seq(Pieces))
    <3>1. DOMAIN fs = 1..Len(fs) /\ Len(fs) \in Nat
      BY LenProperties
    <3> QED
      BY <2>1, <3>1, IsASeq
  <2> QED
    BY <2>2, FlattenType DEF NameSent, ArgsSent
<1>4. e.name = NameSent(gs, i) /\ e.args = ArgsSent(gs, i)
  <2> HIDE DEF gs, e
  <2>1. CASE i = f.index
    <3>1. old = Entry(acc, i)
      BY <2>1 DEF Entry
    <3> QED
      BY <1>1, <1>2, <2>1, <3>1 DEF KeptAsSent
  <2>2. CASE i # f.index
    BY <1>1, <1>2, <1>3, <2>2, ConcatEmptySeq DEF KeptAsSent, Empty
  <2> QED
    BY <2>1, <2>2
<1>5. \/ IdsSent(gs, i) = {} /\ e.id = Empty
      \/ \E k \in DOMAIN gs : LastIdAt(gs, i, k) /\ e.id = gs[k].id
  <2>0. /\ n \in Nat /\ DOMAIN fs = 1..n /\ DOMAIN gs = 1..(n + 1)
        /\ \A k \in 1..n : gs[k] = fs[k]
        /\ gs[n + 1] = f
    BY AppendProperties, LenProperties
  <2>1. CASE f.index = i /\ f.id # Empty
    <3>1. LastIdAt(gs, i, n + 1) /\ n + 1 \in DOMAIN gs
      BY <2>0, <2>1, LastIdMoves
    <3>2. e.id = gs[n + 1].id
      BY <1>1, <2>0, <2>1
    <3> QED
      BY <3>1, <3>2
  <2>2. CASE ~(f.index = i /\ f.id # Empty)
    <3>1. /\ IdsSent(gs, i) = IdsSent(fs, i)
          /\ \A k \in DOMAIN fs : LastIdAt(fs, i, k) => LastIdAt(gs, i, k)
      BY <2>2, LastIdMoves
    <3>2. e.id = Entry(acc, i).id
      BY <1>1, <2>2 DEF Entry
    <3> HIDE DEF gs, e, n
    <3>3. CASE IdsSent(fs, i) = {} /\ Entry(acc, i).id = Empty
      BY <3>1, <3>2, <3>3
    <3>4. ASSUME NEW k \in DOMAIN fs, LastIdAt(fs, i, k), Entry(acc, i).id = fs[k].id
          PROVE  k \in DOMAIN gs /\ LastIdAt(gs, i, k) /\ e.id = gs[k].id
      BY <2>0, <3>1, <3>2, <3>4
    <3> QED
      BY <3>3, <3>4 DEF KeptAsSent
  <2> QED
    BY <2>1, <2>2
<1> QED
  BY <1>4, <1>5 DEF KeptAsSent

LEMMA MergeStep ==
    ASSUME CallsInv, NEW f \in Fragment, MergeFragment(f)
    PROVE  CallsInv'
<1>1. /\ finalized = <<>> /\ finalized' = <<>>
      /\ fragments' = Append(fragments, f) /\ calls' = Merge(calls, f)
      /\ fragments \in Seq(Fragment) /\ DOMAIN calls \subseteq 0..MaxIndex
  BY DEF MergeFragment, CallsInv
<1>2. fragments' \in Seq(Fragment)
  BY <1>1, AppendProperties
<1>3. DOMAIN calls' \subseteq 0..MaxIndex
  BY <1>1, FragmentTypes DEF Merge
<1>4. \A i \in DOMAIN calls' : IsCall(calls'[i])
  <2> SUFFICES ASSUME NEW i \in DOMAIN calls' PROVE IsCall(calls'[i])
    OBVIOUS
  <2>1. CASE i = f.index
    BY <1>1, <2>1 DEF Merge, IsCall
  <2>2. CASE i # f.index
    <3>1. i \in DOMAIN calls /\ calls'[i] = calls[i]
      BY <1>1, <2>2 DEF Merge
    <3> QED
      BY <1>1, <3>1 DEF CallsInv
  <2> QED
    BY <2>1, <2>2
<1>5. \A i \in 0..MaxIndex : KeptAsSent(calls', fragments', i)
  <2> SUFFICES ASSUME NEW i \in 0..MaxIndex PROVE KeptAsSent(calls', fragments', i)
    OBVIOUS
  <2>1. KeptAsSent(calls, fragments, i)
    BY <1>1 DEF CallsInv
  <2>2. KeptAsSent(Merge(calls, f), Append(fragments, f), i)
    BY <1>1, <2>1, MergeKeeps
  <2> QED
    BY <1>1, <2>2
<1>6. CallsAsStreamed'
  BY <1>1 DEF CallsAsStreamed
<1> QED
  BY <1>2, <1>3, <1>4, <1>5, <1>6 DEF CallsInv

\* Sorted indices.
LEMMA AscendingIs ==
    ASSUME NEW I \in SUBSET (0..MaxIndex)
    PROVE  /\ Ascending(I) \in Seq(Int) /\ Ascends(Ascending(I))
           /\ \A x : (\E k \in DOMAIN Ascending(I) : Ascending(I)[k] = x) <=> x \in I
<1> DEFINE top == MaxIndex + 1
           series == [k \in 1..top |-> k - 1]
<1>1. top \in Nat /\ MaxIndex \in Nat
  BY IndexAssumption
<1>2. series \in [1..top -> Int] /\ Ascends(series)
  BY <1>1 DEF Ascends
<1>3. Ascending(I) = Selected(series, top, I)
  <2>1. [k \in 1..top |-> IF k - 1 \in I THEN <<k - 1>> ELSE <<>>]
        = [k \in 1..top |-> IF series[k] \in I THEN <<series[k]>> ELSE <<>>]
    OBVIOUS
  <2> QED
    BY <2>1 DEF Ascending, Selected
<1>4. \A x \in 0..MaxIndex : \E k \in 1..top : series[k] = x
  <2> TAKE x \in 0..MaxIndex
  <2>1. x + 1 \in 1..top /\ series[x + 1] = x
    BY <1>1
  <2> QED
    BY <2>1
<1> HIDE DEF top, series
<1>5. Selects(Selected(series, top, I), series, top, I)
  BY <1>1, <1>2, Selection
<1> QED
  BY <1>3, <1>4, <1>5 DEF Selects

\* A finished call is the call that was sent.
LEMMA CompletedAsSent ==
    ASSUME CallsInv, finalized = <<>>, NEW i \in Named(calls)
    PROVE  Identified(calls)[i] = CallSent(fragments, i)
<1> DEFINE ids == IdsSent(fragments, i)
           c == calls[i]
<1>1. /\ i \in DOMAIN calls /\ i \in 0..MaxIndex /\ c.name # Empty /\ Entry(calls, i) = c
      /\ c = [id |-> c.id, name |-> c.name, args |-> c.args]
      /\ KeptAsSent(calls, fragments, i)
  BY DEF CallsInv, Named, Entry, IsCall
<1>2. c.name = NameSent(fragments, i) /\ c.args = ArgsSent(fragments, i)
  BY <1>1 DEF KeptAsSent
<1>3. Identified(calls)[i] = [id |-> IF c.id = Empty THEN SyntheticId(i) ELSE c.id, name |-> c.name, args |-> c.args]
  <2>1. Identified(calls)[i] = IF c.id = Empty THEN [c EXCEPT !.id = SyntheticId(i)] ELSE c
    BY <1>1 DEF Identified
  <2> HIDE DEF c
  <2> QED
    BY <1>1, <2>1
<1>4. (IF c.id = Empty THEN SyntheticId(i) ELSE c.id) = IdSent(fragments, i)
  <2>1. CASE ids = {} /\ c.id = Empty
    BY <2>1 DEF IdSent
  <2>2. ASSUME NEW k \in DOMAIN fragments, LastIdAt(fragments, i, k), c.id = fragments[k].id
        PROVE  (IF c.id = Empty THEN SyntheticId(i) ELSE c.id) = IdSent(fragments, i)
    <3>1. k \in ids /\ c.id # Empty /\ (\A j \in ids : j <= k) /\ ids \subseteq DOMAIN fragments
      BY <2>2 DEF LastIdAt, IdsSent
    <3>2. DOMAIN fragments \subseteq Int
      BY LenProperties DEF CallsInv
    <3>3. Max(ids) = k
      <4> HIDE DEF ids
      <4> QED
        BY <3>1, <3>2 DEF Max
    <3> QED
      BY <2>2, <3>1, <3>3 DEF IdSent
  <2> QED
    BY <1>1, <2>1, <2>2 DEF KeptAsSent
<1> QED
  BY <1>2, <1>3, <1>4 DEF CallSent

LEMMA FinalizeStep ==
    ASSUME CallsInv, Finalize
    PROVE  CallsInv'
<1> DEFINE order == Ascending(Named(calls))
           result == Completed(calls)
<1>1. /\ finalized = <<>> /\ finalized' = <<result>> /\ fragments' = fragments
      /\ fragments \in Seq(Fragment) /\ DOMAIN calls \subseteq 0..MaxIndex
  BY DEF Finalize, CallsInv
<1>2. Named(calls) \in SUBSET (0..MaxIndex)
  BY <1>1 DEF Named
<1>3. /\ order \in Seq(Int) /\ Ascends(order)
      /\ \A x : (\E k \in DOMAIN order : order[k] = x) <=> x \in Named(calls)
  BY <1>2, AscendingIs
<1>4. result = [k \in DOMAIN order |-> Identified(calls)[order[k]]]
  BY DEF Completed
<1> HIDE DEF order, result
<1>5. \A i \in 0..MaxIndex : i \in Named(calls) <=> NameSent(fragments, i) # Empty
  BY <1>1 DEF CallsInv, Named, KeptAsSent, Entry, Blank
<1>6. DOMAIN result = DOMAIN order /\ \A k \in DOMAIN order : result[k] = CallSent(fragments, order[k])
  BY <1>1, <1>3, <1>4, CompletedAsSent
<1>7. order \in [DOMAIN result -> 0..MaxIndex]
  <2>1. \A k \in DOMAIN order : order[k] \in 0..MaxIndex
    BY <1>2, <1>3
  <2>2. order = [k \in DOMAIN order |-> order[k]]
    BY <1>3
  <2> QED
    BY <1>6, <2>1, <2>2
<1>8. {order[k] : k \in DOMAIN order} = {i \in 0..MaxIndex : NameSent(fragments, i) # Empty}
  BY <1>2, <1>3, <1>5
<1>9. CallsAsStreamed'
  <2>1. DOMAIN finalized' = {1} /\ finalized'[1] = result
    BY <1>1
  <2>2. \A j, k \in DOMAIN order : j < k => order[j] < order[k]
    BY <1>3 DEF Ascends
  <2>3. \E o \in [DOMAIN result -> 0..MaxIndex] :
            /\ \A j, k \in DOMAIN o : j < k => o[j] < o[k]
            /\ {o[k] : k \in DOMAIN o} = {i \in 0..MaxIndex : NameSent(fragments, i) # Empty}
            /\ \A k \in DOMAIN o : result[k] = CallSent(fragments, o[k])
    <3> WITNESS order \in [DOMAIN result -> 0..MaxIndex]
    <3> QED
      BY <1>6, <1>8, <2>2
  <2> QED
    BY <1>1, <2>1, <2>3 DEF CallsAsStreamed
<1> QED
  BY <1>1, <1>9 DEF CallsInv

LEMMA InitCallsInv == ToolCallsInit => CallsInv
<1> SUFFICES ASSUME ToolCallsInit PROVE CallsInv
  OBVIOUS
<1>1. fragments = <<>> /\ calls = <<>> /\ finalized = <<>> /\ DOMAIN calls = {}
  BY DEF ToolCallsInit
<1>2. \A i : NameSent(<<>>, i) = Empty /\ ArgsSent(<<>>, i) = Empty /\ IdsSent(<<>>, i) = {}
  <2>1. FlattenSeq(<<>>) = <<>>
    BY EmptySeq, FlattenType
  <2> TAKE i
  <2>2. /\ [k \in DOMAIN <<>> |-> IF <<>>[k].index = i THEN <<>>[k].name ELSE Empty] = <<>>
        /\ [k \in DOMAIN <<>> |-> IF <<>>[k].index = i THEN <<>>[k].args ELSE Empty] = <<>>
    OBVIOUS
  <2> QED
    BY <2>1, <2>2 DEF NameSent, ArgsSent, IdsSent, Empty
<1>3. \A i : KeptAsSent(calls, fragments, i)
  BY <1>1, <1>2 DEF KeptAsSent, Entry, Blank
<1>4. CallsAsStreamed
  BY <1>1 DEF CallsAsStreamed
<1> QED
  BY <1>1, <1>3, <1>4 DEF CallsInv

LEMMA CallsStep == CallsInv /\ [ToolCallsNext]_toolCallVars => CallsInv'
<1> SUFFICES ASSUME CallsInv, [ToolCallsNext]_toolCallVars PROVE CallsInv'
  OBVIOUS
<1>1. CASE ToolCallsNext
  BY <1>1, MergeStep, FinalizeStep DEF ToolCallsNext
<1>2. CASE UNCHANGED toolCallVars
  BY <1>2 DEF toolCallVars, CallsInv, CallsAsStreamed
<1> QED
  BY <1>1, <1>2

(* Any number of fragments on any number of indices, in whatever order     *)
(* they interleave, give the calls that were sent: complete, in index      *)
(* order, each with an id (toolcall.go:52-81).                             *)
THEOREM CallsComeAsStreamed == ToolCallsInit /\ [][ToolCallsNext]_toolCallVars => []CallsAsStreamed
<1>1. CallsInv => CallsAsStreamed
  BY DEF CallsInv
<1> QED
  BY <1>1, InitCallsInv, CallsStep, PTL

-----------------------------------------------------------------------------
(* Inline calls.                                                           *)

\* The scan's record of the first i tokens.
TokensScanned(h, s, n) ==
    /\ h[0] = [from |-> 0, found |-> <<>>]
    /\ \A i \in 1..n : h[i] = ScanToken(s, h[i - 1], i)

LEMMA ScanExists ==
    ASSUME NEW s, NEW n \in Nat
    PROVE  \E X : \E h \in [0..n -> X] : TokensScanned(h, s, n)
<1> DEFINE P(m) == \E X : \E h \in [0..m -> X] : TokensScanned(h, s, m)
           T == {m \in Nat : P(m)}
<1>1. P(0)
  <2> DEFINE h == [i \in 0..0 |-> [from |-> 0, found |-> <<>>]]
  <2>1. h \in [0..0 -> {[from |-> 0, found |-> <<>>]}] /\ TokensScanned(h, s, 0)
    BY DEF TokensScanned
  <2> QED
    BY <2>1
<1>2. ASSUME NEW m \in Nat, P(m) PROVE P(m + 1)
  <2>1. PICK X : \E h \in [0..m -> X] : TokensScanned(h, s, m)
    BY <1>2
  <2>a. PICK h \in [0..m -> X] : TokensScanned(h, s, m)
    BY <2>1
  <2> DEFINE last == ScanToken(s, h[m], m + 1)
             g == [i \in 0..(m + 1) |-> IF i = m + 1 THEN last ELSE h[i]]
  <2>2. g \in [0..(m + 1) -> X \cup {last}]
    <3> HIDE DEF last
    <3> QED
      OBVIOUS
  <2>3. g[0] = [from |-> 0, found |-> <<>>]
    BY <2>a DEF TokensScanned
  <2>4. ASSUME NEW i \in 1..(m + 1) PROVE g[i] = ScanToken(s, g[i - 1], i)
    <3>0. g[i - 1] = h[i - 1]
      OBVIOUS
    <3>1. CASE i = m + 1
      <4>1. g[i] = last /\ i - 1 = m
        BY <3>1
      <4> HIDE DEF g
      <4> QED
        BY <3>0, <3>1, <4>1
    <3>2. CASE i # m + 1
      <4>1. g[i] = h[i] /\ i \in 1..m
        BY <3>2
      <4> HIDE DEF g
      <4> QED
        BY <2>a, <3>0, <4>1 DEF TokensScanned
    <3> QED
      BY <3>1, <3>2
  <2> HIDE DEF g
  <2> QED
    BY <2>2, <2>3, <2>4 DEF TokensScanned
<1>3. T = Nat
  <2> HIDE DEF P
  <2>1. 0 \in T /\ \A m \in T : m + 1 \in T
    BY <1>1, <1>2
  <2> QED
    BY <2>1, AllNumbers
<1> QED
  BY <1>3

LEMMA BlocksScanned ==
    ASSUME NEW s, Len(s) \in Nat
    PROVE  \E h : TokensScanned(h, s, Len(s)) /\ Blocks(s) = h[Len(s)].found
<1> DEFINE n == Len(s)
           Defines(f) == f = [i \in 0..n |-> IF i = 0 THEN [from |-> 0, found |-> <<>>]
                                              ELSE ScanToken(s, f[i - 1], i)]
           h == CHOOSE f : Defines(f)
<1>a. PICK X : \E f \in [0..n -> X] : TokensScanned(f, s, n)
  BY ScanExists
<1>1. PICK f \in [0..n -> X] : TokensScanned(f, s, n)
  BY <1>a
<1>2. Defines(f)
  <2>1. \A i \in 0..n : f[i] = IF i = 0 THEN [from |-> 0, found |-> <<>>] ELSE ScanToken(s, f[i - 1], i)
    BY <1>1 DEF TokensScanned
  <2> QED
    BY <2>1
<1>3. Defines(h)
  <2> HIDE DEF Defines
  <2> QED
    BY <1>2
<1>4. TokensScanned(h, s, n)
  <2> HIDE DEF h
  <2>1. 0 \in 0..n /\ \A i \in 1..n : i \in 0..n /\ i # 0
    OBVIOUS
  <2> QED
    BY <1>3, <2>1 DEF TokensScanned
<1>5. Blocks(s) = h[n].found
  BY DEF Blocks
<1> QED
  BY <1>4, <1>5

\* b reaches from an opening tag to the next closing one.
IsBlock(s, b) ==
    \E f, c \in DOMAIN s :
        /\ f < c /\ b = f..c
        /\ s[f] = "<tool_call>" /\ s[c] = "</tool_call>"
        /\ \A k \in f..(c - 1) : s[k] # "</tool_call>"

\* Blocks one behind the other, all up to place i.
Blocked(s, bs, i) ==
    /\ bs \in Seq(SUBSET Int)
    /\ \A k \in DOMAIN bs : IsBlock(s, bs[k]) /\ \A x \in bs[k] : x <= i
    /\ \A j, k \in DOMAIN bs : j < k => \A x \in bs[j], y \in bs[k] : x < y

ScanKept(s, acc, i) ==
    /\ acc \in [from : 0..i, found : Seq(SUBSET Int)]
    /\ IF acc.from = 0 THEN Blocked(s, acc.found, i)
       ELSE /\ s[acc.from] = "<tool_call>"
            /\ \A k \in acc.from..i : s[k] # "</tool_call>"
            /\ Blocked(s, acc.found, acc.from - 1)

LEMMA BlockedLater ==
    ASSUME NEW s, NEW bs, NEW i \in Int, NEW j \in Int, i <= j, Blocked(s, bs, i)
    PROVE  Blocked(s, bs, j)
<1>1. \A k \in DOMAIN bs : \A x \in bs[k] : x \in Int
  BY LenProperties, ElementOfSeq DEF Blocked
<1> QED
  BY <1>1 DEF Blocked

LEMMA BlockedMore ==
    ASSUME NEW s, NEW bs, NEW i \in Int, Blocked(s, bs, i),
           NEW f \in Int, NEW c \in Int, i < f, f <= c, IsBlock(s, f..c)
    PROVE  Blocked(s, Append(bs, f..c), c)
<1> DEFINE cs == Append(bs, f..c)
           n == Len(bs)
           b == f..c
<1>0. b \in SUBSET Int /\ \A x \in b : x <= c /\ i < x
  OBVIOUS
<1>1. /\ n \in Nat /\ DOMAIN bs = 1..n /\ cs \in Seq(SUBSET Int) /\ DOMAIN cs = 1..(n + 1)
      /\ \A k \in 1..n : cs[k] = bs[k] /\ cs[k] \in SUBSET Int
      /\ cs[n + 1] = b
  BY <1>0, AppendProperties, LenProperties, ElementOfSeq DEF Blocked
<1>3. i <= c
  OBVIOUS
<1> HIDE DEF b, cs, n
<1>4. \A k \in 1..(n + 1) : IsBlock(s, cs[k]) /\ \A x \in cs[k] : x <= c
  <2> TAKE k \in 1..(n + 1)
  <2>1. CASE k = n + 1
    BY <1>0, <1>1, <2>1 DEF b
  <2>2. CASE k # n + 1
    <3>1. k \in 1..n
      BY <1>1, <2>2
    <3>2. \A x \in cs[k] : x \in Int /\ x <= i
      BY <1>1, <3>1 DEF Blocked
    <3> QED
      BY <1>1, <1>3, <3>1, <3>2 DEF Blocked
  <2> QED
    BY <2>1, <2>2
<1>5. ASSUME NEW j \in 1..(n + 1), NEW k \in 1..(n + 1), j < k, NEW x \in cs[j], NEW y \in cs[k]
      PROVE  x < y
  <2>1. j \in 1..n /\ x \in bs[j] /\ x <= i /\ x \in Int
    BY <1>1, <1>5 DEF Blocked
  <2>2. CASE k = n + 1
    BY <1>0, <1>1, <2>1, <2>2
  <2>3. CASE k # n + 1
    <3>1. k \in 1..n /\ y \in bs[k]
      BY <1>1, <2>3
    <3> QED
      BY <1>1, <1>5, <2>1, <3>1 DEF Blocked
  <2> QED
    BY <2>2, <2>3
<1>6. \A j, k \in DOMAIN cs : j < k => \A x \in cs[j], y \in cs[k] : x < y
  BY <1>1, <1>5
<1> QED
  BY <1>1, <1>4, <1>6 DEF Blocked, cs, b

LEMMA ScanStep ==
    ASSUME NEW s, NEW i \in Nat, i + 1 \in DOMAIN s, DOMAIN s = 1..Len(s), Len(s) \in Nat,
           NEW acc, ScanKept(s, acc, i)
    PROVE  ScanKept(s, ScanToken(s, acc, i + 1), i + 1)
<1> DEFINE new == ScanToken(s, acc, i + 1)
<1>0. acc.from \in 0..i /\ acc.found \in Seq(SUBSET Int) /\ acc \in [from : 0..i, found : Seq(SUBSET Int)]
  BY DEF ScanKept
<1>1. CASE acc.from = 0 /\ s[i + 1] = "<tool_call>"
  <2>0. new = [acc EXCEPT !.from = i + 1]
    BY <1>1 DEF ScanToken
  <2>1. new.from = i + 1 /\ new.found = acc.found /\ new \in [from : 0..(i + 1), found : Seq(SUBSET Int)]
    <3> HIDE DEF new
    <3> QED
      BY <1>0, <2>0
  <2> HIDE DEF new
  <2>2. Blocked(s, acc.found, i)
    BY <1>1 DEF ScanKept
  <2>3. \A k \in (i + 1)..(i + 1) : s[k] # "</tool_call>"
    BY <1>1
  <2> QED
    BY <1>1, <2>1, <2>2, <2>3 DEF ScanKept, new
<1>2. CASE acc.from > 0 /\ s[i + 1] = "</tool_call>"
  <2>0. new = [from |-> 0, found |-> Append(acc.found, acc.from..(i + 1))]
    BY <1>2 DEF ScanToken
  <2>1. new.from = 0 /\ new.found = Append(acc.found, acc.from..(i + 1))
        /\ new \in [from : 0..(i + 1), found : Seq(SUBSET Int)]
    <3> DEFINE b == acc.from..(i + 1)
    <3>1. b \in SUBSET Int
      BY <1>0
    <3> HIDE DEF new, b
    <3>2. Append(acc.found, b) \in Seq(SUBSET Int)
      BY <1>0, <3>1, AppendProperties
    <3> QED
      BY <2>0, <3>2 DEF b
  <2> HIDE DEF new
  <2>2. /\ s[acc.from] = "<tool_call>" /\ (\A k \in acc.from..i : s[k] # "</tool_call>")
        /\ Blocked(s, acc.found, acc.from - 1)
    BY <1>0, <1>2 DEF ScanKept
  <2>3. IsBlock(s, acc.from..(i + 1))
    <3>1. acc.from \in DOMAIN s /\ acc.from < i + 1 /\ (i + 1) - 1 = i
      BY <1>0, <1>2
    <3> QED
      BY <1>2, <2>2, <3>1 DEF IsBlock
  <2>4. Blocked(s, new.found, i + 1)
    <3> DEFINE f == acc.from
    <3>1. f \in Int /\ f - 1 \in Int /\ f - 1 < f /\ i + 1 \in Int /\ f <= i + 1
      BY <1>0
    <3> QED
      BY <2>1, <2>2, <2>3, <3>1, BlockedMore
  <2> QED
    BY <2>1, <2>4 DEF ScanKept, new
<1>3. CASE ~(acc.from = 0 /\ s[i + 1] = "<tool_call>") /\ ~(acc.from > 0 /\ s[i + 1] = "</tool_call>")
  <2>1. new = acc
    BY <1>3 DEF ScanToken
  <2>2. CASE acc.from = 0
    <3>1. Blocked(s, acc.found, i + 1)
      BY <2>2, BlockedLater DEF ScanKept
    <3> QED
      BY <1>0, <2>1, <2>2, <3>1 DEF ScanKept
  <2>3. CASE acc.from # 0
    <3>1. \A k \in acc.from..(i + 1) : k \in acc.from..i \/ k = i + 1
      BY <1>0
    <3>2. \A k \in acc.from..(i + 1) : s[k] # "</tool_call>"
      BY <1>0, <1>3, <2>3, <3>1 DEF ScanKept
    <3> QED
      BY <1>0, <2>1, <2>3, <3>2 DEF ScanKept
  <2> QED
    BY <2>2, <2>3
<1> QED
  BY <1>1, <1>2, <1>3

\* The scan finds blocks, in the order of the text.
LEMMA BlocksAre ==
    ASSUME NEW s \in Seq(Tokens)
    PROVE  Blocked(s, Blocks(s), Len(s))
<1>0. Len(s) \in Nat /\ DOMAIN s = 1..Len(s)
  BY LenProperties
<1>1. PICK h : TokensScanned(h, s, Len(s)) /\ Blocks(s) = h[Len(s)].found
  BY <1>0, BlocksScanned
<1> DEFINE P(i) == i <= Len(s) => ScanKept(s, h[i], i)
           T == {i \in Nat : P(i)}
<1>2. P(0)
  <2>1. h[0] = [from |-> 0, found |-> <<>>]
    BY <1>1 DEF TokensScanned
  <2>2. <<>> \in Seq(SUBSET Int) /\ DOMAIN <<>> = {}
    OBVIOUS
  <2>3. Blocked(s, <<>>, 0)
    BY <2>2 DEF Blocked
  <2> QED
    BY <2>1, <2>3 DEF ScanKept
<1>3. ASSUME NEW i \in Nat, P(i) PROVE P(i + 1)
  <2> SUFFICES ASSUME i + 1 <= Len(s) PROVE ScanKept(s, h[i + 1], i + 1)
    OBVIOUS
  <2>1. i + 1 \in 1..Len(s) /\ (i + 1) - 1 = i /\ i <= Len(s)
    BY <1>0
  <2>2. h[i + 1] = ScanToken(s, h[i], i + 1)
    BY <1>1, <2>1 DEF TokensScanned
  <2>3. ScanKept(s, h[i], i)
    BY <1>3, <2>1
  <2> QED
    BY <1>0, <2>1, <2>2, <2>3, ScanStep
<1>4. T = Nat
  <2> HIDE DEF P
  <2>1. 0 \in T /\ \A i \in T : i + 1 \in T
    BY <1>2, <1>3
  <2> QED
    BY <2>1, AllNumbers
<1>5. ScanKept(s, h[Len(s)], Len(s))
  BY <1>0, <1>4
<1> DEFINE acc == h[Len(s)]
<1>6. CASE acc.from = 0
  BY <1>1, <1>5, <1>6 DEF ScanKept
<1>7. CASE acc.from # 0
  <2>1. Blocked(s, acc.found, acc.from - 1) /\ acc.from \in 0..Len(s)
    BY <1>5, <1>7 DEF ScanKept
  <2>2. acc.from - 1 \in Int /\ acc.from - 1 <= Len(s) /\ Len(s) \in Int
    BY <1>0, <2>1
  <2>3. Blocked(s, acc.found, Len(s))
    BY <2>1, <2>2, BlockedLater
  <2> QED
    BY <1>1, <2>3
<1> QED
  BY <1>6, <1>7

\* What the scan knows of the tags up to place i: who is open, and that the
\* blocks found are the pairs of tags so far.
PairsTo(s, bs, i) ==
    \A b : b \in Range(bs) <=> \E a, z \in DOMAIN s : z <= i /\ IsPair(s, a, z) /\ b = a..z

NoneOpen(s, i) ==
    \A k \in 1..i : s[k] = "<tool_call>" => \E c \in k..i : s[c] = "</tool_call>"

OpenAt(s, f, i) == Opens(s, f) /\ \A k \in f..i : s[k] # "</tool_call>"

TagsKept(s, acc, i) ==
    /\ acc \in [from : 0..i, found : Seq(SUBSET Int)]
    /\ PairsTo(s, acc.found, i)
    /\ IF acc.from = 0 THEN NoneOpen(s, i) ELSE OpenAt(s, acc.from, i)

\* Only the tag that is open can be closed next.
LEMMA PairClosed ==
    ASSUME NEW s, DOMAIN s = 1..Len(s), Len(s) \in Nat, NEW i \in Nat, i + 1 \in DOMAIN s,
           NEW a \in DOMAIN s, IsPair(s, a, i + 1)
    PROVE  ~NoneOpen(s, i) /\ \A f \in 1..i : OpenAt(s, f, i) => a = f
<1>1. /\ Opens(s, a) /\ a \in 1..i /\ s[a] = "<tool_call>"
      /\ \A c \in a..i : s[c] # "</tool_call>"
  <2>1. (i + 1) - 1 = i
    OBVIOUS
  <2> QED
    BY <2>1 DEF IsPair, Opens
<1>2. ~NoneOpen(s, i)
  BY <1>1 DEF NoneOpen
<1>3. ASSUME NEW f \in 1..i, OpenAt(s, f, i) PROVE a = f
  <2>1. CASE a < f
    <3>1. PICK c \in a..(f - 1) : s[c] = "</tool_call>"
      BY <1>1, <1>3, <2>1 DEF OpenAt, Opens
    <3>2. c \in a..i
      BY <1>1
    <3> QED
      BY <1>1, <3>1, <3>2
  <2>2. CASE f < a
    <3>0. f \in 1..(a - 1) /\ s[f] = "<tool_call>"
      BY <1>1, <1>3, <2>2 DEF OpenAt, Opens
    <3>1. PICK c \in f..(a - 1) : s[c] = "</tool_call>"
      BY <1>1, <3>0 DEF Opens
    <3>2. c \in f..i
      BY <1>1
    <3> QED
      BY <1>3, <3>1, <3>2 DEF OpenAt
  <2> QED
    BY <1>1, <2>1, <2>2
<1> QED
  BY <1>2, <1>3

LEMMA PairsSame ==
    ASSUME NEW s, DOMAIN s = 1..Len(s), Len(s) \in Nat, NEW i \in Nat, i + 1 \in DOMAIN s,
           NEW bs, PairsTo(s, bs, i), \A a \in DOMAIN s : ~IsPair(s, a, i + 1)
    PROVE  PairsTo(s, bs, i + 1)
<1>1. \A a, z \in DOMAIN s : z <= i + 1 /\ IsPair(s, a, z) <=> z <= i /\ IsPair(s, a, z)
  <2> TAKE a, z \in DOMAIN s
  <2>1. z \in Int /\ (z <= i + 1 <=> (z <= i \/ z = i + 1))
    OBVIOUS
  <2> QED
    BY <2>1
<1> QED
  BY <1>1 DEF PairsTo

LEMMA TagsStep ==
    ASSUME NEW s, DOMAIN s = 1..Len(s), Len(s) \in Nat, NEW i \in Nat, i + 1 \in DOMAIN s,
           NEW acc, TagsKept(s, acc, i)
    PROVE  TagsKept(s, ScanToken(s, acc, i + 1), i + 1)
<1> DEFINE new == ScanToken(s, acc, i + 1)
           f == acc.from
<1>0. /\ acc \in [from : 0..i, found : Seq(SUBSET Int)]
      /\ f \in 0..i /\ acc.found \in Seq(SUBSET Int) /\ PairsTo(s, acc.found, i)
  BY DEF TagsKept
<1>1. CASE f = 0 /\ s[i + 1] = "<tool_call>"
  <2>0. new = [acc EXCEPT !.from = i + 1]
    BY <1>1 DEF ScanToken
  <2> HIDE DEF new
  <2>1. new \in [from : 0..(i + 1), found : Seq(SUBSET Int)] /\ new.from = i + 1 /\ new.found = acc.found
    BY <1>0, <2>0
  <2>2. NoneOpen(s, i)
    BY <1>1 DEF TagsKept
  <2>3. OpenAt(s, i + 1, i + 1)
    <3>1. (i + 1) - 1 = i /\ \A k \in (i + 1)..(i + 1) : k = i + 1
      OBVIOUS
    <3> QED
      BY <1>1, <2>2, <3>1 DEF OpenAt, Opens, NoneOpen
  <2>4. \A a \in DOMAIN s : ~IsPair(s, a, i + 1)
    BY <1>1 DEF IsPair
  <2>5. PairsTo(s, acc.found, i + 1)
    BY <1>0, <2>4, PairsSame
  <2> QED
    BY <1>0, <2>1, <2>3, <2>5 DEF TagsKept, new
<1>2. CASE f > 0 /\ s[i + 1] = "</tool_call>"
  <2> DEFINE b == f..(i + 1)
  <2>0. new = [from |-> 0, found |-> Append(acc.found, b)]
    BY <1>2 DEF ScanToken
  <2>1. new.from = 0 /\ new.found = Append(acc.found, b)
    BY <2>0
  <2>2. OpenAt(s, f, i) /\ f \in 1..i /\ f \in DOMAIN s
    BY <1>0, <1>2 DEF TagsKept
  <2>3. NoneOpen(s, i + 1)
    BY <1>2 DEF NoneOpen
  <2>4. IsPair(s, f, i + 1)
    <3>1. (i + 1) - 1 = i /\ f < i + 1
      BY <2>2
    <3> QED
      BY <1>2, <2>2, <3>1 DEF IsPair, OpenAt
  <2> HIDE DEF new, f
  <2>5. b \in SUBSET Int
    OBVIOUS
  <2>6. new.found \in Seq(SUBSET Int) /\ Range(new.found) = Range(acc.found) \cup {b}
    <3> HIDE DEF b
    <3>1. DOMAIN acc.found = 1..Len(acc.found) /\ Len(acc.found) \in Nat
      BY <1>0, LenProperties
    <3>2. /\ Append(acc.found, b) \in Seq(SUBSET Int)
          /\ DOMAIN Append(acc.found, b) = 1..(Len(acc.found) + 1)
          /\ \A k \in 1..Len(acc.found) : Append(acc.found, b)[k] = acc.found[k]
          /\ Append(acc.found, b)[Len(acc.found) + 1] = b
      BY <1>0, <2>5, <3>1, AppendProperties, LenProperties
    <3> QED
      BY <2>1, <3>1, <3>2 DEF Range
  <2>7. ASSUME NEW a \in DOMAIN s, NEW z \in DOMAIN s
        PROVE  (z <= i + 1 /\ IsPair(s, a, z)) <=> ((z <= i /\ IsPair(s, a, z)) \/ (a = f /\ z = i + 1))
    <3>1. z \in Int /\ (z <= i + 1 <=> (z <= i \/ z = i + 1))
      OBVIOUS
    <3>2. ASSUME z = i + 1, IsPair(s, a, z) PROVE a = f
      <4>1. IsPair(s, a, i + 1)
        BY <3>2
      <4>2. \A g \in 1..i : OpenAt(s, g, i) => a = g
        BY <4>1, PairClosed
      <4> QED
        BY <2>2, <4>2
    <3>3. CASE z = i + 1
      <4>1. i + 1 <= i + 1 /\ ~(i + 1 <= i)
        OBVIOUS
      <4>2. a = f => IsPair(s, a, z)
        BY <2>4, <3>3
      <4> QED
        BY <3>2, <3>3, <4>1, <4>2, Zenon
    <3>4. CASE z # i + 1
      <4>1. (z <= i + 1 <=> z <= i) /\ ~(a = f /\ z = i + 1)
        BY <3>1, <3>4
      <4> QED
        BY <4>1, Zenon
    <3> QED
      BY <3>3, <3>4
  <2>8. PairsTo(s, new.found, i + 1)
    <3> SUFFICES ASSUME NEW c
                 PROVE  c \in Range(new.found) <=>
                            \E a, z \in DOMAIN s : z <= i + 1 /\ IsPair(s, a, z) /\ c = a..z
      BY DEF PairsTo
    <3>1. c \in Range(acc.found) <=> \E a, z \in DOMAIN s : z <= i /\ IsPair(s, a, z) /\ c = a..z
      BY <1>0 DEF PairsTo
    <3>2. c = b <=> \E a, z \in DOMAIN s : a = f /\ z = i + 1 /\ c = a..z
      BY <2>2
    <3>3. c \in Range(new.found) <=> c \in Range(acc.found) \/ c = b
      BY <2>6
    <3> HIDE DEF b
    <3> QED
      BY <2>7, <3>1, <3>2, <3>3
  <2> QED
    BY <2>0, <2>1, <2>3, <2>6, <2>8 DEF TagsKept, new
<1>3. CASE ~(f = 0 /\ s[i + 1] = "<tool_call>") /\ ~(f > 0 /\ s[i + 1] = "</tool_call>")
  <2>1. new = acc
    BY <1>3 DEF ScanToken
  <2>2. CASE f = 0
    <3>1. NoneOpen(s, i)
      BY <2>2 DEF TagsKept
    <3>2. \A a \in DOMAIN s : ~IsPair(s, a, i + 1)
      BY <3>1, PairClosed
    <3>3. NoneOpen(s, i + 1)
      <4>1. \A k \in 1..(i + 1) : k \in 1..i \/ k = i + 1
        OBVIOUS
      <4>2. \A k \in 1..i : \A c \in k..i : c \in k..(i + 1)
        OBVIOUS
      <4> QED
        BY <1>3, <2>2, <3>1, <4>1, <4>2 DEF NoneOpen
    <3>4. PairsTo(s, acc.found, i + 1)
      BY <1>0, <3>2, PairsSame
    <3> QED
      BY <1>0, <2>1, <2>2, <3>3, <3>4 DEF TagsKept
  <2>3. CASE f # 0
    <3>1. OpenAt(s, f, i) /\ f > 0
      BY <1>0, <2>3 DEF TagsKept
    <3>2. \A a \in DOMAIN s : ~IsPair(s, a, i + 1)
      BY <1>3, <3>1 DEF IsPair
    <3>3. OpenAt(s, f, i + 1)
      <4>1. \A k \in f..(i + 1) : k \in f..i \/ k = i + 1
        BY <1>0
      <4> QED
        BY <1>3, <3>1, <4>1 DEF OpenAt
    <3>4. PairsTo(s, acc.found, i + 1)
      BY <1>0, <3>2, PairsSame
    <3> QED
      BY <1>0, <2>1, <2>3, <3>3, <3>4 DEF TagsKept
  <2> QED
    BY <2>2, <2>3
<1> QED
  BY <1>0, <1>1, <1>2, <1>3

\* The scan finds just the pairs of tags.
LEMMA BlocksArePairs ==
    ASSUME NEW s \in Seq(Tokens)
    PROVE  PairsTo(s, Blocks(s), Len(s))
<1>0. Len(s) \in Nat /\ DOMAIN s = 1..Len(s)
  BY LenProperties
<1>1. PICK h : TokensScanned(h, s, Len(s)) /\ Blocks(s) = h[Len(s)].found
  BY <1>0, BlocksScanned
<1> DEFINE P(i) == i <= Len(s) => TagsKept(s, h[i], i)
           T == {i \in Nat : P(i)}
<1>2. P(0)
  <2>1. h[0].from = 0 /\ h[0].found = <<>>
    BY <1>1 DEF TokensScanned
  <2>0. h[0] = [from |-> 0, found |-> <<>>]
    BY <1>1 DEF TokensScanned
  <2>2. <<>> \in Seq(SUBSET Int) /\ Range(<<>>) = {}
    BY DEF Range
  <2>3. PairsTo(s, <<>>, 0) /\ NoneOpen(s, 0)
    BY <1>0, <2>2 DEF PairsTo, NoneOpen
  <2> QED
    BY <2>0, <2>1, <2>2, <2>3 DEF TagsKept
<1>3. ASSUME NEW i \in Nat, P(i) PROVE P(i + 1)
  <2> SUFFICES ASSUME i + 1 <= Len(s) PROVE TagsKept(s, h[i + 1], i + 1)
    OBVIOUS
  <2>1. i + 1 \in 1..Len(s) /\ (i + 1) - 1 = i /\ i <= Len(s)
    BY <1>0
  <2>2. h[i + 1] = ScanToken(s, h[i], i + 1)
    BY <1>1, <2>1 DEF TokensScanned
  <2>3. TagsKept(s, h[i], i)
    BY <1>3, <2>1
  <2> QED
    BY <1>0, <2>1, <2>2, <2>3, TagsStep
<1>4. T = Nat
  <2> HIDE DEF P
  <2>1. 0 \in T /\ \A i \in T : i + 1 \in T
    BY <1>2, <1>3
  <2> QED
    BY <2>1, AllNumbers
<1>5. TagsKept(s, h[Len(s)], Len(s))
  BY <1>0, <1>4
<1> QED
  BY <1>1, <1>5 DEF TagsKept

\* Places of a text, selected in its order.
LEMMA PlacesSelected ==
    ASSUME NEW n \in Nat, NEW I \in SUBSET (1..n)
    PROVE  LET t == Selected([i \in 1..n |-> i], n, I)
           IN  t \in Seq(Int) /\ Ascends(t) /\ Range(t) = I
<1> DEFINE g == [i \in 1..n |-> i]
           t == Selected(g, n, I)
<1>1. g \in [1..n -> Int] /\ Ascends(g)
  BY DEF Ascends
<1>2. \A x \in I : \E k \in 1..n : g[k] = x
  OBVIOUS
<1>3. Selects(t, g, n, I)
  <2> HIDE DEF g
  <2> QED
    BY <1>1, Selection
<1> HIDE DEF t, g
<1>4. t \in Seq(Int) /\ Ascends(t) /\ \A x : (\E i \in DOMAIN t : t[i] = x) <=> x \in I
  BY <1>2, <1>3 DEF Selects
<1>5. Range(t) = I
  BY <1>4 DEF Range
<1> QED
  BY <1>4, <1>5 DEF t, g

LEMMA BareAndWithout ==
    ASSUME NEW s \in Seq(Tokens), NEW S
    PROVE  /\ Bare(s) \in Seq(Int) /\ Ascends(Bare(s)) /\ Range(Bare(s)) = {i \in DOMAIN s : s[i] = "function"}
           /\ Range(Without(s, S)) = DOMAIN s \ S
<1> DEFINE n == Len(s)
           g == [i \in 1..n |-> i]
           functions == {i \in 1..n : s[i] = "function"}
           others == (1..n) \ S
<1>1. n \in Nat /\ DOMAIN s = 1..n
  BY LenProperties
<1>2. Bare(s) = Selected(g, n, functions)
  <2>1. [i \in DOMAIN s |-> IF s[i] = "function" THEN <<i>> ELSE <<>>]
        = [i \in 1..n |-> IF g[i] \in functions THEN <<g[i]>> ELSE <<>>]
    BY <1>1
  <2> QED
    BY <2>1 DEF Bare, Selected
<1>3. Without(s, S) = Selected(g, n, others)
  <2>1. [i \in DOMAIN s |-> IF i \in S THEN <<>> ELSE <<i>>]
        = [i \in 1..n |-> IF g[i] \in others THEN <<g[i]>> ELSE <<>>]
    BY <1>1
  <2> QED
    BY <2>1 DEF Without, Selected
<1>4. functions \in SUBSET (1..n) /\ others \in SUBSET (1..n)
  OBVIOUS
<1>5. \A I \in SUBSET (1..n) : LET t == Selected(g, n, I) IN t \in Seq(Int) /\ Ascends(t) /\ Range(t) = I
  BY <1>1, PlacesSelected
<1> HIDE DEF g, functions, others, n
<1>6. Bare(s) \in Seq(Int) /\ Ascends(Bare(s)) /\ Range(Bare(s)) = functions
  BY <1>2, <1>4, <1>5
<1>7. Range(Without(s, S)) = others
  BY <1>3, <1>4, <1>5
<1> QED
  BY <1>1, <1>6, <1>7 DEF functions, others

\* At most one call comes out of a block, and it is what its tags yield.
LEMMA ParsedIs ==
    ASSUME NEW s, NEW f \in Nat, NEW c \in Nat, IsPair(s, f, c)
    PROVE  \/ Parsed(s, f..c) = <<>> /\ Yield(s, <<f, c>>) = {}
           \/ \E x \in f..c : /\ s[x] \in {"function", "json"} /\ Parsed(s, f..c) = <<x>>
                             /\ Yield(s, <<f, c>>) = {x}
<1> DEFINE b == f..c
           functions == {i \in b : s[i] = "function"}
           bodies    == {i \in b : s[i] = "json" /\ b = (i - 1)..(i + 1)}
           elements  == IF functions # {} THEN functions ELSE bodies
           Y == Yield(s, <<f, c>>)
<1>0. f < c /\ s[f] = "<tool_call>" /\ s[c] = "</tool_call>" /\ \A x \in b : x \in Nat
  BY DEF IsPair, Opens
<1>1. Parsed(s, b) = IF elements = {} THEN <<>> ELSE <<Min(elements)>>
  BY DEF Parsed
<1>2. \A x : x \in Y <=> /\ x \in b
                        /\ \/ s[x] = "function" /\ \A y \in f..(x - 1) : s[y] # "function"
                           \/ s[x] = "json" /\ c - f = 2
  BY DEF Yield
<1>3. CASE functions # {}
  <2>1. functions \in SUBSET Nat
    BY <1>0
  <2>2. PICK x \in functions : \A y \in functions : x <= y
    BY <1>3, <2>1, LeastNumber
  <2>3. \A y \in functions : (\A z \in functions : y <= z) => y = x
    BY <2>1, <2>2
  <2>4. Min(functions) = x
    <3> HIDE DEF functions
    <3>1. Min(functions) = CHOOSE y \in functions : \A z \in functions : y <= z
      BY DEF Min
    <3>2. Min(functions) \in functions /\ \A z \in functions : Min(functions) <= z
      BY <2>2, <3>1
    <3> QED
      BY <2>3, <3>2
  <2>5. x \in b /\ s[x] = "function" /\ x \in Nat
    BY <1>0, <2>2
  <2>6. x \in Y
    <3>1. \A y \in f..(x - 1) : y \in b /\ ~(x <= y)
      BY <2>5
    <3>2. \A y \in f..(x - 1) : s[y] # "function"
      BY <2>2, <3>1
    <3> HIDE DEF Y
    <3> QED
      BY <1>2, <2>5, <3>2
  <2>7. \A y \in Y : y = x
    <3> SUFFICES ASSUME NEW y \in Y PROVE y = x
      OBVIOUS
    <3>1. CASE s[y] = "function" /\ \A z \in f..(y - 1) : s[z] # "function"
      <4>1. y \in functions /\ x <= y /\ y \in Nat
        BY <1>0, <1>2, <2>2, <3>1
      <4>2. x < y => x \in f..(y - 1)
        BY <2>5, <4>1
      <4> QED
        BY <2>5, <3>1, <4>1, <4>2
    <3>2. CASE s[y] = "json" /\ c - f = 2
      <4>1. \A z \in b : z = f \/ z = f + 1 \/ z = c
        BY <3>2
      <4>2. y = f + 1 /\ x = f + 1
        BY <1>0, <1>2, <2>5, <3>2, <4>1
      <4> QED
        BY <4>2
    <3> QED
      BY <1>2, <3>1, <3>2
  <2>8. Y = {x}
    <3> HIDE DEF Y
    <3> QED
      BY <2>6, <2>7
  <2>9. Parsed(s, b) = <<x>>
    <3> HIDE DEF functions, bodies, b
    <3> QED
      BY <1>1, <1>3, <2>4
  <2> QED
    BY <2>5, <2>8, <2>9
<1>4. CASE functions = {}
  <2>1. elements = bodies /\ \A x \in b : s[x] # "function"
    BY <1>4
  <2>2. ASSUME NEW x \in b, s[x] = "json" PROVE b = (x - 1)..(x + 1) <=> c - f = 2
    <3>1. ASSUME b = (x - 1)..(x + 1) PROVE c - f = 2
      <4>1. \A z : z \in f..c <=> z \in (x - 1)..(x + 1)
        BY <3>1
      <4>2. x \in Int /\ f \in (x - 1)..(x + 1) /\ c \in (x - 1)..(x + 1) /\ x - 1 \in f..c /\ x + 1 \in f..c
        <5>1. x - 1 \in (x - 1)..(x + 1) /\ x + 1 \in (x - 1)..(x + 1) /\ f \in f..c /\ c \in f..c
          BY <1>0
        <5> QED
          BY <1>0, <4>1, <5>1
      <4> QED
        BY <4>2
    <3>2. ASSUME c - f = 2 PROVE b = (x - 1)..(x + 1)
      <4>1. \A z \in b : z = f \/ z = f + 1 \/ z = c
        BY <3>2
      <4>2. x = f + 1
        BY <1>0, <2>2, <4>1
      <4>3. x - 1 = f /\ x + 1 = c
        BY <3>2, <4>2
      <4> QED
        BY <4>3
    <3> QED
      BY <3>1, <3>2
  <2>3. Y = bodies
    <3>1. \A x : x \in Y <=> x \in bodies
      <4> HIDE DEF Y
      <4> QED
        BY <1>2, <2>1, <2>2
    <3> HIDE DEF Y, bodies
    <3> QED
      BY <3>1
  <2>4. \A x, y \in bodies : x = y
    <3> SUFFICES ASSUME NEW x \in bodies, NEW y \in bodies PROVE x = y
      OBVIOUS
    <3>1. c - f = 2 /\ x \in b /\ y \in b /\ s[x] = "json" /\ s[y] = "json"
      BY <2>2
    <3>2. \A z \in b : z = f \/ z = f + 1 \/ z = c
      BY <3>1
    <3> HIDE DEF b
    <3> QED
      BY <1>0, <3>1, <3>2
  <2>5. bodies \in SUBSET Nat /\ \A x \in bodies : x \in b /\ s[x] = "json"
    BY <1>0
  <2>6. CASE bodies = {}
    BY <1>1, <2>1, <2>3, <2>6
  <2>7. CASE bodies # {}
    <3>1. PICK x \in bodies : bodies = {x}
      <4> HIDE DEF bodies
      <4> QED
        BY <2>4, <2>7
    <3>2. x \in Nat /\ x <= x
      BY <2>5, <3>1
    <3> HIDE DEF bodies
    <3>3. Min(bodies) = x
      BY <3>1, <3>2 DEF Min
    <3>4. Parsed(s, b) = <<x>>
      <4> HIDE DEF functions, elements, b
      <4> QED
        BY <1>1, <2>1, <2>7, <3>3
    <3>5. Y = {x}
      BY <2>3, <3>1
    <3> HIDE DEF b, Y
    <3>6. x \in b /\ s[x] \in {"function", "json"}
      BY <2>5, <3>1
    <3> QED
      BY <3>4, <3>5, <3>6 DEF b, Y
  <2> QED
    BY <2>6, <2>7
<1> QED
  BY <1>3, <1>4

LEMMA BlocksInText ==
    ASSUME NEW s \in Seq(Tokens), NEW bs, Blocked(s, bs, Len(s)), NEW k \in DOMAIN bs
    PROVE  /\ bs[k] \in SUBSET Nat
           /\ \E f \in bs[k] : s[f] = "<tool_call>"
           /\ \A x \in bs[k] : s[x] \in Tokens /\ x \in DOMAIN s
<1>0. Len(s) \in Nat /\ DOMAIN s = 1..Len(s)
  BY LenProperties
<1>1. PICK f, c \in DOMAIN s : f < c /\ bs[k] = f..c /\ s[f] = "<tool_call>"
  BY DEF Blocked, IsBlock
<1>2. \A x \in f..c : x \in 1..Len(s)
  BY <1>0, <1>1
<1>3. f \in f..c
  BY <1>0, <1>1
<1>4. \A x \in 1..Len(s) : s[x] \in Tokens
  BY <1>0, ElementOfSeq
<1> QED
  BY <1>0, <1>1, <1>2, <1>3, <1>4

\* The blocks are the stretches between two tags that belong together.
LEMMA BlocksBetween ==
    ASSUME NEW s \in Seq(Tokens)
    PROVE  /\ \A k \in DOMAIN Blocks(s) : \E a, z \in DOMAIN s : IsPair(s, a, z) /\ Blocks(s)[k] = a..z
           /\ \A a, z \in DOMAIN s : IsPair(s, a, z) => \E k \in DOMAIN Blocks(s) : Blocks(s)[k] = a..z
           /\ UNION Range(Blocks(s)) = UNION {b[1]..b[2] : b \in TagPairs(s)}
<1> DEFINE bs == Blocks(s)
<1>0. PairsTo(s, bs, Len(s)) /\ DOMAIN s = 1..Len(s) /\ Len(s) \in Nat
  BY BlocksArePairs, LenProperties
<1>1. \A c : c \in Range(bs) <=> \E k \in DOMAIN bs : bs[k] = c
  BY DEF Range
<1>2. \A c : c \in Range(bs) <=> \E a, z \in DOMAIN s : IsPair(s, a, z) /\ c = a..z
  <2> HIDE DEF bs
  <2>1. \A z \in DOMAIN s : z <= Len(s)
    BY <1>0
  <2> QED
    BY <1>0, <2>1 DEF PairsTo
<1> HIDE DEF bs
<1>3. \A x : x \in UNION Range(bs) <=> \E a, z \in DOMAIN s : IsPair(s, a, z) /\ x \in a..z
  BY <1>2
<1>4. \A x : x \in UNION {b[1]..b[2] : b \in TagPairs(s)}
            <=> \E a, z \in DOMAIN s : IsPair(s, a, z) /\ x \in a..z
  <2> SUFFICES ASSUME NEW x
               PROVE  (\E b \in TagPairs(s) : x \in b[1]..b[2])
                      <=> \E a, z \in DOMAIN s : IsPair(s, a, z) /\ x \in a..z
    OBVIOUS
  <2>1. \A b \in TagPairs(s) : b[1] \in DOMAIN s /\ b[2] \in DOMAIN s /\ IsPair(s, b[1], b[2])
    BY DEF TagPairs
  <2>2. \A a, z \in DOMAIN s : IsPair(s, a, z) => <<a, z>> \in TagPairs(s)
    BY DEF TagPairs
  <2> QED
    BY <2>1, <2>2
<1>5. UNION Range(bs) = UNION {b[1]..b[2] : b \in TagPairs(s)}
  BY <1>3, <1>4
<1>6. \A k \in DOMAIN bs : \E a, z \in DOMAIN s : IsPair(s, a, z) /\ bs[k] = a..z
  BY <1>1, <1>2
<1>7. \A a, z \in DOMAIN s : IsPair(s, a, z) => \E k \in DOMAIN bs : bs[k] = a..z
  BY <1>1, <1>2
<1> QED
  BY <1>5, <1>6, <1>7 DEF bs

\* The calls of the blocks come in the order of the text, and are what the
\* pairs of tags yield.
LEMMA WrappedAre ==
    ASSUME NEW s \in Seq(Tokens)
    PROVE  LET w == Wrapped(s)
           IN  w \in Seq(Int) /\ Ascends(w) /\ Range(w) = UNION {Yield(s, b) : b \in TagPairs(s)}
<1> DEFINE bs == Blocks(s)
           n == Len(bs)
           I == {x \in DOMAIN s : s[x] \in {"function", "json"}}
           g == [k \in 1..n |-> IF Parsed(s, bs[k]) # <<>> THEN Parsed(s, bs[k])[1]
                                ELSE CHOOSE x \in bs[k] : s[x] = "<tool_call>"]
<1>0. Blocked(s, bs, Len(s))
  BY BlocksAre
<1>1. n \in Nat /\ DOMAIN bs = 1..n
  BY <1>0, LenProperties DEF Blocked
<1>p. /\ \A k \in 1..n : \E a, z \in DOMAIN s : IsPair(s, a, z) /\ bs[k] = a..z
      /\ \A a, z \in DOMAIN s : IsPair(s, a, z) => \E k \in 1..n : bs[k] = a..z
  <2>1. /\ \A k \in DOMAIN Blocks(s) : \E a, z \in DOMAIN s : IsPair(s, a, z) /\ Blocks(s)[k] = a..z
        /\ \A a, z \in DOMAIN s : IsPair(s, a, z) => \E k \in DOMAIN Blocks(s) : Blocks(s)[k] = a..z
    BY BlocksBetween, Zenon
  <2> QED
    BY <1>1, <2>1
<1>q. DOMAIN s = 1..Len(s) /\ \A x \in DOMAIN s : x \in Nat
  <2>1. DOMAIN s = 1..Len(s) /\ Len(s) \in Nat
    BY LenProperties
  <2> QED
    BY <2>1
<1> HIDE DEF bs, n
<1>r. ASSUME NEW k \in 1..n, NEW a \in DOMAIN s, NEW z \in DOMAIN s, IsPair(s, a, z), bs[k] = a..z
      PROVE  /\ \/ Parsed(s, bs[k]) = <<>> /\ Yield(s, <<a, z>>) = {}
                \/ \E x \in bs[k] : /\ s[x] \in {"function", "json"} /\ Parsed(s, bs[k]) = <<x>>
                                    /\ Yield(s, <<a, z>>) = {x}
             /\ \E f \in bs[k] : s[f] = "<tool_call>"
             /\ \A x \in bs[k] : x \in DOMAIN s
  <2>1. a < z /\ s[a] = "<tool_call>"
    BY <1>r DEF IsPair, Opens
  <2>2. a \in a..z /\ \A x \in a..z : x \in 1..Len(s)
    BY <1>q, <2>1
  <2>3. a \in Nat /\ z \in Nat
    BY <1>q
  <2> QED
    BY <1>q, <1>r, <2>1, <2>2, <2>3, ParsedIs
<1>2. ASSUME NEW k \in 1..n
      PROVE  /\ g[k] \in bs[k] /\ g[k] \in Nat
             /\ Parsed(s, bs[k]) = IF g[k] \in I THEN <<g[k]>> ELSE <<>>
  <2>0. PICK a \in DOMAIN s, z \in DOMAIN s : IsPair(s, a, z) /\ bs[k] = a..z
    BY <1>p
  <2>1. /\ \/ Parsed(s, bs[k]) = <<>>
           \/ \E x \in bs[k] : s[x] \in {"function", "json"} /\ Parsed(s, bs[k]) = <<x>>
        /\ \E f \in bs[k] : s[f] = "<tool_call>"
        /\ \A x \in bs[k] : x \in DOMAIN s /\ x \in Nat
    BY <1>q, <1>r, <2>0
  <2>2. CASE Parsed(s, bs[k]) = <<>>
    <3> DEFINE x == CHOOSE y \in bs[k] : s[y] = "<tool_call>"
    <3>1. g[k] = x /\ x \in bs[k] /\ s[x] = "<tool_call>"
      BY <2>1, <2>2
    <3> HIDE DEF x, g
    <3>2. g[k] \notin I
      BY <3>1
    <3> QED
      BY <2>1, <2>2, <3>1, <3>2
  <2>3. ASSUME NEW x \in bs[k], s[x] \in {"function", "json"}, Parsed(s, bs[k]) = <<x>>
        PROVE  g[k] = x /\ x \in I /\ x \in Nat
    BY <2>1, <2>3
  <2>4. CASE Parsed(s, bs[k]) # <<>>
    <3>1. PICK x \in bs[k] : s[x] \in {"function", "json"} /\ Parsed(s, bs[k]) = <<x>>
      BY <2>1, <2>4
    <3>2. g[k] = x /\ x \in I /\ x \in Nat
      BY <2>3, <3>1
    <3> HIDE DEF g, I
    <3> QED
      BY <3>1, <3>2
  <2> QED
    BY <2>2, <2>4
<1>3. Wrapped(s) = Selected(g, n, I)
  <2>1. [k \in DOMAIN bs |-> Parsed(s, bs[k])] = [k \in 1..n |-> IF g[k] \in I THEN <<g[k]>> ELSE <<>>]
    <3> HIDE DEF g, I
    <3> QED
      BY <1>1, <1>2
  <2> HIDE DEF g, I
  <2> QED
    BY <2>1 DEF Wrapped, Selected, bs
<1>4. g \in [1..n -> Int]
  <2>1. \A k \in 1..n : g[k] \in Int
    <3> HIDE DEF g, I
    <3> TAKE k \in 1..n
    <3>1. g[k] \in Nat
      BY <1>2
    <3> QED
      BY <3>1
  <2>2. g = [k \in 1..n |-> g[k]]
    OBVIOUS
  <2> HIDE DEF g
  <2> QED
    BY <2>1, <2>2
<1>5. Ascends(g)
  <2> SUFFICES ASSUME NEW i \in 1..n, NEW j \in 1..n, i < j PROVE g[i] < g[j]
    BY DEF Ascends
  <2> HIDE DEF g
  <2> QED
    BY <1>0, <1>1, <1>2 DEF Blocked
<1> HIDE DEF g
<1>6. Selects(Wrapped(s), g, n, I)
  BY <1>1, <1>3, <1>4, <1>5, Selection
<1>7. \A x : x \in Range(Wrapped(s)) <=> x \in I /\ \E k \in 1..n : g[k] = x
  BY <1>6 DEF Selects, Range
<1>8. ASSUME NEW x \in Range(Wrapped(s)) PROVE \E a, z \in DOMAIN s : IsPair(s, a, z) /\ x \in Yield(s, <<a, z>>)
  <2>1. PICK k \in 1..n : g[k] = x /\ x \in I
    BY <1>7, <1>8
  <2>2. Parsed(s, bs[k]) = <<x>>
    BY <1>2, <2>1
  <2>3. PICK a \in DOMAIN s, z \in DOMAIN s : IsPair(s, a, z) /\ bs[k] = a..z
    BY <1>p
  <2>4. <<x>> # <<>> /\ \A y : <<x>> = <<y>> => x = y
    OBVIOUS
  <2>5. Yield(s, <<a, z>>) = {x}
    <3>1. \/ Parsed(s, bs[k]) = <<>> /\ Yield(s, <<a, z>>) = {}
          \/ \E y \in bs[k] : /\ s[y] \in {"function", "json"} /\ Parsed(s, bs[k]) = <<y>>
                              /\ Yield(s, <<a, z>>) = {y}
      BY <1>r, <2>3
    <3>2. PICK y : Parsed(s, bs[k]) = <<y>> /\ Yield(s, <<a, z>>) = {y}
      BY <2>2, <2>4, <3>1
    <3>3. x = y
      BY <2>2, <2>4, <3>2
    <3> QED
      BY <3>2, <3>3
  <2> QED
    BY <2>3, <2>5
<1>9. ASSUME NEW a \in DOMAIN s, NEW z \in DOMAIN s, IsPair(s, a, z), NEW x \in Yield(s, <<a, z>>)
      PROVE  x \in Range(Wrapped(s))
  <2>1. PICK k \in 1..n : bs[k] = a..z
    BY <1>p, <1>9
  <2>2. Parsed(s, bs[k]) = <<x>>
    BY <1>9, <1>r, <2>1
  <2>3. <<x>> # <<>> /\ \A y : <<y>> = <<x>> => y = x
    OBVIOUS
  <2>4. g[k] \in I /\ g[k] = x
    <3> HIDE DEF I
    <3> QED
      BY <1>2, <2>2, <2>3
  <2> QED
    BY <1>7, <2>4
<1>10. \A x : x \in Range(Wrapped(s)) <=> \E b \in TagPairs(s) : x \in Yield(s, b)
  <2>1. \A b \in TagPairs(s) : b = <<b[1], b[2]>> /\ b[1] \in DOMAIN s /\ b[2] \in DOMAIN s /\ IsPair(s, b[1], b[2])
    BY DEF TagPairs
  <2>2. \A a, z \in DOMAIN s : IsPair(s, a, z) => <<a, z>> \in TagPairs(s)
    BY DEF TagPairs
  <2> TAKE x
  <2>3. ASSUME x \in Range(Wrapped(s)) PROVE \E b \in TagPairs(s) : x \in Yield(s, b)
    <3>1. PICK a \in DOMAIN s, z \in DOMAIN s : IsPair(s, a, z) /\ x \in Yield(s, <<a, z>>)
      BY <1>8, <2>3
    <3> QED
      BY <2>2, <3>1
  <2>4. ASSUME NEW b \in TagPairs(s), x \in Yield(s, b) PROVE x \in Range(Wrapped(s))
    <3>1. x \in Yield(s, <<b[1], b[2]>>)
      BY <2>1, <2>4
    <3> QED
      BY <1>9, <2>1, <3>1
  <2> QED
    BY <2>3, <2>4
<1>11. Range(Wrapped(s)) = UNION {Yield(s, b) : b \in TagPairs(s)}
  BY <1>10
<1> QED
  BY <1>6, <1>11 DEF Selects

InlineInv == content \in Seq(Tokens) /\ InlineRecovered

LEMMA RecoverStep ==
    ASSUME InlineInv, Recover
    PROVE  InlineInv'
<1> DEFINE s == content
           result == ParseInlineToolCalls(s)
           blocks == UNION Range(Blocks(s))
<1>0. content' = content /\ recovered' = <<result>> /\ s \in Seq(Tokens)
  BY DEF Recover, InlineInv
<1> DEFINE wrapped == UNION {Yield(s, b) : b \in TagPairs(s)}
           tagged  == UNION {b[1]..b[2] : b \in TagPairs(s)}
           bare    == {i \in DOMAIN s : s[i] = "function"}
<1>1. blocks = tagged
  BY <1>0, BlocksBetween
<1>2. /\ Ascends(Wrapped(s)) /\ Range(Wrapped(s)) = wrapped
      /\ Wrapped(s) = <<>> <=> Range(Wrapped(s)) = {}
  <2>1. Wrapped(s) \in Seq(Int) /\ Ascends(Wrapped(s)) /\ Range(Wrapped(s)) = wrapped
    BY <1>0, WrappedAre
  <2> DEFINE w == Wrapped(s)
  <2>2. w \in Seq(Int)
    BY <2>1
  <2> HIDE DEF w, wrapped
  <2>3. w = <<>> <=> Range(w) = {}
    <3>1. Len(w) \in Nat /\ DOMAIN w = 1..Len(w) /\ (w = <<>> <=> Len(w) = 0)
      BY <2>2, LenProperties, EmptySeq
    <3>2. Len(w) > 0 => 1 \in DOMAIN w
      BY <3>1
    <3> QED
      <4>1. Range(w) = {} <=> DOMAIN w = {}
        BY DEF Range
      <4> QED
        BY <3>1, <3>2, <4>1
  <2> QED
    BY <2>1, <2>3 DEF w
<1>3. /\ Ascends(Bare(s)) /\ Range(Bare(s)) = bare
      /\ \A S : Range(Without(s, S)) = DOMAIN s \ S
  BY <1>0, BareAndWithout
<1>5. result = IF Wrapped(s) # <<>> THEN [kept |-> Without(s, blocks), calls |-> Wrapped(s)]
               ELSE [kept |-> Without(s, Range(Bare(s))), calls |-> Bare(s)]
  BY DEF ParseInlineToolCalls
<1> DEFINE found == result.calls
           kept == Range(result.kept)
<1> HIDE DEF result, blocks, wrapped, tagged, bare
<1>6. /\ Ascends(found)
      /\ Range(found) = IF wrapped = {} THEN bare ELSE wrapped
      /\ kept = DOMAIN s \ (IF wrapped = {} THEN bare ELSE tagged)
  <2>1. CASE Wrapped(s) # <<>>
    BY <1>1, <1>2, <1>3, <1>5, <2>1
  <2>2. CASE Wrapped(s) = <<>>
    BY <1>2, <1>3, <1>5, <2>2
  <2> QED
    BY <2>1, <2>2
<1>7. InlineRecovered'
  <2>1. DOMAIN recovered' = {1} /\ recovered'[1] = result
    BY <1>0
  <2>3. \A i, j \in DOMAIN found : i < j => found[i] < found[j]
    BY <1>6 DEF Ascends
  <2> QED
    BY <1>0, <1>6, <2>1, <2>3 DEF InlineRecovered, Recovers, wrapped, tagged, bare
<1> QED
  BY <1>0, <1>7 DEF InlineInv

(* Out of any text, of any length, the calls come in its order, one from   *)
(* every pair of tags that yields one, or else all bare elements; and      *)
(* nothing goes missing but calls and what stands between two tags         *)
(* (inline_toolcall.go:24-29, 43-45).                                      *)
THEOREM InlineCallsRecovered == InlineInit /\ [][InlineNext]_inlineVars => []InlineRecovered
<1>1. InlineInit => InlineInv
  <2> SUFFICES ASSUME InlineInit PROVE InlineInv
    OBVIOUS
  <2>1. PICK m \in 0..MaxTokens : content \in [1..m -> Tokens]
    BY DEF InlineInit, SeqOf
  <2>2. m \in Nat
    BY <2>1, TokensAssumption
  <2>3. content \in Seq(Tokens)
    BY <2>1, <2>2
  <2>4. DOMAIN recovered = {}
    BY DEF InlineInit
  <2> QED
    BY <2>3, <2>4 DEF InlineInv, InlineRecovered
<1>2. InlineInv /\ [InlineNext]_inlineVars => InlineInv'
  <2>1. ASSUME InlineInv, UNCHANGED inlineVars PROVE InlineInv'
    <3>1. content' = content /\ recovered' = recovered
      BY <2>1 DEF inlineVars
    <3> QED
      BY <2>1, <3>1 DEF InlineInv, InlineRecovered
  <2> QED
    BY <2>1, RecoverStep DEF InlineNext
<1>3. InlineInv => InlineRecovered
  BY DEF InlineInv
<1> QED
  BY <1>1, <1>2, <1>3, PTL

=============================================================================
