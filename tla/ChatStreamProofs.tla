-------------------------- MODULE ChatStreamProofs --------------------------
(***************************************************************************)
(* What one streaming response of OpenAIClient.Chat guarantees for every   *)
(* server, every number and kind of chunks, every channel capacity and     *)
(* every setting of watchdog, loop guard and budget: its last event tells  *)
(* how it ended, its channel keeps the contract of ChatClient, its deltas  *)
(* and calls are those of the body, and its budget ends only thinking.     *)
(* StreamInv, the control flow, is inductive by itself; FaithfulInv, what  *)
(* is on the channel against what was read, is inductive beside it.        *)
(***************************************************************************)
EXTENDS ChatStream, FiniteSetTheorems, SequenceTheorems, TLAPS

Ends == FinishReasons \cup {"error"}
Running == {"recv", "parts", "finalize", "usage", "done"}

\* The types that the control flow needs.
Shapes ==
    /\ got \in Seq(Chunks)
    /\ parser \in {"read", "send", "closed"}
    /\ pc \in PCs /\ taken \in Nat
    /\ aborted \in BOOLEAN /\ draining \in BOOLEAN
    /\ finish \in FinishReasons
    /\ out \in Seq([kind : Kinds, n : Nat])
    /\ acc \in Nat /\ usage \in BOOLEAN

\* An abort has a reason, goes straight to the end, and is the only thing that
\* gives one of these reasons.
AbortHasReason ==
    IF aborted THEN finish \in AbortReasons /\ pc \in {"finalize", "usage", "done", "closed"}
               ELSE finish \notin AbortReasons

\* Until somebody else drains it, the parser is at most one chunk ahead.
ReadInStep ==
    ~draining => taken = IF parser = "send" THEN Len(got) - 1 ELSE Len(got)

\* Only an abort or an error hands the parser to the drainer, and without
\* either the stream ends after the parser has.
Attended ==
    /\ pc \in Running /\ ~aborted => ~draining
    /\ pc \in {"finalize", "usage", "done"} /\ ~aborted => parser = "closed" /\ bodyEnd # "error"

\* Which events may already be on the channel.
Ordered ==
    /\ \A i \in DOMAIN out : out[i].kind \in Ends => i = Len(out) /\ pc = "closed"
    /\ \A i \in DOMAIN out : out[i].kind = "usage" => pc \in {"done", "closed"}

LastTellsTruth ==
    pc = "closed" =>
        /\ out # <<>>
        /\ \/ LastKind = "error" /\ ~aborted
           \/ LastKind \in AbortReasons /\ aborted
           \/ /\ LastKind \in FinishReasons \ AbortReasons /\ ~aborted
              /\ parser = "closed" /\ bodyEnd # "error" /\ taken = Len(got)

StreamInv ==
    /\ Shapes
    /\ AbortHasReason /\ ReadInStep /\ Attended
    /\ Ordered /\ LastTellsTruth

-----------------------------------------------------------------------------
(* Sending one event of kind k.                                            *)
LEMMA Sending ==
    ASSUME NEW s \in Seq([kind : Kinds, n : Nat]), NEW k \in Kinds, NEW n \in Nat,
           NEW t, t = Append(s, Event(k, n))
    PROVE  /\ t \in Seq([kind : Kinds, n : Nat])
           /\ t # <<>> /\ Last(t).kind = k
           /\ DOMAIN s = 1..Len(s) /\ DOMAIN t = 1..Len(s) + 1
           /\ Len(s) \in Nat /\ Len(t) = Len(s) + 1
           /\ \A i \in 1..Len(s) : t[i] = s[i]
           /\ t[Len(s) + 1].kind = k
<1>1. Event(k, n) \in [kind : Kinds, n : Nat] /\ Event(k, n).kind = k
  BY DEF Event
<1>2. t \in Seq([kind : Kinds, n : Nat]) /\ Len(t) = Len(s) + 1 /\ Len(s) \in Nat
  BY <1>1
<1>3. (\A i \in 1..Len(s) : t[i] = s[i]) /\ t[Len(s) + 1] = Event(k, n)
  BY <1>1
<1> QED
  BY <1>1, <1>2, <1>3 DEF Last

(* The stream starts with nothing read and nothing sent.                   *)
LEMMA InitStreamInv == Init => StreamInv
<1> SUFFICES ASSUME Init PROVE StreamInv
  OBVIOUS
<1>1. Shapes
  <2>1. got \in Seq(Chunks) /\ out \in Seq([kind : Kinds, n : Nat])
    BY DEF Init
  <2>2. pc \in PCs /\ finish \in FinishReasons
    BY DEF Init, PCs, FinishReasons
  <2> QED
    BY <2>1, <2>2 DEF Init, Shapes
<1>2. AbortHasReason /\ ReadInStep /\ Attended
  BY DEF Init, AbortHasReason, AbortReasons, ReadInStep, Attended
<1>3. Ordered /\ LastTellsTruth
  BY DEF Init, Ordered, LastTellsTruth
<1> QED
  BY <1>1, <1>2, <1>3 DEF StreamInv

\* What every step of the parser and of the environment leaves alone.
Aside == UNCHANGED <<pc, taken, ownVars, out>>

(* The parser, the drainer, the consumer and a cancellation change nothing *)
(* that the events or the stream goroutine's place depend on.              *)
LEMMA AsideStep ==
    ASSUME StreamInv, Scan \/ ServerEnds \/ ReadFails \/ Drain \/ Receive \/ Cancel
    PROVE  StreamInv'
<1> USE DEF StreamInv
<1>1. Aside /\ UNCHANGED draining
  BY DEF Aside, Scan, ServerEnds, ReadFails, EndScan, Drain, Receive, Cancel, parserVars, ownVars
<1>2. Ordered'
  BY <1>1 DEF Aside, Ordered
<1>3. AbortHasReason'
  BY <1>1 DEF Aside, AbortHasReason, ownVars
<1>4. CASE Scan
  <2>1. PICK chunk \in Chunks : got' = Append(got, chunk)
    BY <1>4 DEF Scan
  <2>2. got' \in Seq(Chunks) /\ Len(got') = Len(got) + 1 /\ Len(got) \in Nat
    BY <2>1 DEF Shapes
  <2>3. parser = "read" /\ parser' = "send" /\ UNCHANGED <<bodyEnd, bodyClosed>>
    BY <1>4 DEF Scan
  <2>4. Shapes'
    BY <1>1, <2>2, <2>3 DEF Shapes, Aside, ownVars
  <2>5. ReadInStep'
    BY <1>1, <2>2, <2>3 DEF ReadInStep, Aside, Shapes
  <2>6. Attended' /\ LastTellsTruth'
    BY <1>1, <2>3 DEF Attended, LastTellsTruth, LastKind, Aside, ownVars
  <2> QED
    BY <1>2, <1>3, <2>4, <2>5, <2>6
<1>5. CASE ServerEnds \/ ReadFails
  <2>1. parser = "read" /\ parser' = "closed" /\ got' = got
    BY <1>5 DEF ServerEnds, ReadFails, EndScan
  <2>2. Shapes' /\ ReadInStep'
    BY <1>1, <2>1 DEF Shapes, ReadInStep, Aside, ownVars
  <2>3. Attended' /\ LastTellsTruth'
    BY <1>1, <2>1 DEF Attended, LastTellsTruth, LastKind, Aside, ownVars
  <2> QED
    BY <1>2, <1>3, <2>2, <2>3
<1>6. CASE Drain
  <2>1. parser = "send" /\ parser' = "read" /\ UNCHANGED <<got, bodyEnd>> /\ draining
    BY <1>6 DEF Drain
  <2>2. Shapes' /\ ReadInStep'
    BY <1>1, <2>1 DEF Shapes, ReadInStep, Aside, ownVars
  <2>3. Attended' /\ LastTellsTruth'
    BY <1>1, <2>1 DEF Attended, LastTellsTruth, LastKind, Aside, ownVars
  <2> QED
    BY <1>2, <1>3, <2>2, <2>3
<1>7. CASE Receive \/ Cancel
  <2>1. UNCHANGED parserVars
    BY <1>7 DEF Receive, Cancel
  <2> QED
    BY <1>1, <1>2, <1>3, <2>1 DEF Shapes, ReadInStep, Attended, LastTellsTruth, LastKind, Aside,
       ownVars, parserVars
<1> QED
  BY <1>4, <1>5, <1>6, <1>7

-----------------------------------------------------------------------------
(* A step of a running stream that keeps its shapes, its reasons and the   *)
(* parser's lead, and sends no end, keeps the invariant.                   *)
LEMMA RunningStep ==
    ASSUME StreamInv, Shapes', AbortHasReason', ReadInStep', Attended',
           pc \in Running, pc' \in PCs \ {"closed"},
           pc' = "done" \/ pc \notin {"done"},
           \/ out' = out
           \/ \E k \in Kinds \ Ends, n \in Nat :
                out' = Append(out, Event(k, n)) /\ (k = "usage" => pc' = "done")
    PROVE  StreamInv'
<1> USE DEF StreamInv
<1>1. LastTellsTruth'
  BY DEF LastTellsTruth
<1>2. pc # "closed" /\ (pc = "done" => pc' = "done")
  BY DEF Running
<1>3. CASE out' = out
  <2>1. Ordered'
    BY <1>2, <1>3 DEF Ordered
  <2> QED
    BY <1>1, <2>1
<1>4. ASSUME NEW k \in Kinds \ Ends, NEW n \in Nat,
             out' = Append(out, Event(k, n)), k = "usage" => pc' = "done"
      PROVE  StreamInv'
  <2>1. /\ DOMAIN out = 1..Len(out) /\ DOMAIN out' = 1..Len(out) + 1 /\ Len(out) \in Nat
        /\ \A i \in 1..Len(out) : out'[i] = out[i]
        /\ out'[Len(out) + 1].kind = k
    <3>1. out \in Seq([kind : Kinds, n : Nat]) /\ k \in Kinds
      BY DEF Shapes
    <3>2. out' = Append(out, Event(k, n)) /\ n \in Nat
      BY <1>4
    <3> HIDE DEF StreamInv
    <3>3. /\ DOMAIN out = 1..Len(out) /\ DOMAIN out' = 1..Len(out) + 1
          /\ Len(out) \in Nat
      BY <3>1, <3>2, Sending, SMT
    <3>4. \A i \in 1..Len(out) : out'[i] = out[i]
      BY <3>1, <3>2 DEF Event
    <3>5. out'[Len(out) + 1].kind = k
      BY <3>1, <3>2 DEF Event
    <3> QED
      BY <3>3, <3>4, <3>5
  <2>2. ASSUME NEW i \in DOMAIN out'
        PROVE  /\ out'[i].kind \notin Ends
               /\ out'[i].kind = "usage" => pc' = "done"
    <3>1. CASE i \in 1..Len(out)
      BY <1>2, <2>1, <3>1 DEF Ordered
    <3>2. CASE i = Len(out) + 1
      BY <1>4, <2>1, <3>2
    <3> QED
      BY <2>1, <3>1, <3>2
  <2>3. Ordered'
    BY <2>2 DEF Ordered
  <2> QED
    BY <1>1, <2>3
<1> QED
  BY <1>3, <1>4

(* Receiving a chunk, or the end of the parser's channel.                  *)
LEMMA ReceivingStep ==
    ASSUME StreamInv, Recv \/ RecvClosed
    PROVE  StreamInv'
<1> USE DEF StreamInv
<1>1. pc = "recv" /\ ~aborted /\ ~draining /\ UNCHANGED out
  BY DEF Recv, RecvClosed, AbortHasReason, Attended, Running
<1>2. CASE Recv
  <2>1. /\ parser = "send" /\ parser' = "read" /\ taken' = taken + 1
        /\ UNCHANGED <<got, bodyEnd, acc, usage, aborted>>
        /\ \/ pc' = "error" /\ draining' = TRUE /\ finish' = finish
           \/ pc' = "parts" /\ draining' = draining /\ finish' \in {"stop", finish}
    BY <1>2 DEF Recv, StopReading
  <2>2. Len(got) \in Nat /\ taken \in Nat /\ taken = Len(got) - 1
    BY <1>1, <2>1 DEF ReadInStep, Shapes
  <2>3. Shapes'
    <3>1. pc' \in PCs /\ draining' \in BOOLEAN
      BY <1>1, <2>1 DEF PCs, Shapes
    <3>2. finish' \in FinishReasons /\ taken' \in Nat
      BY <2>1, <2>2 DEF Shapes, FinishReasons
    <3> QED
      BY <1>1, <2>1, <3>1, <3>2 DEF Shapes
  <2>4. AbortHasReason' /\ ReadInStep' /\ Attended'
    BY <1>1, <2>1, <2>2 DEF AbortHasReason, AbortReasons, ReadInStep, Attended, Running
  <2> QED
    BY <1>1, <2>1, <2>3, <2>4, RunningStep DEF Running, PCs
<1>3. CASE RecvClosed
  <2>1. /\ parser = "closed" /\ UNCHANGED <<got, parser, bodyEnd, draining, taken, acc, usage, aborted, finish>>
        /\ pc' = IF bodyEnd = "error" THEN "error" ELSE "finalize"
    BY <1>3 DEF RecvClosed, parserVars, ownVars
  <2>2. Shapes' /\ AbortHasReason' /\ ReadInStep' /\ Attended'
    BY <1>1, <2>1 DEF Shapes, PCs, AbortHasReason, ReadInStep, Attended, Running
  <2> QED
    BY <1>1, <2>1, <2>2, RunningStep DEF Running, PCs
<1> QED
  BY <1>2, <1>3

(* RunningStep for a step that sends at most one delta.                    *)
LEMMA PartSent ==
    ASSUME StreamInv, Shapes', AbortHasReason', ReadInStep', Attended',
           pc \in {"recv", "parts"}, pc' \in PCs \ {"closed"},
           \/ out' = out
           \/ \E k \in {"reason", "text"} : out' = Append(out, Event(k, taken))
    PROVE  StreamInv'
<1>1. {"reason", "text"} \subseteq Kinds \ Ends /\ "usage" \notin {"reason", "text"}
  BY DEF Kinds, Ends, FinishReasons, AbortReasons
<1>2. taken \in Nat
  BY DEF StreamInv, Shapes
<1>3. \/ out' = out
      \/ \E k \in Kinds \ Ends, n \in Nat :
           out' = Append(out, Event(k, n)) /\ (k = "usage" => pc' = "done")
  BY <1>1, <1>2, Zenon
<1>4. pc \in Running /\ pc \notin {"done"}
  BY DEF Running
<1> QED
  BY <1>3, <1>4, RunningStep

\* The loop goes on, or leaves it for the error.
Continues ==
    /\ UNCHANGED <<aborted, finish>>
    /\ \/ pc' \in {"recv", "parts"} /\ draining' = draining
       \/ pc' = "error" /\ draining' = TRUE

(* Handling one part of a chunk.                                           *)
LEMMA PartStep ==
    ASSUME StreamInv, StallFires \/ Reason \/ Text \/ MergeCall \/ MergeNoise \/ MergeFails \/ ChunkDone
    PROVE  StreamInv'
<1> USE DEF StreamInv
<1>1. /\ pc \in {"recv", "parts"} /\ ~aborted /\ ~draining /\ finish \notin AbortReasons
      /\ UNCHANGED <<got, parser, bodyEnd, taken>>
  BY DEF StallFires, Reason, Text, MergeCall, MergeNoise, MergeFails, ChunkDone, NextPart, AbortHasReason,
         Attended, Running, parserVars
<1>2. /\ acc' \in Nat /\ usage' \in BOOLEAN
      /\ \/ out' = out
         \/ \E k \in {"reason", "text"} : out' = Append(out, Event(k, taken))
  <2>1. CASE StallFires \/ Reason \/ Text
    BY <2>1 DEF StallFires, Reason, Text, Emit, Shapes
  <2>2. CASE MergeCall
    <3>1. acc' = acc + 1 /\ UNCHANGED <<usage, out>>
      BY <2>2 DEF MergeCall
    <3> QED
      BY <3>1 DEF Shapes
  <2>3. CASE MergeNoise \/ MergeFails \/ ChunkDone
    BY <2>3 DEF MergeNoise, MergeFails, ChunkDone, Shapes
  <2> QED
    BY <2>1, <2>2, <2>3
<1>3. out' \in Seq([kind : Kinds, n : Nat])
  <2>1. "reason" \in Kinds /\ "text" \in Kinds /\ taken \in Nat
    BY DEF Kinds, Shapes
  <2>2. out \in Seq([kind : Kinds, n : Nat])
    BY DEF Shapes
  <2>3. ASSUME NEW k \in {"reason", "text"}, out' = Append(out, Event(k, taken))
        PROVE  out' \in Seq([kind : Kinds, n : Nat])
    BY <2>1, <2>2, <2>3, Sending
  <2> QED
    BY <1>2, <2>2, <2>3
<1>4. \/ \E reason \in AbortReasons : Abort(reason)
      \/ Continues
  <2>1. CASE StallFires
    BY <2>1 DEF StallFires, AbortReasons
  <2>2. CASE Reason
    <3>1. CASE LoopGuard /\ Abort("repetition")
      BY <3>1 DEF AbortReasons
    <3>2. CASE Abort("reasoning_budget")
      BY <3>2 DEF AbortReasons
    <3>3. CASE UNCHANGED <<aborted, finish, bodyClosed, draining, pc>>
      BY <1>1, <3>3 DEF Continues
    <3> QED
      BY <2>2, <3>1, <3>2, <3>3 DEF Reason
  <2>3. CASE Text
    <3>1. CASE LoopGuard /\ Abort("repetition")
      BY <3>1 DEF AbortReasons
    <3>2. CASE UNCHANGED <<aborted, finish, bodyClosed, draining, pc>>
      BY <1>1, <3>2 DEF Continues
    <3> QED
      BY <2>3, <3>1, <3>2 DEF Text
  <2>4. CASE MergeCall \/ MergeNoise
    BY <1>1, <2>4 DEF MergeCall, MergeNoise, Continues
  <2>5. CASE MergeFails
    BY <2>5 DEF MergeFails, StopReading, Continues
  <2>6. CASE ChunkDone
    BY <2>6 DEF ChunkDone, Continues
  <2> QED
    BY <2>1, <2>2, <2>3, <2>4, <2>5, <2>6
<1>5. CASE \E reason \in AbortReasons : Abort(reason)
  <2>1. /\ aborted' = TRUE /\ finish' \in AbortReasons /\ draining' = TRUE /\ pc' = "finalize"
    BY <1>5 DEF Abort
  <2>2. pc' \in PCs \ {"closed"} /\ finish' \in FinishReasons /\ draining' \in BOOLEAN
    BY <2>1 DEF PCs, FinishReasons
  <2>3. Shapes'
    BY <1>1, <1>2, <1>3, <2>1, <2>2 DEF Shapes
  <2>4. AbortHasReason' /\ ReadInStep' /\ Attended'
    BY <2>1 DEF AbortHasReason, ReadInStep, Attended
  <2> QED
    BY <1>1, <1>2, <2>2, <2>3, <2>4, PartSent
<1>6. CASE Continues
  <2>1. pc' \in PCs \ {"closed"}
    BY <1>6 DEF Continues, PCs
  <2>2. Shapes'
    BY <1>1, <1>2, <1>3, <1>6, <2>1 DEF Shapes, Continues
  <2>3. AbortHasReason' /\ ReadInStep' /\ Attended'
    BY <1>1, <1>6 DEF Continues, AbortHasReason, ReadInStep, Attended, Running
  <2> QED
    BY <1>1, <1>2, <2>1, <2>2, <2>3, PartSent
<1> QED
  BY <1>4, <1>5, <1>6

(* The steps after the loop that do not end the stream.                    *)
LEMMA FinalizingStep ==
    ASSUME StreamInv, SendCalls \/ NoCalls \/ SendUsage
    PROVE  StreamInv'
<1> USE DEF StreamInv
<1>1. /\ UNCHANGED <<got, parser, bodyEnd, draining, taken, acc, usage, aborted>>
      /\ pc \in {"finalize", "usage"} /\ pc' \in {"usage", "done"}
  BY DEF SendCalls, NoCalls, SendUsage, parserVars, ownVars
<1>2. /\ finish' \in {"tool_calls", finish}
      /\ aborted => finish' = finish
  BY DEF SendCalls, NoCalls, SendUsage, Finalizes, ownVars
<1>3. \/ out' = out
      \/ out' = Append(out, Event("calls", acc))
      \/ out' = Append(out, Event("usage", taken)) /\ pc' = "done"
  BY DEF SendCalls, NoCalls, SendUsage, Emit
<1>4. acc \in Nat /\ taken \in Nat /\ out \in Seq([kind : Kinds, n : Nat])
  BY DEF Shapes
<1>5. {"calls", "usage"} \subseteq Kinds \ Ends
  BY DEF Kinds, Ends, FinishReasons, AbortReasons
<1>6. out' \in Seq([kind : Kinds, n : Nat])
  <2>1. ASSUME NEW k \in {"calls", "usage"}, NEW n \in Nat, out' = Append(out, Event(k, n))
        PROVE  out' \in Seq([kind : Kinds, n : Nat])
    BY <1>4, <1>5, <2>1, Sending
  <2> QED
    BY <1>3, <1>4, <2>1
<1>7. pc' \in PCs \ {"closed"} /\ finish' \in FinishReasons
  BY <1>1, <1>2 DEF PCs, FinishReasons, Shapes
<1>8. Shapes'
  BY <1>1, <1>6, <1>7 DEF Shapes
<1>9. AbortHasReason' /\ ReadInStep' /\ Attended'
  BY <1>1, <1>2 DEF AbortHasReason, AbortReasons, ReadInStep, Attended, Running
<1>10. \/ out' = out
       \/ \E k \in Kinds \ Ends, n \in Nat :
            out' = Append(out, Event(k, n)) /\ (k = "usage" => pc' = "done")
  BY <1>3, <1>4, <1>5
<1>11. pc \in Running /\ pc \notin {"done"}
  BY <1>1 DEF Running
<1> QED
  BY <1>7, <1>8, <1>9, <1>10, <1>11, RunningStep

(* The step that sends the last event and returns.                         *)
LEMMA EndingStep ==
    ASSUME StreamInv, SendError \/ SendDone
    PROVE  StreamInv'
<1> USE DEF StreamInv
<1>1. /\ UNCHANGED <<got, parser, bodyEnd, draining, taken, acc, usage, aborted, finish>>
      /\ pc' = "closed"
  BY DEF SendError, SendDone, AfterError, Return, parserVars, ownVars
<1>2. PICK k \in Ends :
        /\ out' = Append(out, Event(k, taken))
        /\ \/ pc = "error" /\ k = "error"
           \/ pc = "done" /\ k = finish
  BY DEF SendError, SendDone, Emit, Ends, Shapes
<1>3. k \in Kinds /\ taken \in Nat /\ out \in Seq([kind : Kinds, n : Nat])
  BY DEF Ends, Kinds, Shapes
<1>4. out' \in Seq([kind : Kinds, n : Nat]) /\ out' # <<>> /\ Last(out').kind = k
  <2>1. out' = Append(out, Event(k, taken))
    BY <1>2
  <2>2. out' \in Seq([kind : Kinds, n : Nat]) /\ Len(out') = Len(out) + 1 /\ Len(out) \in Nat
    BY <1>3, <2>1 DEF Event
  <2>3. out'[Len(out) + 1].kind = k
    BY <1>3, <2>1 DEF Event
  <2> QED
    BY <2>2, <2>3 DEF Last
<1>5. /\ DOMAIN out = 1..Len(out) /\ DOMAIN out' = 1..Len(out) + 1 /\ Len(out) \in Nat
      /\ Len(out') = Len(out) + 1
  BY <1>2, <1>3, Sending
<1>6. \A i \in 1..Len(out) : out'[i] = out[i]
  BY <1>2, <1>3 DEF Event
<1>7. pc # "closed"
  BY <1>2
<1>8. Shapes'
  BY <1>1, <1>4 DEF Shapes, PCs
<1>9. AbortHasReason' /\ ReadInStep' /\ Attended'
  BY <1>1, <1>2 DEF AbortHasReason, ReadInStep, Attended, Running
<1>10. Ordered'
  <2>1. \A i \in 1..Len(out) : out'[i].kind \notin Ends
    BY <1>5, <1>6, <1>7 DEF Ordered
  <2> QED
    BY <1>1, <1>5, <2>1 DEF Ordered
<1>11. LastTellsTruth'
  <2>1. CASE k = "error" /\ pc = "error"
    BY <1>1, <1>4, <2>1 DEF LastTellsTruth, LastKind, AbortHasReason
  <2>2. CASE k = finish /\ pc = "done" /\ aborted
    BY <1>1, <1>4, <2>2 DEF LastTellsTruth, LastKind, AbortHasReason
  <2>3. CASE k = finish /\ pc = "done" /\ ~aborted
    <3>1. finish \in FinishReasons \ AbortReasons
      BY <2>3 DEF AbortHasReason, Shapes
    <3>2. parser = "closed" /\ bodyEnd # "error" /\ ~draining
      BY <2>3 DEF Attended, Running
    <3>3. taken = Len(got)
      BY <3>2 DEF ReadInStep
    <3> QED
      BY <1>1, <1>4, <2>3, <3>1, <3>2, <3>3 DEF LastTellsTruth, LastKind
  <2> QED
    BY <1>2, <2>1, <2>2, <2>3
<1> QED
  BY <1>8, <1>9, <1>10, <1>11

(* Every step keeps the invariant.                                         *)
LEMMA StreamStep == StreamInv /\ [Next]_vars => StreamInv'
<1> SUFFICES ASSUME StreamInv, [Next]_vars PROVE StreamInv'
  OBVIOUS
<1>1. CASE UNCHANGED vars
  BY <1>1 DEF vars, parserVars, ownVars, StreamInv, Shapes, AbortHasReason, ReadInStep, Attended,
              Ordered, LastTellsTruth, LastKind
<1>2. CASE Next
  BY <1>2, AsideStep, ReceivingStep, PartStep, FinalizingStep, EndingStep DEF Next, Goroutine
<1> QED
  BY <1>1, <1>2

(* StreamInv holds in every state of the stream.                           *)
THEOREM StreamInvariant == Spec => []StreamInv
BY InitStreamInv, StreamStep, PTL DEF Spec

(* The last event on the channel tells how the stream ended: EventDone     *)
(* without an abort reason only after the parser has read the body to its  *)
(* end without an error and every chunk was handled.                       *)
THEOREM StreamEndTellsTruth == Spec => []EndTellsTruth
<1>1. StreamInv => EndTellsTruth
  BY DEF StreamInv, LastTellsTruth, Ordered, EndTellsTruth, Ends
<1> QED
  BY StreamInvariant, <1>1, PTL

-----------------------------------------------------------------------------
(* The stream implements the contract of ChatClient.Chat.                  *)

Sent == {"delta", "calls", "usage", "done", "error"}

\* KindOf, case by case.
LEMMA KindCases ==
    /\ \A e \in [kind : Kinds, n : Nat] : KindOf(e) \in Sent
    /\ \A n \in Nat : KindOf(Event("reason", n)) = "delta" /\ KindOf(Event("text", n)) = "delta"
    /\ \A n \in Nat : KindOf(Event("calls", n)) = "calls" /\ KindOf(Event("usage", n)) = "usage"
    /\ \A n \in Nat : KindOf(Event("error", n)) = "error"
    /\ \A k \in FinishReasons : \A n \in Nat : KindOf(Event(k, n)) = "done"
    /\ \A e \in [kind : Kinds, n : Nat] : KindOf(e) = "usage" => e.kind = "usage"
BY DEF KindOf, Event, Kinds, FinishReasons, AbortReasons, Sent

\* An interval starting at one has one length.
LEMMA SameInterval == \A m, n \in Nat : 1..m = 1..n => m = n
<1> SUFFICES ASSUME NEW m \in Nat, NEW n \in Nat, 1..m = 1..n PROVE m = n
  OBVIOUS
<1>1. m \in 1..m <=> m \in 1..n
  OBVIOUS
<1>2. n \in 1..m <=> n \in 1..n
  OBVIOUS
<1> QED
  BY <1>1, <1>2

\* The channel seen through KindOf is a sequence ...
LEMMA ChannelIsSeq ==
    ASSUME out \in Seq([kind : Kinds, n : Nat])
    PROVE  Channel \in Seq(Sent) /\ Len(Channel) = Len(out) /\ DOMAIN Channel = 1..Len(out)
<1>1. DOMAIN out = 1..Len(out) /\ Len(out) \in Nat
  BY LenProperties
<1>2. \A i \in DOMAIN out : KindOf(out[i]) \in Sent
  BY <1>1, KindCases, ElementOfSeq
<1>3. Channel \in [1..Len(out) -> Sent]
  BY <1>1, <1>2 DEF Channel
<1>4. Channel \in Seq(Sent)
  BY <1>1, <1>3, SeqDef
<1>5. DOMAIN Channel = 1..Len(Channel) /\ Len(Channel) \in Nat
  BY <1>4, LenProperties
<1>6. DOMAIN Channel = 1..Len(out)
  BY <1>3
<1>7. Len(Channel) = Len(out)
  BY <1>1, <1>5, <1>6, SameInterval
<1> QED
  BY <1>4, <1>6, <1>7

\* ... and sending an event appends its kind.
LEMMA ChannelAppend ==
    ASSUME out \in Seq([kind : Kinds, n : Nat]), NEW k \in Kinds, NEW n \in Nat,
           out' = Append(out, Event(k, n))
    PROVE  Channel' = Append(Channel, KindOf(Event(k, n)))
<1>1. Event(k, n) \in [kind : Kinds, n : Nat]
  BY DEF Event
<1>2. /\ out' \in Seq([kind : Kinds, n : Nat])
      /\ Len(out') = Len(out) + 1 /\ Len(out) \in Nat
      /\ \A i \in 1..Len(out) : out'[i] = out[i]
      /\ out'[Len(out) + 1] = Event(k, n)
  BY <1>1
<1>3. /\ Channel \in Seq(Sent) /\ Len(Channel) = Len(out) /\ DOMAIN out = 1..Len(out)
      /\ \A i \in 1..Len(out) : Channel[i] = KindOf(out[i])
  BY ChannelIsSeq, LenProperties DEF Channel
<1>4. /\ Channel' \in Seq(Sent) /\ Len(Channel') = Len(out') /\ DOMAIN out' = 1..Len(out')
      /\ \A i \in 1..Len(out') : Channel'[i] = KindOf(out'[i])
  <2>1. DOMAIN out' = 1..Len(out') /\ Len(out') \in Nat
    BY <1>2, LenProperties
  <2>2. \A i \in DOMAIN out' : KindOf(out'[i]) \in Sent
    BY <1>2, <2>1, KindCases, ElementOfSeq
  <2>3. Channel' \in [1..Len(out') -> Sent] /\ \A i \in 1..Len(out') : Channel'[i] = KindOf(out'[i])
    BY <2>1, <2>2 DEF Channel
  <2>4. Channel' \in Seq(Sent)
    BY <2>1, <2>3, SeqDef
  <2>5. DOMAIN Channel' = 1..Len(Channel') /\ Len(Channel') \in Nat
    BY <2>4, LenProperties
  <2> QED
    BY <2>1, <2>3, <2>4, <2>5
<1>5. KindOf(Event(k, n)) \in Sent
  BY <1>1, KindCases
<1> DEFINE t == Append(Channel, KindOf(Event(k, n)))
<1>6. /\ t \in Seq(Sent) /\ Len(t) = Len(Channel) + 1
      /\ \A i \in 1..Len(Channel) : t[i] = Channel[i]
      /\ t[Len(Channel) + 1] = KindOf(Event(k, n))
  BY <1>3, <1>5
<1>7. \A i \in 1..Len(t) : Channel'[i] = t[i]
  <2> SUFFICES ASSUME NEW i \in 1..Len(out) + 1 PROVE Channel'[i] = t[i]
    BY <1>3, <1>6
  <2> HIDE DEF t
  <2>1. CASE i \in 1..Len(out)
    <3>1. i \in 1..Len(out') /\ i \in 1..Len(Channel)
      BY <1>2, <1>3, <2>1
    <3>2. Channel'[i] = KindOf(out'[i]) /\ out'[i] = out[i]
      BY <1>2, <1>4, <2>1, <3>1
    <3>3. t[i] = Channel[i] /\ Channel[i] = KindOf(out[i])
      BY <1>3, <1>6, <2>1, <3>1
    <3> QED
      BY <3>2, <3>3
  <2>2. CASE i = Len(out) + 1
    <3>1. i \in 1..Len(out') /\ i = Len(Channel) + 1
      BY <1>2, <1>3, <2>2
    <3>2. Channel'[i] = KindOf(out'[i])
      BY <1>4, <3>1
    <3>3. out'[i] = Event(k, n)
      BY <1>2, <2>2
    <3>4. t[i] = KindOf(Event(k, n))
      BY <1>6, <3>1
    <3> QED
      BY <3>2, <3>3, <3>4
  <2> QED
    BY <1>2, <2>1, <2>2
<1> HIDE DEF t
<1>8. Len(Channel') = Len(t)
  BY <1>2, <1>3, <1>4, <1>6
<1>9. Channel' = t
  BY <1>4, <1>6, <1>7, <1>8, SeqEqual
<1> QED
  BY <1>9 DEF t

\* Usage was reported on the abstract channel iff such an event was sent, and
\* only a stream that is almost done has sent one.
LEMMA ReportedLate ==
    ASSUME StreamInv, Protocol!Reported
    PROVE  pc \in {"done", "closed"}
<1>1. out \in Seq([kind : Kinds, n : Nat])
  BY DEF StreamInv, Shapes
<1>2. PICK i \in DOMAIN Channel : Channel[i] = "usage"
  BY DEF Protocol!Reported
<1>3. i \in DOMAIN out /\ KindOf(out[i]) = "usage"
  BY <1>2 DEF Channel
<1>4. out[i].kind = "usage"
  BY <1>1, <1>3, KindCases, ElementOfSeq, LenProperties
<1> QED
  BY <1>3, <1>4 DEF StreamInv, Ordered

(* Every step of the stream is a step of the contract or leaves it alone.  *)
LEMMA ProtocolStep ==
    ASSUME StreamInv, [Next]_vars
    PROVE  [Protocol!Next]_<<Channel, pc = "closed">>
<1>0. out \in Seq([kind : Kinds, n : Nat]) /\ taken \in Nat /\ acc \in Nat /\ finish \in FinishReasons
  BY DEF StreamInv, Shapes
<1>1. ASSUME out' = out, pc = "closed" <=> pc' = "closed"
      PROVE  UNCHANGED <<Channel, pc = "closed">>
  BY <1>1 DEF Channel
<1>2. CASE UNCHANGED vars
  BY <1>1, <1>2 DEF vars
<1>3. CASE Scan \/ ServerEnds \/ ReadFails \/ Drain \/ Receive \/ Cancel
  BY <1>1, <1>3 DEF Scan, ServerEnds, ReadFails, EndScan, Drain, Receive, Cancel
<1>4. CASE Recv \/ RecvClosed \/ StallFires \/ MergeCall \/ MergeNoise \/ MergeFails \/ ChunkDone \/ NoCalls
  <2>1. out' = out /\ pc # "closed" /\ pc' # "closed"
    BY <1>4 DEF Recv, RecvClosed, StallFires, Abort, MergeCall, MergeNoise, MergeFails, NextPart, ChunkDone, NoCalls
  <2> QED
    BY <1>1, <2>1
<1>5. ASSUME NEW k \in {"reason", "text", "calls"}, NEW n \in Nat, out' = Append(out, Event(k, n)),
             pc \in {"parts", "finalize"}, pc' # "closed"
      PROVE  Protocol!Content
  <2>1. k \in Kinds /\ KindOf(Event(k, n)) \in {"delta", "calls"}
    BY KindCases DEF Kinds
  <2>2. Channel' = Append(Channel, KindOf(Event(k, n)))
    BY <1>0, <1>5, <2>1, ChannelAppend
  <2>3. ~Protocol!Reported
    BY <1>5, ReportedLate
  <2> QED
    BY <1>5, <2>1, <2>2, <2>3 DEF Protocol!Content, Protocol!Contents
<1>6. CASE Reason \/ Text
  <2>1. pc = "parts" /\ pc' # "closed"
    BY <1>6 DEF Reason, Text, NextPart, Abort
  <2>2. \E k \in {"reason", "text", "calls"} : out' = Append(out, Event(k, taken))
    BY <1>6 DEF Reason, Text, Emit
  <2> QED
    BY <1>0, <1>5, <2>1, <2>2 DEF Protocol!Next
<1>7. CASE SendCalls
  <2>1. pc = "finalize" /\ pc' = "usage" /\ out' = Append(out, Event("calls", acc))
    BY <1>7 DEF SendCalls, Emit
  <2> QED
    BY <1>0, <1>5, <2>1 DEF Protocol!Next
<1>8. CASE SendUsage
  <2>1. pc = "usage" /\ pc' = "done" /\ (out' = out \/ out' = Append(out, Event("usage", taken)))
    BY <1>8 DEF SendUsage, Emit
  <2>2. CASE out' = out
    BY <1>1, <2>1, <2>2
  <2>3. CASE out' = Append(out, Event("usage", taken))
    <3>1. "usage" \in Kinds /\ KindOf(Event("usage", taken)) = "usage"
      BY <1>0, KindCases DEF Kinds
    <3>2. Channel' = Append(Channel, "usage")
      BY <1>0, <2>3, <3>1, ChannelAppend
    <3>3. ~Protocol!Reported
      BY <2>1, ReportedLate
    <3> QED
      BY <2>1, <3>2, <3>3 DEF Protocol!Usage, Protocol!Next
  <2> QED
    BY <2>1, <2>2, <2>3
<1>9. CASE SendError \/ SendDone
  <2>1. PICK k \in Ends : pc # "closed" /\ pc' = "closed" /\ out' = Append(out, Event(k, taken))
    BY <1>0, <1>9 DEF SendError, SendDone, AfterError, Return, Emit, Ends
  <2>2. k \in Kinds /\ KindOf(Event(k, taken)) \in {"done", "error"}
    BY <1>0, KindCases DEF Kinds, Ends
  <2>3. Channel' = Append(Channel, KindOf(Event(k, taken)))
    BY <1>0, <2>1, <2>2, ChannelAppend
  <2> QED
    BY <2>1, <2>2, <2>3 DEF Protocol!End, Protocol!Endings, Protocol!Next
<1> QED
  BY <1>2, <1>3, <1>4, <1>6, <1>7, <1>8, <1>9 DEF Next, Goroutine

(* Whatever the server sends and however the stream is cut short, the      *)
(* channel keeps the contract of ChatClient.Chat.                          *)
THEOREM StreamKeepsProtocol == Spec => KeepsProtocol
<1>1. Init => Protocol!Init
  <2> SUFFICES ASSUME Init PROVE Protocol!Init
    OBVIOUS
  <2>1. Channel \in Seq(Sent) /\ Len(Channel) = 0
    <3>1. out = <<>> /\ out \in Seq([kind : Kinds, n : Nat]) /\ Len(out) = 0
      BY DEF Init
    <3> QED
      BY <3>1, ChannelIsSeq
  <2>2. Channel = <<>>
    BY <2>1, EmptySeq
  <2> QED
    BY <2>2 DEF Init, Protocol!Init
<1>2. StreamInv /\ [Next]_vars => [Protocol!Next]_<<Channel, pc = "closed">>
  BY ProtocolStep
<1> QED
  BY StreamInvariant, <1>1, <1>2, PTL DEF Spec, KeepsProtocol, Protocol!Spec
-----------------------------------------------------------------------------
(* What is on the channel, against what the body carried.                  *)

\* A part of the current chunk that is still to be handled.
Pending(k, part) == pc = "parts" /\ k = taken /\ part \in todo
Handled(part) == {k \in 1..taken : part \in got[k] /\ ~Pending(k, part)}
Thoughts == {i \in DOMAIN out : out[i].kind = "reason"}

\* More types, and what the parser and the current chunk guarantee.
MoreShapes ==
    /\ taken <= Len(got) /\ Len(got) <= MaxChunks
    /\ parser = "closed" <=> bodyEnd \in BodyEnds
    /\ thought \in Nat /\ acting \in BOOLEAN
    /\ pc = "parts" => taken >= 1 /\ todo \subseteq got[taken]

\* Deltas: only what was carried, in order, nothing skipped, and none sent
\* while its part is still to be handled.
DeltasFaithful ==
    /\ \A i \in Delivered : out[i] \in Carried /\ ~Pending(out[i].n, out[i].kind)
    /\ \A i, j \in Delivered : i < j => Earlier(out[i], out[j])
    /\ \A i \in Delivered : \A e \in Carried : Earlier(e, out[i]) => OnChannel(e)
    /\ ~aborted => \A e \in Carried : OnChannel(e) \/ Pending(e.n, e.kind)
    /\ pc = "parts" /\ "reason" \in todo => \A i \in Delivered : out[i].n # taken

\* Calls: the accumulator holds every fragment handled, and once it is handed
\* out there is nothing more to handle.
CallsFaithful ==
    /\ ~aborted /\ pc \notin {"error", "closed"} => acc = Cardinality(Handled("call"))
    /\ \A i \in DOMAIN out : out[i].kind = "calls" =>
         /\ parser = "closed" /\ bodyEnd # "error" /\ taken = Len(got)
         /\ out[i].n = Cardinality({k \in DOMAIN got : "call" \in got[k]})

\* Reasoning: one event for each part handled, and the budget counts them
\* until the model acts.  A repetition aborts before its delta is counted.
ThoughtsCounted ==
    /\ Cardinality(Thoughts) = Cardinality(Handled("reason"))
    /\ ~acting => acc = 0
    /\ ~acting /\ Budget > 0 =>
         Cardinality(Thoughts) = thought + (IF finish = "repetition" THEN 1 ELSE 0)
    /\ thought <= Budget \/ finish = "reasoning_budget"
    /\ finish = "reasoning_budget" => ~acting /\ Budget > 0 /\ thought = Budget + 1

FaithfulInv == MoreShapes /\ DeltasFaithful /\ CallsFaithful /\ ThoughtsCounted

\* Sending puts one event after those that are there, at position m.
Appends(m, k, n) ==
    /\ m \in Nat /\ m \notin DOMAIN out /\ DOMAIN out' = DOMAIN out \cup {m}
    /\ \A i \in DOMAIN out : i \in Nat /\ i < m /\ out'[i] = out[i]
    /\ out'[m] = Event(k, n)

LEMMA Appending ==
    ASSUME Shapes, NEW k \in Kinds, NEW n \in Nat, out' = Append(out, Event(k, n))
    PROVE  \E m : Appends(m, k, n)
<1> DEFINE m == Len(out) + 1
<1>1. Event(k, n) \in [kind : Kinds, n : Nat] /\ out \in Seq([kind : Kinds, n : Nat])
  BY DEF Shapes, Event
<1>2. Len(out) \in Nat /\ DOMAIN out = 1..Len(out) /\ DOMAIN out' = 1..Len(out) + 1
  BY <1>1
<1>3. (\A i \in 1..Len(out) : out'[i] = out[i]) /\ out'[Len(out) + 1] = Event(k, n)
  BY <1>1
<1>4. \A a \in Nat : a + 1 \notin 1..a /\ 1..a + 1 = 1..a \cup {a + 1} /\ \A i \in 1..a : i \in Nat /\ i < a + 1
  OBVIOUS
<1>5. m \in Nat /\ m \notin DOMAIN out /\ DOMAIN out' = DOMAIN out \cup {m}
  BY <1>2, <1>4
<1>6. \A i \in DOMAIN out : i \in Nat /\ i < m /\ out'[i] = out[i]
  BY <1>2, <1>3, <1>4
<1>7. out'[m] = Event(k, n)
  BY <1>3
<1> QED
  BY <1>5, <1>6, <1>7 DEF Appends

\* The chunks received so far stay what they are.
SameBody == taken' = taken /\ \A i \in 1..taken : got'[i] = got[i]

(* A step that sends no delta and handles no part with one.                *)
LEMMA DeltasStay ==
    ASSUME DeltasFaithful, SameBody, taken \in Nat, aborted => aborted',
           \A k \in DeltaKinds : \A n \in Nat : Pending(n, k)' => Pending(n, k),
           ~aborted' => \A k \in DeltaKinds : \A n \in Nat : Pending(n, k) => Pending(n, k)',
           out' = out \/ \E m, k, n : k \notin DeltaKinds /\ Appends(m, k, n)
    PROVE  DeltasFaithful'
<1>1. Delivered' = Delivered /\ \A i \in Delivered : out'[i] = out[i]
  <2>1. CASE out' = out
    BY <2>1 DEF Delivered
  <2>2. ASSUME NEW m, NEW k, NEW n, k \notin DeltaKinds, Appends(m, k, n)
        PROVE  Delivered' = Delivered /\ \A i \in Delivered : out'[i] = out[i]
    BY <2>2 DEF Delivered, Appends, Event
  <2> QED
    BY <2>1, <2>2
<1>2. Carried' = Carried
  BY DEF Carried, SameBody
<1>3. \A e : OnChannel(e)' <=> OnChannel(e)
  BY <1>1 DEF OnChannel
<1>4. \A e \in Carried : e.n \in Nat /\ e.kind \in DeltaKinds
  BY DEF Carried
<1>5. \A i \in Delivered : (out[i] \in Carried /\ ~Pending(out[i].n, out[i].kind))'
  BY <1>1, <1>2, <1>4 DEF DeltasFaithful
<1>6. \A i, j \in Delivered : i < j => Earlier(out'[i], out'[j])
  BY <1>1 DEF DeltasFaithful
<1>7. \A i \in Delivered : \A e \in Carried : Earlier(e, out'[i]) => OnChannel(e)'
  BY <1>1, <1>3 DEF DeltasFaithful
<1>8. ~aborted' => \A e \in Carried : OnChannel(e)' \/ Pending(e.n, e.kind)'
  BY <1>3, <1>4 DEF DeltasFaithful
<1>9. (pc = "parts" /\ "reason" \in todo)' => \A i \in Delivered : out'[i].n # taken'
  <2>1. "reason" \in DeltaKinds /\ taken' = taken
    BY DEF DeltaKinds, SameBody
  <2>2. (pc = "parts" /\ "reason" \in todo)' => pc = "parts" /\ "reason" \in todo
    BY <2>1 DEF Pending
  <2> QED
    BY <1>1, <2>1, <2>2 DEF DeltasFaithful
<1> QED
  BY <1>1, <1>2, <1>5, <1>6, <1>7, <1>8, <1>9 DEF DeltasFaithful, Earlier

(* Sending the delta whose turn it is.                                     *)
LEMMA DeltaSent ==
    ASSUME Shapes, MoreShapes, DeltasFaithful, ~aborted, UNCHANGED <<got, taken>>,
           NEW k \in DeltaKinds, NextPart(k), NEW m, Appends(m, k, taken),
           \A j \in DeltaKinds : \A n \in Nat : Pending(n, j)' => Pending(n, j) /\ j # k,
           ~aborted' => \A j \in DeltaKinds : \A n \in Nat : Pending(n, j) => Pending(n, j)' \/ j = k
    PROVE  DeltasFaithful'
<1> DEFINE new == Event(k, taken)
<1>0. taken \in Nat /\ pc = "parts" /\ taken \in 1..taken /\ todo \subseteq got[taken] /\ k \in todo
  BY DEF Shapes, MoreShapes, NextPart
<1>1. /\ Delivered' = Delivered \cup {m} /\ m \in Nat /\ m \notin Delivered
      /\ \A i \in Delivered : i \in Nat /\ i < m /\ out'[i] = out[i]
      /\ out'[m] = new
  BY DEF Delivered, Appends, Event
<1>2. Carried' = Carried /\ new \in Carried /\ new.n = taken /\ new.kind = k
  BY <1>0 DEF Carried, Event
<1>3. \A e : OnChannel(e)' <=> OnChannel(e) \/ e = new
  BY <1>1 DEF OnChannel
<1>4. \A e \in Carried : e.n \in Nat /\ e.n <= taken /\ e.kind \in DeltaKinds
  BY <1>0 DEF Carried
<1>5. \A e \in Carried : e.n = taken /\ e.kind = k => e = new
  BY DEF Carried, Event
<1>6. k = "text" => "reason" \notin todo
  BY DEF NextPart, Before
<1> HIDE DEF new
<1>7. \A i \in Delivered : Earlier(out[i], new)
  <2> SUFFICES ASSUME NEW i \in Delivered PROVE Earlier(out[i], new)
    OBVIOUS
  <2>1. out[i] \in Carried /\ ~Pending(out[i].n, out[i].kind)
    BY DEF DeltasFaithful
  <2>2. CASE out[i].n # taken
    BY <1>0, <1>2, <1>4, <2>1, <2>2 DEF Earlier
  <2>3. CASE out[i].n = taken
    <3>1. k = "text"
      BY <1>0, <2>3 DEF DeltasFaithful, DeltaKinds
    <3>2. out[i].kind = "reason"
      BY <1>0, <1>4, <2>1, <2>3, <3>1 DEF Pending, DeltaKinds
    <3> QED
      BY <1>2, <2>3, <3>1, <3>2 DEF Earlier
  <2> QED
    BY <2>2, <2>3
<1>8. \A e \in Carried : Earlier(e, new) => OnChannel(e)
  <2> SUFFICES ASSUME NEW e \in Carried, Earlier(e, new), Pending(e.n, e.kind) PROVE FALSE
    BY DEF DeltasFaithful
  <2>1. e.n = taken /\ e.kind \in todo
    BY DEF Pending
  <2> QED
    BY <1>0, <1>2, <1>6, <2>1 DEF Earlier
<1>9. (\A i \in Delivered : out[i] \in Carried /\ ~Pending(out[i].n, out[i].kind))'
  <2>1. \A n \in Nat : ~Pending(n, k)'
    OBVIOUS
  <2>2. \A e \in Carried : ~Pending(e.n, e.kind) => (\A n \in Nat : n = e.n => ~Pending(n, e.kind)')
    BY <1>4
  <2>3. ASSUME NEW i \in Delivered' PROVE (out[i] \in Carried /\ ~Pending(out[i].n, out[i].kind))'
    <3>1. CASE i \in Delivered
      <4>1. out'[i] = out[i] /\ out[i] \in Carried /\ ~Pending(out[i].n, out[i].kind)
        BY <1>1, <3>1 DEF DeltasFaithful
      <4> QED
        BY <1>2, <1>4, <2>2, <4>1 DEF Pending
    <3>2. CASE i = m
      BY <1>0, <1>1, <1>2, <2>1, <3>2 DEF Pending
    <3> QED
      BY <1>1, <2>3, <3>1, <3>2
  <2> QED
    BY <2>3
<1>10. \A i, j \in Delivered' : i < j => Earlier(out'[i], out'[j])
  <2>1. \A i, j \in Delivered : i < j => Earlier(out[i], out[j])
    BY DEF DeltasFaithful
  <2>2. \A i \in Delivered : ~(m < i)
    BY <1>1
  <2>3. ~(m < m)
    BY <1>1
  <2> QED
    BY <1>1, <1>7, <2>1, <2>2, <2>3
<1>11. \A i \in Delivered' : \A e \in Carried : Earlier(e, out'[i]) => OnChannel(e)'
  BY <1>1, <1>3, <1>8 DEF DeltasFaithful
<1>12. ~aborted' => \A e \in Carried : OnChannel(e)' \/ Pending(e.n, e.kind)'
  <2> SUFFICES ASSUME ~aborted', NEW e \in Carried, ~OnChannel(e), e # new PROVE Pending(e.n, e.kind)'
    BY <1>3
  <2>1. Pending(e.n, e.kind) /\ e.n = taken
    BY DEF DeltasFaithful, Pending
  <2>2. e.kind # k
    BY <1>5, <2>1
  <2> QED
    BY <1>4, <2>1, <2>2
<1>13. ~(pc = "parts" /\ "reason" \in todo)'
  <2> SUFFICES ASSUME (pc = "parts" /\ "reason" \in todo)' PROVE FALSE
    OBVIOUS
  <2>1. Pending(taken, "reason")' /\ "reason" \in DeltaKinds
    BY DEF Pending, DeltaKinds
  <2>2. Pending(taken, "reason") /\ k # "reason"
    BY <1>0, <2>1
  <2> QED
    BY <1>6, <2>2 DEF Pending, DeltaKinds
<1> QED
  BY <1>2, <1>9, <1>10, <1>11, <1>12, <1>13 DEF DeltasFaithful, Earlier

(* Receiving a chunk: its deltas are to be sent, and none of them was.     *)
LEMMA DeltasReceived ==
    ASSUME StreamInv, MoreShapes, DeltasFaithful, Recv
    PROVE  DeltasFaithful'
<1>1. /\ pc = "recv" /\ ~aborted /\ ~draining /\ parser = "send" /\ taken \in Nat /\ got \in Seq(Chunks)
      /\ taken' = taken + 1 /\ UNCHANGED <<got, out, aborted>>
  BY DEF Recv, StreamInv, Shapes, AbortHasReason, Attended, Running
<1>2. taken + 1 = Len(got) /\ taken + 1 \in 1..taken + 1 /\ got[taken + 1] \in Chunks
  <2>1. Len(got) \in Nat /\ taken = Len(got) - 1
    BY <1>1 DEF StreamInv, ReadInStep
  <2>2. taken + 1 = Len(got) /\ taken + 1 \in 1..Len(got)
    BY <1>1, <2>1
  <2> QED
    BY <1>1, <2>2, ElementOfSeq
<1>3. \A k \in DeltaKinds : k \in got[taken + 1] => Pending(taken, k)'
  <2>1. CASE "bad" \in got[taken + 1]
    BY <1>2, <2>1, ChunksAssumption DEF DeltaKinds
  <2>2. CASE "bad" \notin got[taken + 1]
    <3>1. todo' = got[taken + 1] /\ pc' = "parts"
      BY <1>2, <2>2 DEF Recv
    <3> QED
      BY <1>1, <3>1 DEF Pending
  <2> QED
    BY <2>1, <2>2
<1>4. \A n \in 1..taken : \A k : ~Pending(n, k) /\ ~Pending(n, k)'
  BY <1>1 DEF Pending
<1>5. /\ \A e \in Carried : e.n \in 1..taken /\ e.kind \in DeltaKinds /\ e \in Carried'
      /\ \A e \in Carried' : e \in Carried \/ (e.n = taken + 1 /\ Pending(e.n, e.kind)')
  <2>1. 1..taken' = 1..taken \cup {taken + 1}
    BY <1>1
  <2>2. \A e \in Carried : e.n \in 1..taken /\ e.kind \in DeltaKinds /\ e \in Carried'
    BY <1>1, <2>1 DEF Carried
  <2>3. ASSUME NEW e \in Carried' PROVE e \in Carried \/ (e.n = taken + 1 /\ Pending(e.n, e.kind)')
    <3>1. e \in [kind : DeltaKinds, n : 1..taken \cup {taken + 1}] /\ e.kind \in got[e.n]
      BY <1>1, <2>1 DEF Carried
    <3>2. CASE e.n \in 1..taken
      BY <3>1, <3>2 DEF Carried
    <3>3. CASE e.n = taken + 1
      BY <1>1, <1>3, <3>1, <3>3 DEF Pending
    <3> QED
      BY <3>1, <3>2, <3>3
  <2> QED
    BY <2>2, <2>3
<1>6. Delivered' = Delivered /\ \A e : OnChannel(e)' <=> OnChannel(e)
  BY <1>1 DEF Delivered, OnChannel
<1>7. \A i \in Delivered : out[i] \in Carried
  BY DEF DeltasFaithful
<1>8. (\A i \in Delivered : out[i] \in Carried /\ ~Pending(out[i].n, out[i].kind))'
  BY <1>1, <1>4, <1>5, <1>6, <1>7
<1>9. (\A i \in Delivered : \A e \in Carried : Earlier(e, out[i]) => OnChannel(e))'
  <2> SUFFICES ASSUME NEW i \in Delivered, NEW e \in Carried', Earlier(e, out[i]) PROVE OnChannel(e)
    BY <1>1, <1>6 DEF Earlier
  <2>1. e \in Carried
    BY <1>1, <1>5, <1>7 DEF Earlier
  <2> QED
    BY <2>1 DEF DeltasFaithful
<1>10. (\A e \in Carried : OnChannel(e) \/ Pending(e.n, e.kind))'
  <2>1. \A e \in Carried : OnChannel(e)
    BY <1>1 DEF DeltasFaithful, Pending
  <2> QED
    BY <1>1, <1>5, <1>6, <2>1 DEF Pending
<1>11. \A i \in Delivered : out'[i].n # taken'
  BY <1>1, <1>5, <1>7
<1> QED
  BY <1>1, <1>6, <1>8, <1>9, <1>10, <1>11 DEF DeltasFaithful, Earlier

(* What a stream goroutine that does not receive a chunk does to the       *)
(* channel, to the current chunk and to the abort flag.                    *)
LEMMA NoDeltaStep ==
    ASSUME StreamInv, MoreShapes, DeltasFaithful,
           \/ RecvClosed \/ StallFires \/ MergeCall \/ MergeNoise \/ MergeFails \/ ChunkDone
           \/ SendError \/ SendCalls \/ NoCalls \/ SendUsage \/ SendDone
    PROVE  DeltasFaithful'
<1>0. taken \in Nat /\ acc \in Nat /\ finish \in FinishReasons /\ aborted \in BOOLEAN /\ Shapes
  BY DEF StreamInv, Shapes
<1>1. SameBody /\ (aborted => aborted')
  BY DEF SameBody, RecvClosed, StallFires, Abort, MergeCall, MergeNoise, MergeFails, ChunkDone, SendError, SendCalls,
         NoCalls, SendUsage, SendDone, parserVars, ownVars
<1>2. \A k \in DeltaKinds : \A n \in Nat : Pending(n, k)' <=> Pending(n, k)
  <2>1. CASE MergeCall \/ MergeNoise
    BY <2>1 DEF MergeCall, MergeNoise, Pending, DeltaKinds
  <2>2. CASE MergeFails \/ ChunkDone
    BY <2>2 DEF MergeFails, NextPart, Before, ChunkDone, Pending, DeltaKinds
  <2>3. CASE RecvClosed \/ StallFires \/ SendError \/ SendCalls \/ NoCalls \/ SendUsage \/ SendDone
    BY <2>3 DEF RecvClosed, StallFires, Abort, SendError, AfterError, SendCalls, NoCalls, SendUsage,
       SendDone, Return, Pending
  <2> QED
    BY <2>1, <2>2, <2>3
<1>3. out' = out \/ \E m, k, n : k \notin DeltaKinds /\ Appends(m, k, n)
  <2>1. out' = out \/ \E k \in Kinds \ DeltaKinds, n \in Nat : out' = Append(out, Event(k, n))
    <3>1. {"error", "calls", "usage"} \cup FinishReasons \subseteq Kinds \ DeltaKinds
      BY DEF Kinds, FinishReasons, AbortReasons, DeltaKinds
    <3>2. \/ out' = out
          \/ \E k \in {"error", "calls", "usage"} \cup FinishReasons, n \in Nat : out' = Append(out, Event(k, n))
      BY <1>0 DEF RecvClosed, StallFires, MergeCall, MergeNoise, MergeFails, ChunkDone, SendError, SendCalls,
         NoCalls, SendUsage, SendDone, Emit
    <3> QED
      BY <3>1, <3>2
  <2> QED
    BY <1>0, <2>1, Appending
<1> QED
  BY <1>0, <1>1, <1>2, <1>3, DeltasStay

(* Every step keeps the deltas faithful.                                   *)
LEMMA DeltasStep ==
    ASSUME StreamInv, MoreShapes, DeltasFaithful, [Next]_vars
    PROVE  DeltasFaithful'
<1>0. Shapes /\ taken \in Nat
  BY DEF StreamInv, Shapes
<1>1. CASE Scan \/ ServerEnds \/ ReadFails \/ Drain \/ Receive \/ Cancel \/ UNCHANGED vars
  <2>1. UNCHANGED <<pc, taken, ownVars, out>>
    BY <1>1 DEF Scan, ServerEnds, ReadFails, EndScan, Drain, Receive, Cancel, vars
  <2>2. got' = got \/ \E chunk \in Chunks : got' = Append(got, chunk)
    BY <1>1 DEF Scan, ServerEnds, ReadFails, EndScan, Drain, Receive, Cancel, vars, parserVars
  <2>3. SameBody
    <3>1. \A i \in 1..Len(got) : got'[i] = got[i]
      BY <1>0, <2>2 DEF Shapes
    <3>2. 1..taken \subseteq 1..Len(got)
      <4>1. taken <= Len(got) /\ Len(got) \in Nat
        BY <1>0 DEF MoreShapes, Shapes
      <4> QED
        BY <1>0, <4>1
    <3> QED
      BY <2>1, <3>1, <3>2 DEF SameBody
  <2>4. \A k, n : Pending(n, k)' <=> Pending(n, k)
    BY <2>1 DEF Pending, ownVars
  <2> QED
    BY <1>0, <2>1, <2>3, <2>4, DeltasStay DEF ownVars
<1>2. CASE Recv
  BY <1>2, DeltasReceived
<1>3. ASSUME NEW k \in DeltaKinds, NextPart(k), out' = Append(out, Event(k, taken)),
             UNCHANGED <<got, taken>>, \/ \E reason : Abort(reason)
                                       \/ todo' = todo \ {k} /\ UNCHANGED <<aborted, pc>>
      PROVE  DeltasFaithful'
  <2>1. \E m : Appends(m, k, taken)
    BY <1>0, <1>3, Appending DEF Kinds, DeltaKinds
  <2>2. ~aborted
    BY <1>3 DEF NextPart, StreamInv, AbortHasReason
  <2>3. \A j, n : Pending(n, j)' => Pending(n, j) /\ j # k
    BY <1>3 DEF Pending, Abort
  <2>4. ~aborted' => \A j, n : Pending(n, j) => Pending(n, j)' \/ j = k
    BY <1>3 DEF Pending, Abort
  <2> QED
    BY <1>0, <1>3, <2>1, <2>2, <2>3, <2>4, DeltaSent
<1>4. CASE Reason
  BY <1>3, <1>4 DEF Reason, Emit, DeltaKinds, parserVars
<1>5. CASE Text
  BY <1>3, <1>5 DEF Text, Emit, DeltaKinds, parserVars
<1> QED
  BY <1>1, <1>2, <1>4, <1>5, NoDeltaStep DEF Next, Goroutine

(* Every step keeps the further types and the bounds on what is read.      *)
LEMMA MoreShapesStep ==
    ASSUME StreamInv, MoreShapes, [Next]_vars
    PROVE  MoreShapes'
<1> USE DEF MoreShapes
<1>0. got \in Seq(Chunks) /\ Len(got) \in Nat /\ taken \in Nat /\ Budget \in Nat /\ MaxChunks \in Nat
  BY LimitsAssumption DEF StreamInv, Shapes
<1>1. CASE Scan
  <2>1. PICK chunk \in Chunks : got' = Append(got, chunk)
    BY <1>1 DEF Scan
  <2>2. Len(got') = Len(got) + 1 /\ \A i \in 1..Len(got) : got'[i] = got[i]
    BY <1>0, <2>1
  <2>3. pc = "parts" => got'[taken] = got[taken]
    BY <1>0, <2>2
  <2>4. /\ Len(got) < MaxChunks /\ parser = "read" /\ parser' = "send" /\ bodyEnd' = bodyEnd
        /\ UNCHANGED <<pc, taken, ownVars>>
    BY <1>1 DEF Scan
  <2> QED
    BY <1>0, <2>2, <2>3, <2>4 DEF ownVars
<1>2. CASE ServerEnds \/ ReadFails
  <2>1. bodyEnd' \in BodyEnds /\ parser' = "closed" /\ UNCHANGED <<got, pc, taken, ownVars>>
    BY <1>2 DEF ServerEnds, ReadFails, EndScan, BodyEnds
  <2> QED
    BY <2>1 DEF ownVars
<1>3. CASE Drain \/ Receive \/ Cancel \/ UNCHANGED vars
  <2>1. /\ UNCHANGED <<got, bodyEnd, pc, taken, ownVars>>
        /\ parser' = parser \/ (parser = "send" /\ parser' = "read")
    BY <1>3 DEF Drain, Receive, Cancel, vars, parserVars
  <2> QED
    BY <2>1 DEF ownVars
<1>4. CASE Recv
  <2>1. /\ parser = "send" /\ parser' = "read" /\ taken' = taken + 1
        /\ UNCHANGED <<got, bodyEnd, thought, acting>>
        /\ pc' = "parts" => todo' = got[Len(got)]
    BY <1>4 DEF Recv
  <2>2. taken + 1 = Len(got)
    BY <1>0, <1>4, <2>1 DEF Recv, StreamInv, ReadInStep, Attended, AbortHasReason, Running
  <2> QED
    BY <1>0, <2>1, <2>2
<1>5. ASSUME UNCHANGED <<parserVars, taken>>, thought' \in {thought, thought + 1},
             acting' \in {acting, TRUE},
             pc' = "parts" => pc = "parts" /\ todo' \subseteq todo
      PROVE  MoreShapes'
  <2>1. thought' \in Nat /\ acting' \in BOOLEAN
    <3>1. thought' \in Nat
      BY <1>5
    <3>2. acting' \in BOOLEAN
      BY <1>5, Zenon
    <3> QED
      BY <3>1, <3>2
  <2> QED
    BY <1>5, <2>1 DEF parserVars
<1>6. CASE Goroutine /\ ~Recv
  <2>1. CASE RecvClosed \/ StallFires \/ MergeCall \/ MergeNoise \/ MergeFails \/ ChunkDone
    BY <1>5, <2>1 DEF RecvClosed, StallFires, Abort, MergeCall, MergeNoise, MergeFails, ChunkDone, ownVars
  <2>2. CASE Reason
    BY <1>5, <2>2 DEF Reason, NextPart, Abort
  <2>3. CASE Text
    BY <1>5, <2>3 DEF Text, NextPart, Abort
  <2>4. CASE SendError \/ SendCalls \/ NoCalls \/ SendUsage \/ SendDone
    BY <1>5, <2>4 DEF SendError, AfterError, SendCalls, NoCalls, SendUsage, SendDone, Return, ownVars
  <2> QED
    BY <1>6, <2>1, <2>2, <2>3, <2>4 DEF Goroutine
<1> QED
  BY <1>1, <1>2, <1>3, <1>4, <1>6 DEF Next

-----------------------------------------------------------------------------
(* Counting the parts handled.                                             *)
LEMMA HandledFinite ==
    ASSUME taken \in Nat, NEW part
    PROVE  IsFiniteSet(Handled(part)) /\ Cardinality(Handled(part)) <= taken
<1>1. IsFiniteSet(1..taken) /\ Cardinality(1..taken) = taken
  BY FS_Interval
<1>2. Handled(part) \in SUBSET (1..taken)
  BY DEF Handled
<1> QED
  BY <1>1, <1>2, FS_Subset

(* A step that leaves what was received alone handles a part only by       *)
(* taking it off the pending ones.                                         *)
LEMMA HandledStays ==
    ASSUME SameBody, NEW part, \A k \in 1..taken : Pending(k, part)' <=> Pending(k, part)
    PROVE  Handled(part)' = Handled(part)
BY DEF Handled, SameBody

LEMMA HandledOne ==
    ASSUME Shapes, MoreShapes, SameBody, NEW part, NextPart(part), ~Pending(taken, part)'
    PROVE  /\ Cardinality(Handled(part))' = Cardinality(Handled(part)) + 1
           /\ Cardinality(Handled(part)) \in Nat
<1>1. taken \in Nat /\ pc = "parts" /\ part \in todo /\ taken \in 1..taken /\ part \in got[taken]
  BY DEF Shapes, MoreShapes, NextPart
<1>2. taken \notin Handled(part)
  BY <1>1 DEF Handled, Pending
<1>3. Handled(part)' = Handled(part) \cup {taken}
  BY <1>1 DEF Handled, Pending, SameBody
<1>4. IsFiniteSet(Handled(part))
  BY <1>1, HandledFinite
<1> QED
  BY <1>2, <1>3, <1>4, FS_AddElement, FS_CardinalityType

(* Receiving a chunk handles none of its parts yet, and a bad one has none *)
(* that count.                                                             *)
LEMMA HandledReceived ==
    ASSUME StreamInv, MoreShapes, Recv, NEW part \in {"reason", "text", "call"}
    PROVE  Handled(part)' = Handled(part)
<1>1. /\ pc = "recv" /\ taken \in Nat /\ got \in Seq(Chunks) /\ Len(got) \in Nat
      /\ taken' = taken + 1 /\ UNCHANGED got
  BY DEF Recv, StreamInv, Shapes
<1>2. taken + 1 = Len(got) /\ got[taken + 1] \in Chunks
  <2>1. taken = Len(got) - 1
    BY <1>1 DEF Recv, StreamInv, ReadInStep, Attended, AbortHasReason, Running
  <2>2. taken + 1 = Len(got) /\ taken + 1 \in 1..Len(got)
    BY <1>1, <2>1
  <2> QED
    BY <1>1, <2>2, ElementOfSeq
<1>3. part \in got[taken + 1] => Pending(taken, part)'
  <2>1. CASE "bad" \in got[taken + 1]
    BY <1>2, <2>1, ChunksAssumption
  <2>2. CASE "bad" \notin got[taken + 1]
    <3>1. todo' = got[taken + 1] /\ pc' = "parts"
      BY <1>2, <2>2 DEF Recv
    <3> QED
      BY <1>1, <3>1 DEF Pending
  <2> QED
    BY <2>1, <2>2
<1>4. \A k \in 1..taken : ~Pending(k, part) /\ ~Pending(k, part)'
  BY <1>1 DEF Pending
<1>5. 1..taken' = 1..taken \cup {taken + 1}
  BY <1>1
<1>6. taken + 1 \notin Handled(part)'
  BY <1>1, <1>3 DEF Handled, Pending
<1>7. Handled(part)' = {k \in 1..taken : part \in got[k]}
  BY <1>1, <1>4, <1>5, <1>6 DEF Handled
<1> QED
  BY <1>4, <1>7 DEF Handled

(* What the environment and the parser do leaves the handled parts alone.  *)
LEMMA HandledAside ==
    ASSUME StreamInv, MoreShapes, NEW part,
           Scan \/ ServerEnds \/ ReadFails \/ Drain \/ Receive \/ Cancel \/ UNCHANGED vars
    PROVE  Handled(part)' = Handled(part) /\ UNCHANGED <<pc, taken, ownVars, out>>
<1>1. UNCHANGED <<pc, taken, ownVars, out>>
  BY DEF Scan, ServerEnds, ReadFails, EndScan, Drain, Receive, Cancel, vars
<1>2. got' = got \/ \E chunk \in Chunks : got' = Append(got, chunk)
  BY DEF Scan, ServerEnds, ReadFails, EndScan, Drain, Receive, Cancel, vars, parserVars
<1>3. taken \in Nat /\ got \in Seq(Chunks) /\ Len(got) \in Nat /\ taken <= Len(got)
  BY DEF StreamInv, Shapes, MoreShapes
<1>4. \A i \in 1..Len(got) : got'[i] = got[i]
  BY <1>2, <1>3
<1>5. 1..taken \subseteq 1..Len(got)
  BY <1>3
<1>6. SameBody
  BY <1>1, <1>4, <1>5 DEF SameBody
<1> QED
  BY <1>1, <1>6, HandledStays DEF Pending, ownVars

(* What a step sends, and which step sends what is counted here.           *)
LEMMA OutStep ==
    ASSUME StreamInv, [Next]_vars
    PROVE  \/ out' = out
           \/ \E m, k, n : /\ Appends(m, k, n)
                           /\ k = "reason" => Reason
                           /\ k = "calls" => SendCalls /\ n = acc
<1>0. Shapes /\ taken \in Nat /\ acc \in Nat /\ finish \in FinishReasons
  BY DEF StreamInv, Shapes
<1>1. \/ out' = out
      \/ Reason /\ out' = Append(out, Event("reason", taken))
      \/ SendCalls /\ out' = Append(out, Event("calls", acc))
      \/ \E k \in {"text", "usage", "error"} \cup FinishReasons : out' = Append(out, Event(k, taken))
  BY <1>0 DEF Next, Goroutine, Scan, ServerEnds, ReadFails, EndScan, Drain, Receive, Cancel, vars, Recv, RecvClosed,
     StallFires, Reason, Text, MergeCall, MergeNoise, MergeFails, ChunkDone, SendError, SendCalls, NoCalls, SendUsage,
     SendDone, Emit
<1>2. {"text", "usage", "error"} \cup FinishReasons \subseteq Kinds \ {"reason", "calls"}
  BY DEF Kinds, FinishReasons, AbortReasons
<1>3. "reason" \in Kinds /\ "calls" \in Kinds
  BY DEF Kinds
<1>4. CASE Reason /\ out' = Append(out, Event("reason", taken))
  BY <1>0, <1>3, <1>4, Appending
<1>5. CASE SendCalls /\ out' = Append(out, Event("calls", acc))
  BY <1>0, <1>3, <1>5, Appending
<1>6. ASSUME NEW k \in Kinds \ {"reason", "calls"}, out' = Append(out, Event(k, taken))
      PROVE  \E m : Appends(m, k, taken)
  BY <1>0, <1>6, Appending
<1> QED
  BY <1>1, <1>2, <1>4, <1>5, <1>6

(* Once the parser has closed its channel, what was read and taken is      *)
(* settled.                                                                *)
LEMMA ClosedStays ==
    ASSUME [Next]_vars, parser = "closed"
    PROVE  UNCHANGED <<parser, bodyEnd, got, taken>>
BY DEF Next, Goroutine, Scan, ServerEnds, ReadFails, EndScan, Drain, Receive, Cancel, vars, Recv, RecvClosed,
       StallFires, Reason, Text, MergeCall, MergeNoise, MergeFails, ChunkDone, SendError, SendCalls, NoCalls, SendUsage,
       SendDone, parserVars

(* Every step keeps the accumulator and the calls handed out faithful.     *)
LEMMA CallsStep ==
    ASSUME StreamInv, MoreShapes, CallsFaithful, [Next]_vars
    PROVE  CallsFaithful'
<1> DEFINE Counted == ~aborted /\ pc \notin {"error", "closed"} => acc = Cardinality(Handled("call"))
<1>0. Shapes /\ taken \in Nat /\ Counted
  BY DEF StreamInv, Shapes, CallsFaithful
<1>1. Counted'
  <2>1. ASSUME acc' = acc, Handled("call")' = Handled("call"), aborted' \/ aborted' = aborted,
               pc \in {"error", "closed"} => pc' \in {"error", "closed"}
        PROVE  Counted'
    BY <1>0, <2>1
  <2>2. ASSUME SameBody, \A k \in 1..taken : Pending(k, "call")' <=> Pending(k, "call")
        PROVE  Handled("call")' = Handled("call")
    BY <2>2, HandledStays
  <2>3. CASE Scan \/ ServerEnds \/ ReadFails \/ Drain \/ Receive \/ Cancel \/ UNCHANGED vars
    BY <2>1, <2>3, HandledAside DEF ownVars
  <2>4. CASE Recv
    BY <2>1, <2>4, HandledReceived DEF Recv
  <2>5. CASE RecvClosed \/ ChunkDone \/ SendCalls \/ NoCalls \/ SendUsage
    <3>1. /\ SameBody /\ acc' = acc /\ aborted' = aborted /\ pc \notin {"error", "closed"}
          /\ \A k : Pending(k, "call")' <=> Pending(k, "call")
      BY <2>5 DEF RecvClosed, ChunkDone, SendCalls, NoCalls, SendUsage, SameBody, Pending, ownVars, parserVars
    <3> QED
      BY <2>1, <2>2, <3>1
  <2>6. CASE Reason \/ Text
    <3>1. CASE \E reason : Abort(reason)
      BY <3>1 DEF Abort
    <3>2. CASE /\ todo' = todo \ {"reason"} \/ todo' = todo \ {"text"}
               /\ UNCHANGED <<aborted, pc>>
      <4>1. SameBody /\ acc' = acc /\ pc = "parts"
        BY <2>6 DEF Reason, Text, NextPart, SameBody, parserVars
      <4>2. \A k : Pending(k, "call")' <=> Pending(k, "call")
        BY <3>2, <4>1 DEF Pending, SameBody
      <4> QED
        BY <2>1, <2>2, <3>2, <4>1, <4>2
    <3> QED
      BY <2>6, <3>1, <3>2 DEF Reason, Text
  <2>7. CASE MergeCall
    <3>1. /\ SameBody /\ acc' = acc + 1 /\ UNCHANGED <<aborted, pc>> /\ NextPart("call")
          /\ ~Pending(taken, "call")'
      BY <2>7 DEF MergeCall, SameBody, Pending, parserVars
    <3> QED
      BY <1>0, <3>1, HandledOne
  <2>8. CASE MergeNoise
    <3>1. /\ SameBody /\ acc' = acc /\ aborted' = aborted /\ pc' = pc
          /\ \A k : Pending(k, "call")' <=> Pending(k, "call")
      BY <2>8 DEF MergeNoise, SameBody, Pending, parserVars
    <3> QED
      BY <2>1, <2>2, <3>1
  <2>9. CASE StallFires \/ MergeFails \/ SendError \/ SendDone
    BY <2>9 DEF StallFires, Abort, MergeFails, SendError, AfterError, SendDone, Return
  <2> QED
    BY <2>3, <2>4, <2>5, <2>6, <2>7, <2>8, <2>9 DEF Next, Goroutine
<1>2. ASSUME NEW i \in DOMAIN out', out'[i].kind = "calls"
      PROVE  (/\ parser = "closed" /\ bodyEnd # "error" /\ taken = Len(got)
              /\ out[i].n = Cardinality({k \in DOMAIN got : "call" \in got[k]}))'
  <2>1. CASE i \in DOMAIN out /\ out'[i] = out[i]
    <3>1. /\ parser = "closed" /\ bodyEnd # "error" /\ taken = Len(got)
          /\ out[i].n = Cardinality({k \in DOMAIN got : "call" \in got[k]})
      BY <1>2, <2>1 DEF CallsFaithful
    <3> QED
      BY <2>1, <3>1, ClosedStays
  <2>2. CASE SendCalls /\ out'[i] = Event("calls", acc)
    <3>1. ~aborted /\ pc = "finalize" /\ UNCHANGED <<parser, bodyEnd, got, taken>>
      BY <2>2 DEF SendCalls, Finalizes, parserVars
    <3>2. parser = "closed" /\ bodyEnd # "error" /\ ~draining
      BY <3>1 DEF StreamInv, Attended, Running
    <3>3. taken = Len(got)
      BY <3>2 DEF StreamInv, ReadInStep
    <3>4. DOMAIN got = 1..taken
      BY <1>0, <3>3 DEF Shapes
    <3>5. Handled("call") = {k \in DOMAIN got : "call" \in got[k]}
      BY <3>1, <3>4 DEF Handled, Pending
    <3>6. out'[i].n = Cardinality({k \in DOMAIN got : "call" \in got[k]})
      BY <1>0, <2>2, <3>1, <3>5 DEF Event
    <3> QED
      BY <3>1, <3>2, <3>3, <3>6
  <2>3. CASE out' = out
    BY <1>2, <2>1, <2>3
  <2>4. ASSUME NEW m, NEW k, NEW n, Appends(m, k, n), k = "calls" => SendCalls /\ n = acc, i = m
        PROVE  SendCalls /\ out'[i] = Event("calls", acc)
    BY <1>2, <2>4 DEF Appends, Event
  <2>5. ASSUME NEW m, NEW k, NEW n, Appends(m, k, n), i # m
        PROVE  i \in DOMAIN out /\ out'[i] = out[i]
    BY <1>2, <2>5 DEF Appends
  <2> QED
    BY <2>1, <2>2, <2>3, <2>4, <2>5, OutStep
<1> QED
  BY <1>1, <1>2 DEF CallsFaithful

(* A step that neither thinks nor spends, and begins to act or ends the    *)
(* stream for another reason at most.                                      *)
LEMMA ThoughtsStay ==
    ASSUME ThoughtsCounted, UNCHANGED <<Cardinality(Thoughts), Cardinality(Handled("reason")), thought>>,
           ~acting' => ~acting /\ acc' = acc,
           \/ finish' = finish /\ (finish = "reasoning_budget" => acting' = acting)
           \/ /\ finish \notin AbortReasons /\ finish' # "reasoning_budget"
              /\ finish' = "repetition" => acting'
    PROVE  ThoughtsCounted'
BY DEF ThoughtsCounted, AbortReasons

(* A reasoning delta is sent and handled together; then it is counted, it  *)
(* is the one too many, or the loop guard trips before it is counted.      *)
LEMMA ThoughtSent ==
    ASSUME StreamInv, MoreShapes, ThoughtsCounted, Reason
    PROVE  ThoughtsCounted'
<1>0. /\ Shapes /\ taken \in Nat /\ thought \in Nat /\ acting \in BOOLEAN /\ Budget \in Nat
      /\ ~aborted /\ finish \notin AbortReasons
  BY LimitsAssumption DEF StreamInv, Shapes, MoreShapes, Reason, NextPart, AbortHasReason
<1>1. UNCHANGED <<got, taken, acting, acc>>
  BY DEF Reason, parserVars
<1>2. PICK m : Appends(m, "reason", taken)
  BY <1>0, Appending DEF Reason, Emit, Kinds
<1>3. Cardinality(Thoughts)' = Cardinality(Thoughts) + 1 /\ Cardinality(Thoughts) \in Nat
  <2>1. Thoughts' = Thoughts \cup {m} /\ m \notin Thoughts
    BY <1>2 DEF Appends, Thoughts, Event
  <2>2. Len(out) \in Nat /\ DOMAIN out = 1..Len(out)
    BY <1>0 DEF Shapes
  <2>3. IsFiniteSet(DOMAIN out) /\ Thoughts \in SUBSET (DOMAIN out)
    BY <2>2, FS_Interval DEF Thoughts
  <2>4. IsFiniteSet(Thoughts)
    BY <2>3, FS_Subset
  <2> QED
    BY <2>1, <2>4, FS_AddElement, FS_CardinalityType
<1>4. /\ Cardinality(Handled("reason"))' = Cardinality(Handled("reason")) + 1
      /\ Cardinality(Handled("reason")) \in Nat
  <2>1. NextPart("reason") /\ SameBody
    BY <1>1 DEF Reason, SameBody
  <2>2. ~Pending(taken, "reason")'
    BY DEF Reason, Abort, Pending
  <2> QED
    BY <1>0, <2>1, <2>2, HandledOne
<1>5. thought <= Budget
  BY <1>0 DEF ThoughtsCounted, AbortReasons
<1>6. \/ thought' = thought /\ finish' = "repetition"
      \/ thought' = (IF Budget > 0 /\ ~acting THEN thought + 1 ELSE thought)
         /\ finish' = (IF thought' > Budget THEN "reasoning_budget" ELSE finish)
  BY DEF Reason, Abort, OverBudget
<1>7. finish # "repetition" /\ finish # "reasoning_budget"
  BY <1>0 DEF AbortReasons
<1> DEFINE c == Cardinality(Thoughts)
           h == Cardinality(Handled("reason"))
<1>8. /\ c = h /\ (~acting => acc = 0)
      /\ ~acting /\ Budget > 0 => c = thought
  BY <1>0, <1>7 DEF ThoughtsCounted
<1>9. c' = c + 1 /\ h' = h + 1 /\ c \in Nat /\ h \in Nat
  BY <1>3, <1>4
<1> HIDE DEF c, h
<1>10. c' = h'
  BY <1>8, <1>9
<1>11. ~acting /\ Budget > 0 => c' = thought' + (IF finish' = "repetition" THEN 1 ELSE 0)
  BY <1>0, <1>6, <1>7, <1>8, <1>9
<1>12. thought' <= Budget \/ finish' = "reasoning_budget"
  BY <1>0, <1>5, <1>6
<1>13. finish' = "reasoning_budget" => ~acting /\ Budget > 0 /\ thought' = Budget + 1
  BY <1>0, <1>5, <1>6, <1>7
<1> QED
  BY <1>1, <1>8, <1>10, <1>11, <1>12, <1>13 DEF ThoughtsCounted, c, h

(* Every step keeps the reasoning counted.                                 *)
LEMMA ThoughtsStep ==
    ASSUME StreamInv, MoreShapes, ThoughtsCounted, [Next]_vars
    PROVE  ThoughtsCounted'
<1>0. Shapes /\ taken \in Nat /\ acting \in BOOLEAN
  BY DEF StreamInv, Shapes, MoreShapes
<1>1. CASE Reason
  BY <1>1, ThoughtSent
<1>2. CASE ~Reason
  <2>1. Thoughts' = Thoughts
    <3>1. ASSUME NEW m, NEW k, NEW n, Appends(m, k, n), k # "reason"
          PROVE  Thoughts' = Thoughts
      BY <3>1 DEF Thoughts, Appends, Event
    <3>2. CASE out' = out
      BY <3>2 DEF Thoughts
    <3> QED
      BY <1>2, <3>1, <3>2, OutStep
  <2>2. ASSUME SameBody, \A k \in 1..taken : Pending(k, "reason")' <=> Pending(k, "reason")
        PROVE  Handled("reason")' = Handled("reason")
    BY <2>2, HandledStays
  <2>3. CASE Scan \/ ServerEnds \/ ReadFails \/ Drain \/ Receive \/ Cancel \/ UNCHANGED vars
    <3>1. Handled("reason")' = Handled("reason") /\ UNCHANGED <<thought, acting, acc, finish>>
      BY <2>3, HandledAside DEF ownVars
    <3> QED
      BY <2>1, <3>1, ThoughtsStay
  <2>4. CASE Recv
    <3>1. Handled("reason")' = Handled("reason")
      BY <2>4, HandledReceived
    <3>2. /\ UNCHANGED <<thought, acting, acc>> /\ finish \notin AbortReasons
          /\ finish' \in {finish, "stop"}
      BY <2>4 DEF Recv, StreamInv, AbortHasReason
    <3> QED
      BY <2>1, <3>1, <3>2, ThoughtsStay
  <2>5. CASE Goroutine /\ ~Recv
    <3>1. SameBody /\ thought' = thought
      BY <1>2, <2>5 DEF Goroutine, RecvClosed, StallFires, Text, MergeCall, MergeNoise, MergeFails, ChunkDone, SendError,
         SendCalls, NoCalls, SendUsage, SendDone, SameBody, parserVars, ownVars
    <3>2. \A k : Pending(k, "reason")' <=> Pending(k, "reason")
      <4>1. CASE StallFires \/ Text \/ MergeCall \/ MergeNoise \/ MergeFails \/ ChunkDone
        BY <4>1 DEF StallFires, Text, MergeCall, MergeNoise, MergeFails, ChunkDone, NextPart, Before, Abort, Pending
      <4>2. CASE RecvClosed \/ SendError \/ SendCalls \/ NoCalls \/ SendUsage \/ SendDone
        BY <4>2 DEF RecvClosed, SendError, AfterError, SendCalls, NoCalls, SendUsage, SendDone, Return, Pending
      <4> QED
        BY <1>2, <2>5, <4>1, <4>2 DEF Goroutine
    <3>3. Handled("reason")' = Handled("reason")
      BY <2>2, <3>1, <3>2
    <3>4. ~acting' => ~acting /\ acc' = acc
      BY <1>2, <2>5 DEF Goroutine, RecvClosed, StallFires, Text, MergeCall, MergeNoise, MergeFails, ChunkDone, SendError,
         SendCalls, NoCalls, SendUsage, SendDone, ownVars
    <3>5. \/ finish' = finish /\ (finish = "reasoning_budget" => acting' = acting)
          \/ /\ finish \notin AbortReasons /\ finish' # "reasoning_budget"
             /\ finish' = "repetition" => acting'
      <4>1. CASE StallFires \/ Text \/ MergeCall \/ MergeNoise \/ MergeFails
        <5>1. finish \notin AbortReasons
          BY <4>1 DEF StallFires, Text, MergeCall, MergeNoise, MergeFails, NextPart, StreamInv, AbortHasReason
        <5>2. \/ finish' = finish
              \/ finish' = "stall"
              \/ finish' = "repetition" /\ acting'
          BY <4>1 DEF StallFires, Text, MergeCall, MergeNoise, MergeFails, Abort
        <5> QED
          BY <5>1, <5>2 DEF AbortReasons
      <4>2. CASE SendCalls
        <5>1. finish \notin AbortReasons /\ finish' \in {finish, "tool_calls"}
          BY <4>2 DEF SendCalls, Finalizes, StreamInv, AbortHasReason
        <5> QED
          BY <5>1 DEF AbortReasons
      <4>3. CASE RecvClosed \/ ChunkDone \/ SendError \/ NoCalls \/ SendUsage \/ SendDone
        BY <4>3 DEF RecvClosed, ChunkDone, SendError, NoCalls, SendUsage, SendDone, ownVars
      <4> QED
        BY <1>2, <2>5, <4>1, <4>2, <4>3 DEF Goroutine
    <3> QED
      BY <2>1, <3>1, <3>3, <3>4, <3>5, ThoughtsStay
  <2> QED
    BY <1>2, <2>3, <2>4, <2>5 DEF Next
<1> QED
  BY <1>1, <1>2

(* The stream starts faithful: nothing was read and nothing sent.          *)
LEMMA InitFaithfulInv == Init => FaithfulInv
<1> SUFFICES ASSUME Init PROVE FaithfulInv
  OBVIOUS
<1>0. got = <<>> /\ out = <<>> /\ Len(got) = 0 /\ DOMAIN out = {} /\ DOMAIN got = {} /\ 1..taken = {}
  BY DEF Init
<1>1. MoreShapes
  <2>1. /\ taken = 0 /\ thought = 0 /\ parser = "read" /\ bodyEnd = "open" /\ pc = "recv"
        /\ acting = FALSE /\ MaxChunks \in Nat
    BY LimitsAssumption DEF Init
  <2>2. taken <= Len(got) /\ Len(got) <= MaxChunks /\ thought \in Nat
    BY <1>0, <2>1
  <2> QED
    BY <2>1, <2>2 DEF MoreShapes, BodyEnds
<1>2. DeltasFaithful
  BY <1>0 DEF Init, DeltasFaithful, Delivered, Carried
<1>3. \A part : Handled(part) = {}
  BY <1>0 DEF Handled
<1>4. CallsFaithful
  BY <1>0, <1>3, FS_EmptySet DEF Init, CallsFaithful
<1>5. ThoughtsCounted
  <2>1. Thoughts = {} /\ Budget \in Nat
    BY <1>0, LimitsAssumption DEF Thoughts
  <2> QED
    BY <1>3, <2>1, FS_EmptySet DEF Init, ThoughtsCounted
<1> QED
  BY <1>1, <1>2, <1>4, <1>5 DEF FaithfulInv

(* StreamInv and FaithfulInv hold together in every state.                 *)
THEOREM StreamFaithful == Spec => [](StreamInv /\ FaithfulInv)
<1>1. StreamInv /\ FaithfulInv /\ [Next]_vars => FaithfulInv'
  BY MoreShapesStep, DeltasStep, CallsStep, ThoughtsStep DEF FaithfulInv
<1> QED
  BY InitStreamInv, InitFaithfulInv, StreamStep, <1>1, PTL DEF Spec

(* Every delta of the body is sent once, in the body's order, none skipped *)
(* while the stream goes on; tool calls are handed out only from a body    *)
(* that was read to its own end, and of every fragment it carried.         *)
THEOREM StreamEventsFaithful == Spec => []EventsFaithful
<1>1. StreamInv /\ FaithfulInv => EventsFaithful
  <2> SUFFICES ASSUME StreamInv, FaithfulInv PROVE EventsFaithful
    OBVIOUS
  <2>1. parser = "closed" /\ bodyEnd # "error" => bodyEnd \in {"done", "eof", "cut"}
    BY DEF FaithfulInv, MoreShapes, BodyEnds
  <2> QED
    BY <2>1 DEF FaithfulInv, DeltasFaithful, CallsFaithful, EventsFaithful, Pending
<1> QED
  BY StreamFaithful, <1>1, PTL

(* The reasoning budget ends a stream only before it acts, and after one   *)
(* delta too many; a model that does not act never thinks further.         *)
THEOREM StreamBudgetOnlyThinking == Spec => []BudgetOnlyThinking
<1>1. StreamInv /\ FaithfulInv => BudgetOnlyThinking
  <2> SUFFICES ASSUME StreamInv, FaithfulInv PROVE BudgetOnlyThinking
    OBVIOUS
  <2>0. /\ Len(got) \in Nat /\ taken \in Nat /\ taken <= Len(got) /\ Len(got) <= MaxChunks
        /\ thought \in Nat /\ Budget \in Nat /\ MaxChunks \in Nat
    BY LimitsAssumption DEF StreamInv, Shapes, FaithfulInv, MoreShapes
  <2> DEFINE c == Cardinality(Thoughts)
             h == Cardinality(Handled("reason"))
  <2>1. /\ c = h /\ (~acting => acc = 0)
        /\ ~acting /\ Budget > 0 => c = thought + (IF finish = "repetition" THEN 1 ELSE 0)
        /\ thought <= Budget \/ finish = "reasoning_budget"
        /\ finish = "reasoning_budget" => ~acting /\ Budget > 0 /\ thought = Budget + 1
    BY DEF FaithfulInv, ThoughtsCounted
  <2>2. h \in Nat /\ h <= taken
    BY <2>0, HandledFinite, FS_CardinalityType
  <2> HIDE DEF c, h
  <2>3. ~acting => c <= (IF Budget > 0 THEN Budget + 1 ELSE MaxChunks)
    BY <2>0, <2>1, <2>2
  <2>4. finish = "reasoning_budget" => ~acting /\ acc = 0 /\ h = Budget + 1
    BY <2>0, <2>1
  <2>5. finish = "reasoning_budget" => Handled("reason") = {k \in 1..taken : "reason" \in got[k]}
    BY DEF StreamInv, AbortHasReason, AbortReasons, Handled, Pending
  <2> QED
    BY <2>3, <2>4, <2>5 DEF BudgetOnlyThinking, Thoughts, c, h
<1> QED
  BY StreamFaithful, <1>1, PTL

=============================================================================
