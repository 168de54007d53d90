----------------------------- MODULE ChatStream -----------------------------
(***************************************************************************)
(* One streaming response of OpenAIClient.Chat (src/llm/openai.go, 456 to  *)
(* 642): the ParseSSE goroutine (src/llm/sse.go) that reads the body, the  *)
(* goroutine that turns chunks into events, the drainer it leaves behind   *)
(* when it stops early, and the consumer, which receives until the event   *)
(* channel is closed and may cancel the request (src/llm/stream.go).       *)
(*                                                                         *)
(* A chunk is the set of the parts it carries, handled in the code's       *)
(* order: "finish" (a finish reason), "reason", "text" (deltas), "call"    *)
(* (a fragment of a tool call), "noise" (one of a call that never gets a   *)
(* name) or "badcall" (one that Merge refuses), "usage".  The chunk {"bad"}*)
(* is not JSON.  What the texts say, and when they repeat enough for the   *)
(* loop guard, is left open.                                               *)
(***************************************************************************)
EXTENDS Naturals, SequencesExt

CONSTANTS
    Chunks,       \* the chunks a server may send
    MaxChunks,    \* bound: how many it sends
    EventCap,     \* capacity of eventCh (32 in the code)
    LoopGuard,    \* OpenAIClient.LoopGuard
    StallTimeout, \* whether OpenAIClient.StallTimeout is set
    Budget,       \* OpenAIClient.ReasoningBudget in reasoning deltas, 0 for none
    Framed        \* whether a body that is cut off can be told from a whole one

Parts == {"finish", "reason", "text", "call", "noise", "badcall", "usage", "bad"}

ASSUME ChunksAssumption ==
    /\ Chunks \subseteq SUBSET Parts
    /\ \A chunk \in Chunks : "bad" \in chunk => chunk = {"bad"}
ASSUME LimitsAssumption ==
    /\ MaxChunks \in Nat /\ EventCap \in Nat \ {0} /\ Budget \in Nat
    /\ LoopGuard \in BOOLEAN /\ StallTimeout \in BOOLEAN /\ Framed \in BOOLEAN

VARIABLES
    got,        \* the chunks ParseSSE has read so far
    parser,     \* ParseSSE: read, send (parked on sseDone) or closed
    bodyEnd,    \* how the body ended for it; only "error" is stored in sseErr
    bodyClosed, \* resp.Body is closed
    canceled,   \* the request's context is cancelled
    draining,   \* the goroutine of drainSSE runs
    pc,         \* the stream goroutine
    taken,      \* how many chunks it has received
    todo,       \* the parts of the current chunk not handled yet
    started,    \* a first chunk has arrived
    acting, thought, usage,         \* acting, reasoningRunes, lastUsage
    acc,        \* merged fragments of calls that have a name
    aborted, finish,                \* aborted, finishReason
    out,        \* every event sent on eventCh
    nread       \* how many of them the consumer has received

parserVars == <<got, parser, bodyEnd>>
ownVars == <<todo, started, acting, thought, acc, usage, aborted, finish>>
vars == <<parserVars, bodyClosed, canceled, draining, pc, taken, ownVars, out, nread>>

\* How a body ends: with [DONE]; without it; cut off; with a read error, or a
\* line longer than maxSSELineBytes.
BodyEnds == {"done", "eof", "cut", "error"}
AbortReasons == {"stall", "repetition", "reasoning_budget"}
PCs == {"recv", "parts", "error", "finalize", "usage", "done", "closed"}

Event(kind, n) == [kind |-> kind, n |-> n]
CanSend == Len(out) - nread < EventCap
Emit(kind, n) == CanSend /\ out' = Append(out, Event(kind, n))

Init ==
    /\ got = <<>> /\ parser = "read" /\ bodyEnd = "open"
    /\ bodyClosed = FALSE /\ canceled = FALSE /\ draining = FALSE
    /\ pc = "recv" /\ taken = 0 /\ todo = {} /\ started = FALSE
    /\ acting = FALSE /\ thought = 0 /\ acc = 0 /\ usage = FALSE
    /\ aborted = FALSE /\ finish = "none"
    /\ out = <<>> /\ nread = 0

-----------------------------------------------------------------------------
(* ParseSSE.  Lines already in the scanner's buffer are still delivered    *)
(* after the body is closed.                                               *)
Scan ==
    /\ parser = "read" /\ Len(got) < MaxChunks
    /\ \E chunk \in Chunks : got' = Append(got, chunk)
    /\ parser' = "send"
    /\ UNCHANGED <<bodyEnd, bodyClosed, canceled, draining, pc, taken, ownVars, out, nread>>

\* Comments and blank lines are skipped inside Scan; the body ends.
EndScan(how) ==
    /\ parser = "read"
    /\ how = "cut" => ~Framed
    /\ bodyEnd' = how
    /\ parser' = "closed"
    /\ UNCHANGED <<got, bodyClosed, canceled, draining, pc, taken, ownVars, out, nread>>

ServerEnds == \E how \in BodyEnds : EndScan(how)

\* Mutant of ReadFails: the request is not bound to the context.
MutReadFails == bodyClosed /\ EndScan("error")

\* A closed body or a cancelled request fails the pending Read.
ReadFails == (bodyClosed \/ canceled) /\ EndScan("error")

(* The goroutine of drainSSE takes what the parser is parked on.           *)
Drain ==
    /\ draining /\ parser = "send"
    /\ parser' = "read"
    /\ UNCHANGED <<got, bodyEnd, bodyClosed, canceled, draining, pc, taken, ownVars, out, nread>>

-----------------------------------------------------------------------------
(* Mutants.                                                                *)
MutStopReading == UNCHANGED <<draining, bodyClosed>>
MutOverBudget(n) == n > Budget + 1
MutRecvClosed ==
    /\ pc = "recv" /\ parser = "closed"
    /\ pc' = "finalize"
    /\ UNCHANGED <<parserVars, bodyClosed, canceled, draining, taken, ownVars, out, nread>>
MutFinalizes == acc > 0
MutStallArmed == StallTimeout /\ ~started
MutAfterError == "finalize"

-----------------------------------------------------------------------------
\* Return early, leaving the parser to the drainer.
StopReading == draining' = TRUE /\ UNCHANGED bodyClosed

\* abort: the first reason wins, and it is the only one, since the loop ends.
Abort(reason) ==
    /\ aborted' = TRUE /\ finish' = reason
    /\ draining' = TRUE /\ bodyClosed' = TRUE
    /\ todo' = {} /\ pc' = "finalize"

\* The parts of a chunk are handled in this order.
Before(part) ==
    CASE part = "reason" -> {}
      [] part = "text" -> {"reason"}
      [] part \in {"call", "noise", "badcall"} -> {"reason", "text"}

NextPart(part) == pc = "parts" /\ part \in todo /\ todo \cap Before(part) = {}

-----------------------------------------------------------------------------
(* The stream goroutine.                                                   *)
Recv ==
    /\ pc = "recv" /\ parser = "send"
    /\ parser' = "read"
    /\ taken' = taken + 1
    /\ started' = TRUE
    /\ LET chunk == got[Len(got)] IN
         IF "bad" \in chunk
           THEN /\ StopReading /\ pc' = "error" /\ UNCHANGED <<todo, finish>>
           ELSE /\ todo' = chunk /\ pc' = "parts"
                /\ finish' = IF "finish" \in chunk THEN "stop" ELSE finish
                /\ UNCHANGED <<bodyClosed, draining>>
    /\ UNCHANGED <<got, bodyEnd, canceled, acting, thought, acc, usage, aborted, out, nread>>

RecvClosed ==
    /\ pc = "recv" /\ parser = "closed"
    /\ pc' = IF bodyEnd = "error" THEN "error" ELSE "finalize"
    /\ UNCHANGED <<parserVars, bodyClosed, canceled, draining, taken, ownVars, out, nread>>

\* The watchdog is armed between chunks only, and may fire although one is there.
StallArmed == StallTimeout /\ started

StallFires ==
    /\ pc = "recv" /\ StallArmed
    /\ Abort("stall")
    /\ UNCHANGED <<parserVars, canceled, taken, started, acting, thought, acc, usage, out, nread>>

OverBudget(n) == n > Budget

\* A reasoning delta counts until the model acts; past the budget, or when the
\* loop guard trips (its check comes first), the stream is aborted.
Reason ==
    /\ NextPart("reason")
    /\ Emit("reason", taken)
    /\ \/ LoopGuard /\ Abort("repetition") /\ UNCHANGED thought
       \/ /\ thought' = IF Budget > 0 /\ ~acting THEN thought + 1 ELSE thought
          /\ IF OverBudget(thought')
               THEN Abort("reasoning_budget")
               ELSE /\ todo' = todo \ {"reason"}
                    /\ UNCHANGED <<aborted, finish, bodyClosed, draining, pc>>
    /\ UNCHANGED <<parserVars, canceled, taken, started, acting, acc, usage, nread>>

Text ==
    /\ NextPart("text")
    /\ Emit("text", taken)
    /\ acting' = TRUE
    /\ \/ LoopGuard /\ Abort("repetition")
       \/ /\ todo' = todo \ {"text"}
          /\ UNCHANGED <<aborted, finish, bodyClosed, draining, pc>>
    /\ UNCHANGED <<parserVars, canceled, taken, started, thought, acc, usage, nread>>

MergeCall ==
    /\ NextPart("call")
    /\ acting' = TRUE /\ acc' = acc + 1
    /\ todo' = todo \ {"call"}
    /\ UNCHANGED <<parserVars, bodyClosed, canceled, draining, pc, taken, started, thought,
                   usage, aborted, finish, out, nread>>

\* Merged too, but Finalize will drop a call without a name.
MergeNoise ==
    /\ NextPart("noise")
    /\ acting' = TRUE
    /\ todo' = todo \ {"noise"}
    /\ UNCHANGED <<parserVars, bodyClosed, canceled, draining, pc, taken, started, thought,
                   acc, usage, aborted, finish, out, nread>>

MergeFails ==
    /\ NextPart("badcall")
    /\ acting' = TRUE
    /\ StopReading /\ pc' = "error"
    /\ UNCHANGED <<parserVars, canceled, taken, todo, started, thought, acc, usage, aborted,
                   finish, out, nread>>

ChunkDone ==
    /\ pc = "parts" /\ todo \subseteq {"finish", "usage"}
    /\ usage' = (usage \/ "usage" \in todo)
    /\ todo' = {} /\ pc' = "recv"
    /\ UNCHANGED <<parserVars, bodyClosed, canceled, draining, taken, started, acting, thought,
                   acc, aborted, finish, out, nread>>

\* Returning runs the deferred Body.Close and close(eventCh).
Return == pc' = "closed" /\ bodyClosed' = TRUE

AfterError == "closed"

SendError ==
    /\ pc = "error"
    /\ Emit("error", taken)
    /\ pc' = AfterError /\ bodyClosed' = TRUE
    /\ UNCHANGED <<parserVars, canceled, draining, taken, ownVars, nread>>

\* The calls of an aborted stream are dropped, and those without a name.
Finalizes == ~aborted /\ acc > 0

SendCalls ==
    /\ pc = "finalize" /\ Finalizes
    /\ Emit("calls", acc)
    /\ finish' = IF finish = "none" THEN "tool_calls" ELSE finish
    /\ pc' = "usage"
    /\ UNCHANGED <<parserVars, bodyClosed, canceled, draining, taken, todo, started, acting,
                   thought, acc, usage, aborted, nread>>

NoCalls ==
    /\ pc = "finalize" /\ ~Finalizes
    /\ pc' = "usage"
    /\ UNCHANGED <<parserVars, bodyClosed, canceled, draining, taken, ownVars, out, nread>>

SendUsage ==
    /\ pc = "usage"
    /\ IF usage THEN Emit("usage", taken) ELSE UNCHANGED out
    /\ pc' = "done"
    /\ UNCHANGED <<parserVars, bodyClosed, canceled, draining, taken, ownVars, nread>>

SendDone ==
    /\ pc = "done"
    /\ Emit(finish, taken)
    /\ Return
    /\ UNCHANGED <<parserVars, canceled, draining, taken, ownVars, nread>>

-----------------------------------------------------------------------------
(* The consumer receives until the channel is closed: it reads the events, *)
(* or, having left its loop, drains them.                                  *)
Receive ==
    /\ nread < Len(out)
    /\ nread' = nread + 1
    /\ UNCHANGED <<parserVars, bodyClosed, canceled, draining, pc, taken, ownVars, out>>

Cancel ==
    /\ ~canceled
    /\ canceled' = TRUE
    /\ UNCHANGED <<parserVars, bodyClosed, draining, pc, taken, ownVars, out, nread>>

Goroutine ==
    \/ Recv \/ RecvClosed \/ StallFires \/ Reason \/ Text
    \/ MergeCall \/ MergeNoise \/ MergeFails \/ ChunkDone
    \/ SendError \/ SendCalls \/ NoCalls \/ SendUsage \/ SendDone

Next == Scan \/ ServerEnds \/ ReadFails \/ Drain \/ Goroutine \/ Receive \/ Cancel

Spec == Init /\ [][Next]_vars

(* Goroutines run on; the server may hang for ever at any point.           *)
Fairness == WF_vars(ReadFails) /\ WF_vars(Drain) /\ WF_vars(Goroutine) /\ WF_vars(Receive)

FairSpec == Spec /\ Fairness

-----------------------------------------------------------------------------
FinishReasons == {"none", "stop", "tool_calls"} \cup AbortReasons
Kinds == {"reason", "text", "calls", "usage", "error"} \cup FinishReasons

LastKind == Last(out).kind

\* The deltas in the chunks received so far, the order in which a body carries
\* them, and those that are on the channel.
DeltaKinds == {"reason", "text"}
Carried == {e \in [kind : DeltaKinds, n : 1..taken] : e.kind \in got[e.n]}
Earlier(d, e) == d.n < e.n \/ (d.n = e.n /\ d.kind = "reason" /\ e.kind = "text")
Delivered == {i \in DOMAIN out : out[i].kind \in DeltaKinds}
OnChannel(e) == \E i \in Delivered : out[i] = e

(* Every delta is sent once, in the order of the body, and none is skipped *)
(* while the stream goes on (openai.go:551-588).  Tool calls are handed out*)
(* only when the body ended by itself, and made of every fragment that it  *)
(* carried (of a call with a name): never from a stream that was aborted,  *)
(* failed or still had chunks to come (openai.go:609-623).                 *)
EventsFaithful ==
    /\ \A i \in Delivered : out[i] \in Carried
    /\ \A i, j \in Delivered : i < j => Earlier(out[i], out[j])
    /\ \A i \in Delivered : \A e \in Carried : Earlier(e, out[i]) => OnChannel(e)
    /\ pc # "parts" /\ ~aborted => \A e \in Carried : OnChannel(e)
    /\ \A i \in DOMAIN out : out[i].kind = "calls" =>
           /\ bodyEnd \in {"done", "eof", "cut"} /\ taken = Len(got)
           /\ out[i].n = Cardinality({k \in DOMAIN got : "call" \in got[k]})

\* The channel as the contract of ChatClient sees it.
KindOf(e) ==
    CASE e.kind \in {"reason", "text"} -> "delta"
      [] e.kind \in FinishReasons -> "done"
      [] OTHER -> e.kind
Channel == [i \in DOMAIN out |-> KindOf(out[i])]
Protocol == INSTANCE EventProtocol WITH sent <- Channel, closed <- (pc = "closed")

(* The channel keeps the contract of ChatClient.Chat (openai.go:112-138):  *)
(* whatever aborts or breaks the stream, a single usage report at most,    *)
(* after all content, and nothing after the event that ends it.            *)
KeepsProtocol == Protocol!Spec

(* A stream that ends with EventDone and no abort reason was read to its   *)
(* end without a read error (sse.go:21-29); an aborted one says why; and   *)
(* one that ends otherwise ends with EventError.  Nothing follows either.  *)
(* A body that a proxy closes before [DONE] without a read error (bodyEnd  *)
(* "cut") ends cleanly too, against README.md:31-32: "a cut connection is  *)
(* an error, never a silent clean finish".                                 *)
EndTellsTruth ==
    /\ pc = "closed" =>
         \/ LastKind = "error" /\ ~aborted
         \/ LastKind \in AbortReasons /\ aborted
         \/ /\ LastKind \in FinishReasons \ AbortReasons /\ ~aborted
            /\ parser = "closed" /\ bodyEnd # "error" /\ taken = Len(got)
    /\ \A i \in DOMAIN out : out[i].kind \in FinishReasons \cup {"error"} =>
         i = Len(out) /\ pc = "closed"

(* The reasoning budget ends only a stream that has not begun to act, and  *)
(* after exactly one delta too many (openai.go:514-519, 562-570).          *)
BudgetOnlyThinking ==
    /\ ~acting => Cardinality({i \in DOMAIN out : out[i].kind = "reason"})
                   <= IF Budget > 0 THEN Budget + 1 ELSE MaxChunks
    /\ finish = "reasoning_budget" =>
         /\ ~acting /\ acc = 0
         /\ Cardinality({k \in 1..taken : "reason" \in got[k]}) = Budget + 1

(* Whatever ends the stream, ParseSSE does not stay parked on its send     *)
(* (openai.go:475-480), however many chunks it still holds.                *)
ParserExits == pc = "closed" ~> parser = "closed"

(* A cancelled request ends, even if the server hangs (stream.go:21-23).   *)
CancelEnds == canceled ~> pc = "closed"

(* With a stall timeout, a stream that has started ends, even if the       *)
(* server hangs without a word (openai.go:503-511).                        *)
StallEnds == StallTimeout => (started ~> pc = "closed")
=============================================================================
