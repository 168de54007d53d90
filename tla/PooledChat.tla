----------------------------- MODULE PooledChat -----------------------------
(***************************************************************************)
(* PooledClient.Chat (src/llm/pooled.go) over Pool, with its forwarder     *)
(* goroutine, and the consumer loop of llm.Stream (src/llm/stream.go).     *)
(* Each element of Calls is one Stream loop: one Chat request, one Acquire,*)
(* one inner event stream, one forwarder.  The inner ChatClient is         *)
(* external: it sends at most MaxEvents events on a channel of InnerCap    *)
(* places (32 in the code) and closes it, early if its context ends; while *)
(* it is blocked in a send it does nothing else.                           *)
(***************************************************************************)
EXTENDS Pool

CONSTANTS
    MaxEvents,  \* bound: events per inner stream
    InnerCap,   \* capacity of the inner client's event channel
    OutCap      \* capacity of the forwarder's channel

ASSUME CapAssumption == InnerCap \in Nat \ {0} /\ OutCap \in Nat \ {0}
ASSUME EventsAssumption == MaxEvents \in Nat

VARIABLES
    inner,      \* the inner client's event channel: none, open or closed
    sent,       \* how many events the inner client has produced
    offer,      \* the inner client is blocked sending event sent[c]
    innerBuf,   \* events in the inner channel
    fwd,        \* where the forwarder goroutine is
    hand,       \* the event the forwarder has received and not yet sent
    out,        \* events in the forwarder's channel
    outClosed,  \* the forwarder's channel is closed
    cons,       \* where the Stream loop is
    got         \* the events the loop body has seen

chatVars == <<inner, sent, offer, innerBuf, fwd, hand, out, outClosed, cons, got>>
allVars == <<vars, chatVars>>

Consumers == {"calling", "ranging", "draining", "ended", "failed"}
Forwarders == {"none", "recv", "send", "release", "close", "exited"}

-----------------------------------------------------------------------------
(* Mutants.                                                                *)

\* Forward's defers in the other order: out is closed before the release.
MutCloseFirst(c) ==
    /\ fwd[c] = "recv"
    /\ innerBuf[c] = <<>> /\ inner[c] = "closed"
    /\ outClosed' = [outClosed EXCEPT ![c] = TRUE]
    /\ fwd' = [fwd EXCEPT ![c] = "release"]
    /\ UNCHANGED <<inner, sent, offer, innerBuf, hand, out, cons, got>>
    /\ UNCHANGED vars

\* ChatOpens releases the slot as soon as the request is admitted.
MutOpensReleased(c) ==
    /\ cons[c] = "calling" /\ inner[c] = "none"
    /\ inner' = [inner EXCEPT ![c] = "open"]
    /\ fwd' = [fwd EXCEPT ![c] = "recv"]
    /\ cons' = [cons EXCEPT ![c] = "ranging"]
    /\ CallRelease(c)
    /\ UNCHANGED <<sent, offer, innerBuf, hand, out, outClosed, got>>

\* Break without the cancel() of stream.go:38.
MutBreakUncancelled(c) ==
    /\ cons[c] = "ranging" /\ out[c] # <<>>
    /\ out' = [out EXCEPT ![c] = Tail(@)]
    /\ got' = [got EXCEPT ![c] = Append(@, Head(out[c]))]
    /\ cons' = [cons EXCEPT ![c] = "draining"]
    /\ UNCHANGED <<inner, sent, offer, innerBuf, fwd, hand, outClosed>>
    /\ UNCHANGED vars

\* ForwardReleases calls Pool.release itself, around the closure's sync.Once.
MutReleaseRaw(c) ==
    /\ fwd[c] = "release"
    /\ pc' = [pc EXCEPT ![c] = "release"]
    /\ fwd' = [fwd EXCEPT ![c] = "close"]
    /\ UNCHANGED <<inflight, queue, done, ch, to, uses, cancelled>>
    /\ UNCHANGED <<inner, sent, offer, innerBuf, hand, out, outClosed, cons, got>>

\* ForwardEnds as soon as the context is done, with events still buffered.
MutForwardCut(c) ==
    /\ fwd[c] = "recv"
    /\ inner[c] = "closed" \/ c \in cancelled
    /\ fwd' = [fwd EXCEPT ![c] = "release"]
    /\ UNCHANGED <<inner, sent, offer, innerBuf, hand, out, outClosed, cons, got>>
    /\ UNCHANGED vars

-----------------------------------------------------------------------------
ChatInit ==
    /\ Init
    /\ inner = [c \in Calls |-> "none"]
    /\ sent = [c \in Calls |-> 0]
    /\ offer = [c \in Calls |-> FALSE]
    /\ innerBuf = [c \in Calls |-> <<>>]
    /\ fwd = [c \in Calls |-> "none"]
    /\ hand = [c \in Calls |-> 0]
    /\ out = [c \in Calls |-> <<>>]
    /\ outClosed = [c \in Calls |-> FALSE]
    /\ cons = [c \in Calls |-> "calling"]
    /\ got = [c \in Calls |-> <<>>]

\* Chat calls Acquire, and Acquire and release() run, as Pool says.
PoolStep(c) ==
    /\ AcquireFast(c) \/ AcquirePark(c) \/ Step(c) \/ Cancel(c)
    /\ UNCHANGED chatVars

\* With the slot, the inner Chat fails: the slot is released ...
ChatFails(c) ==
    /\ cons[c] = "calling" /\ inner[c] = "none"
    /\ pc[c] = "held"
    /\ CallRelease(c)
    /\ UNCHANGED chatVars

\* ... and Chat returns the error, as it does when Acquire fails; Stream
\* cancels its context and yields the error.
StreamFails(c) ==
    /\ cons[c] = "calling" /\ inner[c] = "none"
    /\ pc[c] = "returned"
    /\ cons' = [cons EXCEPT ![c] = "failed"]
    /\ cancelled' = cancelled \cup {c}
    /\ UNCHANGED <<inflight, queue, done, ch, pc, to, uses>>
    /\ UNCHANGED <<inner, sent, offer, innerBuf, fwd, hand, out, outClosed, got>>

\* With the slot, the inner Chat succeeds: the forwarder starts.
ChatOpens(c) ==
    /\ cons[c] = "calling" /\ inner[c] = "none"
    /\ pc[c] = "held"
    /\ inner' = [inner EXCEPT ![c] = "open"]
    /\ fwd' = [fwd EXCEPT ![c] = "recv"]
    /\ cons' = [cons EXCEPT ![c] = "ranging"]
    /\ UNCHANGED <<sent, offer, innerBuf, hand, out, outClosed, got>>
    /\ UNCHANGED vars

\* The inner client produces an event, gets it into its channel, closes.
InnerProduces(c) ==
    /\ inner[c] = "open" /\ ~offer[c]
    /\ sent[c] < MaxEvents
    /\ sent' = [sent EXCEPT ![c] = @ + 1]
    /\ offer' = [offer EXCEPT ![c] = TRUE]
    /\ UNCHANGED <<inner, innerBuf, fwd, hand, out, outClosed, cons, got>>
    /\ UNCHANGED vars

InnerPuts(c) ==
    /\ offer[c]
    /\ Len(innerBuf[c]) < InnerCap
    /\ innerBuf' = [innerBuf EXCEPT ![c] = Append(@, sent[c])]
    /\ offer' = [offer EXCEPT ![c] = FALSE]
    /\ UNCHANGED <<inner, sent, fwd, hand, out, outClosed, cons, got>>
    /\ UNCHANGED vars

InnerCloses(c) ==
    /\ inner[c] = "open" /\ ~offer[c]
    /\ inner' = [inner EXCEPT ![c] = "closed"]
    /\ UNCHANGED <<sent, offer, innerBuf, fwd, hand, out, outClosed, cons, got>>
    /\ UNCHANGED vars

\* for ev := range ch { out <- ev }
ForwardRecv(c) ==
    /\ fwd[c] = "recv" /\ innerBuf[c] # <<>>
    /\ hand' = [hand EXCEPT ![c] = Head(innerBuf[c])]
    /\ innerBuf' = [innerBuf EXCEPT ![c] = Tail(@)]
    /\ fwd' = [fwd EXCEPT ![c] = "send"]
    /\ UNCHANGED <<inner, sent, offer, out, outClosed, cons, got>>
    /\ UNCHANGED vars

ForwardSend(c) ==
    /\ fwd[c] = "send" /\ Len(out[c]) < OutCap
    /\ out' = [out EXCEPT ![c] = Append(@, hand[c])]
    /\ hand' = [hand EXCEPT ![c] = 0]
    /\ fwd' = [fwd EXCEPT ![c] = "recv"]
    /\ UNCHANGED <<inner, sent, offer, innerBuf, outClosed, cons, got>>
    /\ UNCHANGED vars

\* The range loop ends once the inner channel is closed and drained.
ForwardEnds(c) ==
    /\ fwd[c] = "recv"
    /\ innerBuf[c] = <<>> /\ inner[c] = "closed"
    /\ fwd' = [fwd EXCEPT ![c] = "release"]
    /\ UNCHANGED <<inner, sent, offer, innerBuf, hand, out, outClosed, cons, got>>
    /\ UNCHANGED vars

\* The defers, last first: release(), and when it has returned, close(out).
ForwardReleases(c) ==
    /\ fwd[c] = "release"
    /\ CallRelease(c)
    /\ fwd' = [fwd EXCEPT ![c] = "close"]
    /\ UNCHANGED <<inner, sent, offer, innerBuf, hand, out, outClosed, cons, got>>

ForwardCloses(c) ==
    /\ fwd[c] = "close"
    /\ pc[c] = "returned"
    /\ outClosed' = [outClosed EXCEPT ![c] = TRUE]
    /\ fwd' = [fwd EXCEPT ![c] = "exited"]
    /\ UNCHANGED <<inner, sent, offer, innerBuf, hand, out, cons, got>>
    /\ UNCHANGED vars

\* The range loop of Stream takes an event and its body goes on ...
Consume(c) ==
    /\ cons[c] = "ranging" /\ out[c] # <<>>
    /\ out' = [out EXCEPT ![c] = Tail(@)]
    /\ got' = [got EXCEPT ![c] = Append(@, Head(out[c]))]
    /\ UNCHANGED <<inner, sent, offer, innerBuf, fwd, hand, outClosed, cons>>
    /\ UNCHANGED vars

\* ... or breaks: the context is cancelled and a goroutine drains the rest.
Break(c) ==
    /\ cons[c] = "ranging" /\ out[c] # <<>>
    /\ out' = [out EXCEPT ![c] = Tail(@)]
    /\ got' = [got EXCEPT ![c] = Append(@, Head(out[c]))]
    /\ cons' = [cons EXCEPT ![c] = "draining"]
    /\ cancelled' = cancelled \cup {c}
    /\ UNCHANGED <<inflight, queue, done, ch, pc, to, uses>>
    /\ UNCHANGED <<inner, sent, offer, innerBuf, fwd, hand, outClosed>>

Drain(c) ==
    /\ cons[c] = "draining" /\ out[c] # <<>>
    /\ out' = [out EXCEPT ![c] = Tail(@)]
    /\ UNCHANGED <<inner, sent, offer, innerBuf, fwd, hand, outClosed, cons, got>>
    /\ UNCHANGED vars

\* The channel is closed and empty: the loop, or the drainer, ends.
ConsumerEnds(c) ==
    /\ cons[c] \in {"ranging", "draining"}
    /\ out[c] = <<>> /\ outClosed[c]
    /\ cons' = [cons EXCEPT ![c] = "ended"]
    /\ cancelled' = cancelled \cup {c}
    /\ UNCHANGED <<inflight, queue, done, ch, pc, to, uses>>
    /\ UNCHANGED <<inner, sent, offer, innerBuf, fwd, hand, out, outClosed, got>>

Forwarder(c) ==
    ForwardRecv(c) \/ ForwardSend(c) \/ ForwardEnds(c) \/ ForwardReleases(c) \/ ForwardCloses(c)

InnerChatReturns(c) == ChatFails(c) \/ ChatOpens(c)

ChatNext ==
    \E c \in Calls :
        \/ PoolStep(c) \/ InnerChatReturns(c) \/ StreamFails(c) \/ Forwarder(c)
        \/ InnerProduces(c) \/ InnerPuts(c) \/ InnerCloses(c)
        \/ Consume(c) \/ Break(c) \/ Drain(c) \/ ConsumerEnds(c)

ChatSpec == ChatInit /\ [][ChatNext]_allVars

-----------------------------------------------------------------------------
\* Goroutines that can run do.  The inner client may hang for ever, in its Chat
\* (a POST has no timeout, openai.go:252-257) as in its stream, but not once its
\* context is cancelled; a loop body may be slow, a drainer is not.
ChatFairness ==
    \A c \in Calls :
        /\ WF_allVars(Scheduled(c) /\ UNCHANGED chatVars)
        /\ WF_allVars(c \in cancelled /\ InnerChatReturns(c))
        /\ WF_allVars(StreamFails(c))
        /\ WF_allVars(Forwarder(c))
        /\ WF_allVars(InnerPuts(c))
        /\ WF_allVars(c \in cancelled /\ InnerCloses(c))
        /\ WF_allVars(Drain(c))
        /\ WF_allVars(ConsumerEnds(c))

FairChatSpec == ChatSpec /\ ChatFairness

-----------------------------------------------------------------------------
PlacesOK ==
    /\ inner \in [Calls -> {"none", "open", "closed"}]
    /\ fwd \in [Calls -> Forwarders]
    /\ outClosed \in [Calls -> BOOLEAN]
    /\ cons \in [Calls -> Consumers]

(* pooled.go:7-9: a Chat call holds one slot from the moment it is admitted*)
(* until its event stream closes, so no more streams are open than slots.  *)
StreamHoldsSlot ==
    /\ \A c \in Calls : inner[c] = "open" => Owns(c)
    /\ Cardinality({c \in Calls : inner[c] = "open"}) <= Capacity

(* The consumer that sees the stream end finds the slot already given back *)
(* (defer order, pooled.go:35-36), and so does the caller of a Chat that   *)
(* failed (pooled.go:24-32): its next Chat cannot wait for itself.         *)
EndedHoldsNothing == \A c \in Calls : outClosed[c] \/ cons[c] = "failed" => ~Owns(c)

(* pooled.go:16 "forwards events unmodified": what the loop saw is the     *)
(* start of what was produced, in order; as long as it ranges the rest is  *)
(* on its way, and once the channel is closed, in it: a loop that does not *)
(* break sees every event before its range ends.                           *)
InFlight(c) ==
    out[c] \o (IF fwd[c] = "send" THEN <<hand[c]>> ELSE <<>>)
           \o innerBuf[c] \o (IF offer[c] THEN <<sent[c]>> ELSE <<>>)

NothingLost ==
    \A c \in Calls :
        LET produced == [i \in 1..sent[c] |-> i]
        IN  /\ IsPrefix(got[c], produced)
            /\ cons[c] = "ranging" => got[c] \o InFlight(c) = produced
            /\ cons[c] = "ranging" /\ outClosed[c] => got[c] \o out[c] = produced

(* What ties the forwarder, the inner stream and the pool together.        *)
SlotFollowsStream ==
    \A c \in Calls :
        /\ inner[c] = "none" <=> fwd[c] = "none"
        /\ inner[c] = "open" => fwd[c] \in {"recv", "send"}
        /\ fwd[c] \in {"recv", "send", "release"} => pc[c] = "held"
        /\ fwd[c] = "exited" => pc[c] = "returned"
        /\ outClosed[c] => fwd[c] = "exited"
        /\ cons[c] = "failed" => fwd[c] = "none" /\ pc[c] = "returned"
        /\ pc[c] \in {"new", "select", "held"} => uses[c] = 0

(* Everything PooledClient does to the pool is something Pool allows: the  *)
(* properties of Pool hold of the composition.                             *)
UsesPool == Init /\ [][Next]_vars

(* A loop that breaks gives its slot back, whatever the inner client does  *)
(* until it is cancelled (stream.go:21-23).                                *)
BreakFreesSlot ==
    \A c \in Calls : cons[c] = "draining" ~> cons[c] = "ended" /\ ~Owns(c)

\* Two things that the endpoint and the callers may fail to do: a request is
\* answered, if only with an error, and no loop ranges for ever.
RequestsAnswered == \A c \in Calls : WF_allVars(InnerChatReturns(c))
LoopsEnd == \A c \in Calls : cons[c] = "ranging" ~> cons[c] # "ranging"

(* If requests are answered and loops end, every Chat parked for a slot is *)
(* served or gives up, even in a pool whose configured size is below one   *)
(* (pool.go:58-60, 76-79); if its own context ends it returns although the *)
(* endpoint hangs in another call's POST or stream (pool.go:101-102).      *)
NextServed ==
    /\ RequestsAnswered /\ LoopsEnd => \A c \in Calls : pc[c] = "select" ~> Returns(c)
    /\ \A c \in Calls : c \in cancelled /\ pc[c] = "select" ~> Returns(c)
=============================================================================
