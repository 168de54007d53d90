---------------------------- MODULE EventProtocol ---------------------------
(***************************************************************************)
(* What a consumer may rely on in the channel that ChatClient.Chat returns *)
(* (src/llm/openai.go, 112 to 138): content and tool calls, then at most   *)
(* one usage report, then one event that ends the stream, EventDone or     *)
(* EventError, after which the channel is closed.  An error may also end   *)
(* it at any earlier moment.                                               *)
(***************************************************************************)
EXTENDS Sequences

VARIABLES sent, closed

Contents == {"delta", "calls"}
Endings == {"done", "error"}

Reported == \E i \in DOMAIN sent : sent[i] = "usage"

Init == sent = <<>> /\ closed = FALSE

Content ==
    /\ ~closed /\ ~Reported
    /\ \E kind \in Contents : sent' = Append(sent, kind)
    /\ UNCHANGED closed

Usage ==
    /\ ~closed /\ ~Reported
    /\ sent' = Append(sent, "usage")
    /\ UNCHANGED closed

End ==
    /\ ~closed
    /\ \E kind \in Endings : sent' = Append(sent, kind)
    /\ closed' = TRUE

\* No part of the contract: one more report.
Repeats ==
    /\ ~closed /\ Reported
    /\ sent' = Append(sent, "usage")
    /\ UNCHANGED closed

Next == Content \/ Usage \/ End

Spec == Init /\ [][Next]_<<sent, closed>>
=============================================================================
