------------------------------ MODULE Adapters ------------------------------
(***************************************************************************)
(* The adapters for hosted models: the Messages API client and its Bedrock *)
(* and Vertex variants (src/llm/anthropic), Converse (src/llm/bedrock) and *)
(* Gemini (src/llm/vertex).  Each turns the items of one vendor's stream   *)
(* into the events of ChatClient.Chat, keeps the tool calls in progress,   *)
(* and moves the ConnTracker that all calls of a client share.  The vendor *)
(* is fixed in the initial state; each element of Chats is one Chat call.  *)
(* A send that must wait for room on the event channel is a step not yet   *)
(* taken.  The streams themselves belong to the vendors' SDKs: external.   *)
(***************************************************************************)
EXTENDS Naturals, FiniteSets, SequencesExt

CONSTANTS
    Chats,      \* the Chat calls on one client
    Vendors,    \* the adapters of this instance
    Blocks,     \* tool-use blocks (anthropic, hosted and bedrock); 0 is none of them
    MaxItems    \* bound: how many items the stream of each call delivers

ASSUME AdaptersAssumption ==
    /\ Vendors \subseteq {"anthropic", "hosted", "bedrock", "vertex"}
    /\ MaxItems \in [Chats -> Nat]
    /\ 0 \notin Blocks

VARIABLES
    vendor,     \* anthropic: Client; hosted: its BedrockClient and VertexClient
    state,      \* ConnTracker.state
    probing,    \* ConnTracker.probing
    probe,      \* where the probe goroutine started by each call is
    pc,         \* where each call is
    wire,       \* what its stream has delivered
    tools,      \* the tool block in progress at each index: what it came from
    ncalls,     \* toolCallIdx (vertex)
    latest,     \* lastUsage (vertex), 0 before sawUsage
    finish,     \* finishReason (vertex)
    blocked,    \* blockReason was seen (vertex)
    sent        \* the events sent

callVars == <<pc, wire, tools, ncalls, latest, finish, blocked, sent>>
trackVars == <<state, probing, probe>>
vars == <<vendor, trackVars, callVars>>

-----------------------------------------------------------------------------
(* Items of the wire.  "other" is everything without an effect: pings, the *)
(* start and stop of text blocks, empty deltas, message_start and _stop.   *)

Item(k, b) == [kind |-> k, block |-> b]

BlockItems == {Item(k, b) : k \in {"start", "fragment", "stop"}, b \in Blocks}
PlainItems == {Item(k, 0) : k \in {"text", "thought", "report", "other"}}
\* Finish reasons: a plain stop, the token limit, and one vertexBlockMessage knows.
VertexItems == {Item(k, 0) : k \in {"call", "prompt-blocked", "stop", "length", "safety"}}
Finishes == {"stop", "length", "safety"}

\* A chunk of Gemini is taken apart: one item for each part or field of it.
Items == PlainItems \cup (IF vendor = "vertex" THEN VertexItems ELSE BlockItems)

\* How the stream ends: with an error or without.
Broken == Item("broken", 0)
EOF == Item("eof", 0)

MessagesAPI == vendor \in {"anthropic", "hosted"}

Seen(c, k) == \E i \in DOMAIN wire[c] : wire[c][i].kind = k

\* What the vendors' servers do: fragments and stops belong to a block that is
\* open, and the block APIs report usage behind the content, Converse once, the
\* Messages API with every message_delta.
Delivers(c, x) ==
    /\ x.kind = "start" => x.block \notin DOMAIN tools[c]
    /\ x.kind \in {"fragment", "stop"} => x.block \in DOMAIN tools[c]
    /\ vendor # "vertex" => /\ x.kind = "report" => DOMAIN tools[c] = {}
                            /\ Seen(c, "report") => \/ x.kind = "other"
                                                    \/ x.kind = "report" /\ MessagesAPI

Kinds == {"text", "thought", "calls", "usage", "done", "length", "error"}
Events == [kind : Kinds, from : SUBSET Nat, idx : Nat]

\* An event, with the wire positions it was made from and, for a call, the
\* index in the id that synthVertexToolCallID makes for it.
Event(k, f, i) == [kind |-> k, from |-> f, idx |-> i]

Send(c, e) == sent' = [sent EXCEPT ![c] = Append(@, e)]

PCs == {"new", "reading", "mark", "claim", "error", "clean", "done", "closed", "returned"}
Probing == {"none", "tick", "ping", "set", "exit"}
Sleeping == {"none", "sleep"}

-----------------------------------------------------------------------------
(* Mutants.                                                                *)

\* Claim that does not look at the answer of ClaimProbe.
MutClaims == TRUE

\* FunctionCall forgets toolCallIdx++.
MutNextIndex(c) == ncalls[c]

\* The return behind the error event is missing.
MutAfterError == "done"

-----------------------------------------------------------------------------
Init ==
    /\ vendor \in Vendors
    /\ state = "connected"
    /\ probing = FALSE
    /\ probe = [c \in Chats |-> "none"]
    /\ pc = [c \in Chats |-> "new"]
    /\ wire = [c \in Chats |-> <<>>]
    /\ tools = [c \in Chats |-> <<>>]
    /\ ncalls = [c \in Chats |-> 0]
    /\ latest = [c \in Chats |-> 0]
    /\ finish = [c \in Chats |-> "none"]
    /\ blocked = [c \in Chats |-> FALSE]
    /\ sent = [c \in Chats |-> <<>>]

gotVars == <<wire, tools, ncalls, latest, finish, blocked, sent>>

\* Chat returns an error before any request: a message that cannot be
\* translated, no model, bad guardrails or safety settings, no SDK client.
Refuse(c) ==
    /\ pc[c] = "new"
    /\ pc' = [pc EXCEPT ![c] = "returned"]
    /\ UNCHANGED <<vendor, trackVars, gotVars>>

\* The stream is opened and its goroutine starts.  Converse has been answered
\* then; the Messages API reports a failed request as the stream's error, and
\* Gemini has not been asked yet although the state is set.
Open(c) ==
    /\ pc[c] = "new"
    /\ state' = IF MessagesAPI THEN state ELSE "connected"
    /\ pc' = [pc EXCEPT ![c] = "reading"]
    /\ UNCHANGED <<vendor, probing, probe, gotVars>>

\* ConverseStream returns an error, of the transport class or not.
OpenFails(c) ==
    /\ pc[c] = "new" /\ vendor = "bedrock"
    /\ \E next \in {"mark", "returned"} : pc' = [pc EXCEPT ![c] = next]
    /\ UNCHANGED <<vendor, trackVars, gotVars>>

-----------------------------------------------------------------------------
\* The loop takes the next item of the stream.
Take(c, x) ==
    /\ pc[c] = "reading" /\ Len(wire[c]) < MaxItems[c]
    /\ x \in Items /\ Delivers(c, x)
    /\ wire' = [wire EXCEPT ![c] = Append(@, x)]
    /\ UNCHANGED <<vendor, trackVars, pc>>

Position(c) == Len(wire[c]) + 1

BlockStart(c, b) ==
    /\ Take(c, Item("start", b))
    /\ tools' = [tools EXCEPT ![c] = [d \in DOMAIN @ \cup {b} |->
                                          IF d = b THEN {Position(c)} ELSE @[d]]]
    /\ UNCHANGED <<ncalls, latest, finish, blocked, sent>>

BlockFragment(c, b) ==
    /\ Take(c, Item("fragment", b))
    /\ tools' = [tools EXCEPT ![c][b] = @ \cup {Position(c)}]
    /\ UNCHANGED <<ncalls, latest, finish, blocked, sent>>

BlockStop(c, b) ==
    /\ Take(c, Item("stop", b))
    /\ Send(c, Event("calls", tools[c][b], 0))
    /\ tools' = [tools EXCEPT ![c] = [d \in DOMAIN @ \ {b} |-> @[d]]]
    /\ UNCHANGED <<ncalls, latest, finish, blocked>>

Delta(c) ==
    /\ \E k \in {"text", "thought"} :
         /\ Take(c, Item(k, 0))
         /\ Send(c, Event(k, {Position(c)}, 0))
    /\ UNCHANGED <<tools, ncalls, latest, finish, blocked>>

\* Every message_delta and Metadata is passed on; of Gemini's running counts only
\* the latest is kept.
Report(c) ==
    /\ Take(c, Item("report", 0))
    /\ IF vendor = "vertex"
         THEN latest' = [latest EXCEPT ![c] = Position(c)] /\ UNCHANGED sent
         ELSE Send(c, Event("usage", {Position(c)}, 0)) /\ UNCHANGED latest
    /\ UNCHANGED <<tools, ncalls, finish, blocked>>

NextIndex(c) == ncalls[c] + 1

\* Arguments decoded from JSON can always be encoded again, so the error branch
\* of the encoding is never taken.
FunctionCall(c) ==
    /\ Take(c, Item("call", 0))
    /\ Send(c, Event("calls", {Position(c)}, ncalls[c]))
    /\ ncalls' = [ncalls EXCEPT ![c] = NextIndex(c)]
    /\ UNCHANGED <<tools, latest, finish, blocked>>

FinishReason(c) ==
    /\ \E k \in Finishes : /\ Take(c, Item(k, 0))
                           /\ finish' = [finish EXCEPT ![c] = k]
    /\ UNCHANGED <<tools, ncalls, latest, blocked, sent>>

PromptBlocked(c) ==
    /\ Take(c, Item("prompt-blocked", 0))
    /\ blocked' = [blocked EXCEPT ![c] = TRUE]
    /\ UNCHANGED <<tools, ncalls, latest, finish, sent>>

Other(c) == Take(c, Item("other", 0)) /\ UNCHANGED <<tools, ncalls, latest, finish, blocked, sent>>

-----------------------------------------------------------------------------
\* The stream ends with an error.  Of an error of the transport class the
\* tracker hears, except from Converse, where the stream was already open.
StreamFails(c) ==
    /\ pc[c] = "reading"
    /\ \E next \in IF vendor = "bedrock" THEN {"error"} ELSE {"mark", "error"} :
         pc' = [pc EXCEPT ![c] = next]
    /\ wire' = [wire EXCEPT ![c] = Append(@, Broken)]
    /\ UNCHANGED <<vendor, trackVars, tools, ncalls, latest, finish, blocked, sent>>

StreamEnds(c) ==
    /\ pc[c] = "reading"
    /\ pc' = [pc EXCEPT ![c] = IF vendor = "bedrock" THEN "done" ELSE "clean"]
    /\ wire' = [wire EXCEPT ![c] = Append(@, EOF)]
    /\ UNCHANGED <<vendor, trackVars, tools, ncalls, latest, finish, blocked, sent>>

\* The Messages API adapters set the state, Gemini's reports its usage.
SetConnected(c) ==
    /\ pc[c] = "clean" /\ MessagesAPI
    /\ state' = "connected"
    /\ pc' = [pc EXCEPT ![c] = "done"]
    /\ UNCHANGED <<vendor, probing, probe, gotVars>>

SendUsage(c) ==
    /\ pc[c] = "clean" /\ vendor = "vertex"
    /\ IF latest[c] = 0 THEN UNCHANGED sent ELSE Send(c, Event("usage", {latest[c]}, 0))
    /\ pc' = [pc EXCEPT ![c] = "done"]
    /\ UNCHANGED <<vendor, trackVars, wire, tools, ncalls, latest, finish, blocked>>

\* vertexBlockMessage and mapVertexFinishReason; neither flag is ever set by
\* the other vendors.
Verdict(c) ==
    IF blocked[c] \/ finish[c] = "safety" THEN "error"
    ELSE IF finish[c] = "length" THEN "length" ELSE "done"

SendVerdict(c) ==
    /\ pc[c] = "done"
    /\ Send(c, Event(Verdict(c), {}, 0))
    /\ pc' = [pc EXCEPT ![c] = "closed"]
    /\ UNCHANGED <<vendor, trackVars, wire, tools, ncalls, latest, finish, blocked>>

\* Behind the error event the goroutine returns and the channel is closed.
AfterError == "closed"

SendError(c) ==
    /\ pc[c] = "error"
    /\ Send(c, Event("error", {}, 0))
    /\ pc' = [pc EXCEPT ![c] = AfterError]
    /\ UNCHANGED <<vendor, trackVars, wire, tools, ncalls, latest, finish, blocked>>

-----------------------------------------------------------------------------
\* Set(Disconnected), and on the edge startRecoveryProbe.  Converse's error is
\* then returned by Chat, the others' is sent.
AfterMark == IF vendor = "bedrock" THEN "returned" ELSE "error"

Mark(c) ==
    /\ pc[c] = "mark"
    /\ state' = "disconnected"
    /\ pc' = [pc EXCEPT ![c] = IF state = "disconnected" THEN AfterMark ELSE "claim"]
    /\ UNCHANGED <<vendor, probing, probe, gotVars>>

\* Only the Messages API itself has a ping; the other probes sleep once.
FirstPlace == IF vendor = "anthropic" THEN "tick" ELSE "sleep"

Claims == ~probing

Claim(c) ==
    /\ pc[c] = "claim"
    /\ probing' = TRUE
    /\ probe' = [probe EXCEPT ![c] = IF Claims THEN FirstPlace ELSE @]
    /\ pc' = [pc EXCEPT ![c] = AfterMark]
    /\ UNCHANGED <<vendor, state, gotVars>>

Tick(c) ==
    /\ probe[c] = "tick"
    /\ probe' = [probe EXCEPT ![c] = IF state # "disconnected" THEN "exit" ELSE "ping"]
    /\ UNCHANGED <<vendor, state, probing, callVars>>

\* Models.Get fails with a transport error, or the endpoint is reachable.
Ping(c) ==
    /\ probe[c] = "ping"
    /\ \E next \in {"tick", "set"} : probe' = [probe EXCEPT ![c] = next]
    /\ UNCHANGED <<vendor, state, probing, callVars>>

ProbeSets(c) ==
    /\ probe[c] = "set"
    /\ state' = "connected"
    /\ probe' = [probe EXCEPT ![c] = "exit"]
    /\ UNCHANGED <<vendor, probing, callVars>>

ReleaseProbe(c) ==
    /\ probe[c] \in {"exit", "sleep"}
    /\ probing' = FALSE
    /\ probe' = [probe EXCEPT ![c] = "none"]
    /\ UNCHANGED <<vendor, state, callVars>>

Next ==
    \E c \in Chats :
        \/ Refuse(c) \/ Open(c) \/ OpenFails(c)
        \/ \E b \in Blocks : BlockStart(c, b) \/ BlockFragment(c, b) \/ BlockStop(c, b)
        \/ Delta(c) \/ Report(c) \/ FunctionCall(c) \/ FinishReason(c) \/ PromptBlocked(c)
        \/ Other(c)
        \/ StreamFails(c) \/ StreamEnds(c) \/ SetConnected(c) \/ SendUsage(c)
        \/ SendVerdict(c) \/ SendError(c)
        \/ Mark(c) \/ Claim(c) \/ Tick(c) \/ Ping(c) \/ ProbeSets(c) \/ ReleaseProbe(c)

Spec == Init /\ [][Next]_vars

-----------------------------------------------------------------------------
TypeOK ==
    /\ vendor \in Vendors
    /\ state \in {"connected", "disconnected"}
    /\ probing \in BOOLEAN
    /\ probe \in [Chats -> IF vendor = "anthropic" THEN Probing ELSE Sleeping]
    /\ pc \in [Chats -> PCs]
    /\ ncalls \in [Chats -> Nat] /\ latest \in [Chats -> Nat]
    /\ finish \in [Chats -> Finishes \cup {"none"}]
    /\ blocked \in [Chats -> BOOLEAN]
    /\ wire \in [Chats -> Seq(Items \cup {Broken, EOF})]
    /\ sent \in [Chats -> Seq(Events)]
    /\ DOMAIN tools = Chats
    /\ \A c \in Chats : /\ DOMAIN tools[c] \subseteq Blocks
                        /\ \A b \in DOMAIN tools[c] : tools[c][b] \subseteq Nat

(* One probe per client, the stubs included, and the claim flag says so    *)
(* (anthropic.go:268-277, bedrock.go:305-323, vertex.go:352-368), however  *)
(* many calls lose the endpoint at once.                                   *)
OneProbe ==
    /\ \A c, d \in Chats : probe[c] # "none" /\ probe[d] # "none" => c = d
    /\ probing <=> \E c \in Chats : probe[c] # "none"

\* The channel of a call as its consumer sees it.
KindOf(e) ==
    CASE e.kind \in {"text", "thought"} -> "delta"
      [] e.kind \in {"done", "length"} -> "done"
      [] OTHER -> e.kind

Channel(c) == [i \in DOMAIN sent[c] |-> KindOf(sent[c][i])]

Contract(c) == INSTANCE EventProtocol WITH sent <- Channel(c), closed <- (pc[c] = "closed")

(* Every adapter keeps the contract of ChatClient.Chat (openai.go:112-138):*)
(* content, usage behind it, one ending, nothing behind that.  At most one *)
(* usage report is part of it too, and Converse's and Gemini's adapters    *)
(* keep to that; those of the Messages API may repeat theirs.              *)
KeepsContract ==
    /\ \A c \in Chats : Contract(c)!Init
    /\ [][\A c \in Chats :
            \/ Contract(c)!Next
            \/ MessagesAPI /\ Contract(c)!Repeats
            \/ UNCHANGED <<Channel(c), pc[c] = "closed">>]_vars

(* openai.go:119-123: "Adapters emit at most one per Chat() call", of the  *)
(* usage event, whatever the vendor's stream delivers.                     *)
UsageOnce ==
    \A c \in Chats : Cardinality({i \in DOMAIN sent[c] : sent[c][i].kind = "usage"}) <= 1

\* What a consumer must see of the stream w of vendor v, read off the wire:
\* which items it hears of, which of them one is, and as which event.
Speaks(v, k) == \/ k \in {"text", "thought", "call"}
                \/ k \in {"stop", "report"} /\ v # "vertex"
Spoken(v, w) == {i \in DOMAIN w : Speaks(v, w[i].kind)}
Rank(v, w, i) == Cardinality({j \in Spoken(v, w) : j <= i})

Opened(w, i) ==
    Max({j \in 1..(i - 1) : w[j] = Item("start", w[i].block)})

Translation(w, i) ==
    LET k == w[i].kind
    IN  CASE k = "stop" ->
               Event("calls", {j \in 1..(i - 1) : Opened(w, i) <= j /\ w[j].block = w[i].block}, 0)
          [] k = "call" ->
               Event("calls", {i}, Cardinality({j \in 1..(i - 1) : w[j].kind = "call"}))
          [] k = "report" -> Event("usage", {i}, 0)
          [] OTHER -> Event(k, {i}, 0)

Latest(w, kinds) == Max({i \in DOMAIN w : w[i].kind \in kinds})
Has(w, kinds) == \E i \in DOMAIN w : w[i].kind \in kinds

\* The end: an error, or Gemini's last usage report and the verdict on the turn.
Outcome(v, w) ==
    IF Has(w, {"prompt-blocked"}) THEN "error"
    ELSE IF v = "vertex" /\ Has(w, Finishes)
         THEN [stop |-> "done", length |-> "length", safety |-> "error"][w[Latest(w, Finishes)].kind]
         ELSE "done"

Usage(v, w) ==
    IF v = "vertex" /\ Has(w, {"report"})
    THEN <<Event("usage", {Latest(w, {"report"})}, 0)>> ELSE <<>>

Ending(v, w) ==
    IF Has(w, {"broken"}) THEN <<Event("error", {}, 0)>>
    ELSE Append(Usage(v, w), Event(Outcome(v, w), {}, 0))

\* The events s are those of the wire w, and then the events e.
Tells(v, s, w, e) ==
    /\ Len(s) = Cardinality(Spoken(v, w)) + Len(e)
    /\ \A i \in Spoken(v, w) : s[Rank(v, w, i)] = Translation(w, i)
    /\ \A k \in DOMAIN e : s[Cardinality(Spoken(v, w)) + k] = e[k]

(* However blocks interleave and wherever the stream breaks, the consumer  *)
(* gets every delta and every complete call once and in order, a call with *)
(* all its fragments and no other's, parallel calls with distinct ids, one *)
(* final usage, and an error instead of an empty answer if the turn was    *)
(* blocked (anthropic.go:155-206, bedrock.go:201-257, vertex.go:173-193,   *)
(* 280-287).                                                               *)
Translated ==
    \A c \in Chats :
        /\ pc[c] = "reading" => Tells(vendor, sent[c], wire[c], <<>>)
        /\ pc[c] = "closed" => Tells(vendor, sent[c], wire[c], Ending(vendor, wire[c]))
=============================================================================
