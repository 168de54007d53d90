------------------------------ MODULE Requests ------------------------------
(***************************************************************************)
(* What the hosted vendors' clients make of a conversation: splitSystem    *)
(* and toAnthropicParams (src/llm/anthropic/anthropic.go), buildConverse-  *)
(* Input (src/llm/bedrock/bedrock.go) and buildVertexRequest (src/llm/     *)
(* vertex/vertex.go), with their options.  The conversation itself is kept *)
(* by an agent loop outside this library, modelled by what the message     *)
(* types and the translators' comments expect of it.  Every text, part,    *)
(* call and result is a piece of its own: <<message, place>>.  Tools count *)
(* only for the cache markers, and their schemas are well-formed.          *)
(***************************************************************************)
EXTENDS Messages, FiniteSetsExt

CONSTANTS
    Vendors,        \* of "anthropic", "bedrock", "vertex"
    Settings,       \* options of a client, see Request
    Drafts,         \* messages the loop may add; it numbers them and their calls
    MaxHistory,     \* bound: messages in a conversation
    NoRequest       \* the request could not be built

\* Only assistants call tools, and a result is never an audit row.
ASSUME DraftsAssumption ==
    \A d \in Drafts :
        /\ d.ignored \in BOOLEAN
        /\ d.parts \in Seq(Range(d.parts)) /\ d.calls \in Seq(Range(d.calls))
        /\ d.calls # <<>> => d.role = "assistant" /\ ~d.ignored
        /\ d.role = "tool" => ~d.ignored

\* The limit on an answer fits the 32 bits it is sent in.
MaxInt32 == 2147483647

ASSUME SettingsAssumption ==
    \A s \in Settings : s.budget \in Nat /\ s.maxTokens \in 0..MaxInt32

VARIABLE history    \* the conversation

-----------------------------------------------------------------------------
(* Mutants.                                                                *)

\* A system message between two tool results closes the round.
MutAddSystem(acc, m) ==
    [acc EXCEPT !.turns = IF acc.pending = <<>> THEN @
                          ELSE Append(@, [role |-> "user", blocks |-> acc.pending]),
                !.pending = <<>>,
                !.system = IF m.text = "" THEN @ ELSE Append(@, <<m.n, 0>>)]

\* Results that wait for the end of their round are forgotten.
MutClosed(acc) == [acc EXCEPT !.pending = <<>>]

\* Results are placed after the last turn only.
MutBeforeTurn(acc) == acc

\* The budget may reach the limit on the whole answer.
MutBudget(budget, maxTokens) ==
    LET least == IF budget < 1024 THEN 1024 ELSE budget
    IN  IF least > maxTokens THEN maxTokens - 1 ELSE least

-----------------------------------------------------------------------------
(* Parts and arguments each vendor takes; what it does not take makes the  *)
(* whole request an error.                                                 *)

IsMedia(p) == p.type \in {"image", "document"}

Takes(v, p) ==
    \/ p.type = "text"
    \/ v = "anthropic" /\ IsMedia(p) /\ (p.data # "" \/ p.uri # "")
    \/ v = "bedrock" /\ p.type = "image" /\ p.data # "" /\ p.mime = "png"
    \/ v = "vertex" /\ IsMedia(p) /\ IF p.data # "" THEN p.mime # "" ELSE p.uri # ""

\* Gemini's client passes over a part of a result that it does not know.
TakesInResult(v, p) ==
    \/ p.type = "text"
    \/ v # "vertex" /\ Takes(v, p) /\ p.type = "image" /\ p.data # ""
    \/ v = "vertex" /\ (IsMedia(p) => p.data # "" /\ p.mime # "")

TakesArguments(v, args) ==
    \/ args \in {"object", "empty"}
    \/ v # "vertex" /\ args = "array"
    \/ v = "anthropic" /\ args = "blank"

Translatable(v, m) ==
    CASE m.role = "system" -> TRUE
      [] m.role = "tool" -> \A i \in DOMAIN m.parts : TakesInResult(v, m.parts[i])
      [] m.role \in {"user", "assistant"} ->
            /\ \A i \in DOMAIN m.parts : Takes(v, m.parts[i])
            /\ \A i \in DOMAIN m.calls : TakesArguments(v, m.calls[i].args)
      [] OTHER -> v # "anthropic"

-----------------------------------------------------------------------------
(* Blocks of one message: its text, its parts, its calls.                  *)

TextPiece(m) == IF m.text = "" THEN <<>> ELSE <<<<m.n, 0>>>>
PartPieces(m) == [i \in DOMAIN m.parts |-> <<m.n, i>>]

\* What ties a result to its call: an id, or for Gemini the function's name.
CallRef(v, c) == IF v = "vertex" THEN c.name ELSE c.id

TurnBlocks(v, m) ==
    [i \in DOMAIN (TextPiece(m) \o PartPieces(m)) |->
        [kind |-> "content", piece |-> (TextPiece(m) \o PartPieces(m))[i]]]
    \o [i \in DOMAIN m.calls |->
        [kind |-> "call", ref |-> CallRef(v, m.calls[i]), piece |-> <<m.n, Len(m.parts) + i>>]]

\* The name under an id: that of the last call with it, in whatever turn.
AllCalls(msgs) == FlattenSeq([i \in DOMAIN msgs |-> msgs[i].calls])

NameOf(msgs, id) ==
    LET calls == AllCalls(msgs)
        named == {k \in DOMAIN calls : calls[k].id = id}
    IN  IF named = {} THEN "" ELSE calls[Max(named)].name

\* A result holds the text and the parts; Gemini's only media parts.
Media(m) ==
    FlattenSeq([i \in DOMAIN m.parts |-> IF IsMedia(m.parts[i]) THEN <<<<m.n, i>>>> ELSE <<>>])

ResultRef(v, msgs, m) == IF v = "vertex" THEN NameOf(msgs, m.answers) ELSE m.answers

ResultBlock(v, msgs, m) ==
    [kind |-> "result", ref |-> ResultRef(v, msgs, m),
     pieces |-> TextPiece(m) \o (IF v = "vertex" THEN Media(m) ELSE PartPieces(m))]

-----------------------------------------------------------------------------
(* The walk over the messages.  System text is hoisted.  Bedrock and Gemini*)
(* collect the results of a round until the next turn; the Messages API    *)
(* gets a user turn for each.                                              *)

Closed(acc) ==
    IF acc.pending = <<>> THEN acc
    ELSE [acc EXCEPT !.turns = Append(@, [role |-> "user", blocks |-> acc.pending]),
                     !.pending = <<>>]

AddSystem(acc, m) == [acc EXCEPT !.system = @ \o TextPiece(m)]

BeforeTurn(acc) == Closed(acc)

\* A turn without content is left out.
AddTurn(v, acc, m) ==
    IF TurnBlocks(v, m) = <<>> THEN BeforeTurn(acc)
    ELSE [BeforeTurn(acc) EXCEPT !.turns = Append(@, [role |-> m.role, blocks |-> TurnBlocks(v, m)])]

AddResult(v, acc, b) ==
    IF v = "anthropic" THEN [acc EXCEPT !.turns = Append(@, [role |-> "user", blocks |-> <<b>>])]
    ELSE [acc EXCEPT !.pending = Append(@, b)]

\* The text parts of a system message reach the Messages API alone.
SystemText(v, m) ==
    FlattenSeq([i \in DOMAIN m.parts |->
        IF v = "anthropic" /\ m.parts[i].type = "text" /\ m.parts[i].text # "" THEN <<<<m.n, i>>>>
        ELSE <<>>])

AddMessage(v, msgs, acc, m) ==
    CASE m.role = "system" -> [AddSystem(acc, m) EXCEPT !.system = @ \o SystemText(v, m)]
      [] m.role \in {"user", "assistant"} -> AddTurn(v, acc, m)
      [] m.role = "tool" -> AddResult(v, acc, ResultBlock(v, msgs, m))
      [] OTHER -> acc

\* The walk over some messages, with the names that calls have in msgs.
Walk(v, msgs, some) ==
    LET acc[i \in 0..Len(some)] ==
            IF i = 0 THEN [system |-> <<>>, turns |-> <<>>, pending |-> <<>>]
            ELSE AddMessage(v, msgs, acc[i - 1], some[i])
    IN  acc[Len(some)]

Translated(v, msgs) == Closed(Walk(v, msgs, msgs))

\* Cache markers: the end of the system text, of the tools, and of as many of
\* the last two turns as four markers allow.
MarkedEnds(r, tools) ==
    (IF r.system = <<>> THEN {} ELSE {<<"system", Len(r.system)>>})
    \cup (IF tools = 0 THEN {} ELSE {<<"tools", tools>>})
Marked(r, tools) ==
    LET ends == MarkedEnds(r, tools)
        left == IF 4 - Cardinality(ends) > 2 THEN 2 ELSE 4 - Cardinality(ends)
    IN  ends \cup {<<"turn", i>> : i \in {j \in DOMAIN r.turns : j > Len(r.turns) - left}}

\* The thinking budget is brought into the range the API accepts.
Budget(budget, maxTokens) ==
    LET least == IF budget < 1024 THEN 1024 ELSE budget
    IN  IF least >= maxTokens THEN maxTokens - 1 ELSE least

AnswerLimit(v, s) ==
    IF s.maxTokens = 0 THEN IF v = "anthropic" THEN 8192 ELSE 4096 ELSE s.maxTokens

Thinking(v, s) ==
    CASE ~s.thinking -> 0
      [] v = "vertex" -> s.budget
      [] OTHER -> Budget(IF s.budget = 0 THEN 4096 ELSE s.budget, AnswerLimit(v, s))

\* Guardrail and safety settings that cannot be resolved refuse the request.
Resolves(v, s) == v = "anthropic" \/ s.policy # "misspelt"

\* Claude's thinking excludes the caller's sampling parameters.
Request(v, s, h) ==
    LET msgs == FilterForRequest(h)
        r    == Translated(v, msgs)
    IN  IF ~Resolves(v, s) \/ \E i \in DOMAIN msgs : ~Translatable(v, msgs[i]) THEN NoRequest
        ELSE [system   |-> r.system,
              turns    |-> r.turns,
              marks    |-> IF s.caching /\ v # "vertex" THEN Marked(r, s.tools) ELSE {},
              thinking |-> Thinking(v, s),
              sampling |-> v = "vertex" \/ ~s.thinking]

-----------------------------------------------------------------------------
(* The agent loop: it answers the calls of a turn in their order before    *)
(* anybody else speaks, so that the k-th result is the k-th call's; system *)
(* reminders and audit rows may come at any time.  Some ids are the vendor's*)
(* own, others the library's and made anew in every turn (toolcall.go:82,  *)
(* inline_toolcall.go:129, vertex.go:181-186).                             *)

Results(h) == FlattenSeq([i \in DOMAIN h |-> IF h[i].role = "tool" THEN <<h[i].answers>> ELSE <<>>])
Unanswered(h) == SubSeq(AllCalls(h), Len(Results(h)) + 1, Len(AllCalls(h)))

Turns(h) == {i \in DOMAIN h : ~h[i].ignored /\ h[i].role \in {"user", "assistant", "tool"}}

\* The model has the word.
Sendable(h) ==
    /\ Unanswered(h) = <<>>
    /\ Turns(h) # {} /\ h[Max(Turns(h))].role # "assistant"

MayAdd(d) ==
    \/ d.ignored \/ d.role \notin {"user", "assistant", "tool"}
    \/ d.role = "user" /\ Unanswered(history) = <<>>
    \/ d.role = "assistant" /\ Sendable(history)
    \/ d.role = "tool" /\ Unanswered(history) # <<>>

Numbered(d, n, answers) ==
    [n |-> n, role |-> d.role, text |-> d.text, parts |-> d.parts, ignored |-> d.ignored,
     calls |-> [k \in DOMAIN d.calls |->
                   [id |-> <<IF d.calls[k].fresh THEN n ELSE 0, k>>, name |-> d.calls[k].name, args |-> d.calls[k].args]],
     answers |-> answers]

RequestsInit == history = <<>>

Say(d) ==
    /\ Len(history) < MaxHistory /\ MayAdd(d)
    /\ history' = Append(history, Numbered(d, Len(history) + 1,
                            IF d.role = "tool" THEN Head(Unanswered(history)).id ELSE <<>>))

RequestsNext == \E d \in Drafts : Say(d)

-----------------------------------------------------------------------------
\* The requests a vendor's client may send now.
Sent(v) ==
    IF Sendable(history) THEN {Request(v, s, history) : s \in Settings} \ {NoRequest} ELSE {}

CallBlocks(turn) ==
    FlattenSeq([k \in DOMAIN turn.blocks |->
        IF turn.blocks[k].kind = "call" THEN <<turn.blocks[k]>> ELSE <<>>])

\* The user turns that the results of some calls take, and the results in the
\* n turns behind the one at i.
ResultTurns(v, calls) == IF v = "anthropic" \/ calls = <<>> THEN Len(calls) ELSE 1
ResultsBehind(turns, i, n) == FlattenSeq([k \in 1..n |-> turns[i + k].blocks])

Matches(results, calls) ==
    \A k \in DOMAIN calls : results[k].kind = "result" /\ results[k].ref = calls[k].ref

Answered(v, turns, i) ==
    LET calls   == CallBlocks(turns[i])
        results == ResultsBehind(turns, i, ResultTurns(v, calls))
    IN  /\ i + ResultTurns(v, calls) <= Len(turns)
        /\ Len(results) = Len(calls) /\ Matches(results, calls)

AllAnswered(v, turns) == \A i \in DOMAIN turns : Answered(v, turns, i)

\* Ids that come again name the same function again.
NamesAgree(h) ==
    \A j, k \in DOMAIN AllCalls(h) :
        AllCalls(h)[j].id = AllCalls(h)[k].id => AllCalls(h)[j].name = AllCalls(h)[k].name

Resolvable(v, h) == v = "vertex" => NamesAgree(h)

(* Every turn that calls tools is followed at once by the results of just  *)
(* these calls, in their order and under their ids: in one user turn, or in*)
(* one each for the Messages API; whatever ids come again and whatever     *)
(* reminders and audit rows came in between (bedrock.go:332-334).  Gemini's*)
(* are under their names as far as an id has one (vertex.go:379-382).      *)
RoundsAnswered ==
    \A v \in Vendors : \A r \in Sent(v) : Resolvable(v, history) => AllAnswered(v, r.turns)

(* What vertex.go:379-382 says of Gemini's: "The function name is recovered*)
(* from the preceding assistant message's tool_calls by ToolCallID".       *)
NamesRecovered ==
    "vertex" \in Vendors => \A r \in Sent("vertex") : AllAnswered("vertex", r.turns)

(* A later request extends an earlier one: its turns begin with all earlier*)
(* turns, its system text with all earlier system text, and this is the    *)
(* same unless a system message has been added since.  With that and the   *)
(* tools before the turns, what a vendor has cached stays the beginning    *)
(* "on every turn that doesn't touch them" (anthropic.go:709-714, 739-745);*)
(* a reminder touches it.  An id that comes again under another name       *)
(* renames results that Gemini had before.                                 *)
PrefixStable ==
    \A v \in Vendors : \A r \in Sent(v) :
        \A k \in {j \in DOMAIN history : Sendable(SubSeq(history, 1, j))} :
            LET old == Translated(v, FilterForRequest(SubSeq(history, 1, k)))
            IN  /\ Resolvable(v, history) => IsPrefix(old.turns, r.turns)
                /\ IsPrefix(old.system, r.system)
                /\ (\A i \in (k + 1)..Len(history) : history[i].role # "system" \/ history[i].ignored)
                       => old.system = r.system

\* All of a message has a place in a vendor's form: a system message is plain
\* text, or has text parts besides for the Messages API; a result has media
\* parts only for Gemini; the role is one that all vendors know.
AllPieces(m) == TextPiece(m) \o [i \in 1..(Len(m.parts) + Len(m.calls)) |-> <<m.n, i>>]

Fitting(v, m) ==
    CASE m.role = "system" ->
            \A i \in DOMAIN m.parts : v = "anthropic" /\ m.parts[i].type = "text" /\ m.parts[i].text # ""
      [] m.role = "tool" -> v = "vertex" => \A i \in DOMAIN m.parts : IsMedia(m.parts[i])
      [] OTHER -> m.role \in {"user", "assistant"}

\* What the fitting messages say, of the system or of the others.
Expected(v, h, system) ==
    FlattenSeq([i \in DOMAIN h |->
        IF ~h[i].ignored /\ Fitting(v, h[i]) /\ (h[i].role = "system") = system
        THEN AllPieces(h[i]) ELSE <<>>])

\* The pieces of some messages, among others.
Of(pieces, ns) ==
    FlattenSeq([k \in DOMAIN pieces |-> IF pieces[k][1] \in ns THEN <<pieces[k]>> ELSE <<>>])

BlockPieces(bs) ==
    FlattenSeq([k \in DOMAIN bs |-> IF bs[k].kind = "result" THEN bs[k].pieces ELSE <<bs[k].piece>>])
Found(turns) == FlattenSeq([i \in DOMAIN turns |-> BlockPieces(turns[i].blocks)])

(* A request that is sent holds every piece of every message that fits the *)
(* vendor's form, once and in the conversation's order, the system text    *)
(* apart, whatever other messages are between; an audit row leaves nothing *)
(* in it (messages.go:49-53, 67-70).                                       *)
NothingDropped ==
    \A v \in Vendors : \A r \in Sent(v) :
        LET ns == {i \in DOMAIN history : history[i].ignored \/ Fitting(v, history[i])}
        IN  /\ Of(Found(r.turns), ns) = Expected(v, history, FALSE)
            /\ Of(r.system, ns) = Expected(v, history, TRUE)

(* What Anthropic's API refuses is not sent: more than four cache markers, *)
(* a thinking budget below 1024 or not below the limit on the answer (if   *)
(* that leaves a range), thinking with sampling parameters                 *)
(* (anthropic.go:337-352, 712-716, bedrock.go:482-494).                    *)
WithinLimits ==
    \A s \in Settings :
        Sendable(history) =>
            \A v \in Vendors \ {"vertex"} :
                LET r == Request(v, s, history)
                IN  r # NoRequest =>
                        /\ Cardinality(r.marks) <= 4
                        /\ s.thinking => ~r.sampling
                        /\ s.thinking /\ AnswerLimit(v, s) > 1024 =>
                               r.thinking \in 1024..(AnswerLimit(v, s) - 1)
=============================================================================
