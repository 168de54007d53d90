----------------------------- MODULE InlineCalls -----------------------------
(***************************************************************************)
(* ParseInlineToolCalls (src/llm/inline_toolcall.go): tool calls that a    *)
(* chat template leaks into the text.  A text is a sequence of tokens: the *)
(* two tags of a <tool_call> block, a whole <function=...> element, a JSON *)
(* object that names a call, and anything else.  The regular expressions   *)
(* are lazy: a block reaches from an opening tag to the next closing one.  *)
(***************************************************************************)
EXTENDS SequencesExt, FiniteSetsExt, Integers

CONSTANT MaxTokens      \* bound: tokens of a text

ASSUME TokensAssumption == MaxTokens \in Nat

VARIABLES
    content,        \* the assistant's text
    recovered       \* what was made of it, once: kept tokens and calls, by place

inlineVars == <<content, recovered>>

Tokens == {"<tool_call>", "</tool_call>", "function", "json", "prose"}

-----------------------------------------------------------------------------
(* Mutants.                                                                *)

\* Greedy expressions: a block reaches to the last closing tag.
MutBlocks(s) ==
    LET from == {i \in DOMAIN s : s[i] = "<tool_call>"}
        to   == {i \in DOMAIN s : s[i] = "</tool_call>" /\ \E a \in from : a < i}
    IN  IF to = {} THEN <<>> ELSE <<Min(from)..Max(to)>>

-----------------------------------------------------------------------------
\* FindAllStringSubmatch: blocks as the places from tag to tag, left to right.
ScanToken(s, acc, i) ==
    CASE acc.from = 0 /\ s[i] = "<tool_call>"  -> [acc EXCEPT !.from = i]
      [] acc.from > 0 /\ s[i] = "</tool_call>" -> [from |-> 0, found |-> Append(acc.found, acc.from..i)]
      [] OTHER -> acc

Blocks(s) ==
    LET scan[i \in 0..Len(s)] ==
            IF i = 0 THEN [from |-> 0, found |-> <<>>] ELSE ScanToken(s, scan[i - 1], i)
    IN  scan[Len(s)].found

\* parseOneInline: the first function element in a block, or a body that is one
\* JSON object.
Parsed(s, b) ==
    LET functions == {i \in b : s[i] = "function"}
        bodies    == {i \in b : s[i] = "json" /\ b = (i - 1)..(i + 1)}
        elements  == IF functions # {} THEN functions ELSE bodies
    IN  IF elements = {} THEN <<>> ELSE <<Min(elements)>>

Wrapped(s) == FlattenSeq([k \in DOMAIN Blocks(s) |-> Parsed(s, Blocks(s)[k])])

Bare(s)       == FlattenSeq([i \in DOMAIN s |-> IF s[i] = "function" THEN <<i>> ELSE <<>>])
Without(s, S) == FlattenSeq([i \in DOMAIN s |-> IF i \in S THEN <<>> ELSE <<i>>])

\* Blocks first, all of them removed as soon as one holds a call; without any,
\* bare function elements.
ParseInlineToolCalls(s) ==
    IF Wrapped(s) # <<>> THEN [kept |-> Without(s, UNION Range(Blocks(s))), calls |-> Wrapped(s)]
    ELSE [kept |-> Without(s, Range(Bare(s))), calls |-> Bare(s)]

InlineInit ==
    /\ content \in SeqOf(Tokens, MaxTokens)
    /\ recovered = <<>>

\* The agent loop applies it to a turn without tool calls.
Recover ==
    /\ recovered = <<>>
    /\ recovered' = <<ParseInlineToolCalls(content)>>
    /\ UNCHANGED content

InlineNext == Recover

-----------------------------------------------------------------------------
\* From an opening tag that no other one holds open to the next closing one.
Opens(s, a) ==
    /\ s[a] = "<tool_call>"
    /\ \A k \in 1..(a - 1) : s[k] = "<tool_call>" => \E c \in k..(a - 1) : s[c] = "</tool_call>"

IsPair(s, a, z) ==
    /\ Opens(s, a) /\ a < z /\ s[z] = "</tool_call>"
    /\ \A c \in a..(z - 1) : s[c] # "</tool_call>"

TagPairs(s) == {b \in (DOMAIN s) \X (DOMAIN s) : IsPair(s, b[1], b[2])}

\* The call between two tags: the first function element, or a JSON object
\* that stands there alone.
Yield(s, b) ==
    {x \in b[1]..b[2] :
        \/ s[x] = "function" /\ \A y \in b[1]..(x - 1) : s[y] # "function"
        \/ s[x] = "json" /\ b[2] - b[1] = 2}

\* What should be made of a text.
Recovers(s, r) ==
    LET kept    == Range(r.kept)
        calls   == r.calls
        wrapped == UNION {Yield(s, b) : b \in TagPairs(s)}
        tagged  == UNION {b[1]..b[2] : b \in TagPairs(s)}
        bare    == {i \in DOMAIN s : s[i] = "function"}
    IN  /\ \A i, j \in DOMAIN calls : i < j => calls[i] < calls[j]
        /\ Range(calls) = IF wrapped = {} THEN bare ELSE wrapped
        /\ kept = DOMAIN s \ (IF wrapped = {} THEN bare ELSE tagged)

(* The calls are, in the order of the text, those that pairs of tags yield,*)
(* one each; without any, all function elements.  A text without calls is  *)
(* untouched, and nothing is removed but calls and what stands between two *)
(* tags.  "It returns the content with the parsed blocks removed"          *)
(* (inline_toolcall.go:24-29, 43-45) is so when every pair yields a call:  *)
(* as soon as one does, all go, and the prose of a block that could not be *)
(* parsed, or a second function element in a block, vanishes unparsed.     *)
InlineRecovered == \A k \in DOMAIN recovered : Recovers(content, recovered[k])
=============================================================================
