----------------------------- MODULE MCRequests -----------------------------
(***************************************************************************)
(* Messages, drafts and settings to check the JSON form of a message and   *)
(* the vendors' requests with.                                             *)
(***************************************************************************)
EXTENDS Requests

Part(type, text, mime, data, uri) ==
    [type |-> type, text |-> text, mime |-> mime, data |-> data, uri |-> uri]

Words    == Part("text", "t", "", "", "")
Wordless == Part("text", "", "", "", "")
Picture  == Part("image", "", "png", "b", "")
FarOne   == Part("image", "", "", "", "u")
Both     == Part("image", "", "png", "b", "u")
Untyped  == Part("image", "", "", "b", "")
Document == Part("document", "", "pdf", "b", "")
Unknown  == Part("audio", "", "mp3", "b", "")

\* Calls of one tool or another, under ids of the vendor's or made by turn.
Call(name, args, fresh) == [name |-> name, args |-> args, fresh |-> fresh]

Draft(role, text, parts, calls_) ==
    [role |-> role, text |-> text, parts |-> parts, calls |-> calls_, ignored |-> FALSE]

Asks(calls_) == Draft("assistant", "", <<>>, calls_)

\* Enough to have two rounds of calls.
MCRounds ==
    { Draft("user", "u", <<>>, <<>>),
      Asks(<<Call("f", "object", FALSE)>>),
      Asks(<<Call("g", "empty", FALSE)>>),
      Asks(<<Call("g", "object", TRUE), Call("f", "object", TRUE)>>),
      Draft("tool", "o", <<>>, <<>>) }

MCDrafts ==
    { Draft("system", "s", <<>>, <<>>),
      Draft("system", "", <<Words, Picture>>, <<>>),
      Draft("user", "u", <<>>, <<>>),
      Draft("user", "u", <<Picture>>, <<>>),
      Draft("user", "", <<>>, <<>>),
      Draft("assistant", "a", <<>>, <<>>),
      Draft("assistant", "a", <<>>, <<Call("f", "object", TRUE), Call("g", "empty", TRUE)>>),
      Asks(<<Call("f", "object", FALSE)>>),
      Asks(<<Call("g", "blank", FALSE)>>),
      Draft("tool", "o", <<Picture>>, <<>>),
      Draft("tool", "", <<Words, Picture>>, <<>>),
      Draft("tool", "", <<Document, Unknown>>, <<>>),
      Draft("developer", "d", <<>>, <<>>),
      [Draft("user", "n", <<>>, <<>>) EXCEPT !.ignored = TRUE] }

Setting(tools_, thinking, budget, maxTokens, policy) ==
    [caching |-> TRUE, tools |-> tools_, thinking |-> thinking, budget |-> budget,
     maxTokens |-> maxTokens, policy |-> policy]

MCSettings ==
    { Setting(0, FALSE, 0, 4096, "off"),
      Setting(2, TRUE, 500, 1025, "set"),
      Setting(2, TRUE, 2000, 1500, "off"),
      Setting(0, TRUE, 0, 0, "off"),
      Setting(0, FALSE, 0, 4096, "misspelt") }

Message(role, text, parts, calls_, answers) ==
    [role |-> role, text |-> text, parts |-> parts, calls |-> calls_, answers |-> answers,
     ignored |-> FALSE]

Plain == Message("user", "", <<>>, <<>>, "")

MCSpecimens ==
    {Plain} \cup
    { Message(r, t, ps, cs, a) :
        r \in {"user", "assistant", "tool", "system"}, t \in {"", "x"},
        ps \in SeqOf({Words, Wordless, Picture, FarOne, Both, Untyped, Document, Unknown}, 2),
        cs \in {<<>>, <<Call("f", "object", TRUE)>>}, a \in {"", "c"} }

\* Conversations alone.
NoMessage == original = Plain /\ wire = Marshal(Plain)

ConversationInit == RequestsInit /\ NoMessage
ConversationNext == RequestsNext /\ UNCHANGED messageVars
=============================================================================
