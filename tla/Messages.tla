------------------------------ MODULE Messages ------------------------------
(***************************************************************************)
(* The conversation's messages (src/llm/messages.go) and their JSON form.  *)
(* Texts, payloads and addresses are strings compared for equality, "" the *)
(* empty one; the JSON form keeps a message's blocks and leaves out the    *)
(* fields tagged json:"-".                                                 *)
(***************************************************************************)
EXTENDS SequencesExt, Integers

CONSTANTS
    Specimens       \* messages sent through JSON

ASSUME SpecimensAssumption == \A m \in Specimens : m.parts \in Seq(Range(m.parts))

VARIABLES
    original,       \* the message before its first hop
    wire            \* its present JSON form

messageVars == <<original, wire>>

\* A data: URL with its media type and payload, as the code builds and cuts it.
DataURL(mime, data) == [mime |-> mime, data |-> data]
NoURL == DataURL("", "")
Address(uri) == [uri |-> uri]

-----------------------------------------------------------------------------
(* Mutants.                                                                *)

\* MarshalJSON that leaves out the content of every message with tool calls.
MutContentOmitted(m) == m.calls # <<>>

-----------------------------------------------------------------------------
FilterForRequest(msgs) ==
    FlattenSeq([i \in DOMAIN msgs |-> IF msgs[i].ignored THEN <<>> ELSE <<msgs[i]>>])

\* Part.dataURL: empty unless there are both bytes and a type.
PartURL(p) == IF p.data = "" \/ p.mime = "" THEN NoURL ELSE DataURL(p.mime, p.data)
PartRef(p) == IF p.uri # "" THEN Address(p.uri) ELSE PartURL(p)

\* Blocks of the content array; a part of another type is left out.
PartBlocks(p) ==
    CASE p.type = "text"     -> <<[type |-> "text", text |-> p.text]>>
      [] p.type = "image"    -> <<[type |-> "image_url", ref |-> PartRef(p)]>>
      [] p.type = "document" -> <<[type |-> "file", ref |-> PartRef(p)]>>
      [] OTHER               -> <<>>

TextBlocks(text) == IF text = "" THEN <<>> ELSE <<[type |-> "text", text |-> text]>>

\* An assistant turn that only calls tools has no content.
ContentOmitted(m) == m.role = "assistant" /\ m.text = "" /\ m.calls # <<>>

\* MarshalJSON: content is an array, a string, or absent.
Marshal(m) ==
    [role |-> m.role, calls |-> m.calls, answers |-> m.answers,
     content |->
        IF m.parts # <<>>
        THEN [form |-> "array",
              blocks |-> TextBlocks(m.text) \o FlattenSeq([i \in DOMAIN m.parts |-> PartBlocks(m.parts[i])])]
        ELSE IF ContentOmitted(m) THEN [form |-> "absent"]
        ELSE [form |-> "string", text |-> m.text]]

\* partFromURL: a data: URL comes back as bytes.
PartFrom(type, ref) ==
    IF "uri" \in DOMAIN ref
    THEN [type |-> type, text |-> "", mime |-> "", data |-> "", uri |-> ref.uri]
    ELSE [type |-> type, text |-> "", mime |-> ref.mime, data |-> ref.data, uri |-> ""]

BlockPart(b) ==
    CASE b.type = "text"      -> [type |-> "text", text |-> b.text, mime |-> "", data |-> "", uri |-> ""]
      [] b.type = "image_url" -> PartFrom("image", b.ref)
      [] b.type = "file"      -> PartFrom("document", b.ref)

\* UnmarshalJSON: a leading text block becomes the text, the rest the parts.
LeadingText(bs) == bs # <<>> /\ bs[1].type = "text"

Unmarshal(w) ==
    LET bs == IF w.content.form = "array" THEN w.content.blocks ELSE <<>>
        rest == IF LeadingText(bs) THEN Tail(bs) ELSE bs
    IN  [role |-> w.role, calls |-> w.calls, answers |-> w.answers, ignored |-> FALSE,
         text  |-> CASE w.content.form = "absent" -> ""
                     [] w.content.form = "string" -> w.content.text
                     [] OTHER -> IF LeadingText(bs) THEN bs[1].text ELSE "",
         parts |-> [i \in DOMAIN rest |-> BlockPart(rest[i])]]

MessagesInit ==
    /\ original \in Specimens
    /\ wire = Marshal(original)

\* A message goes through a session store or a proxy.
Hop ==
    /\ wire' = Marshal(Unmarshal(wire))
    /\ UNCHANGED original

MessagesNext == Hop

-----------------------------------------------------------------------------
\* What a server reads in a JSON form: the text and media that are not empty.
ContentBlocks(w) ==
    CASE w.content.form = "absent" -> <<>>
      [] w.content.form = "string" -> TextBlocks(w.content.text)
      [] OTHER -> w.content.blocks

Content(w) ==
    LET bs == ContentBlocks(w)
    IN  FlattenSeq([k \in DOMAIN bs |-> IF bs[k].type = "text" /\ bs[k].text = "" THEN <<>> ELSE <<bs[k]>>])

Reads(w) == [role |-> w.role, calls |-> w.calls, answers |-> w.answers, content |-> Content(w)]

(* A message says the same after any number of JSON hops, and the content  *)
(* that only an assistant may omit is never missing from another role's    *)
(* message (messages.go:14-19, 264-268).                                   *)
HopsKeepMeaning ==
    /\ Reads(wire) = Reads(Marshal(original))
    /\ wire.content.form = "absent" => wire.role = "assistant" /\ original.text = ""
=============================================================================
