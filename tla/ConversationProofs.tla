------------------------- MODULE ConversationProofs -------------------------
(***************************************************************************)
(* What the JSON form of a message and the vendors' requests guarantee for *)
(* any message and any number of hops, and for any conversation, of any    *)
(* length, that the loop can build from any set of drafts.                 *)
(***************************************************************************)
EXTENDS Messages, Requests, SequenceLemmas, FiniteSetTheorems

-----------------------------------------------------------------------------
(* The JSON form of a message.  Blocks are good when they are as Marshal    *)
(* makes them: then cutting them into parts and writing these out again     *)
(* gives the same blocks.                                                   *)

GoodRef(r) ==
    \/ \E uri : uri # "" /\ r = Address(uri)
    \/ \E mime, data : (mime = "" <=> data = "") /\ r = DataURL(mime, data)

GoodBlock(b) ==
    \/ \E text : b = [type |-> "text", text |-> text]
    \/ \E type \in {"image_url", "file"} : \E ref : GoodRef(ref) /\ b = [type |-> type, ref |-> ref]

GoodBlocks(bs) == \E S : bs \in Seq(S) /\ \A b \in S : GoodBlock(b)

GoodForm(w) ==
    \/ w.content = [form |-> "absent"] /\ w.role = "assistant"
    \/ \E text : w.content = [form |-> "string", text |-> text]
    \/ w.content.form = "array" /\ GoodBlocks(w.content.blocks)

\* A block that says something, as the sequence of it.
Said(b) == IF b.type = "text" /\ b.text = "" THEN <<>> ELSE <<b>>
Heard(bs) == FlattenSeq([k \in DOMAIN bs |-> Said(bs[k])])

LEMMA RefIsGood == \A p : GoodRef(PartRef(p))
<1> TAKE p
<1>1. CASE p.uri # ""
  BY <1>1 DEF GoodRef, PartRef
<1>2. CASE p.uri = "" /\ (p.data = "" \/ p.mime = "")
  BY <1>2 DEF GoodRef, PartRef, PartURL, NoURL
<1>3. CASE p.uri = "" /\ ~(p.data = "" \/ p.mime = "")
  BY <1>3 DEF GoodRef, PartRef, PartURL
<1> QED
  BY <1>1, <1>2, <1>3

\* There and back, a reference and a block stay what they are.
LEMMA RefStays ==
    ASSUME NEW r, GoodRef(r), NEW type
    PROVE  PartFrom(type, r).type = type /\ PartRef(PartFrom(type, r)) = r
<1>1. ASSUME NEW uri, uri # "", r = Address(uri) PROVE PartRef(PartFrom(type, r)) = r
  <2>1. "uri" \in DOMAIN r /\ r.uri = uri
    BY <1>1 DEF Address
  <2>2. PartFrom(type, r).uri = uri
    BY <2>1 DEF PartFrom
  <2> QED
    BY <1>1, <2>2 DEF PartRef
<1>2. ASSUME NEW mime, NEW data, mime = "" <=> data = "", r = DataURL(mime, data)
      PROVE  PartRef(PartFrom(type, r)) = r
  <2> DEFINE p == PartFrom(type, r)
  <2>1. "uri" \notin DOMAIN r /\ r.mime = mime /\ r.data = data
    BY <1>2 DEF DataURL
  <2>2. p.uri = "" /\ p.mime = mime /\ p.data = data
    BY <2>1 DEF PartFrom
  <2> HIDE DEF p
  <2>3. PartRef(p) = DataURL(mime, data)
    <3>1. CASE mime = ""
      BY <1>2, <2>2, <3>1 DEF PartRef, PartURL, NoURL
    <3>2. CASE mime # ""
      BY <1>2, <2>2, <3>2 DEF PartRef, PartURL
    <3> QED
      BY <3>1, <3>2
  <2> QED
    BY <1>2, <2>3 DEF p
<1>3. PartFrom(type, r).type = type
  BY DEF PartFrom
<1> QED
  BY <1>1, <1>2, <1>3 DEF GoodRef

LEMMA BlockStays ==
    ASSUME NEW b, GoodBlock(b)
    PROVE  PartBlocks(BlockPart(b)) = <<b>>
<1>1. ASSUME NEW text, b = [type |-> "text", text |-> text] PROVE PartBlocks(BlockPart(b)) = <<b>>
  <2>1. b.type = "text" /\ b.text = text
    BY <1>1
  <2>2. BlockPart(b).type = "text" /\ BlockPart(b).text = text
    BY <2>1 DEF BlockPart
  <2> QED
    BY <1>1, <2>2 DEF PartBlocks
<1>2. ASSUME NEW type \in {"image_url", "file"}, NEW ref, GoodRef(ref), b = [type |-> type, ref |-> ref]
      PROVE  PartBlocks(BlockPart(b)) = <<b>>
  <2>1. b.type = type /\ b.ref = ref
    BY <1>2
  <2>2. CASE type = "image_url"
    <3>1. BlockPart(b) = PartFrom("image", ref)
      BY <2>1, <2>2 DEF BlockPart
    <3> QED
      BY <1>2, <2>2, <3>1, RefStays DEF PartBlocks
  <2>3. CASE type = "file"
    <3>1. BlockPart(b) = PartFrom("document", ref)
      BY <2>1, <2>3 DEF BlockPart
    <3> QED
      BY <1>2, <2>3, <3>1, RefStays DEF PartBlocks
  <2> QED
    BY <2>2, <2>3
<1> QED
  BY <1>1, <1>2 DEF GoodBlock

\* What is heard of blocks one after the other.
LEMMA HeardIsEach ==
    ASSUME NEW S, NEW bs \in Seq(S)
    PROVE  /\ [b \in S |-> Said(b)] \in [S -> Seq(S)]
           /\ Heard(bs) = Each([b \in S |-> Said(b)], bs)
<1> DEFINE h == [b \in S |-> Said(b)]
<1>1. ASSUME NEW b \in S PROVE Said(b) \in Seq(S)
  <2>1. <<>> \in Seq(S) /\ <<b>> \in Seq(S)
    OBVIOUS
  <2> QED
    BY <2>1 DEF Said
<1>2. \A k \in DOMAIN bs : bs[k] \in S
  BY LenProperties, ElementOfSeq
<1>3. [k \in DOMAIN bs |-> Said(bs[k])] = [k \in DOMAIN bs |-> h[bs[k]]]
  BY <1>2
<1> QED
  BY <1>1, <1>3 DEF Heard, Each

LEMMA HeardConcat ==
    ASSUME NEW S, NEW bs \in Seq(S), NEW cs \in Seq(S)
    PROVE  /\ Heard(bs \o cs) = Heard(bs) \o Heard(cs)
           /\ Heard(bs) \in Seq(S)
<1> DEFINE h == [b \in S |-> Said(b)]
           ds == bs \o cs
           x == Heard(bs)
           y == Heard(cs)
<1>1. h \in [S -> Seq(S)] /\ x = Each(h, bs) /\ y = Each(h, cs)
  BY HeardIsEach
<1>2. ds \in Seq(S)
  BY ConcatProperties
<1>3. Heard(ds) = Each(h, ds)
  <2> HIDE DEF ds
  <2> QED
    BY <1>2, HeardIsEach
<1>4. Joined(ds, bs, cs)
  BY DEF Joined
<1> HIDE DEF h, ds
<1>5. Joined(Each(h, ds), Each(h, bs), Each(h, cs))
  BY <1>1, <1>4, EachConcat
<1>6. Each(h, bs) \in Seq(S)
  BY <1>1, EachType
<1> QED
  BY <1>1, <1>3, <1>5, <1>6 DEF ds, x, y, Joined

LEMMA HeardShort ==
    /\ Heard(<<>>) = <<>>
    /\ \A b : Heard(<<b>>) = Said(b)
<1>1. Heard(<<>>) = <<>>
  <2>1. <<>> \in Seq({})
    OBVIOUS
  <2>2. Heard(<<>>) = Each([b \in {} |-> Said(b)], <<>>)
    BY <2>1, HeardIsEach
  <2> QED
    BY <2>2, EachNone
<1>2. ASSUME NEW b PROVE Heard(<<b>>) = Said(b)
  <2> DEFINE S == {b}
             h == [c \in S |-> Said(c)]
  <2>1. <<b>> \in Seq(S) /\ b \in S /\ h[b] = Said(b)
    OBVIOUS
  <2>2. h \in [S -> Seq(S)] /\ Heard(<<b>>) = Each(h, <<b>>)
    BY <2>1, HeardIsEach
  <2>3. Each(h, <<b>>) = h[b]
    <3> HIDE DEF h, S
    <3> QED
      BY <2>1, <2>2, EachOne
  <2> QED
    BY <2>1, <2>2, <2>3
<1> QED
  BY <1>1, <1>2

LEMMA TextHeard ==
    ASSUME NEW text
    PROVE  /\ Heard(TextBlocks(text)) = TextBlocks(text)
           /\ Said([type |-> "text", text |-> text]) = TextBlocks(text)
<1> DEFINE b == [type |-> "text", text |-> text]
<1>1. Said(b) = TextBlocks(text)
  BY DEF Said, TextBlocks
<1>2. CASE text = ""
  BY <1>1, <1>2, HeardShort DEF TextBlocks
<1>3. CASE text # ""
  <2>1. TextBlocks(text) = <<b>>
    BY <1>3 DEF TextBlocks
  <2> QED
    BY <1>1, <2>1, HeardShort
<1> QED
  BY <1>1, <1>2, <1>3

\* What Marshal writes of parts.
Written(parts) == FlattenSeq([i \in DOMAIN parts |-> PartBlocks(parts[i])])

LEMMA PartBlocksGood ==
    ASSUME NEW p
    PROVE  \/ PartBlocks(p) = <<>>
           \/ \E b : GoodBlock(b) /\ PartBlocks(p) = <<b>>
<1>1. CASE p.type = "text"
  BY <1>1 DEF PartBlocks, GoodBlock
<1>2. CASE p.type = "image"
  <2>1. PartBlocks(p) = <<[type |-> "image_url", ref |-> PartRef(p)]>>
    BY <1>2 DEF PartBlocks
  <2>2. GoodBlock([type |-> "image_url", ref |-> PartRef(p)])
    BY RefIsGood DEF GoodBlock
  <2> QED
    BY <2>1, <2>2
<1>3. CASE p.type = "document"
  <2>1. PartBlocks(p) = <<[type |-> "file", ref |-> PartRef(p)]>>
    BY <1>3 DEF PartBlocks
  <2>2. GoodBlock([type |-> "file", ref |-> PartRef(p)])
    BY RefIsGood DEF GoodBlock
  <2> QED
    BY <2>1, <2>2
<1>4. CASE p.type \notin {"text", "image", "document"}
  BY <1>4 DEF PartBlocks
<1> QED
  BY <1>1, <1>2, <1>3, <1>4

LEMMA WrittenGood ==
    ASSUME NEW P, NEW parts \in Seq(P), NEW text
    PROVE  \E S : /\ TextBlocks(text) \in Seq(S) /\ Written(parts) \in Seq(S)
                  /\ \A b \in S : GoodBlock(b)
<1> DEFINE B == {PartBlocks(p)[1] : p \in {q \in P : PartBlocks(q) # <<>>}}
           S == {[type |-> "text", text |-> text]} \cup B
           h == [p \in P |-> PartBlocks(p)]
<1>1. \A b \in S : GoodBlock(b)
  <2>1. GoodBlock([type |-> "text", text |-> text])
    BY DEF GoodBlock
  <2>2. ASSUME NEW q \in P, PartBlocks(q) # <<>> PROVE GoodBlock(PartBlocks(q)[1])
    <3>1. PICK b : GoodBlock(b) /\ PartBlocks(q) = <<b>>
      BY <2>2, PartBlocksGood
    <3> QED
      BY <3>1
  <2> QED
    BY <2>1, <2>2
<1>2. ASSUME NEW p \in P PROVE PartBlocks(p) \in Seq(S)
  <2>1. CASE PartBlocks(p) = <<>>
    BY <2>1, EmptySeq
  <2>2. CASE PartBlocks(p) # <<>>
    <3>1. PICK b : PartBlocks(p) = <<b>>
      BY <2>2, PartBlocksGood
    <3>2. b = PartBlocks(p)[1]
      BY <3>1
    <3>3. b \in S
      BY <2>2, <3>2
    <3> HIDE DEF S
    <3> QED
      BY <3>1, <3>3
  <2> QED
    BY <2>1, <2>2
<1>3. TextBlocks(text) \in Seq(S)
  <2>1. [type |-> "text", text |-> text] \in S
    OBVIOUS
  <2> HIDE DEF S
  <2>2. <<>> \in Seq(S) /\ <<[type |-> "text", text |-> text]>> \in Seq(S)
    BY <2>1
  <2> QED
    BY <2>2 DEF TextBlocks
<1>4. h \in [P -> Seq(S)]
  <2> HIDE DEF S
  <2> QED
    BY <1>2
<1>5. Written(parts) = Each(h, parts)
  <2>1. \A i \in DOMAIN parts : parts[i] \in P
    BY LenProperties, ElementOfSeq
  <2>2. [i \in DOMAIN parts |-> PartBlocks(parts[i])] = [i \in DOMAIN parts |-> h[parts[i]]]
    BY <2>1
  <2> QED
    BY <2>2 DEF Written, Each
<1> HIDE DEF S, h
<1>6. Written(parts) \in Seq(S)
  <2>1. Each(h, parts) \in Seq(S)
    BY <1>4, EachType
  <2> QED
    BY <1>5, <2>1
<1> QED
  BY <1>1, <1>3, <1>6

LEMMA ContentIsHeard == \A w : Content(w) = Heard(ContentBlocks(w))
  BY DEF Content, Heard, Said

\* A message that is all text.
LEMMA PlainMarshalled ==
    ASSUME NEW m, m.parts = <<>>
    PROVE  /\ GoodForm(Marshal(m))
           /\ Content(Marshal(m)) = TextBlocks(m.text)
<1> DEFINE w == Marshal(m)
<1>0. w.role = m.role /\ w.content = IF ContentOmitted(m) THEN [form |-> "absent"]
                                      ELSE [form |-> "string", text |-> m.text]
  BY DEF Marshal
<1> HIDE DEF w
<1>1. CASE ContentOmitted(m)
  <2>1. w.content = [form |-> "absent"] /\ w.role = "assistant" /\ m.text = ""
    <3>1. w.content = [form |-> "absent"]
      BY <1>0, <1>1
    <3>2. m.role = "assistant" /\ m.text = ""
      BY <1>1 DEF ContentOmitted
    <3> QED
      BY <1>0, <3>1, <3>2
  <2>2. w.content.form = "absent"
    <3> DEFINE c == w.content
    <3>1. c = [form |-> "absent"]
      BY <2>1
    <3> HIDE DEF c
    <3>2. c.form = "absent"
      BY <3>1
    <3> QED
      BY <3>2 DEF c
  <2>3. ContentBlocks(w) = <<>>
    BY <2>2 DEF ContentBlocks
  <2>4. Content(w) = TextBlocks(m.text)
    BY <2>1, <2>3, ContentIsHeard, HeardShort DEF TextBlocks
  <2> QED
    BY <2>1, <2>4 DEF GoodForm, w
<1>2. CASE ~ContentOmitted(m)
  <2>1. w.content = [form |-> "string", text |-> m.text]
    BY <1>0, <1>2
  <2>2. w.content.form = "string" /\ w.content.text = m.text
    BY <2>1
  <2>3. ContentBlocks(w) = TextBlocks(m.text)
    BY <2>2 DEF ContentBlocks
  <2>4. Content(w) = TextBlocks(m.text)
    BY <2>3, ContentIsHeard, TextHeard
  <2> QED
    BY <2>1, <2>4 DEF GoodForm, w
<1> QED
  BY <1>1, <1>2

\* A message with parts.
LEMMA PartsMarshalled ==
    ASSUME NEW m, m.parts # <<>>, NEW bs, bs = TextBlocks(m.text) \o Written(m.parts)
    PROVE  /\ GoodBlocks(bs) => GoodForm(Marshal(m))
           /\ Content(Marshal(m)) = Heard(bs)
<1> DEFINE w == Marshal(m)
<1>1. w.content = [form |-> "array", blocks |-> bs]
  BY DEF Marshal, Written
<1> HIDE DEF w
<1>2. w.content.form = "array" /\ w.content.blocks = bs
  BY <1>1
<1>3. ContentBlocks(w) = bs
  BY <1>2 DEF ContentBlocks
<1>4. Content(w) = Heard(bs)
  BY <1>3, ContentIsHeard
<1> QED
  BY <1>2, <1>4 DEF GoodForm, w

\* What Marshal writes is in good form.
LEMMA MarshalGood ==
    ASSUME NEW P, NEW m, m.parts \in Seq(P)
    PROVE  GoodForm(Marshal(m))
<1>1. CASE m.parts = <<>>
  BY <1>1, PlainMarshalled
<1>2. CASE m.parts # <<>>
  <2> DEFINE bs == TextBlocks(m.text) \o Written(m.parts)
  <2>1. PICK S : /\ TextBlocks(m.text) \in Seq(S) /\ Written(m.parts) \in Seq(S)
                 /\ \A b \in S : GoodBlock(b)
    BY WrittenGood
  <2>2. bs \in Seq(S)
    BY <2>1, ConcatProperties
  <2>3. GoodBlocks(bs)
    BY <2>1, <2>2 DEF GoodBlocks
  <2> QED
    BY <1>2, <2>3, PartsMarshalled
<1> QED
  BY <1>1, <1>2

\* Blocks cut into parts are written again as they were.
LEMMA RestWritten ==
    ASSUME NEW S, NEW rest \in Seq(S), \A b \in S : GoodBlock(b)
    PROVE  Written([i \in DOMAIN rest |-> BlockPart(rest[i])]) = rest
<1> DEFINE h == [b \in S |-> PartBlocks(BlockPart(b))]
           parts == [i \in DOMAIN rest |-> BlockPart(rest[i])]
<1>1. \A b \in S : h[b] = <<b>> /\ <<b>> \in Seq(S)
  BY BlockStays
<1>2. h \in [S -> Seq(S)]
  BY <1>1
<1>3. \A i \in DOMAIN rest : rest[i] \in S
  BY LenProperties, ElementOfSeq
<1>4. [i \in DOMAIN parts |-> PartBlocks(parts[i])] = [i \in DOMAIN rest |-> h[rest[i]]]
  BY <1>3
<1>5. Written(parts) = Each(h, rest)
  <2> HIDE DEF h, parts
  <2> QED
    BY <1>4 DEF Written, Each
<1>6. Each(h, rest) = rest
  <2> HIDE DEF h
  <2> QED
    BY <1>1, <1>2, EachSame
<1> QED
  BY <1>5, <1>6

LEMMA NoParts ==
    \A rest : rest = <<>> => [i \in DOMAIN rest |-> BlockPart(rest[i])] = <<>>
  OBVIOUS

LEMMA HeadAndTail ==
    ASSUME NEW S, NEW bs \in Seq(S), bs # <<>>
    PROVE  /\ bs = <<bs[1]>> \o Tail(bs)
           /\ bs[1] \in S /\ <<bs[1]>> \in Seq(S) /\ Tail(bs) \in Seq(S)
<1> DEFINE one == <<bs[1]>>
           rest == Tail(bs)
<1>1. Len(bs) \in Nat \ {0}
  BY EmptySeq, LenProperties
<1>2. bs[1] \in S /\ rest \in Seq(S) /\ Len(rest) = Len(bs) - 1
  BY <1>1, HeadTailProperties, ElementOfSeq
<1>3. one \in Seq(S) /\ Len(one) = 1 /\ one[1] = bs[1]
  BY <1>2
<1>4. \A k \in 1..(Len(bs) - 1) : rest[k] = bs[k + 1]
  BY <1>1, HeadTailProperties
<1> HIDE DEF one, rest
<1>5. one \o rest \in Seq(S) /\ Len(one \o rest) = Len(bs)
  <2>1. one \o rest \in Seq(S) /\ Len(one \o rest) = Len(one) + Len(rest)
    BY <1>2, <1>3, ConcatProperties
  <2> QED
    BY <1>1, <1>2, <1>3, <2>1
<1>6. \A k \in 1..Len(bs) : (one \o rest)[k] = bs[k]
  <2> TAKE k \in 1..Len(bs)
  <2>1. CASE k = 1
    BY <1>1, <1>2, <1>3, <2>1, ConcatProperties
  <2>2. CASE k # 1
    <3>1. k > Len(one) /\ k - Len(one) = k - 1 /\ k - 1 \in 1..(Len(bs) - 1)
      BY <1>1, <1>3, <2>2
    <3>2. (one \o rest)[k] = rest[k - 1]
      <4>1. k \in (Len(one) + 1)..(Len(one) + Len(rest))
        BY <1>1, <1>2, <1>3, <3>1
      <4>2. (one \o rest)[k] = rest[k - Len(one)]
        <5>1. \A i \in 1..(Len(one) + Len(rest)) :
                 (one \o rest)[i] = IF i <= Len(one) THEN one[i] ELSE rest[i - Len(one)]
          BY <1>2, <1>3, ConcatProperties
        <5>2. k \in 1..(Len(one) + Len(rest)) /\ ~(k <= Len(one))
          BY <1>1, <1>2, <1>3, <3>1, <4>1
        <5> QED
          BY <5>1, <5>2
      <4> QED
        BY <3>1, <4>2
    <3> QED
      BY <1>1, <1>4, <3>1, <3>2
  <2> QED
    BY <2>1, <2>2
<1>7. one \o rest = bs
  BY <1>1, <1>5, <1>6, SeqEqual
<1> QED
  BY <1>2, <1>3, <1>7 DEF one, rest

\* A hop changes at most how a text alone is written down.
LEMMA HopKeeps ==
    ASSUME NEW w, GoodForm(w)
    PROVE  /\ GoodForm(Marshal(Unmarshal(w)))
           /\ Content(Marshal(Unmarshal(w))) = Content(w)
<1> DEFINE m == Unmarshal(w)
           bs == IF w.content.form = "array" THEN w.content.blocks ELSE <<>>
           rest == IF LeadingText(bs) THEN Tail(bs) ELSE bs
           text == CASE w.content.form = "absent" -> ""
                     [] w.content.form = "string" -> w.content.text
                     [] OTHER -> IF LeadingText(bs) THEN bs[1].text ELSE ""
<1>0. m.text = text /\ m.parts = [i \in DOMAIN rest |-> BlockPart(rest[i])]
  BY DEF Unmarshal
<1> HIDE DEF m
<1>1. CASE w.content = [form |-> "absent"]
  <2>1. w.content.form = "absent"
    BY <1>1
  <2>2. bs = <<>> /\ text = ""
    BY <2>1
  <2>3. rest = <<>>
    BY <2>2 DEF LeadingText
  <2>4. m.parts = <<>> /\ m.text = ""
    <3> HIDE DEF rest, text
    <3>1. [i \in DOMAIN rest |-> BlockPart(rest[i])] = <<>>
      BY <2>3, NoParts
    <3> QED
      BY <1>0, <2>2, <3>1
  <2>5. Content(w) = TextBlocks("")
    BY <2>1, ContentIsHeard, HeardShort DEF ContentBlocks, TextBlocks
  <2> QED
    BY <2>4, <2>5, PlainMarshalled DEF m
<1>2. ASSUME NEW t, w.content = [form |-> "string", text |-> t]
      PROVE  GoodForm(Marshal(m)) /\ Content(Marshal(m)) = Content(w)
  <2>1. w.content.form = "string" /\ w.content.text = t
    BY <1>2
  <2>2. bs = <<>> /\ text = t
    BY <2>1
  <2>3. rest = <<>>
    BY <2>2 DEF LeadingText
  <2>4. m.parts = <<>> /\ m.text = t
    <3> HIDE DEF rest, text
    <3> QED
      BY <1>0, <2>2, <2>3, NoParts
  <2>5. Content(w) = TextBlocks(t)
    BY <2>1, ContentIsHeard, TextHeard DEF ContentBlocks
  <2> QED
    BY <2>4, <2>5, PlainMarshalled
<1>3. CASE w.content.form = "array" /\ GoodBlocks(w.content.blocks)
  <2>1. PICK S : bs \in Seq(S) /\ \A b \in S : GoodBlock(b)
    BY <1>3 DEF GoodBlocks
  <2>2. text = IF LeadingText(bs) THEN bs[1].text ELSE ""
    BY <1>3
  <2>3. Content(w) = Heard(bs)
    BY <1>3, ContentIsHeard DEF ContentBlocks
  <2> HIDE DEF bs, text
  <2>4. /\ rest \in Seq(S)
        /\ GoodBlocks(TextBlocks(text) \o rest)
        /\ Heard(TextBlocks(text) \o rest) = Heard(bs)
    <3>1. CASE LeadingText(bs)
      <4> DEFINE b == bs[1]
                 lead == TextBlocks(text)
      <4>1. bs # <<>> /\ b.type = "text" /\ text = b.text
        BY <2>2, <3>1 DEF LeadingText
      <4>2. b \in S /\ rest = Tail(bs) /\ rest \in Seq(S)
        BY <2>1, <3>1, <4>1, HeadAndTail
      <4>3. bs = <<b>> \o rest /\ <<b>> \in Seq(S)
        BY <2>1, <4>1, <4>2, HeadAndTail
      <4>4. b = [type |-> "text", text |-> text]
        <5>1. GoodBlock(b)
          BY <2>1, <4>2
        <5>2. PICK t : b = [type |-> "text", text |-> t]
          <6>1. ASSUME NEW type \in {"image_url", "file"}, NEW ref, b = [type |-> type, ref |-> ref]
                PROVE  FALSE
            <7>1. b.type = type
              BY <6>1
            <7> QED
              BY <4>1, <7>1
          <6> QED
            BY <5>1, <6>1 DEF GoodBlock
        <5>3. b.text = t
          BY <5>2
        <5> QED
          BY <4>1, <5>2, <5>3
      <4> HIDE DEF b
      <4>5. lead \in Seq(S)
        <5>1. <<>> \in Seq(S)
          OBVIOUS
        <5>2. lead = IF text = "" THEN <<>> ELSE <<b>>
          BY <4>4 DEF TextBlocks
        <5> HIDE DEF lead
        <5> QED
          BY <4>3, <5>1, <5>2
      <4>6. Said(b) = lead /\ Heard(lead) = lead
        BY <4>4, TextHeard
      <4> HIDE DEF lead, rest
      <4>7. Heard(<<b>> \o rest) = Heard(<<b>>) \o Heard(rest)
        BY <4>2, <4>3, HeardConcat
      <4>8. Heard(lead \o rest) = Heard(lead) \o Heard(rest)
        BY <4>2, <4>5, HeardConcat
      <4>9. Heard(<<b>>) = Said(b)
        BY HeardShort
      <4>10. lead \o rest \in Seq(S)
        BY <4>2, <4>5, ConcatProperties
      <4>11. GoodBlocks(lead \o rest)
        BY <2>1, <4>10 DEF GoodBlocks
      <4> QED
        BY <4>2, <4>3, <4>6, <4>7, <4>8, <4>9, <4>11 DEF lead
    <3>2. CASE ~LeadingText(bs)
      <4>1. TextBlocks(text) = <<>> /\ rest = bs
        BY <2>2, <3>2 DEF TextBlocks
      <4>2. TextBlocks(text) \o rest = bs
        BY <2>1, <4>1, ConcatEmptySeq
      <4> QED
        BY <2>1, <4>1, <4>2 DEF GoodBlocks
    <3> QED
      BY <3>1, <3>2
  <2> HIDE DEF rest
  <2>5. CASE rest = <<>>
    <3>1. m.parts = <<>>
      BY <1>0, <2>5, NoParts
    <3>2. TextBlocks(text) \o rest = TextBlocks(text)
      <4>1. TextBlocks(text) \in Seq({[type |-> "text", text |-> text]})
        <5> DEFINE b == [type |-> "text", text |-> text]
        <5>1. TextBlocks(text) = IF text = "" THEN <<>> ELSE <<b>>
          BY DEF TextBlocks
        <5> HIDE DEF b
        <5>2. <<>> \in Seq({b}) /\ <<b>> \in Seq({b})
          OBVIOUS
        <5>3. TextBlocks(text) \in Seq({b})
          BY <5>1, <5>2
        <5> QED
          BY <5>3 DEF b
      <4> QED
        BY <2>5, <4>1, ConcatEmptySeq
    <3>3. Heard(bs) = TextBlocks(text)
      BY <2>4, <3>2, TextHeard
    <3> QED
      BY <1>0, <2>3, <3>1, <3>3, PlainMarshalled DEF m
  <2>6. CASE rest # <<>>
    <3>1. m.parts # <<>>
      <4>1. Len(rest) \in Nat \ {0} /\ DOMAIN rest = 1..Len(rest)
        BY <2>4, <2>6, EmptySeq, LenProperties
      <4>2. 1 \in DOMAIN m.parts
        BY <1>0, <4>1
      <4> QED
        BY <4>2
    <3>2. Written(m.parts) = rest
      BY <1>0, <2>1, <2>4, RestWritten
    <3>3. Content(Marshal(m)) = Heard(TextBlocks(text) \o rest) /\ GoodForm(Marshal(m))
      BY <1>0, <2>4, <3>1, <3>2, PartsMarshalled
    <3> QED
      BY <2>3, <2>4, <3>3 DEF m
  <2> QED
    BY <2>5, <2>6 DEF m
<1> QED
  BY <1>1, <1>2, <1>3 DEF GoodForm, m

\* The JSON form is one Marshal writes, and it reads like the first one.
WireInv ==
    /\ original \in Specimens
    /\ GoodForm(wire)
    /\ Reads(wire) = Reads(Marshal(original))

(* Any message, with any parts, says the same after any number of JSON     *)
(* hops, and no content but an assistant's goes missing (messages.go:14-19, *)
(* 264-268).                                                               *)
THEOREM HopsAreFaithful == MessagesInit /\ [][MessagesNext]_messageVars => []HopsKeepMeaning
<1>1. MessagesInit => WireInv
  BY SpecimensAssumption, MarshalGood DEF MessagesInit, WireInv
<1>2. WireInv /\ [MessagesNext]_messageVars => WireInv'
  <2> SUFFICES ASSUME WireInv, [MessagesNext]_messageVars PROVE WireInv'
    OBVIOUS
  <2>1. CASE UNCHANGED messageVars
    BY <2>1 DEF WireInv, messageVars
  <2>2. CASE Hop
    <3>1. original' = original /\ wire' = Marshal(Unmarshal(wire))
      BY <2>2 DEF Hop
    <3>2. GoodForm(wire') /\ Content(wire') = Content(wire)
      BY <3>1, HopKeeps DEF WireInv
    <3>3. wire'.role = wire.role /\ wire'.calls = wire.calls /\ wire'.answers = wire.answers
      BY <3>1 DEF Marshal, Unmarshal
    <3>4. Reads(wire') = Reads(wire)
      BY <3>2, <3>3 DEF Reads
    <3> QED
      BY <3>1, <3>2, <3>4 DEF WireInv
  <2> QED
    BY <2>1, <2>2 DEF MessagesNext
<1>3. WireInv => HopsKeepMeaning
  <2> SUFFICES ASSUME WireInv, wire.content.form = "absent"
               PROVE  wire.role = "assistant" /\ original.text = ""
    BY DEF HopsKeepMeaning, WireInv
  <2>1. wire.role = "assistant"
    <3>1. ASSUME NEW text, wire.content = [form |-> "string", text |-> text] PROVE FALSE
      <4>1. wire.content.form = "string"
        BY <3>1
      <4> QED
        BY <4>1
    <3> QED
      BY <3>1 DEF WireInv, GoodForm
  <2>2. Content(wire) = <<>>
    BY ContentIsHeard, HeardShort DEF ContentBlocks
  <2>3. Content(Marshal(original)) = <<>>
    BY <2>2 DEF WireInv, Reads
  <2>4. CASE original.parts = <<>>
    <3>1. TextBlocks(original.text) = <<>>
      BY <2>3, <2>4, PlainMarshalled
    <3> QED
      BY <2>1, <3>1 DEF TextBlocks
  <2>5. CASE original.parts # <<>>
    <3> DEFINE lead == TextBlocks(original.text)
               rest == Written(original.parts)
    <3>1. PICK S : lead \in Seq(S) /\ rest \in Seq(S)
      BY SpecimensAssumption, WrittenGood DEF WireInv
    <3>2. Heard(lead) = lead
      BY TextHeard
    <3>3. Heard(lead \o rest) = <<>>
      BY <2>3, <2>5, PartsMarshalled
    <3> HIDE DEF lead, rest
    <3>4. Heard(lead \o rest) = lead \o Heard(rest) /\ Heard(rest) \in Seq(S)
      BY <3>1, <3>2, HeardConcat, ZenonT(30)
    <3>5. lead = <<>>
      <4> DEFINE tail == Heard(rest)
      <4>1. lead \o tail = <<>> /\ tail \in Seq(S)
        BY <3>3, <3>4
      <4> HIDE DEF tail
      <4>2. Len(lead \o tail) = Len(lead) + Len(tail) /\ Len(lead) \in Nat /\ Len(tail) \in Nat
        BY <3>1, <4>1, ConcatProperties, LenProperties
      <4>3. Len(lead \o tail) = 0
        BY <4>1, EmptySeq
      <4>4. Len(lead) = 0
        BY <4>2, <4>3
      <4> QED
        BY <3>1, <4>4, EmptySeq
    <3> QED
      BY <2>1, <3>5 DEF lead, TextBlocks
  <2> QED
    BY <2>4, <2>5
<1> QED
  BY <1>1, <1>2, <1>3, PTL

-----------------------------------------------------------------------------
(* Conversations.                                                          *)

LEMMA GreatestNumber ==
    ASSUME NEW n \in Nat, NEW T \in SUBSET (1..n), T # {}
    PROVE  Max(T) \in T /\ \A y \in T : y <= Max(T)
<1> DEFINE U == {n - y : y \in T}
<1>1. U \in SUBSET Nat /\ U # {}
  <2>1. \A y \in T : n - y \in Nat
    OBVIOUS
  <2> QED
    BY <2>1
<1> HIDE DEF U
<1>2. PICK u \in U : \A w \in U : u <= w
  BY <1>1, LeastNumber
<1>3. PICK x \in T : u = n - x
  BY DEF U
<1>4. \A y \in T : y \in Int /\ n - y \in U
  BY DEF U
<1>5. \A y \in T : x >= y
  BY <1>2, <1>3, <1>4
<1>6. Max(T) \in T /\ \A y \in T : Max(T) >= y
  BY <1>5 DEF Max
<1> QED
  BY <1>4, <1>6

Ids == Nat \X Nat
Piece == Nat \X Nat
Numbers == Nat \ {0}
Entries == {Numbered(d, n, a) : d \in Drafts, n \in Numbers, a \in Ids \cup {<<>>}}
Calls == UNION {Range(m.calls) : m \in Entries}
Names == {c.name : c \in Calls} \cup {""}

Refs == Ids \cup {<<>>} \cup Names

Block ==
    [kind : {"content"}, piece : Piece]
    \cup [kind : {"call"}, ref : Refs, piece : Piece]
    \cup [kind : {"result"}, ref : Refs, pieces : Seq(Piece)]
Turn == [role : {"user", "assistant"}, blocks : Seq(Block)]
Acc == [system : Seq(Piece), turns : Seq(Turn), pending : Seq(Block)]
Start == [system |-> <<>>, turns |-> <<>>, pending |-> <<>>]

\* What a message looks like.
LEMMA EntryIs ==
    ASSUME NEW m \in Entries
    PROVE  /\ m.n \in Numbers /\ m.answers \in Ids \cup {<<>>} /\ m.ignored \in BOOLEAN
           /\ m.parts \in Seq(Range(m.parts)) /\ Len(m.parts) \in Nat /\ DOMAIN m.parts = 1..Len(m.parts)
           /\ m.calls \in Seq(Calls) /\ Len(m.calls) \in Nat /\ DOMAIN m.calls = 1..Len(m.calls)
           /\ \A k \in DOMAIN m.calls : m.calls[k].id \in Ids /\ m.calls[k].name \in Names
           /\ m.calls # <<>> => m.role = "assistant" /\ ~m.ignored
           /\ m.role = "tool" => ~m.ignored
<1>1. PICK d \in Drafts, n \in Numbers, a \in Ids \cup {<<>>} : m = Numbered(d, n, a)
  BY DEF Entries
<1>2. /\ m.n = n /\ m.answers = a /\ m.ignored = d.ignored /\ m.parts = d.parts /\ m.role = d.role
      /\ m.calls = [k \in DOMAIN d.calls |->
                       [id |-> <<IF d.calls[k].fresh THEN n ELSE 0, k>>, name |-> d.calls[k].name, args |-> d.calls[k].args]]
  BY <1>1 DEF Numbered
<1>3. /\ d.ignored \in BOOLEAN
      /\ d.parts \in Seq(Range(d.parts)) /\ d.calls \in Seq(Range(d.calls))
      /\ d.calls # <<>> => d.role = "assistant" /\ ~d.ignored
      /\ d.role = "tool" => ~d.ignored
  BY DraftsAssumption
<1>4. /\ Len(d.calls) \in Nat /\ DOMAIN d.calls = 1..Len(d.calls)
      /\ Len(d.parts) \in Nat /\ DOMAIN d.parts = 1..Len(d.parts)
  BY <1>3, LenProperties
<1>5. \A k \in DOMAIN m.calls : m.calls[k] \in Calls /\ m.calls[k].id \in Ids
  <2> TAKE k \in DOMAIN m.calls
  <2>1. m.calls[k] \in Range(m.calls)
    BY DEF Range
  <2>2. m.calls[k].id = <<IF d.calls[k].fresh THEN n ELSE 0, k>> /\ k \in DOMAIN d.calls
    BY <1>2
  <2>3. k \in Nat /\ (IF d.calls[k].fresh THEN n ELSE 0) \in Nat
    BY <1>4, <2>2 DEF Numbers
  <2>4. m.calls[k].id \in Ids
    BY <2>2, <2>3 DEF Ids
  <2> QED
    BY <2>1, <2>4 DEF Calls
<1>6. m.calls \in Seq(Calls) /\ DOMAIN m.calls = 1..Len(d.calls) /\ Len(m.calls) = Len(d.calls)
  <2>1. DOMAIN m.calls = 1..Len(d.calls)
    BY <1>2, <1>4
  <2>2. m.calls = [k \in 1..Len(d.calls) |-> m.calls[k]]
    BY <1>2, <1>4
  <2>3. \A k \in 1..Len(d.calls) : m.calls[k] \in Calls
    BY <1>5, <2>1
  <2>4. m.calls \in Seq(Calls)
    <3> DEFINE calls == m.calls
               n2 == Len(d.calls)
    <3>1. n2 \in Nat /\ calls = [k \in 1..n2 |-> calls[k]] /\ \A k \in 1..n2 : calls[k] \in Calls
      BY <1>4, <2>2, <2>3
    <3> HIDE DEF calls, n2
    <3>2. [k \in 1..n2 |-> calls[k]] \in Seq(Calls)
      BY <3>1, IsASeq
    <3> QED
      BY <3>1, <3>2 DEF calls
  <2> QED
    BY <1>4, <2>1, <2>4, LenProperties
<1>7. m.calls # <<>> => d.calls # <<>>
  <2>1. CASE d.calls = <<>>
    <3>1. Len(d.calls) = 0
      BY <2>1
    <3> QED
      BY <1>6, <3>1, EmptySeq
  <2> QED
    BY <2>1
<1> QED
  BY <1>2, <1>3, <1>4, <1>5, <1>6, <1>7 DEF Names

-----------------------------------------------------------------------------
(* The walk, message by message.                                           *)

Walks(h, v, msgs, some, n) ==
    /\ h[0] = Start
    /\ \A i \in 1..n : h[i] = AddMessage(v, msgs, h[i - 1], some[i])

\* The first n messages do the same to a request.
Alike(v, msgs, some, other, same, n) ==
    \A i \in 1..n : \A acc : AddMessage(v, msgs, acc, some[i]) = AddMessage(v, other, acc, same[i])

\* The recursion over some messages has a solution.
LEMMA WalkExists ==
    ASSUME NEW v, NEW msgs, NEW some, NEW n \in Nat
    PROVE  \E X : \E h \in [0..n -> X] : Walks(h, v, msgs, some, n)
<1> DEFINE Good(h, m) == h[0] = Start /\ \A i \in 1..m : h[i] = AddMessage(v, msgs, h[i - 1], some[i])
           P(m) == \E X : \E h \in [0..m -> X] : Good(h, m)
           T == {m \in Nat : P(m)}
<1>1. P(0)
  <2> DEFINE h == [i \in 0..0 |-> Start]
  <2>1. h \in [0..0 -> {Start}] /\ Good(h, 0)
    OBVIOUS
  <2> QED
    BY <2>1
<1>2. ASSUME NEW m \in Nat, P(m) PROVE P(m + 1)
  <2>1. PICK X : \E h \in [0..m -> X] : Good(h, m)
    BY <1>2
  <2>2. PICK h \in [0..m -> X] : Good(h, m)
    BY <2>1
  <2> DEFINE last == AddMessage(v, msgs, h[m], some[m + 1])
             g == [i \in 0..(m + 1) |-> IF i = m + 1 THEN last ELSE h[i]]
  <2>3. g \in [0..(m + 1) -> X \cup {last}]
    <3> HIDE DEF last
    <3> QED
      OBVIOUS
  <2>4. g[0] = Start
    BY <2>2
  <2>5. ASSUME NEW i \in 1..(m + 1) PROVE g[i] = AddMessage(v, msgs, g[i - 1], some[i])
    <3>0. g[i - 1] = h[i - 1]
      OBVIOUS
    <3>1. CASE i = m + 1
      <4>1. g[i] = last /\ i - 1 = m
        BY <3>1
      <4> HIDE DEF g
      <4> QED
        BY <3>0, <3>1, <4>1
    <3>2. CASE i # m + 1
      <4>1. g[i] = h[i] /\ i \in 1..m
        BY <3>2
      <4> HIDE DEF g
      <4> QED
        BY <2>2, <3>0, <4>1
    <3> QED
      BY <3>1, <3>2
  <2> HIDE DEF g
  <2> QED
    BY <2>3, <2>4, <2>5
<1>3. T = Nat
  <2> HIDE DEF P
  <2>1. 0 \in T /\ \A m \in T : m + 1 \in T
    BY <1>1, <1>2
  <2> QED
    BY <2>1, AllNumbers
<1>4. P(n)
  BY <1>3
<1> QED
  BY <1>4 DEF Walks

LEMMA WalkIs ==
    ASSUME NEW v, NEW msgs, NEW some, Len(some) \in Nat
    PROVE  \E h : Walks(h, v, msgs, some, Len(some)) /\ Walk(v, msgs, some) = h[Len(some)]
<1> DEFINE n == Len(some)
           Defines(f) == f = [i \in 0..n |-> IF i = 0 THEN [system |-> <<>>, turns |-> <<>>, pending |-> <<>>]
                                              ELSE AddMessage(v, msgs, f[i - 1], some[i])]
           h == CHOOSE f : Defines(f)
<1>0. n \in Nat
  OBVIOUS
<1>a. PICK X : \E f \in [0..n -> X] : Walks(f, v, msgs, some, n)
  <2> HIDE DEF n
  <2> QED
    BY <1>0, WalkExists
<1>b. PICK f \in [0..n -> X] : Walks(f, v, msgs, some, n)
  BY <1>a
<1>1. f[0] = Start /\ \A i \in 1..n : f[i] = AddMessage(v, msgs, f[i - 1], some[i])
  BY <1>b DEF Walks
<1>2. Defines(f)
  <2>1. \A i \in 0..n : f[i] = IF i = 0 THEN [system |-> <<>>, turns |-> <<>>, pending |-> <<>>]
                               ELSE AddMessage(v, msgs, f[i - 1], some[i])
    BY <1>1 DEF Start
  <2> QED
    BY <2>1
<1>3. Defines(h)
  <2> HIDE DEF Defines
  <2> QED
    BY <1>2
<1>4. Walks(h, v, msgs, some, n)
  <2> HIDE DEF h
  <2>1. 0 \in 0..n /\ \A i \in 1..n : i \in 0..n /\ i # 0
    OBVIOUS
  <2> QED
    BY <1>3, <2>1 DEF Walks, Start
<1>5. Walk(v, msgs, some) = h[n]
  BY DEF Walk
<1> QED
  BY <1>4, <1>5

\* Two walks that agree on what they meet go the same way.
LEMMA WalksAgree ==
    ASSUME NEW v, NEW msgs, NEW some, NEW other, NEW same, NEW n \in Nat, NEW h, NEW g,
           Walks(h, v, msgs, some, n), Walks(g, v, other, same, n),
           Alike(v, msgs, some, other, same, n)
    PROVE  h[n] = g[n]
<1> DEFINE P(k) == k <= n => h[k] = g[k]
           T == {k \in Nat : P(k)}
<1>1. P(0)
  BY DEF Walks
<1>2. ASSUME NEW k \in Nat, P(k) PROVE P(k + 1)
  <2> SUFFICES ASSUME k + 1 <= n PROVE h[k + 1] = g[k + 1]
    OBVIOUS
  <2>1. k + 1 \in 1..n /\ (k + 1) - 1 = k /\ h[k] = g[k]
    BY <1>2
  <2> QED
    BY <2>1 DEF Walks, Alike
<1>3. T = Nat
  <2> HIDE DEF P
  <2>1. 0 \in T /\ \A k \in T : k + 1 \in T
    BY <1>1, <1>2
  <2> QED
    BY <2>1, AllNumbers
<1> QED
  BY <1>3

LEMMA WalkNone == \A v, msgs : Walk(v, msgs, <<>>) = Start
<1> TAKE v, msgs
<1>1. Len(<<>>) = 0
  OBVIOUS
<1>2. PICK h : Walks(h, v, msgs, <<>>, Len(<<>>)) /\ Walk(v, msgs, <<>>) = h[Len(<<>>)]
  BY <1>1, WalkIs
<1> QED
  BY <1>1, <1>2 DEF Walks

LEMMA WalkMore ==
    ASSUME NEW S, NEW v, NEW msgs, NEW some \in Seq(S), NEW m \in S
    PROVE  Walk(v, msgs, Append(some, m)) = AddMessage(v, msgs, Walk(v, msgs, some), m)
<1> DEFINE more == Append(some, m)
           n == Len(some)
<1>1. n \in Nat /\ Len(more) = n + 1 /\ more[n + 1] = m /\ \A i \in 1..n : more[i] = some[i]
  BY AppendProperties, LenProperties
<1> HIDE DEF n, more
<1>2. PICK h : Walks(h, v, msgs, some, n) /\ Walk(v, msgs, some) = h[n]
  BY <1>1, WalkIs DEF n
<1>3. PICK g : Walks(g, v, msgs, more, n + 1) /\ Walk(v, msgs, more) = g[n + 1]
  <2>1. Len(more) \in Nat
    BY <1>1
  <2>2. \E g : Walks(g, v, msgs, more, Len(more)) /\ Walk(v, msgs, more) = g[Len(more)]
    BY <2>1, WalkIs
  <2> QED
    BY <1>1, <2>2
<1>4. h[n] = g[n]
  <2>1. Walks(g, v, msgs, more, n)
    <3>1. \A i \in 1..n : i \in 1..(n + 1)
      BY <1>1
    <3> QED
      BY <1>3, <3>1 DEF Walks
  <2>2. Alike(v, msgs, some, msgs, more, n)
    BY <1>1 DEF Alike
  <2> QED
    BY <1>1, <1>2, <2>1, <2>2, WalksAgree
<1>5. g[n + 1] = AddMessage(v, msgs, g[n], m)
  <2>1. n + 1 \in 1..(n + 1) /\ (n + 1) - 1 = n
    BY <1>1
  <2> QED
    BY <1>1, <1>3, <2>1 DEF Walks
<1> QED
  BY <1>2, <1>3, <1>4, <1>5 DEF more

\* Names matter to Gemini alone, and only for the results walked over.
LEMMA WalkNames ==
    ASSUME NEW S, NEW v, NEW msgs, NEW other, NEW some \in Seq(S),
           v = "vertex" =>
               \A i \in DOMAIN some : some[i].role = "tool" =>
                   NameOf(msgs, some[i].answers) = NameOf(other, some[i].answers)
    PROVE  Walk(v, msgs, some) = Walk(v, other, some)
<1> DEFINE n == Len(some)
<1>1. n \in Nat /\ DOMAIN some = 1..n
  BY LenProperties
<1> HIDE DEF n
<1>2. PICK h : Walks(h, v, msgs, some, n) /\ Walk(v, msgs, some) = h[n]
  BY <1>1, WalkIs DEF n
<1>3. PICK g : Walks(g, v, other, some, n) /\ Walk(v, other, some) = g[n]
  BY <1>1, WalkIs DEF n
<1>4. ASSUME NEW i \in 1..n, NEW acc
      PROVE  AddMessage(v, msgs, acc, some[i]) = AddMessage(v, other, acc, some[i])
  <2> DEFINE m == some[i]
  <2>1. CASE m.role = "tool"
    <3>1. v = "vertex" => NameOf(msgs, m.answers) = NameOf(other, m.answers)
      BY <1>1, <2>1
    <3>2. ResultBlock(v, msgs, m) = ResultBlock(v, other, m)
      BY <3>1 DEF ResultBlock, ResultRef
    <3> HIDE DEF m
    <3>3. AddMessage(v, msgs, acc, m) = AddResult(v, acc, ResultBlock(v, msgs, m))
      BY <2>1 DEF AddMessage
    <3>4. AddMessage(v, other, acc, m) = AddResult(v, acc, ResultBlock(v, other, m))
      BY <2>1 DEF AddMessage
    <3> QED
      BY <3>2, <3>3, <3>4 DEF m
  <2>2. CASE m.role # "tool"
    BY <2>2 DEF AddMessage
  <2> QED
    BY <2>1, <2>2
<1>5. h[n] = g[n]
  <2>1. Alike(v, msgs, some, other, some, n)
    BY <1>4 DEF Alike
  <2> QED
    BY <1>1, <1>2, <1>3, <2>1, WalksAgree
<1> QED
  BY <1>2, <1>3, <1>5

-----------------------------------------------------------------------------
(* What is collected from a conversation grows with its messages.          *)

LEMMA EntriesOf ==
    ASSUME NEW S, NEW s \in Seq(S)
    PROVE  \A i \in DOMAIN s : s[i] \in S
  BY LenProperties, ElementOfSeq

LEMMA FilterMore ==
    ASSUME NEW h \in Seq(Entries), NEW m \in Entries
    PROVE  /\ FilterForRequest(h) \in Seq(Entries) /\ FilterForRequest(<<>>) = <<>>
           /\ m.ignored => FilterForRequest(Append(h, m)) = FilterForRequest(h)
           /\ ~m.ignored => FilterForRequest(Append(h, m)) = Append(FilterForRequest(h), m)
<1> DEFINE f == [e \in Entries |-> IF e.ignored THEN <<>> ELSE <<e>>]
<1>1. f \in [Entries -> Seq(Entries)]
  <2>1. \A e \in Entries : <<>> \in Seq(Entries) /\ <<e>> \in Seq(Entries)
    OBVIOUS
  <2> QED
    BY <2>1
<1>2. \A s \in Seq(Entries) : FilterForRequest(s) = Each(f, s)
  <2> TAKE s \in Seq(Entries)
  <2>1. [i \in DOMAIN s |-> IF s[i].ignored THEN <<>> ELSE <<s[i]>>] = [i \in DOMAIN s |-> f[s[i]]]
    BY EntriesOf
  <2> QED
    BY <2>1 DEF FilterForRequest, Each
<1>3. f[m] = IF m.ignored THEN <<>> ELSE <<m>>
  OBVIOUS
<1> HIDE DEF f
<1> DEFINE kept == Each(f, h)
<1>4. kept \in Seq(Entries)
  BY <1>1, EachType
<1>5. Each(f, Append(h, m)) = kept \o f[m]
  BY <1>1, EachMore
<1>6. Append(h, m) \in Seq(Entries) /\ <<>> \in Seq(Entries)
  BY AppendProperties
<1>7. Each(f, <<>>) = <<>>
  BY EachNone
<1> HIDE DEF kept
<1>8. kept \o <<>> = kept /\ kept \o <<m>> = Append(kept, m)
  BY <1>4, ConcatEmptySeq, AppendIsConcat
<1> QED
  BY <1>2, <1>3, <1>4, <1>5, <1>6, <1>7, <1>8 DEF kept

LEMMA CallsMore ==
    ASSUME NEW h \in Seq(Entries), NEW m \in Entries
    PROVE  /\ AllCalls(h) \in Seq(Calls) /\ AllCalls(<<>>) = <<>>
           /\ AllCalls(Append(h, m)) = AllCalls(h) \o m.calls
<1> DEFINE f == [e \in Entries |-> e.calls]
<1>1. f \in [Entries -> Seq(Calls)]
  BY EntryIs
<1>2. \A s \in Seq(Entries) : AllCalls(s) = Each(f, s)
  <2> TAKE s \in Seq(Entries)
  <2>1. [i \in DOMAIN s |-> s[i].calls] = [i \in DOMAIN s |-> f[s[i]]]
    BY EntriesOf
  <2> QED
    BY <2>1 DEF AllCalls, Each
<1>3. f[m] = m.calls
  OBVIOUS
<1> HIDE DEF f
<1>4. Each(f, h) \in Seq(Calls)
  BY <1>1, EachType
<1>5. Each(f, Append(h, m)) = Each(f, h) \o f[m]
  BY <1>1, EachMore
<1>6. Append(h, m) \in Seq(Entries) /\ <<>> \in Seq(Entries)
  BY AppendProperties
<1>7. Each(f, <<>>) = <<>>
  BY EachNone
<1> QED
  BY <1>2, <1>3, <1>4, <1>5, <1>6, <1>7

LEMMA ResultsMore ==
    ASSUME NEW h \in Seq(Entries), NEW m \in Entries
    PROVE  /\ Results(h) \in Seq(Ids \cup {<<>>}) /\ Results(<<>>) = <<>>
           /\ m.role # "tool" => Results(Append(h, m)) = Results(h)
           /\ m.role = "tool" => Results(Append(h, m)) = Append(Results(h), m.answers)
<1> DEFINE R == Ids \cup {<<>>}
           f == [e \in Entries |-> IF e.role = "tool" THEN <<e.answers>> ELSE <<>>]
<1>1. f \in [Entries -> Seq(R)]
  <2>1. \A e \in Entries : e.answers \in R
    BY EntryIs
  <2> HIDE DEF R
  <2>2. \A e \in Entries : <<>> \in Seq(R) /\ <<e.answers>> \in Seq(R)
    BY <2>1
  <2> QED
    BY <2>2
<1>2. \A s \in Seq(Entries) : Results(s) = Each(f, s)
  <2> TAKE s \in Seq(Entries)
  <2>1. [i \in DOMAIN s |-> IF s[i].role = "tool" THEN <<s[i].answers>> ELSE <<>>] = [i \in DOMAIN s |-> f[s[i]]]
    BY EntriesOf
  <2> QED
    BY <2>1 DEF Results, Each
<1>3. f[m] = IF m.role = "tool" THEN <<m.answers>> ELSE <<>>
  OBVIOUS
<1>a. m.answers \in R
  BY EntryIs
<1> HIDE DEF f, R
<1> DEFINE got == Each(f, h)
<1>4. got \in Seq(R)
  BY <1>1, EachType
<1>5. Each(f, Append(h, m)) = got \o f[m]
  BY <1>1, EachMore
<1>6. Append(h, m) \in Seq(Entries) /\ <<>> \in Seq(Entries)
  BY AppendProperties
<1>7. Each(f, <<>>) = <<>>
  BY EachNone
<1> HIDE DEF got
<1>8. got \o <<>> = got /\ got \o <<m.answers>> = Append(got, m.answers)
  BY <1>4, <1>a, ConcatEmptySeq, AppendIsConcat
<1> QED
  BY <1>2, <1>3, <1>4, <1>5, <1>6, <1>7, <1>8 DEF got, R

-----------------------------------------------------------------------------
(* Types of the pieces of a request.                                       *)

\* The pieces of one message.
Own(m) == {m.n} \X Nat

LEMMA OwnPieces ==
    ASSUME NEW m \in Entries
    PROVE  /\ TextPiece(m) \in Seq(Own(m)) /\ PartPieces(m) \in Seq(Own(m))
           /\ Len(PartPieces(m)) = Len(m.parts)
           /\ \A i \in 1..Len(m.parts) : PartPieces(m)[i] = <<m.n, i>>
           /\ Media(m) \in Seq(Own(m)) /\ \A v : SystemText(v, m) \in Seq(Own(m))
<1>0. /\ m.n \in Nat /\ Len(m.parts) \in Nat /\ DOMAIN m.parts = 1..Len(m.parts)
  BY EntryIs DEF Numbers
<1> DEFINE n == Len(m.parts)
<1>1. \A i \in 0..n : <<m.n, i>> \in Own(m)
  BY <1>0 DEF Own
<1>2. TextPiece(m) \in Seq(Own(m))
  <2> DEFINE p == <<m.n, 0>>
  <2>1. p \in Own(m)
    BY <1>0, <1>1
  <2>2. TextPiece(m) = IF m.text = "" THEN <<>> ELSE <<p>>
    BY DEF TextPiece
  <2> HIDE DEF p
  <2>3. <<>> \in Seq(Own(m)) /\ <<p>> \in Seq(Own(m))
    BY <2>1
  <2> QED
    BY <2>2, <2>3
<1>3. /\ PartPieces(m) \in Seq(Own(m)) /\ Len(PartPieces(m)) = n
      /\ \A i \in 1..n : PartPieces(m)[i] = <<m.n, i>>
  <2>1. PartPieces(m) = [i \in 1..n |-> <<m.n, i>>]
    BY <1>0 DEF PartPieces
  <2>2. PartPieces(m) \in Seq(Own(m))
    BY <1>0, <1>1, <2>1, IsASeq
  <2>3. DOMAIN PartPieces(m) = 1..n
    BY <2>1
  <2> QED
    BY <1>0, <2>1, <2>2, <2>3, LenProperties
<1>4. ASSUME NEW p, \A i \in 1..n : p[i] \in {<<>>, <<<<m.n, i>>>>}, p = [i \in 1..n |-> p[i]]
      PROVE  FlattenSeq(p) \in Seq(Own(m))
  <2>1. \A i \in 1..n : p[i] \in Seq(Own(m))
    <3> TAKE i \in 1..n
    <3> DEFINE q == <<m.n, i>>
    <3>1. q \in Own(m)
      BY <1>1
    <3>2. p[i] \in {<<>>, <<q>>}
      BY <1>4
    <3> HIDE DEF q
    <3>3. <<>> \in Seq(Own(m)) /\ <<q>> \in Seq(Own(m))
      BY <3>1
    <3> QED
      BY <3>2, <3>3
  <2>2. [i \in 1..n |-> p[i]] \in Seq(Seq(Own(m)))
    BY <1>0, <2>1, IsASeq
  <2> QED
    BY <1>4, <2>2, FlattenType
<1>5. Media(m) \in Seq(Own(m))
  <2> DEFINE p == [i \in 1..n |-> IF IsMedia(m.parts[i]) THEN <<<<m.n, i>>>> ELSE <<>>]
  <2>1. Media(m) = FlattenSeq(p)
    BY <1>0 DEF Media
  <2>2. \A i \in 1..n : p[i] \in {<<>>, <<<<m.n, i>>>>}
    OBVIOUS
  <2>3. p = [i \in 1..n |-> p[i]]
    OBVIOUS
  <2> HIDE DEF p
  <2> QED
    BY <1>4, <2>1, <2>2, <2>3
<1>6. ASSUME NEW v PROVE SystemText(v, m) \in Seq(Own(m))
  <2> DEFINE p == [i \in 1..n |-> IF v = "anthropic" /\ m.parts[i].type = "text" /\ m.parts[i].text # ""
                                  THEN <<<<m.n, i>>>> ELSE <<>>]
  <2>1. SystemText(v, m) = FlattenSeq(p)
    BY <1>0 DEF SystemText
  <2>2. \A i \in 1..n : p[i] \in {<<>>, <<<<m.n, i>>>>}
    OBVIOUS
  <2>3. p = [i \in 1..n |-> p[i]]
    OBVIOUS
  <2> HIDE DEF p
  <2> QED
    BY <1>4, <2>1, <2>2, <2>3
<1> QED
  BY <1>2, <1>3, <1>5, <1>6

LEMMA PieceTypes ==
    ASSUME NEW m \in Entries
    PROVE  /\ TextPiece(m) \in Seq(Piece) /\ PartPieces(m) \in Seq(Piece)
           /\ Len(PartPieces(m)) = Len(m.parts)
           /\ \A i \in 1..Len(m.parts) : PartPieces(m)[i] = <<m.n, i>>
           /\ Media(m) \in Seq(Piece) /\ \A v : SystemText(v, m) \in Seq(Piece)
           /\ Seq(Own(m)) \subseteq Seq(Piece)
<1>1. Own(m) \subseteq Piece
  <2>1. m.n \in Nat
    BY EntryIs DEF Numbers
  <2> QED
    BY <2>1 DEF Own, Piece
<1>2. Seq(Own(m)) \subseteq Seq(Piece)
  BY <1>1, SeqMonotonic
<1> QED
  BY <1>2, OwnPieces

\* The name given to a result: that of the last call with its id.
NameGiven(all, id, name) ==
    \/ (\A k \in DOMAIN all : all[k].id # id) /\ name = ""
    \/ \E k \in DOMAIN all :
          /\ all[k].id = id /\ name = all[k].name
          /\ \A j \in DOMAIN all : all[j].id = id => j <= k

LEMMA NameIs ==
    ASSUME NEW msgs \in Seq(Entries), NEW id
    PROVE  NameGiven(AllCalls(msgs), id, NameOf(msgs, id))
<1> DEFINE all == AllCalls(msgs)
           named == {k \in DOMAIN all : all[k].id = id}
<1>1. AllCalls(msgs) \in Seq(Calls)
  <2>1. CASE Entries = {}
    <3>1. msgs = <<>>
      BY <2>1, LenProperties, ElementOfSeq, EmptySeq
    <3>2. FlattenSeq(<<>>) = <<>>
      BY EmptySeq, FlattenType
    <3>3. [i \in DOMAIN <<>> |-> <<>>[i].calls] = <<>>
      OBVIOUS
    <3>4. AllCalls(msgs) = <<>>
      BY <3>1, <3>2, <3>3 DEF AllCalls
    <3> QED
      BY <3>4
  <2>2. CASE Entries # {}
    <3>1. PICK m \in Entries : TRUE
      BY <2>2
    <3> QED
      BY <3>1, CallsMore
  <2> QED
    BY <2>1, <2>2
<1>2. DOMAIN all = 1..Len(all) /\ Len(all) \in Nat
  BY <1>1, LenProperties
<1>3. NameOf(msgs, id) = IF named = {} THEN "" ELSE all[Max(named)].name
  BY DEF NameOf
<1> HIDE DEF all
<1>4. CASE named = {}
  BY <1>3, <1>4 DEF all, NameGiven
<1>5. CASE named # {}
  <2>1. named \in SUBSET (1..Len(all))
    BY <1>2
  <2>2. Max(named) \in named /\ \A y \in named : y <= Max(named)
    <3> HIDE DEF named
    <3> QED
      BY <1>2, <1>5, <2>1, GreatestNumber
  <2> QED
    BY <1>3, <1>5, <2>2 DEF all, NameGiven
<1> QED
  BY <1>4, <1>5

LEMMA NameType ==
    ASSUME NEW msgs \in Seq(Entries), NEW id
    PROVE  NameOf(msgs, id) \in Names
<1>1. \A e \in Entries : \A k \in DOMAIN e.calls : e.calls[k].name \in Names
  BY EntryIs
<1>2. \A c \in Calls : c.name \in Names
  BY DEF Calls, Names
<1>a. NameGiven(AllCalls(msgs), id, NameOf(msgs, id))
  BY NameIs
<1>3. CASE Entries = {}
  <2>1. msgs = <<>>
    BY <1>3, LenProperties, ElementOfSeq, EmptySeq
  <2>2. FlattenSeq(<<>>) = <<>>
    BY EmptySeq, FlattenType
  <2>3. [i \in DOMAIN <<>> |-> <<>>[i].calls] = <<>>
    OBVIOUS
  <2>4. AllCalls(msgs) = <<>>
    BY <2>1, <2>2, <2>3 DEF AllCalls
  <2>5. DOMAIN AllCalls(msgs) = {}
    BY <2>4
  <2> QED
    BY <2>5, <1>a DEF Names, NameGiven
<1>4. CASE Entries # {}
  <2>1. PICK m \in Entries : TRUE
    BY <1>4
  <2>2. AllCalls(msgs) \in Seq(Calls)
    BY <2>1, CallsMore
  <2>3. \A k \in DOMAIN AllCalls(msgs) : AllCalls(msgs)[k] \in Calls
    BY <2>2, EntriesOf
  <2> QED
    BY <1>2, <1>a, <2>3 DEF Names, NameGiven
<1> QED
  BY <1>3, <1>4

LEMMA BlockTypes ==
    ASSUME NEW v, NEW m \in Entries
    PROVE  /\ TurnBlocks(v, m) \in Seq(Block)
           /\ \A msgs : msgs \in Seq(Entries) => ResultBlock(v, msgs, m) \in Block
<1> DEFINE ps == TextPiece(m) \o PartPieces(m)
           content == [i \in DOMAIN ps |-> [kind |-> "content", piece |-> ps[i]]]
           calls == [i \in DOMAIN m.calls |->
                        [kind |-> "call", ref |-> CallRef(v, m.calls[i]),
                         piece |-> <<m.n, Len(m.parts) + i>>]]
<1>0. /\ m.n \in Nat /\ Len(m.parts) \in Nat /\ m.answers \in Ids \cup {<<>>}
      /\ DOMAIN m.calls = 1..Len(m.calls) /\ Len(m.calls) \in Nat
      /\ \A k \in DOMAIN m.calls : m.calls[k].id \in Ids /\ m.calls[k].name \in Names
  BY EntryIs DEF Numbers
<1>1. ps \in Seq(Piece)
  BY PieceTypes, ConcatProperties
<1>2. content \in Seq(Block)
  <2>1. DOMAIN ps = 1..Len(ps) /\ Len(ps) \in Nat /\ \A i \in DOMAIN ps : ps[i] \in Piece
    BY <1>1, LenProperties, EntriesOf
  <2> HIDE DEF ps
  <2>2. \A i \in 1..Len(ps) : [kind |-> "content", piece |-> ps[i]] \in Block
    BY <2>1 DEF Block
  <2> QED
    BY <2>1, <2>2, IsASeq
<1>3. calls \in Seq(Block)
  <2>1. \A i \in 1..Len(m.calls) :
           [kind |-> "call", ref |-> CallRef(v, m.calls[i]),
            piece |-> <<m.n, Len(m.parts) + i>>] \in Block
    <3> TAKE i \in 1..Len(m.calls)
    <3>1. CallRef(v, m.calls[i]) \in Refs /\ <<m.n, Len(m.parts) + i>> \in Piece
      BY <1>0 DEF CallRef, Refs, Piece
    <3> QED
      BY <3>1 DEF Block
  <2> QED
    BY <1>0, <2>1, IsASeq
<1>4. TurnBlocks(v, m) \in Seq(Block)
  <2>1. TurnBlocks(v, m) = content \o calls
    BY DEF TurnBlocks
  <2> HIDE DEF content, calls
  <2> QED
    BY <1>2, <1>3, <2>1, ConcatProperties
<1>5. ASSUME NEW msgs \in Seq(Entries) PROVE ResultBlock(v, msgs, m) \in Block
  <2> DEFINE pieces == TextPiece(m) \o (IF v = "vertex" THEN Media(m) ELSE PartPieces(m))
  <2>1. pieces \in Seq(Piece)
    BY PieceTypes, ConcatProperties
  <2>2. ResultRef(v, msgs, m) \in Refs
    BY <1>0, NameType DEF ResultRef, Refs
  <2>3. ResultBlock(v, msgs, m) = [kind |-> "result", ref |-> ResultRef(v, msgs, m), pieces |-> pieces]
    BY DEF ResultBlock
  <2> HIDE DEF pieces
  <2> QED
    BY <1>0, <2>1, <2>2, <2>3 DEF Block
<1> QED
  BY <1>4, <1>5

LEMMA ClosedType ==
    ASSUME NEW acc \in Acc
    PROVE  /\ Closed(acc) \in Acc /\ Closed(acc).pending = <<>> /\ Closed(acc).system = acc.system
           /\ acc.pending = <<>> => Closed(acc) = acc
           /\ acc.pending # <<>> => Closed(acc).turns = Append(acc.turns, [role |-> "user", blocks |-> acc.pending])
<1>1. /\ acc.system \in Seq(Piece) /\ acc.turns \in Seq(Turn) /\ acc.pending \in Seq(Block)
      /\ <<>> \in Seq(Block)
  BY DEF Acc
<1>2. CASE acc.pending = <<>>
  BY <1>2 DEF Closed
<1>3. CASE acc.pending # <<>>
  <2> DEFINE t == [role |-> "user", blocks |-> acc.pending]
             turns == Append(acc.turns, t)
  <2>1. t \in Turn
    BY <1>1 DEF Turn
  <2>2. turns \in Seq(Turn)
    <3> HIDE DEF t
    <3> QED
      BY <1>1, <2>1, AppendProperties
  <2>3. Closed(acc) = [acc EXCEPT !.turns = turns, !.pending = <<>>]
    BY <1>3 DEF Closed
  <2> HIDE DEF turns
  <2>4. Closed(acc) = [system |-> acc.system, turns |-> turns, pending |-> <<>>]
    BY <2>3 DEF Acc
  <2> QED
    BY <1>1, <1>3, <2>2, <2>4 DEF Acc, turns
<1> QED
  BY <1>2, <1>3

LEMMA AddType ==
    ASSUME NEW v, NEW msgs \in Seq(Entries), NEW acc \in Acc, NEW m \in Entries
    PROVE  AddMessage(v, msgs, acc, m) \in Acc
<1>0. acc.system \in Seq(Piece) /\ acc.turns \in Seq(Turn) /\ acc.pending \in Seq(Block)
  BY DEF Acc
<1>1. CASE m.role = "system"
  <2> DEFINE a == acc.system \o TextPiece(m)
             system == a \o SystemText(v, m)
  <2>1. a \in Seq(Piece)
    BY <1>0, PieceTypes, ConcatProperties
  <2>2. system \in Seq(Piece)
    <3> HIDE DEF a
    <3> QED
      BY <2>1, PieceTypes, ConcatProperties
  <2>3. AddMessage(v, msgs, acc, m) = [acc EXCEPT !.system = system]
    BY <1>1 DEF AddMessage, AddSystem, Acc
  <2> HIDE DEF system
  <2> QED
    BY <2>2, <2>3 DEF Acc
<1>2. CASE m.role \in {"user", "assistant"}
  <2> DEFINE c == Closed(acc)
             t == [role |-> m.role, blocks |-> TurnBlocks(v, m)]
  <2>1. c \in Acc
    BY ClosedType
  <2>2. t \in Turn
    BY <1>2, BlockTypes DEF Turn
  <2>3. AddMessage(v, msgs, acc, m) = IF TurnBlocks(v, m) = <<>> THEN c ELSE [c EXCEPT !.turns = Append(@, t)]
    BY <1>2 DEF AddMessage, AddTurn, BeforeTurn
  <2> HIDE DEF c, t
  <2>4. c.turns \in Seq(Turn)
    BY <2>1 DEF Acc
  <2>5. Append(c.turns, t) \in Seq(Turn)
    BY <2>2, <2>4, AppendProperties
  <2>6. [c EXCEPT !.turns = Append(@, t)] \in Acc
    BY <2>1, <2>5 DEF Acc
  <2> QED
    BY <2>1, <2>3, <2>6
<1>3. CASE m.role = "tool"
  <2> DEFINE b == ResultBlock(v, msgs, m)
             t == [role |-> "user", blocks |-> <<b>>]
  <2>1. b \in Block
    BY BlockTypes
  <2>2. AddMessage(v, msgs, acc, m) = IF v = "anthropic" THEN [acc EXCEPT !.turns = Append(@, t)]
                                      ELSE [acc EXCEPT !.pending = Append(@, b)]
    BY <1>3 DEF AddMessage, AddResult
  <2> HIDE DEF b
  <2>3. <<b>> \in Seq(Block) /\ Append(acc.pending, b) \in Seq(Block)
    BY <1>0, <2>1, AppendProperties
  <2>4. t \in Turn
    BY <2>3 DEF Turn
  <2> HIDE DEF t
  <2>5. Append(acc.turns, t) \in Seq(Turn)
    BY <1>0, <2>4, AppendProperties
  <2>6. [acc EXCEPT !.turns = Append(@, t)] \in Acc /\ [acc EXCEPT !.pending = Append(@, b)] \in Acc
    BY <2>3, <2>5 DEF Acc
  <2> QED
    BY <2>2, <2>6
<1>4. CASE m.role \notin {"system", "user", "assistant", "tool"}
  <2>1. AddMessage(v, msgs, acc, m) = acc
    BY <1>4 DEF AddMessage
  <2> QED
    BY <2>1
<1> QED
  BY <1>1, <1>2, <1>3, <1>4

-----------------------------------------------------------------------------
(* Facts about all conversations, and all walks over them.                 *)

\* What holds of no message and survives one more holds of all conversations.
LEMMA AllSequences ==
    ASSUME NEW S, NEW T, <<>> \in T,
           \A s \in Seq(S), x \in S : s \in T => Append(s, x) \in T
    PROVE  Seq(S) \subseteq T
<1> DEFINE N == {n \in Nat : \A s \in Seq(S) : Len(s) = n => s \in T}
<1>1. 0 \in N
  <2>1. \A s \in Seq(S) : Len(s) = 0 => s = <<>>
    BY EmptySeq
  <2> QED
    BY <2>1
<1>2. ASSUME NEW n \in N PROVE n + 1 \in N
  <2>1. ASSUME NEW s \in Seq(S), Len(s) = n + 1 PROVE s \in T
    <3>1. s # <<>>
      BY <1>2, <2>1, EmptySeq
    <3>2. PICK r \in Seq(S), x \in S : s = Append(r, x)
      BY <3>1, SequenceEmptyOrAppend
    <3>3. Len(r) = n
      BY <1>2, <2>1, <3>2, AppendProperties, LenProperties
    <3> QED
      BY <1>2, <3>2, <3>3
  <2> QED
    BY <1>2, <2>1
<1>3. N = Nat
  <2>1. N \in SUBSET Nat
    OBVIOUS
  <2> HIDE DEF N
  <2> QED
    BY <1>1, <1>2, <2>1, AllNumbers
<1>4. ASSUME NEW s \in Seq(S) PROVE s \in T
  <2>1. Len(s) \in N
    BY <1>3, LenProperties
  <2> QED
    BY <2>1
<1> QED
  BY <1>4

LEMMA WalkType ==
    ASSUME NEW v, NEW msgs \in Seq(Entries), NEW some \in Seq(Entries)
    PROVE  /\ Walk(v, msgs, some) \in Acc
           /\ v = "anthropic" => Walk(v, msgs, some).pending = <<>>
<1> DEFINE W(s) == Walk(v, msgs, s)
           T == {s \in Seq(Entries) : W(s) \in Acc /\ (v = "anthropic" => W(s).pending = <<>>)}
<1>1. <<>> \in T
  <2>1. Start \in Acc /\ Start.pending = <<>>
    <3>1. <<>> \in Seq(Piece) /\ <<>> \in Seq(Turn) /\ <<>> \in Seq(Block)
      BY EmptySeq
    <3> QED
      BY <3>1 DEF Start, Acc
  <2>2. W(<<>>) = Start /\ <<>> \in Seq(Entries)
    BY WalkNone
  <2> QED
    BY <2>1, <2>2
<1>2. ASSUME NEW s \in Seq(Entries), NEW m \in Entries, s \in T PROVE Append(s, m) \in T
  <2> DEFINE a == W(s)
  <2>1. a \in Acc /\ (v = "anthropic" => a.pending = <<>>)
    BY <1>2
  <2>2. W(Append(s, m)) = AddMessage(v, msgs, a, m)
    BY WalkMore
  <2>3. Append(s, m) \in Seq(Entries)
    BY AppendProperties
  <2> HIDE DEF a
  <2>4. AddMessage(v, msgs, a, m) \in Acc
    BY <2>1, AddType
  <2>5. ASSUME v = "anthropic" PROVE AddMessage(v, msgs, a, m).pending = <<>>
    <3>1. a.pending = <<>> /\ Closed(a) = a
      BY <2>1, <2>5, ClosedType
    <3>2. CASE m.role = "system"
      BY <2>1, <3>1, <3>2 DEF AddMessage, AddSystem, Acc
    <3>3. CASE m.role \in {"user", "assistant"}
      <4>1. AddMessage(v, msgs, a, m) = AddTurn(v, a, m)
        BY <3>3 DEF AddMessage
      <4> QED
        BY <3>1, <4>1 DEF AddTurn, BeforeTurn
    <3>4. CASE m.role = "tool"
      <4>1. AddMessage(v, msgs, a, m) = AddResult(v, a, ResultBlock(v, msgs, m))
        BY <3>4 DEF AddMessage
      <4> QED
        BY <2>1, <2>5, <3>1, <4>1 DEF AddResult, Acc
    <3>5. CASE m.role \notin {"system", "user", "assistant", "tool"}
      BY <3>1, <3>5 DEF AddMessage
    <3> QED
      BY <3>2, <3>3, <3>4, <3>5
  <2> HIDE DEF W
  <2> QED
    BY <2>2, <2>3, <2>4, <2>5
<1>3. Seq(Entries) \subseteq T
  <2> HIDE DEF T
  <2> QED
    BY <1>1, <1>2, AllSequences
<1> QED
  BY <1>3

LEMMA TranslatedType ==
    ASSUME NEW v, NEW h \in Seq(Entries)
    PROVE  Translated(v, FilterForRequest(h)) \in Acc
<1>1. FilterForRequest(h) \in Seq(Entries)
  <2>1. CASE Entries = {}
    <3>1. h = <<>>
      BY <2>1, LenProperties, ElementOfSeq, EmptySeq
    <3>2. FilterForRequest(<<>>) = <<>>
      <4>1. FlattenSeq(<<>>) = <<>>
        BY EmptySeq, FlattenType
      <4>2. [i \in DOMAIN <<>> |-> IF <<>>[i].ignored THEN <<>> ELSE << <<>>[i] >>] = <<>>
        OBVIOUS
      <4> QED
        BY <4>1, <4>2 DEF FilterForRequest
    <3> QED
      BY <3>1, <3>2
  <2>2. CASE Entries # {}
    BY <2>2, FilterMore
  <2> QED
    BY <2>1, <2>2
<1> DEFINE f == FilterForRequest(h)
<1>2. Walk(v, f, f) \in Acc
  BY <1>1, WalkType
<1> QED
  BY <1>2, ClosedType DEF Translated

LEMMA CallIds ==
    ASSUME NEW c \in Calls
    PROVE  c.id \in Ids /\ c.name \in Names
<1>1. PICK m \in Entries : c \in Range(m.calls)
  BY DEF Calls
<1>2. PICK k \in DOMAIN m.calls : c = m.calls[k]
  BY <1>1 DEF Range
<1> QED
  BY <1>2, EntryIs

LEMMA UnansweredType ==
    ASSUME NEW h \in Seq(Entries)
    PROVE  /\ AllCalls(h) \in Seq(Calls) /\ Results(h) \in Seq(Ids \cup {<<>>})
           /\ Unanswered(h) \in Seq(Calls)
<1>1. AllCalls(h) \in Seq(Calls) /\ Results(h) \in Seq(Ids \cup {<<>>})
  <2>1. CASE Entries = {}
    <3>1. h = <<>>
      BY <2>1, LenProperties, ElementOfSeq, EmptySeq
    <3>2. FlattenSeq(<<>>) = <<>>
      BY EmptySeq, FlattenType
    <3>3. /\ [i \in DOMAIN <<>> |-> <<>>[i].calls] = <<>>
          /\ [i \in DOMAIN <<>> |-> IF <<>>[i].role = "tool" THEN << <<>>[i].answers >> ELSE <<>>] = <<>>
      OBVIOUS
    <3>4. AllCalls(h) = <<>> /\ Results(h) = <<>>
      BY <3>1, <3>2, <3>3 DEF AllCalls, Results
    <3> QED
      BY <3>4, EmptySeq
  <2>2. CASE Entries # {}
    BY <2>2, CallsMore, ResultsMore
  <2> QED
    BY <2>1, <2>2
<1> DEFINE c == AllCalls(h)
           r == Results(h)
<1>2. Len(r) \in Nat /\ Len(c) \in Nat /\ \A i \in (Len(r) + 1)..Len(c) : c[i] \in Calls
  BY <1>1, LenProperties, ElementOfSeq
<1>3. Unanswered(h) \in Seq(Calls)
  <2>1. Unanswered(h) = SubSeq(c, Len(r) + 1, Len(c))
    BY DEF Unanswered
  <2> HIDE DEF c, r
  <2> QED
    BY <1>2, <2>1, SubSeqProperties
<1> QED
  BY <1>1, <1>3

\* A message joins the conversation.
Says(d, m) ==
    /\ m = Numbered(d, Len(history) + 1, IF d.role = "tool" THEN Head(Unanswered(history)).id ELSE <<>>)
    /\ m \in Entries /\ history' = Append(history, m) /\ MayAdd(d)

LEMMA EntryAdded ==
    ASSUME history \in Seq(Entries), NEW d \in Drafts, Say(d)
    PROVE  \E m : Says(d, m)
<1> DEFINE a == IF d.role = "tool" THEN Head(Unanswered(history)).id ELSE <<>>
           m == Numbered(d, Len(history) + 1, a)
<1>1. MayAdd(d) /\ history' = Append(history, m)
  BY DEF Say
<1>2. a \in Ids \cup {<<>>}
  <2>1. CASE d.role = "tool"
    <3>1. Unanswered(history) # <<>>
      BY <1>1, <2>1, DraftsAssumption DEF MayAdd
    <3>2. Head(Unanswered(history)) \in Calls
      BY <3>1, UnansweredType, HeadTailProperties
    <3> QED
      BY <2>1, <3>2, CallIds
  <2>2. CASE d.role # "tool"
    BY <2>2
  <2> QED
    BY <2>1, <2>2
<1>3. Len(history) + 1 \in Numbers
  BY LenProperties DEF Numbers
<1>4. m \in Entries
  <2> HIDE DEF a
  <2> QED
    BY <1>2, <1>3 DEF Entries
<1> QED
  BY <1>1, <1>4 DEF Says

LEMMA HistoryKept ==
    ASSUME history \in Seq(Entries), [RequestsNext]_history
    PROVE  history' \in Seq(Entries)
<1>1. CASE UNCHANGED history
  BY <1>1
<1>2. ASSUME NEW d \in Drafts, Say(d) PROVE history' \in Seq(Entries)
  <2>1. PICK m : Says(d, m)
    BY <1>2, EntryAdded
  <2> QED
    BY <2>1, AppendProperties DEF Says
<1> QED
  BY <1>1, <1>2 DEF RequestsNext

\* The messages are numbered in their order.
InOrder(h) == h \in Seq(Entries) /\ \A i \in DOMAIN h : h[i].n = i

LEMMA OrderMore ==
    ASSUME NEW h, InOrder(h), NEW m \in Entries, m.n = Len(h) + 1
    PROVE  InOrder(Append(h, m))
<1> DEFINE g == Append(h, m)
<1>1. h \in Seq(Entries) /\ \A i \in DOMAIN h : h[i].n = i
  BY DEF InOrder
<1>2. /\ g \in Seq(Entries) /\ Len(g) = Len(h) + 1 /\ g[Len(h) + 1] = m
      /\ \A i \in 1..Len(h) : g[i] = h[i]
  BY <1>1, AppendProperties
<1> HIDE DEF g
<1>3. DOMAIN g = 1..(Len(h) + 1) /\ DOMAIN h = 1..Len(h) /\ Len(h) \in Nat
  BY <1>1, <1>2, LenProperties
<1>4. \A i \in DOMAIN g : g[i].n = i
  <2> TAKE i \in DOMAIN g
  <2>1. i \in 1..Len(h) \/ i = Len(h) + 1
    BY <1>3
  <2> QED
    BY <1>1, <1>2, <1>3, <2>1
<1> QED
  BY <1>2, <1>4 DEF InOrder, g

LEMMA OrderKept == InOrder(history) /\ [RequestsNext]_history => InOrder(history)'
<1> SUFFICES ASSUME InOrder(history), [RequestsNext]_history PROVE InOrder(history)'
  OBVIOUS
<1>1. CASE UNCHANGED history
  BY <1>1 DEF InOrder
<1>2. ASSUME NEW d \in Drafts, Say(d) PROVE InOrder(history)'
  <2>1. history \in Seq(Entries)
    BY DEF InOrder
  <2>2. PICK m : Says(d, m)
    BY <1>2, <2>1, EntryAdded
  <2>3. history' = Append(history, m) /\ m \in Entries /\ m.n = Len(history) + 1
    BY <2>2 DEF Says, Numbered
  <2>4. InOrder(Append(history, m))
    BY <2>3, OrderMore
  <2> QED
    BY <2>3, <2>4 DEF InOrder
<1> QED
  BY <1>1, <1>2 DEF RequestsNext

-----------------------------------------------------------------------------
(* Cache markers, thinking budget and sampling.                            *)

LEMMA OneMore ==
    ASSUME NEW S, IsFiniteSet(S), NEW n \in Nat, Cardinality(S) <= n, NEW x
    PROVE  /\ IsFiniteSet(S \cup {x}) /\ Cardinality(S \cup {x}) \in Nat
           /\ Cardinality(S \cup {x}) <= n + 1
<1>1. Cardinality(S) \in Nat
  BY FS_CardinalityType
<1>2. /\ IsFiniteSet(S \cup {x})
      /\ Cardinality(S \cup {x}) = IF x \in S THEN Cardinality(S) ELSE Cardinality(S) + 1
  BY FS_AddElement
<1> QED
  BY <1>1, <1>2

LEMMA FewMarks ==
    ASSUME NEW r \in Acc, NEW tools
    PROVE  Cardinality(Marked(r, tools)) <= 4
<1> DEFINE ends == MarkedEnds(r, tools)
           s == <<"system", Len(r.system)>>
           t == <<"tools", tools>>
           n == Len(r.turns)
           u == <<"turn", n>>
           w == <<"turn", n - 1>>
<1>0. n \in Nat /\ DOMAIN r.turns = 1..n
  <2>1. r.turns \in Seq(Turn)
    BY DEF Acc
  <2> QED
    BY <2>1, LenProperties
<1>1. ends \subseteq {s, t}
  BY DEF MarkedEnds
<1>2. /\ IsFiniteSet({s}) /\ Cardinality({s}) = 1
  BY FS_Singleton
<1> HIDE DEF s, t, ends, u, w
<1>3. IsFiniteSet({s} \cup {t}) /\ Cardinality({s} \cup {t}) <= 2
  BY <1>2, FS_AddElement
<1>4. ends \in SUBSET ({s} \cup {t})
  BY <1>1
<1>5. IsFiniteSet(ends) /\ Cardinality(ends) <= 2 /\ Cardinality(ends) \in Nat
  BY <1>3, <1>4, FS_Subset, FS_CardinalityType
<1>6. IsFiniteSet(ends \cup {u}) /\ Cardinality(ends \cup {u}) <= 2 + 1
  BY <1>5, OneMore
<1>6a. Cardinality(ends \cup {u}) <= 3
  BY <1>6
<1>7. IsFiniteSet((ends \cup {u}) \cup {w}) /\ Cardinality((ends \cup {u}) \cup {w}) <= 3 + 1
      /\ Cardinality((ends \cup {u}) \cup {w}) \in Nat
  BY <1>6, <1>6a, OneMore
<1>8. Marked(r, tools) = ends \cup {<<"turn", i>> : i \in {j \in 1..n : j > n - 2}}
  <2>1. ~(4 - Cardinality(ends) > 2) => 4 - Cardinality(ends) = 2
    BY <1>5
  <2>2. (IF 4 - Cardinality(ends) > 2 THEN 2 ELSE 4 - Cardinality(ends)) = 2
    BY <2>1
  <2> QED
    BY <1>0, <2>2 DEF Marked, ends
<1>9. Marked(r, tools) \in SUBSET ((ends \cup {u}) \cup {w})
  <2>1. ASSUME NEW j \in 1..n, j > n - 2 PROVE <<"turn", j>> \in {u, w}
    <3>1. j = n \/ j = n - 1
      BY <1>0, <2>1
    <3> QED
      BY <3>1 DEF u, w
  <2> QED
    BY <1>8, <2>1
<1>10. Cardinality(Marked(r, tools)) \in Nat /\ Cardinality(Marked(r, tools)) <= Cardinality((ends \cup {u}) \cup {w})
  BY <1>7, <1>9, FS_Subset, FS_CardinalityType
<1> QED
  BY <1>7, <1>10

LEMMA BudgetInRange ==
    ASSUME NEW b \in Nat, NEW x \in Nat, x > 1024
    PROVE  Budget(b, x) \in 1024..(x - 1)
  BY DEF Budget

LEMMA RequestWithin ==
    ASSUME history \in Seq(Entries)
    PROVE  WithinLimits
<1> SUFFICES ASSUME NEW s \in Settings, Sendable(history), NEW v \in Vendors \ {"vertex"},
                    Request(v, s, history) # NoRequest
             PROVE  /\ Cardinality(Request(v, s, history).marks) <= 4
                    /\ s.thinking => ~Request(v, s, history).sampling
                    /\ s.thinking /\ AnswerLimit(v, s) > 1024 =>
                           Request(v, s, history).thinking \in 1024..(AnswerLimit(v, s) - 1)
  BY DEF WithinLimits
<1> DEFINE t == Translated(v, FilterForRequest(history))
           marks == IF s.caching /\ v # "vertex" THEN Marked(t, s.tools) ELSE {}
<1>1. Request(v, s, history) =
        [system |-> t.system, turns |-> t.turns, marks |-> marks,
         thinking |-> Thinking(v, s), sampling |-> v = "vertex" \/ ~s.thinking]
  BY DEF Request
<1>2. t \in Acc
  BY TranslatedType
<1>3. Cardinality(marks) <= 4
  <2>1. Cardinality(Marked(t, s.tools)) <= 4
    <3> HIDE DEF t
    <3> QED
      BY <1>2, FewMarks
  <2>2. Cardinality({}) <= 4
    BY FS_EmptySet
  <2> QED
    BY <2>1, <2>2
<1>4. s.thinking => ~(v = "vertex" \/ ~s.thinking)
  OBVIOUS
<1>5. s.thinking /\ AnswerLimit(v, s) > 1024 => Thinking(v, s) \in 1024..(AnswerLimit(v, s) - 1)
  <2> DEFINE b == IF s.budget = 0 THEN 4096 ELSE s.budget
  <2>1. b \in Nat /\ AnswerLimit(v, s) \in Nat
    BY SettingsAssumption DEF AnswerLimit
  <2>2. s.thinking => Thinking(v, s) = Budget(b, AnswerLimit(v, s))
    BY DEF Thinking
  <2> HIDE DEF b
  <2> QED
    BY <2>1, <2>2, BudgetInRange
<1> DEFINE r == Request(v, s, history)
<1>6. r.marks = marks /\ r.thinking = Thinking(v, s)
  BY <1>1
<1>7. s.thinking => ~r.sampling
  <2>1. s.thinking => (v = "vertex" \/ ~s.thinking) = FALSE
    OBVIOUS
  <2>2. r.sampling = (v = "vertex" \/ ~s.thinking)
    <3> DEFINE q == v = "vertex" \/ ~s.thinking
    <3>1. \A a, b, c, d, e : [system |-> a, turns |-> b, marks |-> c, thinking |-> d, sampling |-> e].sampling = e
      OBVIOUS
    <3>2. r = [system |-> t.system, turns |-> t.turns, marks |-> marks, thinking |-> Thinking(v, s), sampling |-> q]
      BY <1>1
    <3> HIDE DEF q, r, t, marks
    <3>3. r.sampling = q
      BY <3>1, <3>2, Zenon
    <3> QED
      BY <3>3 DEF q
  <2> QED
    BY <2>1, <2>2, Zenon
<1> HIDE DEF marks, t, r
<1> QED
  BY <1>3, <1>5, <1>6, <1>7 DEF r

(* Whatever the conversation, the settings and the number of tools, no     *)
(* request breaks the limits of Anthropic's API (anthropic.go:337-352,     *)
(* 712-716, bedrock.go:482-494).                                           *)
THEOREM RequestsWithinLimits ==
    RequestsInit /\ [][RequestsNext]_history => []WithinLimits
<1>1. RequestsInit => history \in Seq(Entries)
  BY EmptySeq DEF RequestsInit
<1>2. history \in Seq(Entries) /\ [RequestsNext]_history => (history \in Seq(Entries))'
  BY HistoryKept
<1>3. history \in Seq(Entries) => WithinLimits
  BY RequestWithin
<1> QED
  BY <1>1, <1>2, <1>3, PTL

-----------------------------------------------------------------------------
(* Pieces.                                                                 *)

LEMMA EachNothing ==
    ASSUME NEW S, NEW R, NEW h \in [S -> Seq(R)], NEW s \in Seq(S), \A x \in S : h[x] = <<>>
    PROVE  Each(h, s) = <<>>
<1> DEFINE T == {r \in Seq(S) : Each(h, r) = <<>>}
<1>1. <<>> \in T
  BY EachNone, EmptySeq
<1>2. ASSUME NEW r \in Seq(S), NEW x \in S, r \in T PROVE Append(r, x) \in T
  <2>1. Append(r, x) \in Seq(S)
    BY AppendProperties
  <2>2. Each(h, Append(r, x)) = Each(h, r) \o h[x]
    BY EachMore
  <2>3. Each(h, r) = <<>> /\ h[x] = <<>>
    BY <1>2
  <2>4. <<>> \o <<>> = <<>>
    OBVIOUS
  <2> QED
    BY <2>1, <2>2, <2>3, <2>4
<1> QED
  <2> HIDE DEF T
  <2>1. Seq(S) \subseteq T
    BY <1>1, <1>2, AllSequences
  <2> QED
    BY <2>1 DEF T

PiecesOf(b) == IF b.kind = "result" THEN b.pieces ELSE <<b.piece>>

LEMMA PiecesType ==
    ASSUME NEW b \in Block
    PROVE  PiecesOf(b) \in Seq(Piece)
<1>1. CASE b.kind = "result"
  BY <1>1 DEF Block, PiecesOf
<1>2. CASE b.kind # "result"
  <2>1. b.piece \in Piece
    BY <1>2 DEF Block
  <2>2. <<b.piece>> \in Seq(Piece)
    <3> DEFINE p == b.piece
    <3> HIDE DEF p
    <3>1. p \in Piece => <<p>> \in Seq(Piece)
      OBVIOUS
    <3> QED
      BY <2>1, <3>1 DEF p
  <2> QED
    BY <1>2, <2>2 DEF PiecesOf
<1> QED
  BY <1>1, <1>2

LEMMA BlockPiecesMore ==
    ASSUME NEW bs \in Seq(Block)
    PROVE  /\ BlockPieces(bs) \in Seq(Piece) /\ BlockPieces(<<>>) = <<>>
           /\ \A b \in Block : /\ BlockPieces(<<b>>) = PiecesOf(b)
                               /\ BlockPieces(Append(bs, b)) = BlockPieces(bs) \o PiecesOf(b)
<1> DEFINE f == [b \in Block |-> PiecesOf(b)]
<1>1. f \in [Block -> Seq(Piece)]
  BY PiecesType
<1>2. \A s \in Seq(Block) : BlockPieces(s) = Each(f, s)
  <2> TAKE s \in Seq(Block)
  <2>1. [k \in DOMAIN s |-> IF s[k].kind = "result" THEN s[k].pieces ELSE <<s[k].piece>>]
        = [k \in DOMAIN s |-> f[s[k]]]
    BY EntriesOf DEF PiecesOf
  <2> QED
    BY <2>1 DEF BlockPieces, Each
<1>3. \A b \in Block : f[b] = PiecesOf(b)
  OBVIOUS
<1> HIDE DEF f
<1>4. Each(f, bs) \in Seq(Piece) /\ <<>> \in Seq(Block)
  <2>1. Each(f, bs) \in Seq(Piece)
    BY <1>1, EachType
  <2> QED
    BY <2>1
<1>5. Each(f, <<>>) = <<>>
  BY EachNone
<1>6. ASSUME NEW b \in Block
      PROVE  /\ BlockPieces(<<b>>) = PiecesOf(b)
             /\ BlockPieces(Append(bs, b)) = BlockPieces(bs) \o PiecesOf(b)
  <2>1. Each(f, Append(bs, b)) = Each(f, bs) \o f[b]
    BY <1>1, EachMore
  <2>3. Append(bs, b) \in Seq(Block)
    BY AppendProperties
  <2>2. Each(f, <<b>>) = f[b] /\ <<b>> \in Seq(Block)
    BY <1>1, EachOne
  <2> QED
    BY <1>2, <1>3, <2>1, <2>2, <2>3
<1> QED
  BY <1>2, <1>4, <1>5, <1>6

LEMMA FoundMore ==
    ASSUME NEW ts \in Seq(Turn), NEW t \in Turn
    PROVE  /\ Found(ts) \in Seq(Piece) /\ Found(<<>>) = <<>>
           /\ Found(Append(ts, t)) = Found(ts) \o BlockPieces(t.blocks)
<1> DEFINE f == [u \in Turn |-> BlockPieces(u.blocks)]
<1>1. f \in [Turn -> Seq(Piece)]
  <2>1. \A u \in Turn : u.blocks \in Seq(Block)
    BY DEF Turn
  <2>2. \A u \in Turn : BlockPieces(u.blocks) \in Seq(Piece)
    BY <2>1, BlockPiecesMore
  <2> QED
    BY <2>2
<1>2. \A s \in Seq(Turn) : Found(s) = Each(f, s)
  <2> TAKE s \in Seq(Turn)
  <2>1. [i \in DOMAIN s |-> BlockPieces(s[i].blocks)] = [i \in DOMAIN s |-> f[s[i]]]
    BY EntriesOf
  <2> QED
    BY <2>1 DEF Found, Each
<1>3. f[t] = BlockPieces(t.blocks)
  OBVIOUS
<1> HIDE DEF f
<1>4. Each(f, ts) \in Seq(Piece) /\ <<>> \in Seq(Turn)
  <2>1. Each(f, ts) \in Seq(Piece)
    BY <1>1, EachType
  <2> QED
    BY <2>1
<1>5. Each(f, <<>>) = <<>>
  BY EachNone
<1>6. Each(f, Append(ts, t)) = Each(f, ts) \o f[t] /\ Append(ts, t) \in Seq(Turn)
  <2>1. Each(f, Append(ts, t)) = Each(f, ts) \o f[t]
    BY <1>1, EachMore
  <2>2. Append(ts, t) \in Seq(Turn)
    BY AppendProperties
  <2> QED
    BY <2>1, <2>2
<1> QED
  BY <1>2, <1>3, <1>4, <1>5, <1>6

LEMMA AllIs ==
    ASSUME NEW m \in Entries
    PROVE  /\ AllPieces(m) \in Seq(Piece)
           /\ Len(AllPieces(m)) = Len(TextPiece(m)) + Len(m.parts) + Len(m.calls)
           /\ \A k \in 1..Len(AllPieces(m)) :
                 AllPieces(m)[k] = IF k <= Len(TextPiece(m)) THEN TextPiece(m)[k]
                                   ELSE <<m.n, k - Len(TextPiece(m))>>
           /\ m.calls = <<>> => AllPieces(m) = TextPiece(m) \o PartPieces(m)
<1> DEFINE t == TextPiece(m)
           n == Len(m.parts) + Len(m.calls)
           r == [i \in 1..n |-> <<m.n, i>>]
<1>a. /\ m.n \in Nat /\ Len(m.parts) \in Nat /\ Len(m.calls) \in Nat
      /\ DOMAIN m.parts = 1..Len(m.parts)
  <2>1. m.n \in Nat
    BY EntryIs DEF Numbers
  <2> QED
    BY <2>1, EntryIs
<1> DEFINE p == Len(m.parts)
           c == Len(m.calls)
<1>b. n \in Nat /\ n = p + c
  <2>1. n = p + c /\ p \in Nat /\ c \in Nat
    BY <1>a
  <2> HIDE DEF n, p, c
  <2> QED
    BY <2>1
<1>3. AllPieces(m) = t \o r
  BY DEF AllPieces
<1>4. m.calls = <<>> => r = PartPieces(m)
  <2>1. m.calls = <<>> => n = Len(m.parts)
    BY <1>a
  <2> QED
    BY <1>a, <2>1 DEF PartPieces
<1> HIDE DEF n
<1>0. m.n \in Nat /\ n \in Nat
  BY <1>a, <1>b
<1>1. t \in Seq(Piece) /\ Len(t) \in Nat
  BY PieceTypes, LenProperties DEF t
<1>2. r \in Seq(Piece) /\ Len(r) = n /\ \A i \in 1..n : r[i] = <<m.n, i>>
  <2>1. \A i \in 1..n : <<m.n, i>> \in Piece
    BY <1>0 DEF Piece
  <2>2. r \in Seq(Piece)
    BY <1>0, <2>1, IsASeq
  <2>3. DOMAIN r = 1..n
    OBVIOUS
  <2> QED
    BY <1>0, <2>2, <2>3, LenProperties
<1> HIDE DEF t, r
<1>5. /\ t \o r \in Seq(Piece) /\ Len(t \o r) = Len(t) + Len(r)
      /\ \A i \in 1..(Len(t) + Len(r)) : (t \o r)[i] = IF i <= Len(t) THEN t[i] ELSE r[i - Len(t)]
  BY <1>1, <1>2, ConcatProperties
<1>6. \A k \in 1..(Len(t) + n) : k <= Len(t) \/ k - Len(t) \in 1..n
  BY <1>0, <1>1
<1>7. \A k \in 1..(Len(t) + n) : (t \o r)[k] = IF k <= Len(t) THEN t[k] ELSE <<m.n, k - Len(t)>>
  BY <1>2, <1>5, <1>6
<1>8. Len(t) + n = Len(t) + p + c
  <2>1. p \in Nat /\ c \in Nat
    BY <1>a
  <2> HIDE DEF p, c
  <2> QED
    BY <1>b, <1>1, <2>1
<1> QED
  BY <1>2, <1>3, <1>4, <1>5, <1>7, <1>8 DEF t

LEMMA TurnPieces ==
    ASSUME NEW v, NEW m \in Entries
    PROVE  /\ BlockPieces(TurnBlocks(v, m)) = AllPieces(m)
           /\ TurnBlocks(v, m) = <<>> => AllPieces(m) = <<>>
<1> DEFINE ps == TextPiece(m) \o PartPieces(m)
           content == [i \in DOMAIN ps |-> [kind |-> "content", piece |-> ps[i]]]
           made == [i \in DOMAIN m.calls |->
                        [kind |-> "call", ref |-> CallRef(v, m.calls[i]),
                         piece |-> <<m.n, Len(m.parts) + i>>]]
           bs == TurnBlocks(v, m)
           all == AllPieces(m)
           a == Len(TextPiece(m))
           p == Len(m.parts)
           c == Len(m.calls)
<1>0. /\ p \in Nat /\ c \in Nat /\ DOMAIN m.calls = 1..c /\ a \in Nat
      /\ Len(PartPieces(m)) = p /\ \A i \in 1..p : PartPieces(m)[i] = <<m.n, i>>
      /\ TextPiece(m) \in Seq(Piece) /\ PartPieces(m) \in Seq(Piece)
  BY EntryIs, PieceTypes, LenProperties
<1> HIDE DEF a, p, c, all
<1>1. /\ ps \in Seq(Piece) /\ Len(ps) = a + p /\ DOMAIN ps = 1..(a + p)
      /\ \A i \in 1..(a + p) : ps[i] = IF i <= a THEN TextPiece(m)[i] ELSE PartPieces(m)[i - a]
  <2>1. /\ ps \in Seq(Piece) /\ Len(ps) = Len(TextPiece(m)) + Len(PartPieces(m))
        /\ \A i \in 1..(Len(TextPiece(m)) + Len(PartPieces(m))) :
              ps[i] = IF i <= Len(TextPiece(m)) THEN TextPiece(m)[i] ELSE PartPieces(m)[i - Len(TextPiece(m))]
    BY <1>0, ConcatProperties
  <2> HIDE DEF ps
  <2> QED
    BY <1>0, <2>1, LenProperties DEF a
<1>2. bs = content \o made /\ bs \in Seq(Block)
  BY BlockTypes DEF TurnBlocks
<1>3. content \in Seq({content[i] : i \in 1..(a + p)}) /\ Len(content) = a + p
  <2>1. content = [i \in 1..(a + p) |-> content[i]] /\ a + p \in Nat
    BY <1>0, <1>1
  <2> HIDE DEF content
  <2>2. content \in Seq({content[i] : i \in 1..(a + p)})
    BY <2>1, IsASeq
  <2>3. DOMAIN content = 1..(a + p)
    BY <2>1
  <2> QED
    BY <2>1, <2>2, <2>3, LenProperties
<1>4. made \in Seq({made[i] : i \in 1..c}) /\ Len(made) = c
  <2>1. made = [i \in 1..c |-> made[i]]
    BY <1>0
  <2> HIDE DEF made
  <2>2. made \in Seq({made[i] : i \in 1..c})
    BY <1>0, <2>1, IsASeq
  <2>3. DOMAIN made = 1..c
    BY <2>1
  <2> QED
    BY <1>0, <2>2, <2>3, LenProperties
<1>5. /\ \A i \in 1..(a + p) : content[i].kind = "content" /\ content[i].piece = ps[i]
      /\ \A i \in 1..c : made[i].kind = "call" /\ made[i].piece = <<m.n, p + i>>
  BY <1>0, <1>1 DEF p
<1> DEFINE K == {content[i] : i \in 1..(a + p)} \cup {made[i] : i \in 1..c}
<1>6. content \in Seq(K) /\ made \in Seq(K)
  <2> DEFINE A == {content[i] : i \in 1..(a + p)}
             B == {made[i] : i \in 1..c}
  <2>1. content \in Seq(A) /\ made \in Seq(B) /\ K = A \cup B
    BY <1>3, <1>4
  <2> HIDE DEF A, B, K, content, made
  <2>2. A \subseteq K /\ B \subseteq K
    BY <2>1
  <2> QED
    BY <2>1, <2>2, SeqMonotonic
<1> HIDE DEF content, made, ps, K
<1>7. /\ Len(bs) = (a + p) + c
      /\ \A k \in 1..((a + p) + c) : bs[k] = IF k <= a + p THEN content[k] ELSE made[k - (a + p)]
  <2>1. /\ Len(content \o made) = Len(content) + Len(made)
        /\ \A k \in 1..(Len(content) + Len(made)) :
              (content \o made)[k] = IF k <= Len(content) THEN content[k] ELSE made[k - Len(content)]
    BY <1>6, ConcatProperties
  <2> QED
    BY <1>2, <1>3, <1>4, <2>1
<1>8. /\ all \in Seq(Piece) /\ Len(all) = (a + p) + c
      /\ \A k \in 1..((a + p) + c) : all[k] = IF k <= a THEN TextPiece(m)[k] ELSE <<m.n, k - a>>
  BY AllIs DEF a, p, c, all
<1>9. ASSUME NEW k \in 1..((a + p) + c)
      PROVE  bs[k].kind # "result" /\ bs[k].piece = all[k]
  <2>1. CASE k <= a
    <3>1. k \in 1..(a + p) /\ k <= a + p
      BY <1>0, <2>1
    <3>2. bs[k] = content[k] /\ ps[k] = TextPiece(m)[k] /\ all[k] = TextPiece(m)[k]
      BY <1>1, <1>7, <1>8, <2>1, <3>1
    <3> QED
      BY <1>5, <3>1, <3>2
  <2>2. CASE k > a /\ k <= a + p
    <3>1. k \in 1..(a + p) /\ k - a \in 1..p /\ ~(k <= a)
      BY <1>0, <2>2
    <3>2. all[k] = <<m.n, k - a>>
      BY <1>8, <3>1
    <3>3. bs[k] = content[k] /\ ps[k] = PartPieces(m)[k - a]
      BY <1>1, <1>7, <2>2, <3>1
    <3> QED
      BY <1>0, <1>5, <3>1, <3>2, <3>3
  <2>3. CASE k > a + p
    <3>1. k - (a + p) \in 1..c /\ ~(k <= a + p) /\ ~(k <= a) /\ p + (k - (a + p)) = k - a
      <4> HIDE DEF a, p, c
      <4> QED
        BY <1>0, <2>3
    <3>2. all[k] = <<m.n, k - a>>
      BY <1>8, <3>1
    <3>3. bs[k] = made[k - (a + p)]
      BY <1>7, <3>1
    <3>4. made[k - (a + p)].kind = "call" /\ made[k - (a + p)].piece = <<m.n, p + (k - (a + p))>>
      BY <1>5, <3>1
    <3> QED
      BY <3>1, <3>2, <3>3, <3>4
  <2> QED
    BY <1>0, <2>1, <2>2, <2>3
<1> DEFINE f == [x \in Piece |-> <<x>>]
           n == (a + p) + c
<1>10. DOMAIN bs = 1..n /\ DOMAIN all = 1..n
  BY <1>2, <1>7, <1>8, LenProperties
<1> HIDE DEF bs, all, a, p, c
<1>11. BlockPieces(bs) = Each(f, all)
  <2>1. \A k \in 1..n : all[k] \in Piece
    BY <1>8, <1>10, EntriesOf
  <2>2. [k \in DOMAIN bs |-> IF bs[k].kind = "result" THEN bs[k].pieces ELSE <<bs[k].piece>>]
        = [k \in DOMAIN all |-> f[all[k]]]
    BY <1>9, <1>10, <2>1
  <2> QED
    BY <2>2 DEF BlockPieces, Each
<1>12. Each(f, all) = all
  <2>1. \A x \in Piece : <<x>> \in Seq(Piece)
    OBVIOUS
  <2>2. f \in [Piece -> Seq(Piece)] /\ \A x \in Piece : f[x] = <<x>>
    BY <2>1
  <2> HIDE DEF f
  <2> QED
    BY <1>8, <2>2, EachSame
<1>13. bs = <<>> => all = <<>>
  <2>1. bs = <<>> => Len(all) = 0
    BY <1>7, <1>8, EmptySeq
  <2> QED
    BY <1>8, <2>1, EmptySeq
<1> QED
  BY <1>11, <1>12, <1>13 DEF bs, all

LEMMA Filtered ==
    ASSUME NEW h \in Seq(Entries)
    PROVE  FilterForRequest(h) \in Seq(Entries)
<1>1. CASE Entries = {}
  <2>1. h = <<>>
    BY <1>1, LenProperties, ElementOfSeq, EmptySeq
  <2>2. FilterForRequest(<<>>) = <<>>
    <3>1. FlattenSeq(<<>>) = <<>>
      BY EmptySeq, FlattenType
    <3>2. [i \in DOMAIN <<>> |-> IF <<>>[i].ignored THEN <<>> ELSE << <<>>[i] >>] = <<>>
      OBVIOUS
    <3> QED
      BY <3>1, <3>2 DEF FilterForRequest
  <2> QED
    BY <2>1, <2>2
<1>2. CASE Entries # {}
  BY <1>2, FilterMore
<1> QED
  BY <1>1, <1>2

\* What a vendor's translation says of each kind of message.
Spoken(v, m) ==
    CASE m.role = "system" -> TextPiece(m) \o SystemText(v, m)
      [] m.role = "tool" -> TextPiece(m) \o (IF v = "vertex" THEN Media(m) ELSE PartPieces(m))
      [] m.role \in {"user", "assistant"} -> AllPieces(m)
      [] OTHER -> <<>>

\* What is told of a conversation, of the system or of the others.
Told(v, h, system) ==
    FlattenSeq([i \in DOMAIN h |->
        IF ~h[i].ignored /\ (h[i].role = "system") = system THEN Spoken(v, h[i]) ELSE <<>>])

LEMMA SpokenIs ==
    ASSUME NEW v, NEW m \in Entries
    PROVE  /\ Spoken(v, m) \in Seq(Own(m)) /\ Spoken(v, m) \in Seq(Piece)
           /\ m.role \in {"user", "assistant"} => Spoken(v, m) = AllPieces(m)
           /\ m.role = "tool" =>
                 Spoken(v, m) = TextPiece(m) \o (IF v = "vertex" THEN Media(m) ELSE PartPieces(m))
           /\ m.role = "system" => Spoken(v, m) = TextPiece(m) \o SystemText(v, m)
           /\ m.role \notin {"system", "user", "assistant", "tool"} => Spoken(v, m) = <<>>
<1> DEFINE n == Len(m.parts) + Len(m.calls)
           r == [i \in 1..n |-> <<m.n, i>>]
           t == TextPiece(m)
<1>1. r \in Seq(Own(m))
  <2>1. n \in Nat
    <3> DEFINE p == Len(m.parts)
               c == Len(m.calls)
    <3>1. p \in Nat /\ c \in Nat /\ n = p + c
      BY EntryIs
    <3> HIDE DEF n, p, c
    <3> QED
      BY <3>1
  <2>2. \A i \in 1..n : <<m.n, i>> \in Own(m)
    BY <2>1 DEF Own
  <2> HIDE DEF n
  <2> QED
    BY <2>1, <2>2, IsASeq
<1>2. /\ t \in Seq(Own(m)) /\ PartPieces(m) \in Seq(Own(m)) /\ Media(m) \in Seq(Own(m))
      /\ SystemText(v, m) \in Seq(Own(m))
  BY OwnPieces
<1>3. AllPieces(m) = t \o r
  BY DEF AllPieces
<1>4. <<>> \in Seq(Own(m))
  OBVIOUS
<1> HIDE DEF t, r
<1>5. /\ t \o r \in Seq(Own(m)) /\ t \o PartPieces(m) \in Seq(Own(m))
      /\ t \o Media(m) \in Seq(Own(m)) /\ t \o SystemText(v, m) \in Seq(Own(m))
  BY <1>1, <1>2, ConcatProperties
<1>6. Spoken(v, m) \in Seq(Own(m))
  BY <1>3, <1>4, <1>5 DEF Spoken, t
<1>7. Spoken(v, m) \in Seq(Piece)
  BY <1>6, PieceTypes
<1> QED
  BY <1>6, <1>7 DEF Spoken

\* Of a message that fits, all is spoken.
LEMMA AllSpoken ==
    ASSUME NEW v, NEW m \in Entries, Fitting(v, m)
    PROVE  Spoken(v, m) = AllPieces(m)
<1> DEFINE f == [i \in DOMAIN m.parts |-> <<<<m.n, i>>>>]
           r == PartPieces(m)
           h == [x \in Own(m) |-> <<x>>]
<1>1. FlattenSeq(f) = r
  <2>1. r \in Seq(Own(m)) /\ DOMAIN r = DOMAIN m.parts /\ \A i \in DOMAIN m.parts : r[i] = <<m.n, i>>
    BY OwnPieces DEF PartPieces
  <2>2. \A i \in DOMAIN r : r[i] \in Own(m)
    BY <2>1, EntriesOf
  <2>3. f = [i \in DOMAIN r |-> h[r[i]]]
    BY <2>1, <2>2
  <2>4. \A x \in Own(m) : <<x>> \in Seq(Own(m))
    OBVIOUS
  <2>5. h \in [Own(m) -> Seq(Own(m))] /\ \A x \in Own(m) : h[x] = <<x>>
    BY <2>4
  <2> HIDE DEF f, h, r
  <2>6. Each(h, r) = r
    BY <2>1, <2>5, EachSame
  <2> QED
    BY <2>3, <2>6 DEF Each
<1>2. CASE m.role \in {"user", "assistant"}
  BY <1>2, SpokenIs
<1>3. CASE m.role = "tool"
  <2>1. v = "vertex" => Media(m) = r
    <3>1. v = "vertex" => \A i \in DOMAIN m.parts : IsMedia(m.parts[i])
      BY <1>3 DEF Fitting
    <3>2. v = "vertex" => [i \in DOMAIN m.parts |-> IF IsMedia(m.parts[i]) THEN <<<<m.n, i>>>> ELSE <<>>] = f
      BY <3>1
    <3> QED
      BY <1>1, <3>2 DEF Media
  <2>2. AllPieces(m) = TextPiece(m) \o r
    BY <1>3, EntryIs, AllIs
  <2> HIDE DEF r
  <2> QED
    BY <1>3, <2>1, <2>2, SpokenIs DEF r
<1>4. CASE m.role = "system"
  <2>1. \A i \in DOMAIN m.parts : v = "anthropic" /\ m.parts[i].type = "text" /\ m.parts[i].text # ""
    BY <1>4 DEF Fitting
  <2>2. [i \in DOMAIN m.parts |->
            IF v = "anthropic" /\ m.parts[i].type = "text" /\ m.parts[i].text # "" THEN <<<<m.n, i>>>>
            ELSE <<>>] = f
    BY <2>1
  <2>3. SystemText(v, m) = r
    BY <1>1, <2>2 DEF SystemText
  <2>4. AllPieces(m) = TextPiece(m) \o r
    BY <1>4, EntryIs, AllIs
  <2> QED
    BY <1>4, <2>3, <2>4, SpokenIs
<1> QED
  BY <1>2, <1>3, <1>4 DEF Fitting

LEMMA ToldMore ==
    ASSUME NEW v, NEW h \in Seq(Entries), NEW m \in Entries, NEW system \in BOOLEAN
    PROVE  /\ Told(v, h, system) \in Seq(Piece) /\ Told(v, <<>>, system) = <<>>
           /\ m.ignored \/ (m.role = "system") # system =>
                 Told(v, Append(h, m), system) = Told(v, h, system)
           /\ ~m.ignored /\ (m.role = "system") = system =>
                 Told(v, Append(h, m), system) = Told(v, h, system) \o Spoken(v, m)
<1> DEFINE f == [e \in Entries |-> IF ~e.ignored /\ (e.role = "system") = system THEN Spoken(v, e) ELSE <<>>]
<1>1. f \in [Entries -> Seq(Piece)]
  <2>1. \A e \in Entries : <<>> \in Seq(Piece) /\ Spoken(v, e) \in Seq(Piece)
    BY SpokenIs
  <2> QED
    BY <2>1
<1>2. \A s \in Seq(Entries) : Told(v, s, system) = Each(f, s)
  <2> TAKE s \in Seq(Entries)
  <2>1. [i \in DOMAIN s |-> IF ~s[i].ignored /\ (s[i].role = "system") = system THEN Spoken(v, s[i]) ELSE <<>>]
        = [i \in DOMAIN s |-> f[s[i]]]
    BY EntriesOf
  <2> QED
    BY <2>1 DEF Told, Each
<1>3. /\ ~m.ignored /\ (m.role = "system") = system => f[m] = Spoken(v, m)
      /\ m.ignored \/ (m.role = "system") # system => f[m] = <<>>
  OBVIOUS
<1> HIDE DEF f
<1> DEFINE got == Each(f, h)
<1>4. got \in Seq(Piece) /\ <<>> \in Seq(Entries)
  BY <1>1, EachType, EmptySeq
<1>5. Each(f, <<>>) = <<>>
  BY EachNone
<1>6. Each(f, Append(h, m)) = got \o f[m] /\ Append(h, m) \in Seq(Entries)
  <2>1. Each(f, Append(h, m)) = Each(f, h) \o f[m]
    BY <1>1, EachMore
  <2> QED
    BY <2>1, AppendProperties
<1> HIDE DEF got
<1>7. got \o <<>> = got
  BY <1>4, ConcatEmptySeq
<1> QED
  BY <1>2, <1>3, <1>4, <1>5, <1>6, <1>7 DEF got

LEMMA ExpectedMore ==
    ASSUME NEW v, NEW h \in Seq(Entries), NEW m \in Entries, NEW system \in BOOLEAN
    PROVE  /\ Expected(v, h, system) \in Seq(Piece) /\ Expected(v, <<>>, system) = <<>>
           /\ m.ignored \/ (m.role = "system") # system \/ ~Fitting(v, m) =>
                 Expected(v, Append(h, m), system) = Expected(v, h, system)
           /\ ~m.ignored /\ (m.role = "system") = system /\ Fitting(v, m) =>
                 Expected(v, Append(h, m), system) = Expected(v, h, system) \o AllPieces(m)
<1> DEFINE f == [e \in Entries |-> IF ~e.ignored /\ Fitting(v, e) /\ (e.role = "system") = system THEN AllPieces(e) ELSE <<>>]
<1>1. f \in [Entries -> Seq(Piece)]
  <2>1. \A e \in Entries : AllPieces(e) \in Seq(Piece)
    BY AllIs
  <2> QED
    BY <2>1
<1>2. \A s \in Seq(Entries) : Expected(v, s, system) = Each(f, s)
  <2> TAKE s \in Seq(Entries)
  <2>1. [i \in DOMAIN s |-> IF ~s[i].ignored /\ Fitting(v, s[i]) /\ (s[i].role = "system") = system THEN AllPieces(s[i]) ELSE <<>>]
        = [i \in DOMAIN s |-> f[s[i]]]
    BY EntriesOf
  <2> QED
    BY <2>1 DEF Expected, Each
<1>3. /\ ~m.ignored /\ (m.role = "system") = system /\ Fitting(v, m) => f[m] = AllPieces(m)
      /\ m.ignored \/ (m.role = "system") # system \/ ~Fitting(v, m) => f[m] = <<>>
  OBVIOUS
<1> HIDE DEF f
<1> DEFINE got == Each(f, h)
<1>4. got \in Seq(Piece) /\ <<>> \in Seq(Entries)
  BY <1>1, EachType, EmptySeq
<1>5. Each(f, <<>>) = <<>>
  BY EachNone
<1>6. Each(f, Append(h, m)) = got \o f[m] /\ Append(h, m) \in Seq(Entries)
  <2>1. Each(f, Append(h, m)) = Each(f, h) \o f[m]
    BY <1>1, EachMore
  <2> QED
    BY <2>1, AppendProperties
<1> HIDE DEF got
<1>7. got \o <<>> = got
  BY <1>4, ConcatEmptySeq
<1> QED
  BY <1>2, <1>3, <1>4, <1>5, <1>6, <1>7 DEF got

\* The pieces of some messages, of a sequence and of another.
LEMMA OfConcat ==
    ASSUME NEW ns, NEW s \in Seq(Piece), NEW t \in Seq(Piece)
    PROVE  /\ Of(s, ns) \in Seq(Piece) /\ Of(<<>>, ns) = <<>>
           /\ Of(s \o t, ns) = Of(s, ns) \o Of(t, ns)
<1> DEFINE f == [x \in Piece |-> IF x[1] \in ns THEN <<x>> ELSE <<>>]
<1>1. f \in [Piece -> Seq(Piece)]
  <2>1. \A x \in Piece : <<>> \in Seq(Piece) /\ <<x>> \in Seq(Piece)
    OBVIOUS
  <2> QED
    BY <2>1
<1>2. \A u \in Seq(Piece) : Of(u, ns) = Each(f, u)
  <2> TAKE u \in Seq(Piece)
  <2>1. [k \in DOMAIN u |-> IF u[k][1] \in ns THEN <<u[k]>> ELSE <<>>] = [k \in DOMAIN u |-> f[u[k]]]
    BY EntriesOf
  <2> QED
    BY <2>1 DEF Of, Each
<1> HIDE DEF f
<1> DEFINE st == s \o t
<1>3. st \in Seq(Piece) /\ <<>> \in Seq(Piece)
  BY ConcatProperties
<1>4. Joined(st, s, t)
  BY DEF Joined
<1> HIDE DEF st
<1>5. Joined(Each(f, st), Each(f, s), Each(f, t))
  BY <1>1, <1>4, EachConcat
<1>6. Each(f, s) \in Seq(Piece) /\ Each(f, <<>>) = <<>>
  BY <1>1, EachType, EachNone
<1> QED
  BY <1>2, <1>3, <1>5, <1>6 DEF st, Joined

LEMMA OfOwn ==
    ASSUME NEW ns, NEW m \in Entries, NEW s \in Seq(Own(m))
    PROVE  /\ m.n \in ns => Of(s, ns) = s
           /\ m.n \notin ns => Of(s, ns) = <<>>
<1> DEFINE f == [x \in Own(m) |-> IF x[1] \in ns THEN <<x>> ELSE <<>>]
<1>1. f \in [Own(m) -> Seq(Own(m))]
  <2>1. \A x \in Own(m) : <<>> \in Seq(Own(m)) /\ <<x>> \in Seq(Own(m))
    OBVIOUS
  <2> QED
    BY <2>1
<1>2. Of(s, ns) = Each(f, s)
  <2>1. [k \in DOMAIN s |-> IF s[k][1] \in ns THEN <<s[k]>> ELSE <<>>] = [k \in DOMAIN s |-> f[s[k]]]
    BY EntriesOf
  <2> QED
    BY <2>1 DEF Of, Each
<1>3. \A x \in Own(m) : x[1] = m.n
  BY DEF Own
<1>4. /\ m.n \in ns => \A x \in Own(m) : f[x] = <<x>>
      /\ m.n \notin ns => \A x \in Own(m) : f[x] = <<>>
  BY <1>3
<1> HIDE DEF f
<1>5. ASSUME m.n \in ns PROVE Each(f, s) = s
  BY <1>1, <1>4, <1>5, EachSame
<1>6. ASSUME m.n \notin ns PROVE Each(f, s) = <<>>
  BY <1>1, <1>4, <1>6, EachNothing
<1> QED
  BY <1>2, <1>5, <1>6

\* Messages of which a set of numbers holds the audit rows and those that fit.
Sorted(v, ns) == {m \in Entries : m.n \in ns <=> (m.ignored \/ Fitting(v, m))}

\* What is told holds what is expected of the messages that fit.
LEMMA ToldAsExpected ==
    ASSUME NEW v, NEW ns, NEW h \in Seq(Sorted(v, ns)), NEW system \in BOOLEAN
    PROVE  Of(Told(v, h, system), ns) = Expected(v, h, system)
<1> DEFINE E == Sorted(v, ns)
           T == {s \in Seq(E) : Of(Told(v, s, system), ns) = Expected(v, s, system)}
<1>0. Seq(E) \subseteq Seq(Entries)
  <2>1. E \subseteq Entries
    BY DEF Sorted
  <2> HIDE DEF E
  <2> QED
    BY <2>1, SeqMonotonic
<1>1. <<>> \in T
  <2>1. \A k : FlattenSeq([i \in DOMAIN <<>> |-> k[i]]) = <<>>
    <3>1. \A k : [i \in DOMAIN <<>> |-> k[i]] = <<>>
      OBVIOUS
    <3>2. FlattenSeq(<<>>) = <<>>
      BY EmptySeq, FlattenType
    <3> QED
      BY <3>1, <3>2
  <2>2. Told(v, <<>>, system) = <<>>
    <3>1. [i \in DOMAIN <<>> |-> IF ~<<>>[i].ignored /\ (<<>>[i].role = "system") = system
                                 THEN Spoken(v, <<>>[i]) ELSE <<>>] = <<>>
      OBVIOUS
    <3> QED
      BY <3>1, EmptySeq, FlattenType DEF Told
  <2>3. Expected(v, <<>>, system) = <<>>
    <3>1. [i \in DOMAIN <<>> |-> IF ~<<>>[i].ignored /\ Fitting(v, <<>>[i]) /\ (<<>>[i].role = "system") = system
                                 THEN AllPieces(<<>>[i]) ELSE <<>>] = <<>>
      OBVIOUS
    <3> QED
      BY <3>1, EmptySeq, FlattenType DEF Expected
  <2>4. Of(<<>>, ns) = <<>> /\ <<>> \in Seq(E)
    BY EmptySeq, OfConcat
  <2> QED
    BY <2>2, <2>3, <2>4
<1>2. ASSUME NEW s \in Seq(E), NEW m \in E, s \in T PROVE Append(s, m) \in T
  <2> DEFINE told == Told(v, s, system)
             heard == Expected(v, s, system)
             sm == Append(s, m)
  <2>1. /\ sm \in Seq(E) /\ s \in Seq(Entries) /\ m \in Entries
        /\ Of(told, ns) = heard /\ (m.n \in ns <=> (m.ignored \/ Fitting(v, m)))
    BY <1>0, <1>2, AppendProperties DEF Sorted
  <2>2. told \in Seq(Piece) /\ heard \in Seq(Piece)
    BY <2>1, ToldMore, ExpectedMore
  <2>3. CASE m.ignored \/ (m.role = "system") # system
    <3>1. Told(v, sm, system) = told /\ Expected(v, sm, system) = heard
      BY <2>1, <2>3, ToldMore, ExpectedMore
    <3> QED
      BY <2>1, <3>1
  <2>4. CASE ~m.ignored /\ (m.role = "system") = system
    <3> DEFINE q == Spoken(v, m)
    <3>1. Told(v, sm, system) = told \o q
      BY <2>1, <2>4, ToldMore
    <3>2. q \in Seq(Own(m)) /\ q \in Seq(Piece)
      BY <2>1, SpokenIs
    <3>3. Fitting(v, m) => q = AllPieces(m)
      BY <2>1, AllSpoken
    <3>4. /\ Fitting(v, m) => Expected(v, sm, system) = heard \o AllPieces(m)
          /\ ~Fitting(v, m) => Expected(v, sm, system) = heard
      BY <2>1, <2>4, ExpectedMore
    <3> HIDE DEF q, told, heard, sm
    <3>5. Of(told \o q, ns) = Of(told, ns) \o Of(q, ns)
      BY <2>2, <3>2, OfConcat
    <3>6. /\ m.n \in ns => Of(q, ns) = q
          /\ m.n \notin ns => Of(q, ns) = <<>>
      BY <2>1, <3>2, OfOwn
    <3>7. heard \o <<>> = heard
      BY <2>2, ConcatEmptySeq
    <3>8. Of(Told(v, sm, system), ns) = Expected(v, sm, system)
      BY <2>1, <2>4, <3>1, <3>3, <3>4, <3>5, <3>6, <3>7
    <3> QED
      BY <2>1, <3>8 DEF sm
  <2> QED
    BY <2>3, <2>4
<1>3. Seq(E) \subseteq T
  <2> HIDE DEF T, E
  <2> QED
    BY <1>1, <1>2, AllSequences
<1> QED
  BY <1>3

\* A request holds what is told of a conversation.
Holds(v, acc, h) ==
    /\ acc.system = Told(v, h, TRUE)
    /\ Found(acc.turns) \o BlockPieces(acc.pending) = Told(v, h, FALSE)

LEMMA ClosedPieces ==
    ASSUME NEW acc \in Acc
    PROVE  /\ Found(acc.turns) \in Seq(Piece) /\ BlockPieces(acc.pending) \in Seq(Piece)
           /\ Found(Closed(acc).turns) = Found(acc.turns) \o BlockPieces(acc.pending)
<1> DEFINE t == [role |-> "user", blocks |-> acc.pending]
<1>1. acc.turns \in Seq(Turn) /\ acc.pending \in Seq(Block)
  BY DEF Acc
<1>2. t \in Turn /\ t.blocks = acc.pending
  BY <1>1 DEF Turn
<1> HIDE DEF t
<1>3. Found(acc.turns) \in Seq(Piece) /\ Found(Append(acc.turns, t)) = Found(acc.turns) \o BlockPieces(t.blocks)
  BY <1>1, <1>2, FoundMore
<1>4. BlockPieces(acc.pending) \in Seq(Piece) /\ BlockPieces(<<>>) = <<>>
  BY <1>1, BlockPiecesMore
<1>5. CASE acc.pending = <<>>
  <2>1. Closed(acc) = acc /\ BlockPieces(acc.pending) = <<>>
    BY <1>4, <1>5, ClosedType
  <2>2. Found(acc.turns) \o <<>> = Found(acc.turns)
    BY <1>3, ConcatEmptySeq
  <2> QED
    BY <1>3, <1>4, <2>1, <2>2
<1>6. CASE acc.pending # <<>>
  <2>1. Closed(acc).turns = Append(acc.turns, t)
    BY <1>6, ClosedType DEF t
  <2> QED
    BY <1>2, <1>3, <1>4, <2>1
<1> QED
  BY <1>5, <1>6

LEMMA HoldsMore ==
    ASSUME NEW v, NEW msgs \in Seq(Entries), NEW acc \in Acc, v = "anthropic" => acc.pending = <<>>,
           NEW h \in Seq(Entries), NEW m \in Entries, ~m.ignored, Holds(v, acc, h)
    PROVE  Holds(v, AddMessage(v, msgs, acc, m), Append(h, m))
<1> DEFINE new == AddMessage(v, msgs, acc, m)
           f == Found(acc.turns)
           p == BlockPieces(acc.pending)
           s == Spoken(v, m)
           others == Told(v, h, FALSE)
<1>0. acc.system \in Seq(Piece) /\ acc.turns \in Seq(Turn) /\ acc.pending \in Seq(Block)
  BY DEF Acc
<1>1. /\ acc.system = Told(v, h, TRUE) /\ f \o p = others
      /\ f \in Seq(Piece) /\ p \in Seq(Piece) /\ s \in Seq(Piece) /\ others \in Seq(Piece)
  BY ClosedPieces, SpokenIs, ToldMore DEF Holds
<1>a. (f \o p) \o s = f \o (p \o s)
  <2>1. f \in Seq(Piece) /\ p \in Seq(Piece) /\ s \in Seq(Piece)
    BY <1>1
  <2> HIDE DEF f, p, s
  <2> QED
    BY <2>1, ConcatAssociative
<1>2. new \in Acc
  BY AddType
<1>3. CASE m.role = "system"
  <2>1. s = TextPiece(m) \o SystemText(v, m)
    BY <1>3, SpokenIs
  <2>2. new = [acc EXCEPT !.system = (acc.system \o TextPiece(m)) \o SystemText(v, m)]
    BY <1>3 DEF AddMessage, AddSystem, Acc
  <2>3. (acc.system \o TextPiece(m)) \o SystemText(v, m) = acc.system \o s
    <3> DEFINE a == acc.system
               b == TextPiece(m)
               c == SystemText(v, m)
    <3>1. a \in Seq(Piece) /\ b \in Seq(Piece) /\ c \in Seq(Piece)
      BY <1>0, PieceTypes
    <3> HIDE DEF a, b, c
    <3>2. (a \o b) \o c = a \o (b \o c)
      BY <3>1, ConcatAssociative
    <3> QED
      BY <2>1, <3>2 DEF a, b, c
  <2>4. new.system = acc.system \o s /\ new.turns = acc.turns /\ new.pending = acc.pending
    BY <2>2, <2>3 DEF Acc
  <2>5. /\ Told(v, Append(h, m), TRUE) = Told(v, h, TRUE) \o s
        /\ Told(v, Append(h, m), FALSE) = others
    BY <1>3, ToldMore
  <2> HIDE DEF new, f, p, s, others
  <2> QED
    BY <1>1, <2>4, <2>5 DEF Holds, f, p, new
<1>4. CASE m.role # "system"
  <2>1. /\ Told(v, Append(h, m), TRUE) = Told(v, h, TRUE)
        /\ Told(v, Append(h, m), FALSE) = others \o s
    BY <1>4, ToldMore
  <2>2. SUFFICES /\ new.system = acc.system
                 /\ Found(new.turns) \o BlockPieces(new.pending) = (f \o p) \o s
    <3> HIDE DEF new, f, p, s, others
    <3> QED
      BY <1>1, <2>1 DEF Holds, new
  <2>3. CASE m.role \in {"user", "assistant"}
    <3> DEFINE c == Closed(acc)
               bs == TurnBlocks(v, m)
               t == [role |-> m.role, blocks |-> bs]
    <3>1. /\ c \in Acc /\ c.pending = <<>> /\ c.system = acc.system /\ Found(c.turns) = f \o p
      BY ClosedType, ClosedPieces
    <3>2. s = AllPieces(m) /\ BlockPieces(bs) = s /\ (bs = <<>> => s = <<>>)
      BY <2>3, SpokenIs, TurnPieces
    <3>3. new = IF bs = <<>> THEN c ELSE [c EXCEPT !.turns = Append(@, t)]
      BY <2>3 DEF AddMessage, AddTurn, BeforeTurn
    <3>4. t \in Turn /\ t.blocks = bs
      BY <2>3, BlockTypes DEF Turn
    <3>5. c.turns \in Seq(Turn)
      BY <3>1 DEF Acc
    <3>6. BlockPieces(<<>>) = <<>>
      BY <1>0, BlockPiecesMore
    <3> HIDE DEF c, bs, t, new, f, p, s
    <3>7. Found(Append(c.turns, t)) = (f \o p) \o s
      BY <3>1, <3>2, <3>4, <3>5, FoundMore
    <3>8. f \o p \in Seq(Piece) /\ (f \o p) \o s \in Seq(Piece)
      BY <1>1, ConcatProperties
    <3>9. (f \o p) \o <<>> = f \o p /\ ((f \o p) \o s) \o <<>> = (f \o p) \o s
      BY <3>8, ConcatEmptySeq
    <3>10. CASE bs = <<>>
      <4>1. new = c /\ s = <<>>
        BY <3>2, <3>3, <3>10
      <4> QED
        BY <3>1, <3>6, <3>9, <4>1
    <3>11. CASE bs # <<>>
      <4>1. new.system = c.system /\ new.pending = c.pending /\ new.turns = Append(c.turns, t)
        BY <3>1, <3>3, <3>11 DEF Acc
      <4> QED
        BY <3>1, <3>6, <3>7, <3>9, <4>1
    <3> QED
      BY <3>10, <3>11
  <2>4. CASE m.role = "tool"
    <3> DEFINE b == ResultBlock(v, msgs, m)
               t == [role |-> "user", blocks |-> <<b>>]
    <3>1. b \in Block /\ b.kind = "result" /\ b.pieces = s
      BY <2>4, BlockTypes, SpokenIs DEF ResultBlock
    <3>2. new = IF v = "anthropic" THEN [acc EXCEPT !.turns = Append(@, t)]
                ELSE [acc EXCEPT !.pending = Append(@, b)]
      BY <2>4 DEF AddMessage, AddResult
    <3> HIDE DEF b
    <3>3. <<b>> \in Seq(Block)
      BY <3>1
    <3>4. t \in Turn /\ t.blocks = <<b>>
      BY <3>3 DEF Turn
    <3>5. PiecesOf(b) = s
      BY <3>1 DEF PiecesOf
    <3>6. /\ BlockPieces(<<b>>) = s /\ BlockPieces(<<>>) = <<>>
          /\ BlockPieces(Append(acc.pending, b)) = p \o s
      BY <1>0, <3>1, <3>5, BlockPiecesMore
    <3> HIDE DEF t, new, f, p, s
    <3>7. Found(Append(acc.turns, t)) = f \o s
      BY <1>0, <3>4, <3>6, FoundMore DEF f
    <3>8. CASE v = "anthropic"
      <4>1. new.system = acc.system /\ new.pending = acc.pending /\ new.turns = Append(acc.turns, t)
        BY <3>2, <3>8 DEF Acc
      <4>2. acc.pending = <<>> /\ p = <<>>
        BY <3>6, <3>8 DEF p
      <4>3. f \o <<>> = f /\ f \o s \in Seq(Piece)
        BY <1>1, ConcatEmptySeq, ConcatProperties
      <4>4. (f \o s) \o <<>> = f \o s
        BY <4>3, ConcatEmptySeq
      <4> QED
        BY <3>6, <3>7, <4>1, <4>2, <4>3, <4>4
    <3>9. CASE v # "anthropic"
      <4>1. new.system = acc.system /\ new.turns = acc.turns /\ new.pending = Append(acc.pending, b)
        BY <3>2, <3>9 DEF Acc
      <4>2. (f \o p) \o s = f \o (p \o s)
        BY <1>a
      <4> QED
        BY <3>6, <4>1, <4>2 DEF f
    <3> QED
      BY <3>8, <3>9
  <2>5. CASE m.role \notin {"system", "user", "assistant", "tool"}
    <3>1. new = acc /\ s = <<>>
      BY <2>5, SpokenIs DEF AddMessage
    <3> HIDE DEF new, f, p, s
    <3>2. f \o p \in Seq(Piece)
      BY <1>1, ConcatProperties
    <3>3. (f \o p) \o <<>> = f \o p
      BY <3>2, ConcatEmptySeq
    <3> QED
      BY <3>1, <3>3 DEF f, p
  <2> QED
    BY <1>4, <2>3, <2>4, <2>5
<1> QED
  BY <1>3, <1>4

LEMMA WalkHolds ==
    ASSUME NEW v, NEW msgs \in Seq(Entries), NEW h \in Seq(Entries)
    PROVE  Holds(v, Walk(v, msgs, FilterForRequest(h)), h)
<1> DEFINE W(s) == Walk(v, msgs, FilterForRequest(s))
           T == {s \in Seq(Entries) : Holds(v, W(s), s)}
<1>1. <<>> \in T
  <2>1. W(<<>>) = Start
    <3>1. FilterForRequest(<<>>) = <<>>
      <4>1. FlattenSeq(<<>>) = <<>>
        BY EmptySeq, FlattenType
      <4>2. [i \in DOMAIN <<>> |-> IF <<>>[i].ignored THEN <<>> ELSE << <<>>[i] >>] = <<>>
        OBVIOUS
      <4> QED
        BY <4>1, <4>2 DEF FilterForRequest
    <3> QED
      BY <3>1, WalkNone
  <2>2. Found(<<>>) = <<>> /\ BlockPieces(<<>>) = <<>>
    <3>1. FlattenSeq(<<>>) = <<>>
      BY EmptySeq, FlattenType
    <3>2. /\ [i \in DOMAIN <<>> |-> BlockPieces(<<>>[i].blocks)] = <<>>
          /\ [k \in DOMAIN <<>> |-> IF <<>>[k].kind = "result" THEN <<>>[k].pieces ELSE << <<>>[k].piece >>] = <<>>
      OBVIOUS
    <3> QED
      BY <3>1, <3>2 DEF Found, BlockPieces
  <2>3. \A system \in BOOLEAN : Told(v, <<>>, system) = <<>>
    <3>1. FlattenSeq(<<>>) = <<>>
      BY EmptySeq, FlattenType
    <3> TAKE system \in BOOLEAN
    <3>2. [i \in DOMAIN <<>> |-> IF ~<<>>[i].ignored /\ (<<>>[i].role = "system") = system
                                 THEN Spoken(v, <<>>[i]) ELSE <<>>] = <<>>
      OBVIOUS
    <3> QED
      BY <3>1, <3>2 DEF Told
  <2>4. <<>> \o <<>> = <<>> /\ <<>> \in Seq(Entries)
    OBVIOUS
  <2>5. Start.system = <<>> /\ Start.turns = <<>> /\ Start.pending = <<>>
    BY DEF Start
  <2>6. Holds(v, Start, <<>>)
    BY <2>2, <2>3, <2>4, <2>5 DEF Holds
  <2> HIDE DEF W
  <2> QED
    BY <2>1, <2>4, <2>6
<1>2. ASSUME NEW s \in Seq(Entries), NEW m \in Entries, s \in T PROVE Append(s, m) \in T
  <2> DEFINE k == FilterForRequest(s)
             a == W(s)
  <2>1. k \in Seq(Entries) /\ Append(s, m) \in Seq(Entries)
    BY Filtered, AppendProperties
  <2>2. a \in Acc /\ (v = "anthropic" => a.pending = <<>>) /\ Holds(v, a, s)
    BY <1>2, <2>1, WalkType
  <2>3. CASE m.ignored
    <3>1. W(Append(s, m)) = a
      BY <2>3, FilterMore
    <3>2. \A system \in BOOLEAN : Told(v, Append(s, m), system) = Told(v, s, system)
      BY <2>3, ToldMore
    <3> HIDE DEF W, a
    <3>3. Holds(v, a, Append(s, m))
      BY <2>2, <3>2 DEF Holds
    <3> QED
      BY <2>1, <3>1, <3>3
  <2>4. CASE ~m.ignored
    <3>1. FilterForRequest(Append(s, m)) = Append(k, m)
      BY <2>4, FilterMore
    <3>2. W(Append(s, m)) = AddMessage(v, msgs, a, m)
      <4> HIDE DEF k
      <4>1. Walk(v, msgs, Append(k, m)) = AddMessage(v, msgs, Walk(v, msgs, k), m)
        BY <2>1, WalkMore
      <4> QED
        BY <3>1, <4>1 DEF k
    <3> HIDE DEF W, a
    <3>3. Holds(v, AddMessage(v, msgs, a, m), Append(s, m))
      BY <2>2, <2>4, HoldsMore
    <3> QED
      BY <2>1, <3>2, <3>3
  <2> QED
    BY <2>3, <2>4
<1>3. Seq(Entries) \subseteq T
  <2> HIDE DEF T
  <2> QED
    BY <1>1, <1>2, AllSequences
<1> QED
  BY <1>3

LEMMA RequestHolds ==
    ASSUME InOrder(history)
    PROVE  NothingDropped
<1> SUFFICES ASSUME NEW v \in Vendors, NEW r \in Sent(v),
                    NEW ns, ns = {i \in DOMAIN history : history[i].ignored \/ Fitting(v, history[i])}
             PROVE  /\ Of(Found(r.turns), ns) = Expected(v, history, FALSE)
                    /\ Of(r.system, ns) = Expected(v, history, TRUE)
  BY DEF NothingDropped
<1> DEFINE msgs == FilterForRequest(history)
           w == Walk(v, msgs, msgs)
           t == Translated(v, msgs)
<1>1. r.system = t.system /\ r.turns = t.turns
  <2>1. PICK s \in Settings : r = Request(v, s, history) /\ r # NoRequest
    BY DEF Sent
  <2> QED
    BY <2>1 DEF Request
<1>2. history \in Seq(Entries) /\ msgs \in Seq(Entries)
  BY Filtered DEF InOrder
<1>3. w \in Acc
  <2> HIDE DEF msgs
  <2> QED
    BY <1>2, WalkType
<1>4. Holds(v, w, history)
  BY <1>2, WalkHolds
<1>5. t = Closed(w)
  BY DEF Translated
<1> HIDE DEF w, t
<1>6. t.system = w.system /\ Found(t.turns) = Found(w.turns) \o BlockPieces(w.pending)
  BY <1>3, <1>5, ClosedType, ClosedPieces
<1>7. Found(r.turns) = Told(v, history, FALSE) /\ r.system = Told(v, history, TRUE)
  BY <1>1, <1>4, <1>6 DEF Holds
<1>8. history \in Seq(Sorted(v, ns))
  <2>1. DOMAIN history = 1..Len(history) /\ Len(history) \in Nat /\ history = [i \in 1..Len(history) |-> history[i]]
    BY <1>2, LenProperties
  <2>2. \A i \in 1..Len(history) : history[i] \in Sorted(v, ns)
    <3> TAKE i \in 1..Len(history)
    <3>1. history[i] \in Entries /\ history[i].n = i
      BY <1>2, <2>1, EntriesOf DEF InOrder
    <3>2. i \in ns <=> (history[i].ignored \/ Fitting(v, history[i]))
      BY <2>1
    <3> QED
      BY <3>1, <3>2 DEF Sorted
  <2> QED
    BY <2>1, <2>2, IsASeq
<1> QED
  BY <1>7, <1>8, ToldAsExpected

(* Whatever messages the loop adds, a request holds every piece of those   *)
(* that fit the vendor's form, once and in order, and nothing of an audit  *)
(* row (messages.go:49-53, 67-70).                                         *)
THEOREM RequestsDropNothing ==
    RequestsInit /\ [][RequestsNext]_history => []NothingDropped
<1>1. RequestsInit => InOrder(history)
  BY EmptySeq DEF RequestsInit, InOrder
<1>2. InOrder(history) /\ [RequestsNext]_history => InOrder(history)'
  BY OrderKept
<1>3. InOrder(history) => NothingDropped
  BY RequestHolds
<1> QED
  BY <1>1, <1>2, <1>3, PTL

-----------------------------------------------------------------------------
(* Calls and results of a conversation.                                    *)

\* The results so far are those of the first calls.
CallInv(h) ==
    /\ h \in Seq(Entries)
    /\ Len(Results(h)) <= Len(AllCalls(h))
    /\ \A j \in DOMAIN Results(h) : Results(h)[j] = AllCalls(h)[j].id

\* What the loop may add to a conversation.
Fits(h, m) ==
    /\ m \in Entries /\ m.n = Len(h) + 1
    /\ m.role = "tool" => /\ Len(Results(h)) < Len(AllCalls(h))
                          /\ m.answers = AllCalls(h)[Len(Results(h)) + 1].id
    /\ ~m.ignored /\ m.role \in {"user", "assistant"} => Unanswered(h) = <<>>

LEMMA UnansweredIs ==
    ASSUME NEW h \in Seq(Entries)
    PROVE  /\ Len(AllCalls(h)) \in Nat /\ Len(Results(h)) \in Nat
           /\ DOMAIN AllCalls(h) = 1..Len(AllCalls(h)) /\ DOMAIN Results(h) = 1..Len(Results(h))
           /\ Unanswered(h) = <<>> <=> Len(Results(h)) >= Len(AllCalls(h))
           /\ Unanswered(h) # <<>> => Head(Unanswered(h)) = AllCalls(h)[Len(Results(h)) + 1]
<1> DEFINE c == AllCalls(h)
           r == Results(h)
           u == Unanswered(h)
           n == Len(c)
           k == Len(r)
<1>1. c \in Seq(Calls) /\ r \in Seq(Ids \cup {<<>>}) /\ u \in Seq(Calls)
  BY UnansweredType
<1>2. n \in Nat /\ k \in Nat /\ DOMAIN c = 1..n /\ DOMAIN r = 1..k
  BY <1>1, LenProperties
<1>3. u = SubSeq(c, k + 1, n)
  BY DEF Unanswered
<1> HIDE DEF c, r, u
<1>4. \A i \in (k + 1)..n : c[i] \in Calls
  BY <1>1, <1>2, EntriesOf
<1> HIDE DEF n, k
<1>5. /\ Len(u) = IF k + 1 <= n THEN n - (k + 1) + 1 ELSE 0
      /\ \A i \in 1..(n - (k + 1) + 1) : u[i] = c[(k + 1) + i - 1]
  BY <1>2, <1>3, <1>4, SubSeqProperties
<1>6. u = <<>> <=> Len(u) = 0
  BY <1>1, EmptySeq
<1>7. u = <<>> <=> k >= n
  BY <1>2, <1>5, <1>6
<1>8. ASSUME u # <<>> PROVE Head(u) = c[k + 1]
  <2>1. k + 1 <= n
    BY <1>2, <1>7, <1>8
  <2>2. 1 \in 1..(n - (k + 1) + 1) /\ (k + 1) + 1 - 1 = k + 1
    BY <1>2, <2>1
  <2>3. u[1] = c[k + 1]
    BY <1>5, <2>2
  <2> QED
    BY <2>3
<1> QED
  BY <1>2, <1>7, <1>8 DEF c, r, u, n, k

LEMMA SaysFits ==
    ASSUME history \in Seq(Entries), NEW d \in Drafts, NEW m, Says(d, m)
    PROVE  Fits(history, m)
<1> DEFINE a == IF d.role = "tool" THEN Head(Unanswered(history)).id ELSE <<>>
<1>1. m \in Entries /\ MayAdd(d) /\ m = Numbered(d, Len(history) + 1, a)
  BY DEF Says
<1>2. m.n = Len(history) + 1 /\ m.role = d.role /\ m.ignored = d.ignored /\ m.answers = a
  BY <1>1 DEF Numbered
<1>3. ASSUME m.role = "tool"
      PROVE  /\ Len(Results(history)) < Len(AllCalls(history))
             /\ m.answers = AllCalls(history)[Len(Results(history)) + 1].id
  <2>1. Unanswered(history) # <<>>
    BY <1>1, <1>2, <1>3, DraftsAssumption DEF MayAdd
  <2>2. m.answers = Head(Unanswered(history)).id
    BY <1>2, <1>3
  <2> QED
    BY <2>1, <2>2, UnansweredIs
<1>4. ASSUME ~m.ignored, m.role \in {"user", "assistant"} PROVE Unanswered(history) = <<>>
  BY <1>1, <1>2, <1>4 DEF MayAdd, Sendable
<1> QED
  BY <1>1, <1>2, <1>3, <1>4 DEF Fits

LEMMA CallInvMore ==
    ASSUME NEW h, CallInv(h), NEW m, Fits(h, m)
    PROVE  /\ CallInv(Append(h, m))
           /\ \A k \in DOMAIN AllCalls(h) : k \in DOMAIN AllCalls(Append(h, m))
                                            /\ AllCalls(Append(h, m))[k] = AllCalls(h)[k]
<1> DEFINE g == Append(h, m)
           c == AllCalls(h)
           d == AllCalls(g)
           r == Results(h)
           q == Results(g)
<1>0. h \in Seq(Entries) /\ m \in Entries
  BY DEF CallInv, Fits
<1>1. /\ g \in Seq(Entries) /\ Len(g) = Len(h) + 1 /\ Len(h) \in Nat
  BY <1>0, AppendProperties, LenProperties
<1>2. /\ c \in Seq(Calls) /\ m.calls \in Seq(Calls) /\ d = c \o m.calls
  BY <1>0, CallsMore, EntryIs
<1>3. /\ Len(m.calls) \in Nat /\ Len(c) \in Nat /\ DOMAIN c = 1..Len(c)
      /\ Len(d) = Len(c) + Len(m.calls) /\ DOMAIN d = 1..(Len(c) + Len(m.calls))
      /\ \A k \in 1..(Len(c) + Len(m.calls)) :
            d[k] = IF k <= Len(c) THEN c[k] ELSE m.calls[k - Len(c)]
  <2>1. d \in Seq(Calls) /\ Len(d) = Len(c) + Len(m.calls)
        /\ \A k \in 1..(Len(c) + Len(m.calls)) :
              d[k] = IF k <= Len(c) THEN c[k] ELSE m.calls[k - Len(c)]
    <3> HIDE DEF c, d
    <3> QED
      BY <1>2, ConcatProperties
  <2>2. DOMAIN d = 1..Len(d) /\ Len(c) \in Nat /\ DOMAIN c = 1..Len(c) /\ Len(m.calls) \in Nat
    BY <1>2, <2>1, LenProperties
  <2> QED
    BY <2>1, <2>2
<1>6. Len(r) <= Len(c) /\ \A j \in DOMAIN r : r[j] = c[j].id
  BY DEF CallInv
<1>7. /\ r \in Seq(Ids \cup {<<>>}) /\ Len(r) \in Nat /\ DOMAIN r = 1..Len(r)
      /\ q \in Seq(Ids \cup {<<>>}) /\ DOMAIN q = 1..Len(q)
  BY <1>0, <1>1, UnansweredType, LenProperties
<1>8. /\ m.role # "tool" => q = r
      /\ m.role = "tool" => q = Append(r, m.answers)
  BY <1>0, ResultsMore
<1>9. m.role = "tool" => Len(r) < Len(c) /\ m.answers = c[Len(r) + 1].id
  BY DEF Fits
<1>10. m.answers \in Ids \cup {<<>>}
  BY <1>0, EntryIs
<1> HIDE DEF g, c, d, r, q
<1> DEFINE n == Len(c)
           p == Len(m.calls)
<1>14. \A k \in DOMAIN c : k \in DOMAIN d /\ d[k] = c[k]
  <2> TAKE k \in DOMAIN c
  <2>1. k \in 1..(n + p) /\ k <= n
    BY <1>3
  <2> QED
    BY <1>3, <2>1
<1>15. Len(q) <= Len(d) /\ \A j \in DOMAIN q : q[j] = d[j].id
  <2>1. CASE m.role # "tool"
    <3>1. q = r /\ n <= Len(d)
      BY <1>3, <1>8, <2>1
    <3>2. \A j \in DOMAIN r : j \in DOMAIN c
      BY <1>3, <1>6, <1>7
    <3> QED
      BY <1>3, <1>6, <1>7, <1>14, <3>1, <3>2
  <2>2. CASE m.role = "tool"
    <3>1. q = Append(r, m.answers)
      BY <1>8, <2>2
    <3>2. Len(q) = Len(r) + 1 /\ q[Len(r) + 1] = m.answers /\ \A j \in 1..Len(r) : q[j] = r[j]
      BY <1>7, <1>10, <3>1, AppendProperties
    <3>3. Len(r) + 1 \in DOMAIN c /\ \A j \in 1..Len(r) : j \in DOMAIN c
      BY <1>3, <1>7, <1>9, <2>2
    <3>4. Len(q) <= Len(d)
      BY <1>3, <1>7, <1>9, <2>2, <3>2
    <3>5. ASSUME NEW j \in DOMAIN q PROVE q[j] = d[j].id
      <4>1. CASE j \in 1..Len(r)
        BY <1>6, <1>7, <1>14, <3>2, <3>3, <4>1
      <4>2. CASE j = Len(r) + 1
        BY <1>9, <1>14, <2>2, <3>2, <3>3, <4>2
      <4> QED
        BY <1>7, <3>2, <4>1, <4>2
    <3> QED
      BY <3>4, <3>5
  <2> QED
    BY <2>1, <2>2
<1>16. CallInv(g)
  BY <1>1, <1>15 DEF CallInv, d, q
<1> QED
  BY <1>14, <1>16 DEF c, d, g

\* No call is in an audit row.
LEMMA CallsFiltered ==
    ASSUME NEW h \in Seq(Entries)
    PROVE  AllCalls(FilterForRequest(h)) = AllCalls(h)
<1> DEFINE F(s) == AllCalls(FilterForRequest(s))
           T == {s \in Seq(Entries) : F(s) = AllCalls(s)}
<1>1. <<>> \in T
  <2>1. FlattenSeq(<<>>) = <<>>
    BY EmptySeq, FlattenType
  <2>2. [i \in DOMAIN <<>> |-> IF <<>>[i].ignored THEN <<>> ELSE << <<>>[i] >>] = <<>>
    OBVIOUS
  <2>3. FilterForRequest(<<>>) = <<>>
    BY <2>1, <2>2 DEF FilterForRequest
  <2> QED
    BY <2>3, EmptySeq
<1>2. ASSUME NEW s \in Seq(Entries), NEW m \in Entries, s \in T PROVE Append(s, m) \in T
  <2> DEFINE f == FilterForRequest(s)
  <2>1. f \in Seq(Entries) /\ Append(s, m) \in Seq(Entries)
    BY Filtered, AppendProperties
  <2>2. AllCalls(Append(s, m)) = AllCalls(s) \o m.calls /\ AllCalls(s) \in Seq(Calls)
    BY CallsMore
  <2>3. AllCalls(f) = AllCalls(s)
    BY <1>2
  <2>4. CASE m.ignored
    <3>1. m.calls = <<>>
      BY <2>4, EntryIs
    <3>2. FilterForRequest(Append(s, m)) = f
      BY <2>4, FilterMore
    <3>3. AllCalls(s) \o <<>> = AllCalls(s)
      BY <2>2, ConcatEmptySeq
    <3> QED
      BY <2>1, <2>2, <2>3, <3>1, <3>2, <3>3
  <2>5. CASE ~m.ignored
    <3>1. FilterForRequest(Append(s, m)) = Append(f, m)
      BY <2>5, FilterMore
    <3> HIDE DEF f
    <3>2. AllCalls(Append(f, m)) = AllCalls(f) \o m.calls
      BY <2>1, CallsMore
    <3> QED
      BY <2>1, <2>2, <2>3, <3>1, <3>2
  <2> QED
    BY <2>4, <2>5
<1> QED
  <2> HIDE DEF T
  <2>1. Seq(Entries) \subseteq T
    BY <1>1, <1>2, AllSequences
  <2> QED
    BY <2>1 DEF T

\* Every result of a request is among the conversation's.
ResultsFrom(f, h) ==
    \A i \in DOMAIN f : f[i].role = "tool" => \E j \in DOMAIN Results(h) : Results(h)[j] = f[i].answers

LEMMA ResultsFiltered ==
    ASSUME NEW h \in Seq(Entries)
    PROVE  ResultsFrom(FilterForRequest(h), h)
<1> DEFINE T == {s \in Seq(Entries) : ResultsFrom(FilterForRequest(s), s)}
<1>1. <<>> \in T
  <2>1. FlattenSeq(<<>>) = <<>>
    BY EmptySeq, FlattenType
  <2>2. [i \in DOMAIN <<>> |-> IF <<>>[i].ignored THEN <<>> ELSE << <<>>[i] >>] = <<>>
    OBVIOUS
  <2>3. FilterForRequest(<<>>) = <<>>
    BY <2>1, <2>2 DEF FilterForRequest
  <2>4. DOMAIN <<>> = {}
    OBVIOUS
  <2>5. ResultsFrom(<<>>, <<>>)
    BY <2>4 DEF ResultsFrom
  <2> QED
    BY <2>3, <2>5, EmptySeq
<1>2. ASSUME NEW s \in Seq(Entries), NEW m \in Entries, s \in T PROVE Append(s, m) \in T
  <2> DEFINE f == FilterForRequest(s)
             g == FilterForRequest(Append(s, m))
             r == Results(s)
             q == Results(Append(s, m))
             R == Ids \cup {<<>>}
  <2>1. /\ f \in Seq(Entries) /\ Append(s, m) \in Seq(Entries)
        /\ r \in Seq(R) /\ q \in Seq(R) /\ m.answers \in R
    BY Filtered, AppendProperties, UnansweredType, EntryIs
  <2>2. ResultsFrom(f, s)
    BY <1>2
  <2>3. /\ m.ignored => g = f
        /\ ~m.ignored => g = Append(f, m)
    BY FilterMore
  <2>4. /\ m.role # "tool" => q = r
        /\ m.role = "tool" => q = Append(r, m.answers)
    BY ResultsMore
  <2>5. m.role = "tool" => ~m.ignored
    BY EntryIs
  <2> HIDE DEF f, g, r, q, R
  <2>6. /\ Len(f) \in Nat /\ DOMAIN f = 1..Len(f) /\ Len(r) \in Nat /\ DOMAIN r = 1..Len(r)
        /\ DOMAIN q = 1..Len(q)
    BY <2>1, LenProperties
  <2>7. \A j \in DOMAIN r : j \in DOMAIN q /\ q[j] = r[j]
    <3>1. CASE m.role = "tool"
      <4>1. Len(q) = Len(r) + 1 /\ \A j \in 1..Len(r) : q[j] = r[j]
        BY <2>1, <2>4, <3>1, AppendProperties
      <4> QED
        BY <2>6, <4>1
    <3> QED
      BY <2>4, <3>1
  <2>8. \A i \in DOMAIN f : f[i].role = "tool" => \E j \in DOMAIN q : q[j] = f[i].answers
    BY <2>2, <2>7 DEF ResultsFrom, r
  <2>9. m.role = "tool" => \E j \in DOMAIN q : q[j] = m.answers
    <3> SUFFICES ASSUME m.role = "tool" PROVE \E j \in DOMAIN q : q[j] = m.answers
      OBVIOUS
    <3>1. Len(q) = Len(r) + 1 /\ q[Len(r) + 1] = m.answers
      BY <2>1, <2>4, AppendProperties
    <3>2. Len(r) + 1 \in DOMAIN q
      BY <2>6, <3>1
    <3> QED
      BY <3>1, <3>2
  <2>10. \A i \in DOMAIN g : g[i].role = "tool" => \E j \in DOMAIN q : q[j] = g[i].answers
    <3>1. CASE m.ignored
      BY <2>3, <2>8, <3>1
    <3>2. CASE ~m.ignored
      <4>1. g = Append(f, m)
        BY <2>3, <3>2
      <4>2. /\ Append(f, m) \in Seq(Entries) /\ Len(g) = Len(f) + 1 /\ g[Len(f) + 1] = m
            /\ \A i \in 1..Len(f) : g[i] = f[i]
        BY <2>1, <4>1, AppendProperties
      <4>3. DOMAIN g = 1..(Len(f) + 1)
        BY <4>1, <4>2, LenProperties
      <4> TAKE i \in DOMAIN g
      <4>4. CASE i \in DOMAIN f
        BY <2>6, <2>8, <4>2, <4>4
      <4>5. CASE i = Len(f) + 1
        BY <2>9, <4>2, <4>5
      <4> QED
        BY <2>6, <4>3, <4>4, <4>5
    <3> QED
      BY <3>1, <3>2
  <2> QED
    BY <2>1, <2>10 DEF ResultsFrom, g, q
<1> QED
  <2> HIDE DEF T
  <2>1. Seq(Entries) \subseteq T
    BY <1>1, <1>2, AllSequences
  <2> QED
    BY <2>1 DEF T

\* A call's id finds its name, where ids agree on names.
LEMMA NameFound ==
    ASSUME NEW h, CallInv(h), NamesAgree(h), NEW k \in DOMAIN AllCalls(h)
    PROVE  NameOf(FilterForRequest(h), AllCalls(h)[k].id) = AllCalls(h)[k].name
<1> DEFINE f == FilterForRequest(h)
           c == AllCalls(h)
           id == c[k].id
           name == NameOf(f, id)
<1>1. f \in Seq(Entries) /\ AllCalls(f) = c
  BY Filtered, CallsFiltered DEF CallInv
<1>2. NameGiven(c, id, name)
  <2>1. NameGiven(AllCalls(f), id, NameOf(f, id))
    <3> HIDE DEF f, id
    <3> QED
      BY <1>1, NameIs
  <2> QED
    BY <1>1, <2>1
<1>3. \A j \in DOMAIN c : c[j].id = id => c[j].name = c[k].name
  BY DEF NamesAgree
<1> HIDE DEF name
<1>4. name = c[k].name
  BY <1>2, <1>3 DEF NameGiven
<1> QED
  BY <1>4 DEF name

\* Ids that agree on names did so before.
LEMMA StillResolvable ==
    ASSUME NEW v, NEW h, CallInv(h), NEW m, Fits(h, m), Resolvable(v, Append(h, m))
    PROVE  Resolvable(v, h)
<1> DEFINE g == Append(h, m)
<1>1. \A k \in DOMAIN AllCalls(h) : k \in DOMAIN AllCalls(g) /\ AllCalls(g)[k] = AllCalls(h)[k]
  BY CallInvMore
<1> HIDE DEF g
<1>2. NamesAgree(g) => NamesAgree(h)
  BY <1>1 DEF NamesAgree
<1> QED
  BY <1>2 DEF Resolvable, g

\* The walk over a conversation, and one message on.
Walked(v, h) == Walk(v, FilterForRequest(h), FilterForRequest(h))

LEMMA WalkedType ==
    ASSUME NEW v, NEW h \in Seq(Entries)
    PROVE  /\ Walked(v, h) \in Acc /\ Translated(v, FilterForRequest(h)) = Closed(Walked(v, h))
           /\ v = "anthropic" => Walked(v, h).pending = <<>>
<1> DEFINE f == FilterForRequest(h)
<1>1. f \in Seq(Entries)
  BY Filtered
<1> HIDE DEF f
<1>2. Walk(v, f, f) \in Acc /\ (v = "anthropic" => Walk(v, f, f).pending = <<>>)
  BY <1>1, WalkType
<1> QED
  BY <1>2 DEF Walked, Translated, f

LEMMA WalkedMore ==
    ASSUME NEW v, NEW h, CallInv(h), NEW m, Fits(h, m), Resolvable(v, Append(h, m))
    PROVE  /\ m.ignored => Walked(v, Append(h, m)) = Walked(v, h)
           /\ ~m.ignored => Walked(v, Append(h, m))
                            = AddMessage(v, FilterForRequest(Append(h, m)), Walked(v, h), m)
<1> DEFINE g == Append(h, m)
           f == FilterForRequest(h)
           e == FilterForRequest(g)
<1>1. h \in Seq(Entries) /\ m \in Entries /\ CallInv(g)
  BY CallInvMore DEF CallInv, Fits
<1>2. f \in Seq(Entries)
  BY <1>1, Filtered
<1>3. /\ m.ignored => e = f
      /\ ~m.ignored => e = Append(f, m)
  BY <1>1, FilterMore
<1>4. CASE m.ignored
  BY <1>3, <1>4 DEF Walked
<1>5. CASE ~m.ignored
  <2>1. e = Append(f, m)
    BY <1>3, <1>5
  <2>2. v = "vertex" =>
           \A i \in DOMAIN f : f[i].role = "tool" => NameOf(e, f[i].answers) = NameOf(f, f[i].answers)
    <3> SUFFICES ASSUME v = "vertex", NEW i \in DOMAIN f, f[i].role = "tool"
                 PROVE  NameOf(e, f[i].answers) = NameOf(f, f[i].answers)
      OBVIOUS
    <3>0. NamesAgree(h) /\ NamesAgree(g)
      BY StillResolvable DEF Resolvable
    <3>1. ResultsFrom(f, h)
      BY <1>1, ResultsFiltered
    <3>2. PICK j \in DOMAIN Results(h) : Results(h)[j] = f[i].answers
      BY <3>1 DEF ResultsFrom
    <3>3. j \in DOMAIN AllCalls(h) /\ AllCalls(h)[j].id = f[i].answers
      <4>1. Results(h)[j] = AllCalls(h)[j].id /\ Len(Results(h)) <= Len(AllCalls(h))
        BY DEF CallInv
      <4>2. j \in DOMAIN AllCalls(h)
        BY <1>1, <4>1, UnansweredIs
      <4> QED
        BY <3>2, <4>1, <4>2
    <3>4. j \in DOMAIN AllCalls(g) /\ AllCalls(g)[j] = AllCalls(h)[j]
      BY <3>3, CallInvMore
    <3>5. NameOf(f, AllCalls(h)[j].id) = AllCalls(h)[j].name
      BY <3>0, <3>3, NameFound
    <3>6. NameOf(e, AllCalls(g)[j].id) = AllCalls(g)[j].name
      <4> HIDE DEF g
      <4> QED
        BY <1>1, <3>0, <3>4, NameFound
    <3> QED
      BY <3>3, <3>4, <3>5, <3>6
  <2> HIDE DEF e, f
  <2>3. Walk(v, e, f) = Walk(v, f, f)
    BY <1>2, <2>2, WalkNames
  <2>4. Walk(v, e, Append(f, m)) = AddMessage(v, e, Walk(v, e, f), m)
    BY <1>1, <1>2, WalkMore
  <2>5. Walk(v, e, e) = AddMessage(v, e, Walk(v, f, f), m)
    BY <2>1, <2>3, <2>4
  <2> QED
    BY <1>5, <2>5 DEF Walked, e, f
<1> QED
  BY <1>4, <1>5

-----------------------------------------------------------------------------
(* Turns stay.                                                             *)

LEMMA PrefixIs ==
    ASSUME NEW S, NEW s \in Seq(S), NEW t \in Seq(S)
    PROVE  IsPrefix(s, t) <=> Len(s) <= Len(t) /\ \A i \in 1..Len(s) : s[i] = t[i]
<1> DEFINE n == Len(s)
<1>1. n \in Nat /\ Len(t) \in Nat /\ SubSeq(s, 1, n) = s
  BY LenProperties, SubSeqFull
<1>2. ASSUME n <= Len(t)
      PROVE  SubSeq(t, 1, n) = s <=> \A i \in 1..n : s[i] = t[i]
  <2> DEFINE u == SubSeq(t, 1, n)
  <2>1. \A i \in 1..n : t[i] \in S
    <3>1. \A i \in 1..n : i \in 1..Len(t)
      BY <1>1, <1>2
    <3> QED
      BY <3>1, ElementOfSeq
  <2>2. /\ u \in Seq(S) /\ Len(u) = IF 1 <= n THEN n - 1 + 1 ELSE 0
        /\ \A i \in 1..(n - 1 + 1) : u[i] = t[1 + i - 1]
    <3> HIDE DEF n
    <3> QED
      BY <1>1, <2>1, SubSeqProperties
  <2> HIDE DEF u
  <2>3. Len(u) = n /\ \A i \in 1..n : u[i] = t[i]
    <3> HIDE DEF n
    <3> QED
      BY <1>1, <2>2
  <2>4. (\A i \in 1..n : s[i] = t[i]) => u = s
    BY <1>1, <2>2, <2>3, SeqEqual
  <2>5. u = s => \A i \in 1..n : s[i] = t[i]
    BY <2>3
  <2> QED
    BY <2>4, <2>5 DEF u
<1> QED
  BY <1>1, <1>2 DEF IsPrefix

LEMMA PrefixSteps ==
    ASSUME NEW S, NEW s \in Seq(S)
    PROVE  /\ IsPrefix(s, s)
           /\ \A x \in S : IsPrefix(s, Append(s, x))
           /\ \A t, u \in Seq(S) : IsPrefix(s, t) /\ IsPrefix(t, u) => IsPrefix(s, u)
<1>0. \A t \in Seq(S) : Len(t) \in Nat
  BY LenProperties
<1>1. IsPrefix(s, s)
  BY <1>0, PrefixIs
<1>2. ASSUME NEW x \in S PROVE IsPrefix(s, Append(s, x))
  <2> DEFINE t == Append(s, x)
  <2>1. t \in Seq(S) /\ Len(t) = Len(s) + 1 /\ \A i \in 1..Len(s) : t[i] = s[i]
    BY AppendProperties
  <2> HIDE DEF t
  <2>2. Len(s) <= Len(t) /\ \A i \in 1..Len(s) : s[i] = t[i]
    BY <1>0, <2>1
  <2>3. IsPrefix(s, t)
    BY <2>1, <2>2, PrefixIs
  <2> QED
    BY <2>3 DEF t
<1>3. ASSUME NEW t \in Seq(S), NEW u \in Seq(S), IsPrefix(s, t), IsPrefix(t, u) PROVE IsPrefix(s, u)
  <2>1. Len(s) <= Len(t) /\ \A i \in 1..Len(s) : s[i] = t[i]
    BY <1>3, PrefixIs
  <2>2. Len(t) <= Len(u) /\ \A i \in 1..Len(t) : t[i] = u[i]
    BY <1>3, PrefixIs
  <2>3. Len(s) <= Len(u) /\ \A i \in 1..Len(s) : s[i] = u[i]
    <3>1. \A i \in 1..Len(s) : i \in 1..Len(t)
      BY <1>0, <2>1
    <3> QED
      BY <1>0, <2>1, <2>2, <3>1
  <2> QED
    BY <2>3, PrefixIs
<1> QED
  BY <1>1, <1>2, <1>3

LEMMA ClosedKeeps ==
    ASSUME NEW acc \in Acc
    PROVE  IsPrefix(acc.turns, Closed(acc).turns)
<1> DEFINE t == [role |-> "user", blocks |-> acc.pending]
<1>1. acc.turns \in Seq(Turn) /\ acc.pending \in Seq(Block)
  BY DEF Acc
<1>2. t \in Turn
  BY <1>1 DEF Turn
<1>3. Closed(acc).turns = IF acc.pending = <<>> THEN acc.turns ELSE Append(acc.turns, t)
  BY ClosedType
<1> HIDE DEF t
<1> QED
  BY <1>1, <1>2, <1>3, PrefixSteps

LEMMA TurnsKept ==
    ASSUME NEW v, NEW msgs \in Seq(Entries), NEW acc \in Acc, NEW m \in Entries
    PROVE  LET new == AddMessage(v, msgs, acc, m)
           IN  /\ IsPrefix(acc.turns, new.turns)
               /\ m.role \in {"user", "assistant"} => IsPrefix(Closed(acc).turns, new.turns)
               /\ m.role \notin {"user", "assistant", "tool"} =>
                     new.turns = acc.turns /\ new.pending = acc.pending
<1> DEFINE new == AddMessage(v, msgs, acc, m)
           c == Closed(acc)
<1>1. new \in Acc /\ c \in Acc /\ acc.turns \in Seq(Turn) /\ acc.pending \in Seq(Block)
  BY AddType, ClosedType DEF Acc
<1>2. IsPrefix(acc.turns, c.turns) /\ c.turns \in Seq(Turn) /\ new.turns \in Seq(Turn)
  BY <1>1, ClosedKeeps DEF Acc
<1>3. CASE m.role = "system"
  <2>1. new.turns = acc.turns /\ new.pending = acc.pending
    BY <1>3 DEF AddMessage, AddSystem, Acc
  <2> QED
    BY <1>1, <1>3, <2>1, PrefixSteps
<1>4. CASE m.role \in {"user", "assistant"}
  <2> DEFINE t == [role |-> m.role, blocks |-> TurnBlocks(v, m)]
  <2>1. t \in Turn
    BY <1>4, BlockTypes DEF Turn
  <2>2. new = IF TurnBlocks(v, m) = <<>> THEN c ELSE [c EXCEPT !.turns = Append(@, t)]
    BY <1>4 DEF AddMessage, AddTurn, BeforeTurn
  <2> HIDE DEF t, new, c
  <2>3. new.turns = c.turns \/ new.turns = Append(c.turns, t)
    BY <1>1, <2>2 DEF Acc
  <2>4. IsPrefix(c.turns, new.turns)
    <3>1. IsPrefix(c.turns, c.turns) /\ IsPrefix(c.turns, Append(c.turns, t))
      BY <1>2, <2>1, PrefixSteps
    <3> QED
      BY <2>3, <3>1
  <2>5. IsPrefix(acc.turns, new.turns)
    BY <1>1, <1>2, <2>4, PrefixSteps
  <2> QED
    BY <1>4, <2>4, <2>5 DEF new, c
<1>5. CASE m.role = "tool"
  <2> DEFINE b == ResultBlock(v, msgs, m)
             t == [role |-> "user", blocks |-> <<b>>]
  <2>1. b \in Block
    BY BlockTypes
  <2>2. new = IF v = "anthropic" THEN [acc EXCEPT !.turns = Append(@, t)]
              ELSE [acc EXCEPT !.pending = Append(@, b)]
    BY <1>5 DEF AddMessage, AddResult
  <2> HIDE DEF b
  <2>3. t \in Turn
    BY <2>1 DEF Turn
  <2> HIDE DEF t, new
  <2>4. new.turns = acc.turns \/ new.turns = Append(acc.turns, t)
    BY <2>2 DEF Acc
  <2>5. IsPrefix(acc.turns, new.turns)
    <3>1. IsPrefix(acc.turns, acc.turns) /\ IsPrefix(acc.turns, Append(acc.turns, t))
      BY <1>1, <2>3, PrefixSteps
    <3> QED
      BY <2>4, <3>1
  <2> QED
    BY <1>5, <2>5 DEF new
<1>6. CASE m.role \notin {"system", "user", "assistant", "tool"}
  <2>1. new = acc
    BY <1>6 DEF AddMessage
  <2> QED
    BY <1>1, <1>6, <2>1, PrefixSteps
<1> QED
  BY <1>3, <1>4, <1>5, <1>6

\* Only turns and results change what is unanswered.
LEMMA UnansweredKept ==
    ASSUME NEW h \in Seq(Entries), NEW m \in Entries,
           m.ignored \/ m.role \notin {"user", "assistant", "tool"}
    PROVE  Unanswered(Append(h, m)) = Unanswered(h)
<1>1. m.calls = <<>> /\ m.role # "tool"
  BY EntryIs
<1>2. AllCalls(h) \in Seq(Calls) /\ AllCalls(Append(h, m)) = AllCalls(h) \o m.calls
  BY CallsMore
<1>3. AllCalls(h) \o <<>> = AllCalls(h)
  BY <1>2, ConcatEmptySeq
<1>4. AllCalls(Append(h, m)) = AllCalls(h)
  BY <1>1, <1>2, <1>3
<1>5. Results(Append(h, m)) = Results(h)
  BY <1>1, ResultsMore
<1> QED
  BY <1>4, <1>5 DEF Unanswered

\* The turns of an earlier request are among those made, or will be once the
\* results that wait are placed.
TurnsOf(v, h) == Translated(v, FilterForRequest(h)).turns

Keeps(v, t, h) ==
    \/ IsPrefix(t, Walked(v, h).turns)
    \/ Unanswered(h) = <<>> /\ IsPrefix(t, Closed(Walked(v, h)).turns)

PrefixInv(h) ==
    \A v : Resolvable(v, h) =>
        \A k \in 1..Len(h) : Sendable(SubSeq(h, 1, k)) => Keeps(v, TurnsOf(v, SubSeq(h, 1, k)), h)

LEMMA KeepsMore ==
    ASSUME NEW v, NEW h, CallInv(h), NEW m, Fits(h, m), Resolvable(v, Append(h, m)),
           NEW t \in Seq(Turn), Keeps(v, t, h)
    PROVE  Keeps(v, t, Append(h, m))
<1> DEFINE g == Append(h, m)
           a == Walked(v, h)
           b == Walked(v, g)
           e == FilterForRequest(g)
<1>1. h \in Seq(Entries) /\ m \in Entries /\ CallInv(g) /\ g \in Seq(Entries)
  <2>1. CallInv(g)
    BY CallInvMore
  <2> QED
    BY <2>1 DEF CallInv, Fits
<1>2. a \in Acc /\ b \in Acc /\ e \in Seq(Entries)
  BY <1>1, WalkedType, Filtered
<1>3. /\ m.ignored => b = a
      /\ ~m.ignored => b = AddMessage(v, e, a, m)
  BY WalkedMore
<1>4. a.turns \in Seq(Turn) /\ b.turns \in Seq(Turn) /\ Closed(a).turns \in Seq(Turn)
  BY <1>2, ClosedType DEF Acc
<1>5. CASE m.ignored \/ m.role \notin {"user", "assistant", "tool"}
  <2>1. Unanswered(g) = Unanswered(h)
    BY <1>1, <1>5, UnansweredKept
  <2>2. b.turns = a.turns /\ b.pending = a.pending
    <3>1. CASE m.ignored
      BY <1>3, <3>1
    <3>2. CASE ~m.ignored
      <4> HIDE DEF a, b, e
      <4> QED
        BY <1>1, <1>2, <1>3, <1>5, <3>2, TurnsKept
    <3> QED
      BY <3>1, <3>2
  <2>3. Closed(b).turns = Closed(a).turns
    <3> HIDE DEF a, b
    <3>1. CASE a.pending = <<>>
      BY <1>2, <2>2, <3>1, ClosedType
    <3>2. CASE a.pending # <<>>
      <4>1. Closed(a).turns = Append(a.turns, [role |-> "user", blocks |-> a.pending])
        BY <1>2, <3>2, ClosedType
      <4>2. Closed(b).turns = Append(b.turns, [role |-> "user", blocks |-> b.pending])
        BY <1>2, <2>2, <3>2, ClosedType
      <4> QED
        BY <2>2, <4>1, <4>2
    <3> QED
      BY <3>1, <3>2
  <2> QED
    BY <2>1, <2>2, <2>3 DEF Keeps
<1>6. CASE ~m.ignored /\ m.role \in {"user", "assistant"}
  <2>1. IsPrefix(a.turns, b.turns) /\ IsPrefix(Closed(a).turns, b.turns)
    <3> HIDE DEF a, b, e
    <3> QED
      BY <1>1, <1>2, <1>3, <1>6, TurnsKept
  <2>2. IsPrefix(t, a.turns) \/ IsPrefix(t, Closed(a).turns)
    BY DEF Keeps
  <2> HIDE DEF a, b
  <2>3. IsPrefix(t, b.turns)
    BY <1>4, <2>1, <2>2, PrefixSteps
  <2> QED
    BY <2>3 DEF Keeps, b
<1>7. CASE ~m.ignored /\ m.role = "tool"
  <2>1. Unanswered(h) # <<>>
    BY <1>1, <1>7, UnansweredIs DEF Fits
  <2>2. IsPrefix(t, a.turns)
    BY <2>1 DEF Keeps
  <2>3. IsPrefix(a.turns, b.turns)
    <3> HIDE DEF a, b, e
    <3> QED
      BY <1>1, <1>2, <1>3, <1>7, TurnsKept
  <2> HIDE DEF a, b
  <2>4. IsPrefix(t, b.turns)
    BY <1>4, <2>2, <2>3, PrefixSteps
  <2> QED
    BY <2>4 DEF Keeps, b
<1> QED
  BY <1>5, <1>6, <1>7

LEMMA PrefixInvMore ==
    ASSUME NEW h, CallInv(h), NEW m, Fits(h, m), PrefixInv(h)
    PROVE  PrefixInv(Append(h, m))
<1> DEFINE g == Append(h, m)
<1>1. h \in Seq(Entries) /\ m \in Entries /\ g \in Seq(Entries) /\ Len(g) = Len(h) + 1 /\ Len(h) \in Nat
      /\ \A i \in 1..Len(h) : g[i] = h[i]
  <2>1. h \in Seq(Entries) /\ m \in Entries
    BY DEF CallInv, Fits
  <2> QED
    BY <2>1, AppendProperties, LenProperties
<1> SUFFICES ASSUME NEW v, Resolvable(v, g), NEW k \in 1..Len(g), Sendable(SubSeq(g, 1, k))
             PROVE  Keeps(v, TurnsOf(v, SubSeq(g, 1, k)), g)
  BY DEF PrefixInv
<1>0. Resolvable(v, h)
  BY StillResolvable
<1>2. CASE k = Len(g)
  <2>1. SubSeq(g, 1, k) = g
    BY <1>1, <1>2, SubSeqFull
  <2>2. Unanswered(g) = <<>>
    BY <2>1 DEF Sendable
  <2>3. TurnsOf(v, g) = Closed(Walked(v, g)).turns /\ Closed(Walked(v, g)) \in Acc
    BY <1>1, WalkedType, ClosedType DEF TurnsOf
  <2>4. Closed(Walked(v, g)).turns \in Seq(Turn)
    BY <2>3 DEF Acc
  <2>5. IsPrefix(TurnsOf(v, g), Closed(Walked(v, g)).turns)
    BY <2>3, <2>4, PrefixSteps
  <2> QED
    BY <2>1, <2>2, <2>5 DEF Keeps
<1>3. CASE k # Len(g)
  <2> DEFINE p == SubSeq(h, 1, k)
             q == SubSeq(g, 1, k)
  <2>1. k \in 1..Len(h) /\ k \in Nat /\ \A i \in 1..k : i \in 1..Len(h)
    BY <1>1, <1>3
  <2>2. \A i \in 1..k : h[i] \in Entries /\ g[i] \in Entries
    BY <1>1, <2>1, ElementOfSeq
  <2>3. p \in Seq(Entries) /\ Len(p) = k /\ \A i \in 1..k : p[i] = h[i]
    <3>1. /\ p \in Seq(Entries) /\ Len(p) = IF 1 <= k THEN k - 1 + 1 ELSE 0
          /\ \A i \in 1..(k - 1 + 1) : p[i] = h[1 + i - 1]
      <4>1. 1 \in Int /\ k \in Int /\ \A i \in 1..k : h[i] \in Entries
        BY <2>1, <2>2
      <4> QED
        BY <4>1, SubSeqProperties
    <3> HIDE DEF p
    <3> QED
      BY <2>1, <3>1
  <2>4. q \in Seq(Entries) /\ Len(q) = k /\ \A i \in 1..k : q[i] = g[i]
    <3>1. /\ q \in Seq(Entries) /\ Len(q) = IF 1 <= k THEN k - 1 + 1 ELSE 0
          /\ \A i \in 1..(k - 1 + 1) : q[i] = g[1 + i - 1]
      <4>1. 1 \in Int /\ k \in Int /\ \A i \in 1..k : g[i] \in Entries
        BY <2>1, <2>2
      <4> HIDE DEF g
      <4> QED
        BY <4>1, SubSeqProperties
    <3> HIDE DEF q
    <3> QED
      BY <2>1, <3>1
  <2> HIDE DEF p, q, g
  <2>5. p = q
    BY <1>1, <2>1, <2>3, <2>4, SeqEqual
  <2>6. Keeps(v, TurnsOf(v, p), h)
    BY <1>0, <2>1, <2>5 DEF PrefixInv, p, q
  <2>7. TurnsOf(v, p) \in Seq(Turn)
    BY <2>3, TranslatedType DEF TurnsOf, Acc
  <2>8. Keeps(v, TurnsOf(v, p), g)
    BY <2>6, <2>7, KeepsMore DEF g
  <2> QED
    BY <2>5, <2>8 DEF g, q
<1> QED
  BY <1>2, <1>3

LEMMA EmptyConversation ==
    /\ CallInv(<<>>) /\ PrefixInv(<<>>) /\ \A v : Walked(v, <<>>) = Start
    /\ Unanswered(<<>>) = <<>>
<1>1. FlattenSeq(<<>>) = <<>>
  BY EmptySeq, FlattenType
<1>2. /\ [i \in DOMAIN <<>> |-> <<>>[i].calls] = <<>>
      /\ [i \in DOMAIN <<>> |-> IF <<>>[i].role = "tool" THEN << <<>>[i].answers >> ELSE <<>>] = <<>>
      /\ [i \in DOMAIN <<>> |-> IF <<>>[i].ignored THEN <<>> ELSE << <<>>[i] >>] = <<>>
  OBVIOUS
<1>3. AllCalls(<<>>) = <<>> /\ Results(<<>>) = <<>> /\ FilterForRequest(<<>>) = <<>>
  BY <1>1, <1>2 DEF AllCalls, Results, FilterForRequest
<1>4. <<>> \in Seq(Entries) /\ Len(<<>>) = 0 /\ DOMAIN <<>> = {}
  BY EmptySeq
<1>5. Unanswered(<<>>) = <<>>
  <2>1. Unanswered(<<>>) = SubSeq(<<>>, 1, 0)
    BY <1>3, <1>4 DEF Unanswered
  <2> QED
    BY <2>1, SubSeqEmpty
<1>6. \A v : Walked(v, <<>>) = Start
  BY <1>3, WalkNone DEF Walked
<1>7. CallInv(<<>>)
  BY <1>3, <1>4 DEF CallInv
<1>8. PrefixInv(<<>>)
  BY <1>4 DEF PrefixInv
<1> QED
  BY <1>5, <1>6, <1>7, <1>8

\* Elements of s are all left out, or all kept.
Within(h, s, R) ==
    /\ (\A k \in DOMAIN s : h[s[k]] = <<>>) => Each(h, s) = <<>>
    /\ (\A k \in DOMAIN s : h[s[k]] = <<s[k]>> /\ s[k] \in R) => Each(h, s) = s

LEMMA EachWithin ==
    ASSUME NEW S, NEW R, NEW h \in [S -> Seq(R)], NEW s \in Seq(S)
    PROVE  Within(h, s, R)
<1> DEFINE U == {s[k] : k \in DOMAIN s}
           g == [x \in U |-> h[x]]
<1>0. DOMAIN s = 1..Len(s) /\ Len(s) \in Nat /\ \A k \in DOMAIN s : s[k] \in S
  BY LenProperties, EntriesOf
<1>1. U \subseteq S
  BY <1>0
<1>2. g \in [U -> Seq(R)]
  BY <1>1
<1>3. s \in Seq(U)
  <2>1. s = [k \in 1..Len(s) |-> s[k]] /\ \A k \in 1..Len(s) : s[k] \in U
    BY <1>0, LenProperties
  <2> HIDE DEF U
  <2>2. [k \in 1..Len(s) |-> s[k]] \in Seq(U)
    BY <1>0, <2>1, IsASeq
  <2> QED
    BY <2>1, <2>2
<1>4. Each(h, s) = Each(g, s)
  <2>1. [k \in DOMAIN s |-> h[s[k]]] = [k \in DOMAIN s |-> g[s[k]]]
    OBVIOUS
  <2> QED
    BY <2>1 DEF Each
<1>5. ASSUME \A k \in DOMAIN s : h[s[k]] = <<>> PROVE Each(g, s) = <<>>
  <2>1. \A x \in U : g[x] = <<>>
    BY <1>5
  <2> HIDE DEF g, U
  <2> QED
    BY <1>2, <1>3, <2>1, EachNothing
<1>6. ASSUME \A k \in DOMAIN s : h[s[k]] = <<s[k]>> /\ s[k] \in R PROVE Each(g, s) = s
  <2>1. U \subseteq R /\ \A x \in U : g[x] = <<x>>
    BY <1>6
  <2> HIDE DEF g, U
  <2> QED
    BY <1>2, <1>3, <2>1, EachSame
<1> QED
  BY <1>4, <1>5, <1>6 DEF Within

\* The system text of a request, which grows with system messages alone.
SystemOf(v, h) == Translated(v, FilterForRequest(h)).system

LEMMA SystemIs ==
    ASSUME NEW v, NEW h \in Seq(Entries)
    PROVE  SystemOf(v, h) = Told(v, h, TRUE)
<1> DEFINE f == FilterForRequest(h)
           w == Walk(v, f, f)
<1>1. f \in Seq(Entries)
  BY Filtered
<1>2. w \in Acc
  <2> HIDE DEF f
  <2> QED
    BY <1>1, WalkType
<1>3. Holds(v, w, h)
  BY <1>1, WalkHolds
<1>4. SystemOf(v, h) = Closed(w).system
  BY DEF SystemOf, Translated
<1> HIDE DEF w
<1> QED
  BY <1>2, <1>3, <1>4, ClosedType DEF Holds

LEMMA ToldConcat ==
    ASSUME NEW v, NEW s \in Seq(Entries), NEW t \in Seq(Entries), NEW st, Joined(st, s, t)
    PROVE  /\ Joined(Told(v, st, TRUE), Told(v, s, TRUE), Told(v, t, TRUE))
           /\ Told(v, s, TRUE) \in Seq(Piece) /\ Told(v, t, TRUE) \in Seq(Piece)
           /\ (\A i \in DOMAIN t : t[i].role # "system" \/ t[i].ignored) => Told(v, t, TRUE) = <<>>
<1> DEFINE f == [e \in Entries |-> IF ~e.ignored /\ (e.role = "system") = TRUE THEN Spoken(v, e) ELSE <<>>]
<1>1. f \in [Entries -> Seq(Piece)]
  <2>1. \A e \in Entries : <<>> \in Seq(Piece) /\ Spoken(v, e) \in Seq(Piece)
    BY SpokenIs
  <2> QED
    BY <2>1
<1>2. \A u \in Seq(Entries) : Told(v, u, TRUE) = Each(f, u)
  <2> TAKE u \in Seq(Entries)
  <2>1. [i \in DOMAIN u |-> IF ~u[i].ignored /\ (u[i].role = "system") = TRUE THEN Spoken(v, u[i]) ELSE <<>>]
        = [i \in DOMAIN u |-> f[u[i]]]
    BY EntriesOf
  <2> QED
    BY <2>1 DEF Told, Each
<1>3. ASSUME \A i \in DOMAIN t : t[i].role # "system" \/ t[i].ignored
      PROVE  \A i \in DOMAIN t : f[t[i]] = <<>>
  BY <1>3, EntriesOf
<1>4. st \in Seq(Entries)
  BY ConcatProperties DEF Joined
<1> HIDE DEF f
<1>5. Joined(Each(f, st), Each(f, s), Each(f, t))
  BY <1>1, EachConcat
<1>6. Each(f, s) \in Seq(Piece) /\ Each(f, t) \in Seq(Piece)
  BY <1>1, EachType
<1>7. (\A i \in DOMAIN t : f[t[i]] = <<>>) => Each(f, t) = <<>>
  <2>1. Within(f, t, Piece)
    BY <1>1, EachWithin
  <2> QED
    BY <2>1 DEF Within
<1> QED
  BY <1>2, <1>3, <1>4, <1>5, <1>6, <1>7

LEMMA PrefixOfJoint ==
    ASSUME NEW S, NEW s \in Seq(S), NEW t \in Seq(S), NEW st, Joined(st, s, t)
    PROVE  IsPrefix(s, st) /\ (t = <<>> => s = st)
<1>1. st = s \o t
  BY DEF Joined
<1>2. /\ st \in Seq(S) /\ Len(st) = Len(s) + Len(t)
      /\ \A i \in 1..(Len(s) + Len(t)) : st[i] = IF i <= Len(s) THEN s[i] ELSE t[i - Len(s)]
  BY <1>1, ConcatProperties
<1>3. Len(s) \in Nat /\ Len(t) \in Nat
  BY LenProperties
<1>4. Len(s) <= Len(st) /\ \A i \in 1..Len(s) : s[i] = st[i]
  BY <1>2, <1>3
<1>5. IsPrefix(s, st)
  BY <1>2, <1>4, PrefixIs
<1>6. s \o <<>> = s
  BY ConcatEmptySeq
<1> QED
  BY <1>1, <1>5, <1>6

LEMMA SystemKept ==
    ASSUME NEW v, NEW h \in Seq(Entries), NEW k \in 1..Len(h)
    PROVE  /\ IsPrefix(SystemOf(v, SubSeq(h, 1, k)), SystemOf(v, h))
           /\ (\A i \in (k + 1)..Len(h) : h[i].role # "system" \/ h[i].ignored)
                  => SystemOf(v, SubSeq(h, 1, k)) = SystemOf(v, h)
<1> DEFINE p == SubSeq(h, 1, k)
           q == SubSeq(h, k + 1, Len(h))
           n == Len(h)
<1>1. n \in Nat /\ k \in Nat /\ k <= n /\ \A i \in 1..n : h[i] \in Entries
  BY LenProperties, ElementOfSeq
<1>2. p \in Seq(Entries)
  <2>1. \A i \in 1..k : h[i] \in Entries
    BY <1>1
  <2> QED
    BY <1>1, <2>1, SubSeqProperties
<1>3. /\ q \in Seq(Entries)
      /\ \A i \in DOMAIN q : \E j \in (k + 1)..n : q[i] = h[j]
  <2>1. \A i \in (k + 1)..n : h[i] \in Entries
    BY <1>1
  <2>2. /\ q \in Seq(Entries) /\ Len(q) = IF k + 1 <= n THEN n - (k + 1) + 1 ELSE 0
        /\ \A i \in 1..(n - (k + 1) + 1) : q[i] = h[(k + 1) + i - 1]
    <3> HIDE DEF n
    <3> QED
      BY <1>1, <2>1, SubSeqProperties DEF n
  <2> HIDE DEF q, n
  <2>3. DOMAIN q = 1..(n - k)
    <3>1. DOMAIN q = 1..Len(q)
      BY <2>2, LenProperties
    <3> QED
      BY <1>1, <2>2, <3>1
  <2>4. \A i \in 1..(n - k) : q[i] = h[k + i] /\ k + i \in (k + 1)..n
    <3> TAKE i \in 1..(n - k)
    <3>1. i \in 1..(n - (k + 1) + 1) /\ (k + 1) + i - 1 = k + i /\ k + i \in (k + 1)..n
      BY <1>1
    <3> QED
      BY <2>2, <3>1
  <2> QED
    BY <2>2, <2>3, <2>4
<1>4. h = p \o q
  <2>1. SubSeq(h, 1, n) = h
    BY SubSeqFull
  <2>2. 1 \in 1..(n + 1) /\ k \in (1 - 1)..n /\ n \in k..n
    BY <1>1
  <2>3. SubSeq(h, 1, k) \o SubSeq(h, k + 1, n) = SubSeq(h, 1, n)
    BY <2>2, ConcatAdjacentSubSeq
  <2> QED
    BY <2>1, <2>3
<1>5. Joined(h, p, q)
  BY <1>4 DEF Joined
<1>6. (\A i \in (k + 1)..n : h[i].role # "system" \/ h[i].ignored)
         => \A i \in DOMAIN q : q[i].role # "system" \/ q[i].ignored
  BY <1>3
<1> HIDE DEF p, q
<1>7. /\ Joined(Told(v, h, TRUE), Told(v, p, TRUE), Told(v, q, TRUE))
      /\ Told(v, p, TRUE) \in Seq(Piece) /\ Told(v, q, TRUE) \in Seq(Piece)
      /\ (\A i \in DOMAIN q : q[i].role # "system" \/ q[i].ignored) => Told(v, q, TRUE) = <<>>
  BY <1>2, <1>3, <1>5, ToldConcat
<1>8. /\ IsPrefix(Told(v, p, TRUE), Told(v, h, TRUE))
      /\ Told(v, q, TRUE) = <<>> => Told(v, p, TRUE) = Told(v, h, TRUE)
  <2> DEFINE a == Told(v, p, TRUE)
             b == Told(v, q, TRUE)
             c == Told(v, h, TRUE)
  <2>1. Joined(c, a, b) /\ a \in Seq(Piece) /\ b \in Seq(Piece)
    BY <1>7
  <2> HIDE DEF a, b, c
  <2>2. IsPrefix(a, c) /\ (b = <<>> => a = c)
    BY <2>1, PrefixOfJoint
  <2> QED
    BY <2>2 DEF a, b, c
<1>9. SystemOf(v, p) = Told(v, p, TRUE) /\ SystemOf(v, h) = Told(v, h, TRUE)
  BY <1>2, SystemIs
<1> QED
  BY <1>6, <1>7, <1>8, <1>9 DEF p

LEMMA SentIs ==
    ASSUME CallInv(history), NEW v \in Vendors, NEW r \in Sent(v)
    PROVE  /\ Unanswered(history) = <<>> /\ r.turns = Closed(Walked(v, history)).turns
           /\ r.system = SystemOf(v, history)
<1> DEFINE t == Translated(v, FilterForRequest(history))
<1>1. Sendable(history)
  BY DEF Sent
<1>2. PICK s \in Settings : r = Request(v, s, history) /\ r # NoRequest
  BY <1>1 DEF Sent
<1>3. r.turns = t.turns /\ r.system = t.system
  BY <1>2 DEF Request
<1>4. t = Closed(Walked(v, history))
  BY WalkedType DEF CallInv
<1> QED
  BY <1>1, <1>3, <1>4 DEF Sendable, SystemOf

\* The calls and results of the conversation, and what was sent before.
PrefixesInv == CallInv(history) /\ PrefixInv(history)

LEMMA PrefixesKept ==
    ASSUME PrefixesInv, [RequestsNext]_history
    PROVE  PrefixesInv'
<1>1. CASE UNCHANGED history
  BY <1>1 DEF PrefixesInv
<1>2. ASSUME NEW d \in Drafts, Say(d) PROVE PrefixesInv'
  <2>1. history \in Seq(Entries)
    BY DEF PrefixesInv, CallInv
  <2>2. PICK m : Says(d, m)
    BY <1>2, <2>1, EntryAdded
  <2>3. Fits(history, m)
    BY <2>1, <2>2, SaysFits
  <2>4. CallInv(Append(history, m)) /\ PrefixInv(Append(history, m))
    BY <2>3, CallInvMore, PrefixInvMore DEF PrefixesInv
  <2>5. history' = Append(history, m)
    BY <2>2 DEF Says
  <2>6. CallInv(history') /\ PrefixInv(history')
    BY <2>4, <2>5
  <2> QED
    BY <2>6 DEF PrefixesInv
<1> QED
  BY <1>1, <1>2 DEF RequestsNext

LEMMA PrefixesStable ==
    ASSUME PrefixesInv
    PROVE  PrefixStable
<1> SUFFICES ASSUME NEW v \in Vendors, NEW r \in Sent(v),
                    NEW k \in DOMAIN history, Sendable(SubSeq(history, 1, k))
             PROVE  /\ Resolvable(v, history) => IsPrefix(TurnsOf(v, SubSeq(history, 1, k)), r.turns)
                    /\ IsPrefix(SystemOf(v, SubSeq(history, 1, k)), r.system)
                    /\ (\A i \in (k + 1)..Len(history) : history[i].role # "system" \/ history[i].ignored)
                           => SystemOf(v, SubSeq(history, 1, k)) = r.system
  BY DEF PrefixStable, TurnsOf, SystemOf
<1> DEFINE p == SubSeq(history, 1, k)
           w == Walked(v, history)
           t == TurnsOf(v, p)
<1>1. history \in Seq(Entries) /\ k \in 1..Len(history) /\ CallInv(history)
  BY LenProperties DEF PrefixesInv, CallInv
<1>2. Resolvable(v, history) => Keeps(v, t, history)
  BY <1>1 DEF PrefixesInv, PrefixInv
<1>3. p \in Seq(Entries)
  <2>1. \A i \in 1..k : history[i] \in Entries
    BY <1>1, ElementOfSeq
  <2> QED
    BY <1>1, <2>1, SubSeqProperties
<1>4. t \in Seq(Turn)
  <2> HIDE DEF p
  <2> QED
    BY <1>3, TranslatedType DEF TurnsOf, Acc
<1>5. w \in Acc /\ r.turns = Closed(w).turns /\ r.system = SystemOf(v, history)
  BY <1>1, WalkedType, SentIs
<1>6. w.turns \in Seq(Turn) /\ Closed(w).turns \in Seq(Turn) /\ IsPrefix(w.turns, Closed(w).turns)
  BY <1>5, ClosedType, ClosedKeeps DEF Acc
<1>7. Resolvable(v, history) => IsPrefix(t, w.turns) \/ IsPrefix(t, Closed(w).turns)
  BY <1>2 DEF Keeps
<1> HIDE DEF t, w
<1>8. Resolvable(v, history) => IsPrefix(t, Closed(w).turns)
  BY <1>4, <1>6, <1>7, PrefixSteps
<1>9. /\ IsPrefix(SystemOf(v, p), SystemOf(v, history))
      /\ (\A i \in (k + 1)..Len(history) : history[i].role # "system" \/ history[i].ignored)
             => SystemOf(v, p) = SystemOf(v, history)
  BY <1>1, SystemKept
<1> QED
  BY <1>5, <1>8, <1>9 DEF t

(* For any conversation and all its continuations: what was sent before    *)
(* stays the beginning of the system text and of the turns, and the system *)
(* text stays the same until a system message is added (anthropic.go:709-  *)
(* 714, 739-745).  Gemini's turns stay as long as an id that comes again   *)
(* names the same function.                                                *)
THEOREM RequestsKeepPrefixes ==
    RequestsInit /\ [][RequestsNext]_history => []PrefixStable
<1>1. RequestsInit => PrefixesInv
  BY EmptyConversation DEF RequestsInit, PrefixesInv
<1>2. PrefixesInv /\ [RequestsNext]_history => PrefixesInv'
  BY PrefixesKept
<1>3. PrefixesInv => PrefixStable
  BY PrefixesStable
<1> QED
  BY <1>1, <1>2, <1>3, PTL

-----------------------------------------------------------------------------
(* Rounds of calls and results.                                            *)

\* Blocks that are calls.
CallsAmong(bs) ==
    FlattenSeq([k \in DOMAIN bs |-> IF bs[k].kind = "call" THEN <<bs[k]>> ELSE <<>>])

LEMMA CallsAmongIs ==
    ASSUME NEW bs \in Seq(Block)
    PROVE  /\ CallsAmong(bs) \in Seq(Block)
           /\ (\A k \in DOMAIN bs : bs[k].kind # "call") => CallsAmong(bs) = <<>>
           /\ (\A k \in DOMAIN bs : bs[k].kind = "call") => CallsAmong(bs) = bs
           /\ \A cs \in Seq(Block) : CallsAmong(bs \o cs) = CallsAmong(bs) \o CallsAmong(cs)
<1> DEFINE f == [b \in Block |-> IF b.kind = "call" THEN <<b>> ELSE <<>>]
<1>1. f \in [Block -> Seq(Block)]
  <2>1. \A b \in Block : <<b>> \in Seq(Block) /\ <<>> \in Seq(Block)
    OBVIOUS
  <2> QED
    BY <2>1
<1>2. \A s \in Seq(Block) : CallsAmong(s) = Each(f, s)
  <2> TAKE s \in Seq(Block)
  <2>1. [k \in DOMAIN s |-> IF s[k].kind = "call" THEN <<s[k]>> ELSE <<>>] = [k \in DOMAIN s |-> f[s[k]]]
    BY EntriesOf
  <2> QED
    BY <2>1 DEF CallsAmong, Each
<1>3. \A k \in DOMAIN bs : /\ bs[k] \in Block
                           /\ bs[k].kind = "call" => f[bs[k]] = <<bs[k]>>
                           /\ bs[k].kind # "call" => f[bs[k]] = <<>>
  BY EntriesOf
<1> HIDE DEF f
<1>4. Each(f, bs) \in Seq(Block)
  BY <1>1, EachType
<1>5. /\ (\A k \in DOMAIN bs : f[bs[k]] = <<>>) => Each(f, bs) = <<>>
      /\ (\A k \in DOMAIN bs : f[bs[k]] = <<bs[k]>> /\ bs[k] \in Block) => Each(f, bs) = bs
  <2>1. Within(f, bs, Block)
    BY <1>1, EachWithin
  <2> QED
    BY <2>1 DEF Within
<1>6. ASSUME NEW cs \in Seq(Block) PROVE CallsAmong(bs \o cs) = CallsAmong(bs) \o CallsAmong(cs)
  <2> DEFINE st == bs \o cs
  <2>1. st \in Seq(Block) /\ Joined(st, bs, cs)
    BY ConcatProperties DEF Joined
  <2> HIDE DEF st
  <2>2. Joined(Each(f, st), Each(f, bs), Each(f, cs))
    BY <1>1, <2>1, EachConcat
  <2>3. CallsAmong(st) = CallsAmong(bs) \o CallsAmong(cs)
    BY <1>2, <2>1, <2>2 DEF Joined
  <2> QED
    BY <2>3 DEF st
<1> QED
  BY <1>2, <1>3, <1>4, <1>5, <1>6

LEMMA TurnCalls ==
    ASSUME NEW t \in Turn
    PROVE  /\ CallBlocks(t) = CallsAmong(t.blocks) /\ CallBlocks(t) \in Seq(Block)
           /\ Len(CallBlocks(t)) \in Nat /\ DOMAIN CallBlocks(t) = 1..Len(CallBlocks(t))
           /\ (\A k \in DOMAIN t.blocks : t.blocks[k].kind # "call") => CallBlocks(t) = <<>>
<1>1. CallBlocks(t) = CallsAmong(t.blocks) /\ t.blocks \in Seq(Block)
  BY DEF CallBlocks, CallsAmong, Turn
<1>2. CallBlocks(t) \in Seq(Block)
  BY <1>1, CallsAmongIs
<1> QED
  BY <1>1, <1>2, CallsAmongIs, LenProperties

\* The calls of a message are the calls of its turn.
LEMMA MessageCalls ==
    ASSUME NEW v, NEW m \in Entries
    PROVE  LET calls == CallsAmong(TurnBlocks(v, m))
           IN  /\ Len(calls) = Len(m.calls)
               /\ \A k \in 1..Len(m.calls) : calls[k].ref = CallRef(v, m.calls[k])
<1> DEFINE ps == TextPiece(m) \o PartPieces(m)
           content == [i \in DOMAIN ps |-> [kind |-> "content", piece |-> ps[i]]]
           made == [i \in DOMAIN m.calls |->
                        [kind |-> "call", ref |-> CallRef(v, m.calls[i]),
                         piece |-> <<m.n, Len(m.parts) + i>>]]
           c == Len(m.calls)
<1>0. /\ m.n \in Nat /\ Len(m.parts) \in Nat
      /\ DOMAIN m.calls = 1..c /\ c \in Nat
      /\ \A k \in DOMAIN m.calls : m.calls[k].id \in Ids /\ m.calls[k].name \in Names
  BY EntryIs DEF Numbers
<1>1. ps \in Seq(Piece)
  BY PieceTypes, ConcatProperties
<1>2. content \in Seq(Block) /\ \A k \in DOMAIN content : content[k].kind # "call"
  <2>1. DOMAIN ps = 1..Len(ps) /\ Len(ps) \in Nat /\ \A i \in DOMAIN ps : ps[i] \in Piece
    BY <1>1, LenProperties, EntriesOf
  <2> HIDE DEF ps
  <2>2. \A i \in 1..Len(ps) : [kind |-> "content", piece |-> ps[i]] \in Block
    BY <2>1 DEF Block
  <2>3. content \in Seq(Block)
    BY <2>1, <2>2, IsASeq
  <2> QED
    BY <2>3
<1>3. made \in Seq(Block)
  <2>1. \A i \in 1..c :
           [kind |-> "call", ref |-> CallRef(v, m.calls[i]),
            piece |-> <<m.n, Len(m.parts) + i>>] \in Block
    <3> TAKE i \in 1..c
    <3>1. CallRef(v, m.calls[i]) \in Refs /\ <<m.n, Len(m.parts) + i>> \in Piece
      BY <1>0 DEF CallRef, Refs, Piece
    <3> QED
      BY <3>1 DEF Block
  <2> QED
    BY <1>0, <2>1, IsASeq
<1>4. /\ DOMAIN made = 1..c
      /\ \A k \in 1..c : made[k].kind = "call" /\ made[k].ref = CallRef(v, m.calls[k])
  BY <1>0
<1>5. TurnBlocks(v, m) = content \o made
  BY DEF TurnBlocks
<1> HIDE DEF content, made, c
<1>6. CallsAmong(content \o made) = CallsAmong(content) \o CallsAmong(made)
  BY <1>2, <1>3, CallsAmongIs
<1>7. CallsAmong(content) = <<>> /\ CallsAmong(made) = made
  BY <1>2, <1>3, <1>4, CallsAmongIs
<1>8. <<>> \o made = made
  BY <1>3, ConcatEmptySeq
<1>9. Len(made) = c
  BY <1>0, <1>3, <1>4, LenProperties
<1>10. CallsAmong(TurnBlocks(v, m)) = made
  BY <1>5, <1>6, <1>7, <1>8
<1> QED
  BY <1>4, <1>9, <1>10 DEF c

-----------------------------------------------------------------------------
LEMMA AnsweredStays ==
    ASSUME NEW v, NEW s \in Seq(Turn), NEW u \in Seq(Turn), NEW i \in DOMAIN s, Answered(v, s, i)
    PROVE  Answered(v, s \o u, i)
<1> DEFINE w == s \o u
           asked == CallBlocks(s[i])
           n == ResultTurns(v, asked)
<1>1. /\ Len(s) \in Nat /\ DOMAIN s = 1..Len(s) /\ Len(u) \in Nat /\ s[i] \in Turn
  BY LenProperties, EntriesOf
<1>2. Len(w) = Len(s) + Len(u) /\ \A k \in 1..Len(s) : w[k] = s[k]
  <2>1. /\ w \in Seq(Turn) /\ Len(w) = Len(s) + Len(u)
        /\ \A k \in 1..(Len(s) + Len(u)) : w[k] = IF k <= Len(s) THEN s[k] ELSE u[k - Len(s)]
    BY ConcatProperties
  <2> HIDE DEF w
  <2> QED
    BY <1>1, <2>1
<1>3. n \in Nat
  <2>1. Len(asked) \in Nat
    BY <1>1, TurnCalls
  <2> QED
    BY <2>1 DEF ResultTurns
<1>4. i + n <= Len(s) /\ Len(ResultsBehind(s, i, n)) = Len(asked) /\ Matches(ResultsBehind(s, i, n), asked)
  BY DEF Answered
<1> HIDE DEF w, n, asked
<1>5. ResultsBehind(w, i, n) = ResultsBehind(s, i, n)
  <2>1. \A k \in 1..n : i + k \in 1..Len(s)
    BY <1>1, <1>3, <1>4
  <2>2. \A k \in 1..n : w[i + k] = s[i + k]
    BY <1>2, <2>1
  <2>3. [k \in 1..n |-> w[i + k].blocks] = [k \in 1..n |-> s[i + k].blocks]
    BY <2>2
  <2> QED
    BY <2>3 DEF ResultsBehind
<1>6. w[i] = s[i]
  BY <1>1, <1>2
<1>7. i + n <= Len(w)
  BY <1>1, <1>2, <1>3, <1>4
<1>8. Answered(v, w, i)
  BY <1>4, <1>5, <1>6, <1>7 DEF Answered, n, asked
<1> QED
  BY <1>8 DEF w

LEMMA NothingAsked ==
    ASSUME NEW v, NEW s \in Seq(Turn), NEW i \in DOMAIN s, CallBlocks(s[i]) = <<>>
    PROVE  Answered(v, s, i)
<1>1. i \in 1..Len(s) /\ Len(s) \in Nat
  BY LenProperties
<1>2. ResultTurns(v, <<>>) = 0 /\ Len(<<>>) = 0 /\ DOMAIN <<>> = {}
  BY EmptySeq DEF ResultTurns
<1>3. ResultsBehind(s, i, 0) = <<>>
  <2>1. [k \in 1..0 |-> s[i + k].blocks] = <<>>
    OBVIOUS
  <2>2. FlattenSeq(<<>>) = <<>>
    BY EmptySeq, FlattenType
  <2> QED
    BY <2>1, <2>2 DEF ResultsBehind
<1>4. i + 0 <= Len(s)
  BY <1>1
<1> QED
  BY <1>2, <1>3, <1>4 DEF Answered, Matches

LEMMA AnsweredMore ==
    ASSUME NEW v, NEW s \in Seq(Turn), NEW t \in Turn, AllAnswered(v, s), CallBlocks(t) = <<>>
    PROVE  AllAnswered(v, Append(s, t))
<1> DEFINE w == Append(s, t)
<1>1. /\ w \in Seq(Turn) /\ Len(w) = Len(s) + 1 /\ w[Len(s) + 1] = t /\ w = s \o <<t>>
      /\ <<t>> \in Seq(Turn)
  <2>1. <<t>> \in Seq(Turn)
    OBVIOUS
  <2> QED
    BY <2>1, AppendProperties, AppendIsConcat
<1>2. Len(s) \in Nat /\ DOMAIN s = 1..Len(s)
  BY LenProperties
<1> HIDE DEF w
<1>3. DOMAIN w = 1..(Len(s) + 1)
  BY <1>1, LenProperties
<1>4. ASSUME NEW i \in DOMAIN w PROVE Answered(v, w, i)
  <2>1. CASE i \in DOMAIN s
    BY <1>1, <2>1, AnsweredStays DEF AllAnswered
  <2>2. CASE i = Len(s) + 1
    BY <1>1, <2>2, NothingAsked
  <2> QED
    BY <1>2, <1>3, <2>1, <2>2
<1> QED
  BY <1>4 DEF AllAnswered, w

\* The turns that hold the results of a round: one each, or one for all.
ResultTurn(bs) == [role |-> "user", blocks |-> bs]
OneEach(bs) == [k \in 1..Len(bs) |-> ResultTurn(<<bs[k]>>)]
Shown(v, bs) == IF v = "anthropic" THEN OneEach(bs) ELSE <<ResultTurn(bs)>>

\* Results of the first calls.
Answering(bs, asked) ==
    /\ Len(bs) <= Len(asked)
    /\ \A k \in DOMAIN bs :
           bs[k].kind = "result" /\ bs[k].ref = asked[k].ref

LEMMA ShownType ==
    ASSUME NEW v, NEW bs \in Seq(Block), \A k \in DOMAIN bs : bs[k].kind = "result"
    PROVE  /\ Shown(v, bs) \in Seq(Turn)
           /\ Len(Shown(v, bs)) = IF v = "anthropic" THEN Len(bs) ELSE 1
           /\ \A k \in DOMAIN Shown(v, bs) : CallBlocks(Shown(v, bs)[k]) = <<>>
           /\ v = "anthropic" => \A k \in 1..Len(bs) : Shown(v, bs)[k].blocks = <<bs[k]>>
           /\ v # "anthropic" => Shown(v, bs)[1].blocks = bs
<1>1. Len(bs) \in Nat /\ DOMAIN bs = 1..Len(bs) /\ \A k \in DOMAIN bs : bs[k] \in Block
  BY LenProperties, EntriesOf
<1>2. ASSUME NEW cs \in Seq(Block), \A k \in DOMAIN cs : cs[k].kind = "result"
      PROVE  /\ ResultTurn(cs) \in Turn /\ CallBlocks(ResultTurn(cs)) = <<>>
             /\ ResultTurn(cs).blocks = cs
  <2>1. ResultTurn(cs) \in Turn /\ ResultTurn(cs).blocks = cs
    BY DEF ResultTurn, Turn
  <2>2. \A k \in DOMAIN cs : cs[k].kind # "call"
    BY <1>2
  <2> QED
    BY <2>1, <2>2, TurnCalls
<1>3. CASE v = "anthropic"
  <2>1. ASSUME NEW k \in 1..Len(bs)
        PROVE  /\ ResultTurn(<<bs[k]>>) \in Turn /\ CallBlocks(ResultTurn(<<bs[k]>>)) = <<>>
               /\ ResultTurn(<<bs[k]>>).blocks = <<bs[k]>>
    <3> DEFINE b == bs[k]
    <3>1. b \in Block /\ b.kind = "result"
      BY <1>1
    <3> HIDE DEF b
    <3>2. <<b>> \in Seq(Block) /\ \A i \in DOMAIN <<b>> : <<b>>[i].kind = "result"
      BY <3>1
    <3>3. /\ ResultTurn(<<b>>) \in Turn /\ CallBlocks(ResultTurn(<<b>>)) = <<>>
          /\ ResultTurn(<<b>>).blocks = <<b>>
      BY <3>2, <1>2
    <3> QED
      BY <3>3 DEF b
  <2>2. OneEach(bs) \in Seq(Turn)
    BY <1>1, <2>1, IsASeq DEF OneEach
  <2>3. DOMAIN OneEach(bs) = 1..Len(bs) /\ \A k \in 1..Len(bs) : OneEach(bs)[k] = ResultTurn(<<bs[k]>>)
    BY DEF OneEach
  <2>4. Len(OneEach(bs)) = Len(bs)
    BY <1>1, <2>2, <2>3, LenProperties
  <2>5. Shown(v, bs) = OneEach(bs)
    BY <1>3 DEF Shown
  <2> QED
    BY <1>3, <2>1, <2>2, <2>3, <2>4, <2>5
<1>4. CASE v # "anthropic"
  <2> DEFINE t == ResultTurn(bs)
  <2>1. t \in Turn /\ CallBlocks(t) = <<>> /\ t.blocks = bs
    BY <1>2
  <2> HIDE DEF t
  <2>2. /\ <<t>> \in Seq(Turn) /\ Len(<<t>>) = 1 /\ <<t>>[1] = t /\ DOMAIN <<t>> = {1}
    BY <2>1
  <2>3. Shown(v, bs) = <<t>>
    BY <1>4 DEF Shown, t
  <2> QED
    BY <1>4, <2>1, <2>2, <2>3
<1> QED
  BY <1>3, <1>4

LEMMA FlattenOne ==
    ASSUME NEW S, NEW s \in Seq(S)
    PROVE  FlattenSeq(<<s>>) = s
<1>1. FlattenSeq(Append(<<>>, s)) = FlattenSeq(<<>>) \o s
  BY EmptySeq, FlattenMore
<1>2. FlattenSeq(<<>>) = <<>>
  BY EmptySeq, FlattenType
<1>3. <<>> \o s = s
  BY ConcatEmptySeq
<1>4. Append(<<>>, s) = <<s>>
  OBVIOUS
<1> QED
  BY <1>1, <1>2, <1>3, <1>4

\* A turn that asks, behind turns that are answered, with all its results.
LEMMA RoundClosed ==
    ASSUME NEW v, NEW done \in Seq(Turn), AllAnswered(v, done), NEW t \in Turn, CallBlocks(t) # <<>>,
           NEW bs \in Seq(Block), Answering(bs, CallBlocks(t)), Len(bs) = Len(CallBlocks(t))
    PROVE  /\ Append(done, t) \o Shown(v, bs) \in Seq(Turn)
           /\ AllAnswered(v, Append(done, t) \o Shown(v, bs))
<1> DEFINE d == Append(done, t)
           r == Shown(v, bs)
           s == d \o r
           asked == CallBlocks(t)
           n == ResultTurns(v, asked)
           p == Len(done)
<1>0. p \in Nat /\ DOMAIN done = 1..p /\ Len(bs) \in Nat /\ DOMAIN bs = 1..Len(bs)
  BY LenProperties
<1>1. /\ d \in Seq(Turn) /\ Len(d) = p + 1 /\ d[p + 1] = t /\ \A i \in 1..p : d[i] = done[i]
      /\ d = done \o <<t>> /\ <<t>> \in Seq(Turn)
  <2>1. <<t>> \in Seq(Turn)
    OBVIOUS
  <2> QED
    BY <2>1, AppendProperties, AppendIsConcat
<1>2. \A k \in DOMAIN bs : bs[k].kind = "result"
  BY DEF Answering
<1>3. /\ r \in Seq(Turn) /\ Len(r) = IF v = "anthropic" THEN Len(bs) ELSE 1
      /\ \A k \in DOMAIN r : CallBlocks(r[k]) = <<>>
      /\ v = "anthropic" => \A k \in 1..Len(bs) : r[k].blocks = <<bs[k]>>
      /\ v # "anthropic" => r[1].blocks = bs
  BY <1>2, ShownType
<1>4. DOMAIN r = 1..Len(r) /\ Len(r) \in Nat
  BY <1>3, LenProperties
<1>5. asked \in Seq(Block) /\ Len(asked) \in Nat /\ DOMAIN asked = 1..Len(asked) /\ Len(asked) # 0
  <2>1. asked \in Seq(Block) /\ Len(asked) \in Nat /\ DOMAIN asked = 1..Len(asked)
    BY TurnCalls
  <2> QED
    BY <2>1, EmptySeq
<1>6. n = Len(r) /\ n \in Nat
  BY <1>3, <1>4 DEF ResultTurns
<1>7. Answering(bs, asked) /\ Len(bs) = Len(asked)
  OBVIOUS
<1> HIDE DEF d, r, asked, n, p
<1>8. s \in Seq(Turn) /\ Len(s) = (p + 1) + Len(r)
      /\ \A i \in 1..((p + 1) + Len(r)) : s[i] = IF i <= p + 1 THEN d[i] ELSE r[i - (p + 1)]
  <2>1. /\ s \in Seq(Turn) /\ Len(s) = Len(d) + Len(r)
        /\ \A i \in 1..(Len(d) + Len(r)) : s[i] = IF i <= Len(d) THEN d[i] ELSE r[i - Len(d)]
    <3>1. d \in Seq(Turn) /\ r \in Seq(Turn)
      BY <1>1, <1>3
    <3> QED
      BY <3>1, ConcatProperties
  <2> HIDE DEF s
  <2> QED
    BY <1>1, <2>1
<1>a. s = done \o (<<t>> \o r) /\ <<t>> \o r \in Seq(Turn)
  <2>1. (done \o <<t>>) \o r = done \o (<<t>> \o r) /\ <<t>> \o r \in Seq(Turn)
    BY <1>1, <1>3, ConcatAssociative, ConcatProperties
  <2> QED
    BY <1>1, <2>1
<1> HIDE DEF s
<1>9. DOMAIN s = 1..((p + 1) + Len(r))
  BY <1>8, LenProperties
<1>10. s[p + 1] = t /\ \A k \in 1..Len(r) : s[(p + 1) + k] = r[k]
  <2>1. p + 1 \in 1..((p + 1) + Len(r)) /\ p + 1 <= p + 1
    BY <1>0, <1>4
  <2>2. ASSUME NEW k \in 1..Len(r) PROVE s[(p + 1) + k] = r[k]
    <3>1. /\ (p + 1) + k \in 1..((p + 1) + Len(r)) /\ ~((p + 1) + k <= p + 1)
          /\ ((p + 1) + k) - (p + 1) = k
      BY <1>0, <1>4
    <3> QED
      BY <1>8, <3>1
  <2> QED
    BY <1>1, <1>8, <2>1, <2>2
<1>11. Answered(v, s, p + 1)
  <2> DEFINE found == ResultsBehind(s, p + 1, n)
             parts == [k \in 1..n |-> s[(p + 1) + k].blocks]
  <2>1. found = bs
    <3>1. found = FlattenSeq(parts) /\ parts = [k \in 1..n |-> r[k].blocks]
      BY <1>6, <1>10 DEF ResultsBehind
    <3> HIDE DEF found, parts
    <3>2. CASE v = "anthropic"
      <4> DEFINE f == [b \in Block |-> <<b>>]
      <4>1. f \in [Block -> Seq(Block)] /\ \A b \in Block : f[b] = <<b>>
        <5>1. \A b \in Block : <<b>> \in Seq(Block)
          OBVIOUS
        <5> QED
          BY <5>1
      <4>2. n = Len(bs) /\ \A k \in 1..n : bs[k] \in Block
        BY <1>3, <1>6, <3>2, ElementOfSeq
      <4>3. \A k \in 1..n : r[k].blocks = f[bs[k]]
        BY <1>3, <3>2, <4>1, <4>2
      <4> HIDE DEF f
      <4>4. parts = [k \in DOMAIN bs |-> f[bs[k]]]
        BY <1>0, <3>1, <4>2, <4>3
      <4>5. Each(f, bs) = bs
        BY <4>1, EachSame
      <4> QED
        BY <3>1, <4>4, <4>5 DEF Each
    <3>3. CASE v # "anthropic"
      <4>1. n = 1 /\ r[1].blocks = bs
        BY <1>3, <1>6, <3>3
      <4>2. parts = <<bs>>
        BY <3>1, <4>1
      <4> QED
        BY <3>1, <4>2, FlattenOne
    <3> QED
      BY <3>2, <3>3
  <2>2. (p + 1) + n <= Len(s)
    BY <1>0, <1>4, <1>6, <1>8
  <2>3. Matches(bs, asked)
    BY <1>0, <1>5, <1>7 DEF Matches, Answering
  <2> HIDE DEF parts
  <2> QED
    BY <1>7, <1>10, <2>1, <2>2, <2>3 DEF Answered, asked, n
<1>12. ASSUME NEW i \in DOMAIN s PROVE Answered(v, s, i)
  <2>1. CASE i \in 1..p
    BY <1>0, <1>a, <2>1, AnsweredStays DEF AllAnswered
  <2>2. CASE i = p + 1
    BY <1>11, <2>2
  <2>3. CASE i > p + 1
    <3>1. i - (p + 1) \in 1..Len(r) /\ (p + 1) + (i - (p + 1)) = i
      BY <1>0, <1>4, <1>9, <2>3
    <3>2. s[i] = r[i - (p + 1)]
      BY <1>10, <3>1
    <3>3. CallBlocks(s[i]) = <<>>
      BY <1>3, <1>4, <3>1, <3>2
    <3> QED
      BY <1>8, <3>3, NothingAsked
  <2> QED
    BY <1>0, <1>9, <2>1, <2>2, <2>3
<1> QED
  BY <1>8, <1>12 DEF AllAnswered, s, d, r

\* The calls of a turn are the last of the conversation, and a of them have results.
Asked(v, h, asked, a) ==
    /\ Len(asked) <= Len(AllCalls(h))
    /\ Len(Results(h)) = (Len(AllCalls(h)) - Len(asked)) + a
    /\ \A k \in 1..Len(asked) :
           asked[k].ref = CallRef(v, AllCalls(h)[(Len(AllCalls(h)) - Len(asked)) + k])

\* Between rounds, or in one: done are the turns before it, t asks, bs are the results.
Idle(v, h, acc) == acc.pending = <<>> /\ Unanswered(h) = <<>> /\ AllAnswered(v, acc.turns)
Busy(v, h, acc, done, t, bs) ==
    /\ done \in Seq(Turn) /\ AllAnswered(v, done) /\ t \in Turn /\ CallBlocks(t) # <<>>
    /\ bs \in Seq(Block) /\ Answering(bs, CallBlocks(t)) /\ Asked(v, h, CallBlocks(t), Len(bs))
    /\ acc.turns = Append(done, t) \o (IF v = "anthropic" THEN OneEach(bs) ELSE <<>>)
    /\ acc.pending = IF v = "anthropic" THEN <<>> ELSE bs
InRound(v, h, acc) == Idle(v, h, acc) \/ \E done, t, bs : Busy(v, h, acc, done, t, bs)

RoundInv(h) == \A v : Resolvable(v, h) => InRound(v, h, Walked(v, h))

LEMMA ClosedAnswered ==
    ASSUME NEW v, NEW h \in Seq(Entries), NEW acc \in Acc, InRound(v, h, acc), Unanswered(h) = <<>>
    PROVE  /\ Closed(acc) \in Acc /\ Closed(acc).pending = <<>> /\ AllAnswered(v, Closed(acc).turns)
<1>1. Closed(acc) \in Acc /\ Closed(acc).pending = <<>>
  BY ClosedType
<1>2. CASE Idle(v, h, acc)
  BY <1>1, <1>2, ClosedType DEF Idle
<1>3. ASSUME NEW done, NEW t, NEW bs, Busy(v, h, acc, done, t, bs)
      PROVE  AllAnswered(v, Closed(acc).turns)
  <2> DEFINE asked == CallBlocks(t)
             d == Append(done, t)
  <2>1. /\ done \in Seq(Turn) /\ AllAnswered(v, done) /\ t \in Turn /\ asked # <<>>
        /\ bs \in Seq(Block) /\ Answering(bs, asked) /\ Asked(v, h, asked, Len(bs))
        /\ acc.turns = d \o (IF v = "anthropic" THEN OneEach(bs) ELSE <<>>)
        /\ acc.pending = IF v = "anthropic" THEN <<>> ELSE bs
    BY <1>3 DEF Busy
  <2>2. /\ Len(asked) \in Nat /\ asked \in Seq(Block) /\ Len(bs) \in Nat
    BY <2>1, TurnCalls, LenProperties
  <2>3. Len(AllCalls(h)) \in Nat /\ Len(Results(h)) \in Nat /\ Len(Results(h)) >= Len(AllCalls(h))
    BY UnansweredIs
  <2>4. Len(bs) = Len(asked)
    BY <2>1, <2>2, <2>3 DEF Asked, Answering
  <2>5. AllAnswered(v, d \o Shown(v, bs))
    BY <2>1, <2>4, RoundClosed
  <2>6. Closed(acc).turns = d \o Shown(v, bs)
    <3>1. CASE v = "anthropic"
      <4>1. acc.pending = <<>> /\ acc.turns = d \o OneEach(bs)
        BY <2>1, <3>1
      <4> QED
        BY <3>1, <4>1, ClosedType DEF Shown
    <3>2. CASE v # "anthropic"
      <4>1. Len(asked) # 0
        BY <2>1, <2>2, EmptySeq
      <4>2. acc.pending = bs /\ bs # <<>> /\ acc.turns = d \o <<>>
        BY <2>1, <2>4, <3>2, <4>1
      <4>3. d \in Seq(Turn)
        BY <2>1, AppendProperties
      <4>4. ResultTurn(bs) \in Turn
        BY <2>1 DEF ResultTurn, Turn
      <4> HIDE DEF d
      <4>5. acc.turns = d
        BY <4>2, <4>3, ConcatEmptySeq
      <4>6. Closed(acc).turns = Append(d, ResultTurn(bs))
        BY <4>2, <4>5, ClosedType DEF ResultTurn
      <4>7. Append(d, ResultTurn(bs)) = d \o <<ResultTurn(bs)>>
        BY <4>3, <4>4, AppendIsConcat
      <4> QED
        BY <3>2, <4>6, <4>7 DEF Shown
    <3> QED
      BY <3>1, <3>2
  <2> QED
    BY <2>5, <2>6
<1> QED
  BY <1>1, <1>2, <1>3 DEF InRound

LEMMA RoundSame ==
    ASSUME NEW v, NEW h, CallInv(h), NEW m, Fits(h, m), NEW acc, NEW new, InRound(v, h, acc),
           m.ignored \/ m.role \notin {"user", "assistant", "tool"},
           new.turns = acc.turns, new.pending = acc.pending
    PROVE  InRound(v, Append(h, m), new)
<1> DEFINE g == Append(h, m)
<1>1. h \in Seq(Entries) /\ m \in Entries
  BY DEF CallInv, Fits
<1>2. Unanswered(g) = Unanswered(h)
  BY <1>1, UnansweredKept
<1>3. AllCalls(g) = AllCalls(h) /\ Results(g) = Results(h)
  <2>1. m.calls = <<>> /\ m.role # "tool"
    BY <1>1, EntryIs
  <2>2. AllCalls(h) \in Seq(Calls) /\ AllCalls(g) = AllCalls(h) \o m.calls
    BY <1>1, CallsMore
  <2>3. AllCalls(h) \o <<>> = AllCalls(h)
    BY <2>2, ConcatEmptySeq
  <2>4. Results(g) = Results(h)
    BY <1>1, <2>1, ResultsMore
  <2> QED
    BY <2>1, <2>2, <2>3, <2>4
<1> HIDE DEF g
<1>4. CASE Idle(v, h, acc)
  <2>1. Idle(v, g, new)
    BY <1>2, <1>4 DEF Idle
  <2> QED
    BY <2>1 DEF InRound, g
<1>5. ASSUME NEW done, NEW t, NEW bs, Busy(v, h, acc, done, t, bs) PROVE InRound(v, g, new)
  <2>1. Asked(v, g, CallBlocks(t), Len(bs))
    BY <1>3, <1>5 DEF Busy, Asked
  <2>2. Busy(v, g, new, done, t, bs)
    BY <1>5, <2>1 DEF Busy
  <2> QED
    BY <2>2 DEF InRound
<1> QED
  BY <1>4, <1>5 DEF InRound, g

LEMMA RoundTurn ==
    ASSUME NEW v, NEW h, CallInv(h), NEW m, Fits(h, m), ~m.ignored, m.role \in {"user", "assistant"},
           NEW msgs, NEW acc \in Acc, InRound(v, h, acc)
    PROVE  InRound(v, Append(h, m), AddMessage(v, msgs, acc, m))
<1> DEFINE g == Append(h, m)
           c == Closed(acc)
           t == [role |-> m.role, blocks |-> TurnBlocks(v, m)]
           new == AddMessage(v, msgs, acc, m)
           asked == CallBlocks(t)
<1>1. h \in Seq(Entries) /\ m \in Entries /\ Unanswered(h) = <<>>
  BY DEF CallInv, Fits
<1>2. c \in Acc /\ c.pending = <<>> /\ AllAnswered(v, c.turns)
  BY <1>1, ClosedAnswered
<1>3. c.turns \in Seq(Turn)
  BY <1>2 DEF Acc
<1>4. t \in Turn /\ t.blocks = TurnBlocks(v, m)
  BY <1>1, BlockTypes DEF Turn
<1>5. new = IF TurnBlocks(v, m) = <<>> THEN c ELSE [c EXCEPT !.turns = Append(@, t)]
  BY DEF AddMessage, AddTurn, BeforeTurn
<1>6. /\ asked \in Seq(Block) /\ Len(asked) = Len(m.calls)
      /\ \A k \in 1..Len(m.calls) : asked[k].ref = CallRef(v, m.calls[k])
  <2>1. asked = CallsAmong(TurnBlocks(v, m)) /\ asked \in Seq(Block)
    BY <1>4, TurnCalls
  <2> HIDE DEF asked
  <2> QED
    BY <1>1, <2>1, MessageCalls
<1>7. /\ AllCalls(h) \in Seq(Calls) /\ m.calls \in Seq(Calls) /\ AllCalls(g) = AllCalls(h) \o m.calls
      /\ Results(g) = Results(h)
  BY <1>1, CallsMore, EntryIs, ResultsMore
<1>8. /\ Len(AllCalls(h)) \in Nat /\ Len(Results(h)) = Len(AllCalls(h)) /\ Len(m.calls) \in Nat
  <2>1. Len(AllCalls(h)) \in Nat /\ Len(Results(h)) \in Nat /\ Len(Results(h)) >= Len(AllCalls(h))
    BY <1>1, UnansweredIs
  <2>2. Len(Results(h)) <= Len(AllCalls(h))
    BY DEF CallInv
  <2>3. Len(m.calls) \in Nat
    BY <1>7, LenProperties
  <2> QED
    BY <2>1, <2>2, <2>3
<1>9. g \in Seq(Entries)
  BY <1>1, AppendProperties
<1> HIDE DEF g, c, t, new, asked
<1>10. CASE m.calls = <<>>
  <2>1. asked = <<>>
    <3>1. Len(asked) = 0
      BY <1>6, <1>10, EmptySeq
    <3> QED
      BY <1>6, <3>1, EmptySeq
  <2>2. AllAnswered(v, Append(c.turns, t))
    BY <1>2, <1>3, <1>4, <2>1, AnsweredMore DEF asked
  <2>3. new.pending = <<>> /\ AllAnswered(v, new.turns)
    <3>1. CASE TurnBlocks(v, m) = <<>>
      BY <1>2, <1>5, <3>1
    <3>2. CASE TurnBlocks(v, m) # <<>>
      <4>1. new.turns = Append(c.turns, t) /\ new.pending = c.pending
        BY <1>2, <1>5, <3>2 DEF Acc
      <4> QED
        BY <1>2, <2>2, <4>1
    <3> QED
      BY <3>1, <3>2
  <2>4. Unanswered(g) = <<>>
    <3>1. AllCalls(h) \o <<>> = AllCalls(h)
      BY <1>7, ConcatEmptySeq
    <3>2. AllCalls(g) = AllCalls(h)
      BY <1>7, <1>10, <3>1
    <3> QED
      BY <1>1, <1>7, <3>2 DEF Unanswered
  <2>5. Idle(v, g, new)
    BY <2>3, <2>4 DEF Idle
  <2> QED
    BY <2>5 DEF InRound, g, new
<1>11. CASE m.calls # <<>>
  <2>1. Len(asked) # 0 /\ asked # <<>>
    <3>1. Len(m.calls) # 0
      BY <1>7, <1>11, EmptySeq
    <3> QED
      BY <1>6, <3>1, EmptySeq
  <2>2. TurnBlocks(v, m) # <<>>
    <3>1. CASE TurnBlocks(v, m) = <<>>
      <4>1. DOMAIN t.blocks = {}
        BY <1>4, <3>1
      <4>2. asked = <<>>
        BY <1>4, <4>1, TurnCalls DEF asked
      <4> QED
        BY <2>1, <4>2
    <3> QED
      BY <3>1
  <2>3. new.turns = Append(c.turns, t) /\ new.pending = <<>>
    BY <1>2, <1>5, <2>2 DEF Acc
  <2>4. Append(c.turns, t) \in Seq(Turn)
    BY <1>3, <1>4, AppendProperties
  <2>5. new.turns = Append(c.turns, t) \o <<>>
    BY <2>3, <2>4, ConcatEmptySeq
  <2>6. OneEach(<<>>) = <<>> /\ Len(<<>>) = 0 /\ <<>> \in Seq(Block) /\ DOMAIN <<>> = {}
    <3>1. [k \in 1..0 |-> ResultTurn(<< <<>>[k] >>)] = <<>>
      OBVIOUS
    <3>2. Len(<<>>) = 0
      OBVIOUS
    <3>3. OneEach(<<>>) = <<>>
      BY <3>1, <3>2 DEF OneEach
    <3> QED
      BY <3>3, EmptySeq
  <2>7. Answering(<<>>, asked)
    BY <1>6, <1>8, <2>6 DEF Answering
  <2> DEFINE a == AllCalls(h)
             b == AllCalls(g)
             n == Len(asked)
  <2>8. /\ Len(b) = Len(a) + n
        /\ \A k \in 1..(Len(a) + n) : b[k] = IF k <= Len(a) THEN a[k] ELSE m.calls[k - Len(a)]
    <3>1. a \in Seq(Calls) /\ m.calls \in Seq(Calls) /\ b = a \o m.calls /\ n = Len(m.calls)
      BY <1>6, <1>7
    <3> HIDE DEF a, b, n
    <3> QED
      BY <3>1, ConcatProperties
  <2>9. Len(a) \in Nat /\ n \in Nat /\ n = Len(m.calls)
    BY <1>6, <1>8
  <2>10. \A k \in 1..n : asked[k].ref = CallRef(v, b[Len(a) + k])
    <3> TAKE k \in 1..n
    <3>1. Len(a) + k \in 1..(Len(a) + n) /\ ~(Len(a) + k <= Len(a)) /\ (Len(a) + k) - Len(a) = k
      <4> HIDE DEF a, n
      <4> QED
        BY <2>9
    <3>2. b[Len(a) + k] = m.calls[k]
      BY <2>8, <3>1
    <3> QED
      BY <1>6, <2>9, <3>2
  <2>11. Asked(v, g, asked, 0)
    <3>1. Len(Results(g)) = Len(a)
      BY <1>7, <1>8
    <3>2. Asked(v, g, asked, 0) <=>
             /\ n <= Len(b) /\ Len(Results(g)) = (Len(b) - n) + 0
             /\ \A k \in 1..n : asked[k].ref = CallRef(v, b[(Len(b) - n) + k])
      BY DEF Asked
    <3> HIDE DEF a, b, n
    <3>3. Len(b) - n = Len(a) /\ n <= Len(b) /\ Len(Results(g)) = (Len(b) - n) + 0
      BY <2>8, <2>9, <3>1
    <3> QED
      BY <2>10, <3>2, <3>3
  <2>12. Busy(v, g, new, c.turns, t, <<>>)
    BY <1>2, <1>3, <1>4, <2>1, <2>3, <2>5, <2>6, <2>7, <2>11 DEF Busy, asked
  <2> QED
    BY <2>12 DEF InRound, g, new
<1> QED
  BY <1>10, <1>11

LEMMA OneEachMore ==
    ASSUME NEW bs \in Seq(Block), NEW b \in Block
    PROVE  /\ OneEach(bs) \in Seq(Turn) /\ ResultTurn(<<b>>) \in Turn
           /\ OneEach(Append(bs, b)) = Append(OneEach(bs), ResultTurn(<<b>>))
<1>1. \A x \in Block : ResultTurn(<<x>>) \in Turn
  <2> TAKE x \in Block
  <2>1. <<x>> \in Seq(Block)
    OBVIOUS
  <2> QED
    BY <2>1 DEF ResultTurn, Turn
<1>2. ASSUME NEW cs \in Seq(Block)
      PROVE  /\ OneEach(cs) \in Seq(Turn) /\ Len(OneEach(cs)) = Len(cs)
             /\ \A k \in 1..Len(cs) : OneEach(cs)[k] = ResultTurn(<<cs[k]>>)
  <2>1. Len(cs) \in Nat /\ \A k \in 1..Len(cs) : cs[k] \in Block
    BY LenProperties, ElementOfSeq
  <2>2. \A k \in 1..Len(cs) : ResultTurn(<<cs[k]>>) \in Turn
    BY <1>1, <2>1
  <2>3. OneEach(cs) \in Seq(Turn)
    BY <2>1, <2>2, IsASeq DEF OneEach
  <2>4. DOMAIN OneEach(cs) = 1..Len(cs) /\ \A k \in 1..Len(cs) : OneEach(cs)[k] = ResultTurn(<<cs[k]>>)
    BY DEF OneEach
  <2> QED
    BY <2>1, <2>3, <2>4, LenProperties
<1> DEFINE more == Append(bs, b)
           s == OneEach(more)
           t == ResultTurn(<<b>>)
           u == Append(OneEach(bs), t)
<1>3. /\ more \in Seq(Block) /\ Len(more) = Len(bs) + 1 /\ more[Len(bs) + 1] = b
      /\ \A k \in 1..Len(bs) : more[k] = bs[k]
  BY AppendProperties
<1>4. Len(bs) \in Nat
  BY LenProperties
<1>5. /\ OneEach(bs) \in Seq(Turn) /\ Len(OneEach(bs)) = Len(bs)
      /\ \A k \in 1..Len(bs) : OneEach(bs)[k] = ResultTurn(<<bs[k]>>)
  BY <1>2
<1>6. /\ s \in Seq(Turn) /\ Len(s) = Len(more) /\ \A k \in 1..Len(more) : s[k] = ResultTurn(<<more[k]>>)
  <2> HIDE DEF more
  <2> QED
    BY <1>2, <1>3
<1>7. t \in Turn
  BY <1>1
<1> HIDE DEF more, t
<1>8. /\ u \in Seq(Turn) /\ Len(u) = Len(bs) + 1 /\ u[Len(bs) + 1] = t
      /\ \A k \in 1..Len(bs) : u[k] = OneEach(bs)[k]
  <2>1. OneEach(bs) \in Seq(Turn) /\ Len(OneEach(bs)) = Len(bs)
    BY <1>5
  <2>2. /\ u \in Seq(Turn) /\ Len(u) = Len(OneEach(bs)) + 1 /\ u[Len(OneEach(bs)) + 1] = t
        /\ \A k \in 1..Len(OneEach(bs)) : u[k] = OneEach(bs)[k]
    BY <2>1, <1>7, AppendProperties
  <2> HIDE DEF u
  <2> QED
    BY <2>1, <2>2
<1>9. s = u
  <2> HIDE DEF s, u
  <2>1. ASSUME NEW k \in 1..(Len(bs) + 1) PROVE s[k] = u[k]
    <3>1. CASE k \in 1..Len(bs)
      <4>1. s[k] = ResultTurn(<<bs[k]>>)
        BY <1>3, <1>6, <2>1, <3>1
      <4> QED
        BY <1>5, <1>8, <3>1, <4>1
    <3>2. CASE k = Len(bs) + 1
      <4>1. s[k] = ResultTurn(<<b>>)
        BY <1>3, <1>6, <2>1, <3>2
      <4> QED
        BY <1>8, <3>2, <4>1 DEF t
    <3> QED
      BY <1>4, <3>1, <3>2
  <2>2. Len(s) = Len(u) /\ Len(s) = Len(bs) + 1
    BY <1>3, <1>6, <1>8
  <2> QED
    BY <1>6, <1>8, <2>1, <2>2, SeqEqual
<1> QED
  BY <1>5, <1>7, <1>9 DEF t, more

LEMMA RoundResult ==
    ASSUME NEW v, NEW h, CallInv(h), NEW m, Fits(h, m), m.role = "tool",
           Resolvable(v, Append(h, m)), NEW acc \in Acc, InRound(v, h, acc)
    PROVE  InRound(v, Append(h, m), AddMessage(v, FilterForRequest(Append(h, m)), acc, m))
<1> DEFINE g == Append(h, m)
           e == FilterForRequest(g)
           new == AddMessage(v, e, acc, m)
           b == ResultBlock(v, e, m)
           a == AllCalls(h)
           r == Results(h)
<1>1. h \in Seq(Entries) /\ m \in Entries /\ CallInv(g) /\ Len(r) < Len(a) /\ m.answers = a[Len(r) + 1].id
  <2>1. CallInv(g)
    BY CallInvMore
  <2>2. h \in Seq(Entries) /\ m \in Entries /\ Len(r) < Len(a) /\ m.answers = a[Len(r) + 1].id
    BY DEF CallInv, Fits
  <2> QED
    BY <2>1, <2>2
<1>2. e \in Seq(Entries)
  <2>1. g \in Seq(Entries)
    BY <1>1, AppendProperties
  <2> QED
    BY <2>1, Filtered
<1>3. Len(a) \in Nat /\ Len(r) \in Nat /\ DOMAIN a = 1..Len(a) /\ Unanswered(h) # <<>>
  BY <1>1, UnansweredIs
<1>4. PICK done, t, bs : Busy(v, h, acc, done, t, bs)
  BY <1>3 DEF InRound, Idle
<1> DEFINE asked == CallBlocks(t)
           n == Len(asked)
           k == Len(bs)
<1>5. /\ done \in Seq(Turn) /\ AllAnswered(v, done) /\ t \in Turn /\ asked # <<>>
      /\ bs \in Seq(Block) /\ Answering(bs, asked) /\ Asked(v, h, asked, k)
      /\ acc.turns = Append(done, t) \o (IF v = "anthropic" THEN OneEach(bs) ELSE <<>>)
      /\ acc.pending = IF v = "anthropic" THEN <<>> ELSE bs
  BY <1>4 DEF Busy
<1>6. n \in Nat /\ DOMAIN asked = 1..n /\ k \in Nat /\ DOMAIN bs = 1..k
  BY <1>5, TurnCalls, LenProperties
<1>7. n <= Len(a) /\ Len(r) = (Len(a) - n) + k
      /\ \A i \in 1..n : asked[i].ref = CallRef(v, a[(Len(a) - n) + i])
  BY <1>5 DEF Asked
<1>8. k + 1 \in 1..n /\ Len(r) + 1 = (Len(a) - n) + (k + 1) /\ Len(r) + 1 \in 1..Len(a)
  <2> HIDE DEF a, r, n, k
  <2> QED
    BY <1>1, <1>3, <1>6, <1>7
<1>9. asked[k + 1].ref = CallRef(v, a[Len(r) + 1])
  BY <1>7, <1>8
<1>10. ResultRef(v, e, m) = CallRef(v, a[Len(r) + 1])
  <2>1. CASE v = "vertex"
    <3>1. Len(r) + 1 \in DOMAIN a /\ NamesAgree(g)
      BY <1>3, <1>8, <2>1 DEF Resolvable
    <3>2. Len(r) + 1 \in DOMAIN AllCalls(g) /\ AllCalls(g)[Len(r) + 1] = a[Len(r) + 1]
      BY <3>1, CallInvMore
    <3>3. NameOf(FilterForRequest(g), AllCalls(g)[Len(r) + 1].id) = AllCalls(g)[Len(r) + 1].name
      <4> HIDE DEF g, r
      <4> QED
        BY <1>1, <3>1, <3>2, NameFound
    <3>4. NameOf(e, m.answers) = a[Len(r) + 1].name
      BY <1>1, <3>2, <3>3
    <3> HIDE DEF a, r, e
    <3> QED
      BY <2>1, <3>4 DEF ResultRef, CallRef
  <2>2. CASE v # "vertex"
    <3> HIDE DEF a, r, e
    <3> QED
      BY <1>1, <2>2 DEF ResultRef, CallRef
  <2> QED
    BY <2>1, <2>2
<1>11. b \in Block /\ b.kind = "result" /\ b.ref = asked[k + 1].ref
  <2>1. b \in Block
    BY <1>1, <1>2, BlockTypes
  <2>2. b.kind = "result" /\ b.ref = ResultRef(v, e, m)
    BY DEF ResultBlock
  <2> QED
    BY <1>9, <1>10, <2>1, <2>2
<1>12. AllCalls(g) = a /\ Results(g) = Append(r, m.answers) /\ Len(Results(g)) = Len(r) + 1
  <2>1. m.calls = <<>> /\ m.answers \in Ids \cup {<<>>}
    BY <1>1, EntryIs
  <2>2. a \in Seq(Calls) /\ AllCalls(g) = a \o m.calls
    BY <1>1, CallsMore
  <2>3. a \o <<>> = a
    BY <2>2, ConcatEmptySeq
  <2>4. r \in Seq(Ids \cup {<<>>}) /\ Results(g) = Append(r, m.answers)
    BY <1>1, ResultsMore
  <2>5. Len(Append(r, m.answers)) = Len(r) + 1
    <3> HIDE DEF r
    <3> QED
      BY <2>1, <2>4, AppendProperties
  <2> QED
    BY <2>1, <2>2, <2>3, <2>4, <2>5
<1>13. new = IF v = "anthropic" THEN [acc EXCEPT !.turns = Append(@, ResultTurn(<<b>>))]
             ELSE [acc EXCEPT !.pending = Append(@, b)]
  <2>1. m.role # "system" /\ m.role \notin {"user", "assistant"}
    OBVIOUS
  <2> QED
    BY <2>1 DEF AddMessage, AddResult, ResultTurn
<1> DEFINE more == Append(bs, b)
<1>14. /\ more \in Seq(Block) /\ Len(more) = k + 1 /\ more[k + 1] = b /\ \A i \in 1..k : more[i] = bs[i]
  <2> HIDE DEF b
  <2> QED
    BY <1>5, <1>11, AppendProperties
<1>15. OneEach(bs) \in Seq(Turn) /\ ResultTurn(<<b>>) \in Turn
       /\ OneEach(more) = Append(OneEach(bs), ResultTurn(<<b>>))
  <2> HIDE DEF b
  <2> QED
    BY <1>5, <1>11, OneEachMore
<1> HIDE DEF g, e, new, b, a, r, asked, n, k, more
<1>16. Answering(more, asked)
  <2>1. DOMAIN more = 1..(k + 1)
    BY <1>14, LenProperties
  <2>2. ASSUME NEW i \in 1..(k + 1)
        PROVE  more[i].kind = "result" /\ more[i].ref = asked[i].ref
    <3>1. CASE i \in 1..k
      BY <1>5, <1>6, <1>14, <3>1 DEF Answering
    <3>2. CASE i = k + 1
      BY <1>11, <1>14, <3>2
    <3> QED
      BY <1>6, <3>1, <3>2
  <2>3. Len(more) <= Len(asked)
    BY <1>6, <1>8, <1>14 DEF n
  <2> QED
    BY <2>1, <2>2, <2>3 DEF Answering
<1>17. Asked(v, g, asked, Len(more))
  <2>1. Len(r) + 1 = (Len(a) - n) + Len(more)
    BY <1>8, <1>14
  <2> QED
    BY <1>7, <1>12, <2>1 DEF Asked, a, n
<1>18. /\ new.turns = Append(done, t) \o (IF v = "anthropic" THEN OneEach(more) ELSE <<>>)
       /\ new.pending = IF v = "anthropic" THEN <<>> ELSE more
  <2> DEFINE d == Append(done, t)
             u == ResultTurn(<<b>>)
  <2>1. CASE v = "anthropic"
    <3>1. new.turns = Append(acc.turns, u) /\ new.pending = acc.pending
      BY <1>13, <2>1 DEF Acc
    <3>2. d \in Seq(Turn) /\ acc.turns = d \o OneEach(bs) /\ acc.turns \in Seq(Turn)
      BY <1>5, <2>1, AppendProperties DEF Acc
    <3>3. u \in Turn /\ OneEach(bs) \in Seq(Turn) /\ <<u>> \in Seq(Turn)
      <4>1. u \in Turn
        BY <1>15
      <4> HIDE DEF u
      <4> QED
        BY <1>15, <4>1
    <3>4. OneEach(more) = Append(OneEach(bs), u)
      BY <1>15
    <3> HIDE DEF d, u
    <3>5. Append(acc.turns, u) = acc.turns \o <<u>> /\ Append(OneEach(bs), u) = OneEach(bs) \o <<u>>
      BY <3>2, <3>3, AppendIsConcat
    <3>6. (d \o OneEach(bs)) \o <<u>> = d \o (OneEach(bs) \o <<u>>)
      BY <3>2, <3>3, ConcatAssociative
    <3>7. new.turns = d \o OneEach(more)
      BY <3>1, <3>2, <3>4, <3>5, <3>6
    <3> QED
      BY <1>5, <2>1, <3>1, <3>7 DEF d
  <2>2. CASE v # "anthropic"
    <3>1. new.turns = acc.turns /\ new.pending = Append(acc.pending, b)
      BY <1>13, <2>2 DEF Acc
    <3> QED
      BY <1>5, <2>2, <3>1 DEF more
  <2> QED
    BY <2>1, <2>2
<1>19. Busy(v, g, new, done, t, more)
  BY <1>5, <1>14, <1>16, <1>17, <1>18 DEF Busy, asked
<1> QED
  BY <1>19 DEF InRound, g, new, e

LEMMA RoundInvMore ==
    ASSUME NEW h, CallInv(h), NEW m, Fits(h, m), RoundInv(h)
    PROVE  RoundInv(Append(h, m))
<1> SUFFICES ASSUME NEW v, Resolvable(v, Append(h, m))
             PROVE  InRound(v, Append(h, m), Walked(v, Append(h, m)))
  BY DEF RoundInv
<1> DEFINE g == Append(h, m)
           a == Walked(v, h)
           b == Walked(v, g)
           e == FilterForRequest(g)
<1>1. h \in Seq(Entries) /\ m \in Entries /\ g \in Seq(Entries)
  <2>1. h \in Seq(Entries) /\ m \in Entries
    BY DEF CallInv, Fits
  <2> QED
    BY <2>1, AppendProperties
<1>2. a \in Acc /\ e \in Seq(Entries) /\ InRound(v, h, a)
  <2>1. Resolvable(v, h)
    BY StillResolvable
  <2> QED
    BY <1>1, <2>1, WalkedType, Filtered DEF RoundInv
<1>3. /\ m.ignored => b = a
      /\ ~m.ignored => b = AddMessage(v, e, a, m)
  BY WalkedMore
<1> HIDE DEF a, b, e
<1>4. CASE m.ignored \/ m.role \notin {"user", "assistant", "tool"}
  <2>1. b.turns = a.turns /\ b.pending = a.pending
    <3>1. CASE m.ignored
      BY <1>3, <3>1
    <3>2. CASE ~m.ignored
      BY <1>1, <1>2, <1>3, <1>4, <3>2, TurnsKept
    <3> QED
      BY <3>1, <3>2
  <2> QED
    BY <1>2, <1>4, <2>1, RoundSame DEF b
<1>5. CASE ~m.ignored /\ m.role \in {"user", "assistant"}
  <2>1. InRound(v, g, AddMessage(v, e, a, m))
    BY <1>2, <1>5, RoundTurn
  <2> QED
    BY <1>3, <1>5, <2>1 DEF b
<1>6. CASE ~m.ignored /\ m.role = "tool"
  <2>1. InRound(v, g, AddMessage(v, e, a, m))
    BY <1>2, <1>6, RoundResult DEF e
  <2> QED
    BY <1>3, <1>6, <2>1 DEF b
<1> QED
  BY <1>4, <1>5, <1>6

\* The calls and results of the conversation, and the rounds made of them.
RoundsInv == CallInv(history) /\ RoundInv(history)

LEMMA RoundsKept ==
    ASSUME RoundsInv, [RequestsNext]_history
    PROVE  RoundsInv'
<1>1. CASE UNCHANGED history
  BY <1>1 DEF RoundsInv
<1>2. ASSUME NEW d \in Drafts, Say(d) PROVE RoundsInv'
  <2>1. history \in Seq(Entries)
    BY DEF RoundsInv, CallInv
  <2>2. PICK m : Says(d, m)
    BY <1>2, <2>1, EntryAdded
  <2>3. Fits(history, m)
    BY <2>1, <2>2, SaysFits
  <2>4. CallInv(Append(history, m)) /\ RoundInv(Append(history, m))
    BY <2>3, CallInvMore, RoundInvMore DEF RoundsInv
  <2>5. history' = Append(history, m)
    BY <2>2 DEF Says
  <2>6. CallInv(history') /\ RoundInv(history')
    BY <2>4, <2>5
  <2> QED
    BY <2>6 DEF RoundsInv
<1> QED
  BY <1>1, <1>2 DEF RequestsNext

LEMMA RoundsAllAnswered ==
    ASSUME RoundsInv
    PROVE  RoundsAnswered
<1>1. ASSUME NEW v \in Vendors, NEW r \in Sent(v), Resolvable(v, history)
      PROVE  AllAnswered(v, r.turns)
  <2>1. history \in Seq(Entries) /\ CallInv(history) /\ InRound(v, history, Walked(v, history))
    BY <1>1 DEF RoundsInv, CallInv, RoundInv
  <2>2. Unanswered(history) = <<>> /\ r.turns = Closed(Walked(v, history)).turns
    BY <2>1, SentIs
  <2>3. Walked(v, history) \in Acc
    BY <2>1, WalkedType
  <2>4. AllAnswered(v, Closed(Walked(v, history)).turns)
    BY <2>1, <2>2, <2>3, ClosedAnswered
  <2> QED
    BY <2>2, <2>4
<1> QED
  BY <1>1 DEF RoundsAnswered

(* However many calls a turn makes, whatever ids come again and whatever   *)
(* reminders and audit rows come between the results, each vendor's request*)
(* has the results right behind the calls, in their order and under their  *)
(* ids (bedrock.go:332-334); for Gemini under their names, where ids that  *)
(* come again name the same function.                                      *)
THEOREM RequestsAnswerRounds ==
    RequestsInit /\ [][RequestsNext]_history => []RoundsAnswered
<1>1. RequestsInit => RoundsInv
  <2>2. ASSUME NEW v PROVE InRound(v, <<>>, Walked(v, <<>>))
    <3>1. Walked(v, <<>>) = Start /\ Unanswered(<<>>) = <<>>
      BY EmptyConversation
    <3>2. Start.pending = <<>> /\ Start.turns = <<>> /\ DOMAIN <<>> = {}
      BY DEF Start
    <3>3. Idle(v, <<>>, Start)
      BY <3>1, <3>2 DEF Idle, AllAnswered
    <3> QED
      BY <3>1, <3>3 DEF InRound
  <2>3. RoundInv(<<>>)
    BY <2>2 DEF RoundInv
  <2> QED
    BY <2>3, EmptyConversation DEF RequestsInit, RoundsInv
<1>2. RoundsInv /\ [RequestsNext]_history => RoundsInv'
  BY RoundsKept
<1>3. RoundsInv => RoundsAnswered
  BY RoundsAllAnswered
<1> QED
  BY <1>1, <1>2, <1>3, PTL

=============================================================================
