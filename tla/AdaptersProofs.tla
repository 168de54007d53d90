--------------------------- MODULE AdaptersProofs ---------------------------
(***************************************************************************)
(* The hosted adapters for any set of calls, blocks and streams of any     *)
(* length: types, one probe per client, and the contract of the event      *)
(* channel.  The contract needs to know when a call has reported usage:    *)
(* behind the content, which the vendor's server ensures for the block     *)
(* APIs and the adapter itself for Gemini (ReportedLast).  That the events *)
(* are the translation of the wire rests on ToldInv: what the call's       *)
(* variables remember of the wire, and what it has sent for it so far.     *)
(***************************************************************************)
EXTENDS Adapters, SequenceTheorems, FiniteSetTheorems, TLAPS

\* What the calls do to the tracker and its probes, and what they do not.
Quiet == UNCHANGED <<vendor, trackVars>>

\* A function into sequences stays one when a sequence of it grows.
LEMMA SeqGrows ==
    ASSUME NEW S, NEW f \in [Chats -> Seq(S)], NEW c \in Chats, NEW x \in S
    PROVE  [f EXCEPT ![c] = Append(@, x)] \in [Chats -> Seq(S)]
OBVIOUS

\* Every event an adapter makes is one.
LEMMA EventIsEvent ==
    ASSUME NEW k \in Kinds, NEW f \in SUBSET Nat, NEW i \in Nat
    PROVE  Event(k, f, i) \in Events
BY DEF Event, Events

\* Taking an item: the wire grows, the tracker and the place stay.
LEMMA TakeTypes ==
    ASSUME TypeOK, NEW c \in Chats, NEW x, Take(c, x)
    PROVE  /\ wire' \in [Chats -> Seq(Items \cup {Broken, EOF})]
           /\ Position(c) \in Nat
           /\ pc' = pc /\ Quiet
           /\ pc[c] = "reading" /\ Delivers(c, x) /\ x \in Items
           /\ wire' = [wire EXCEPT ![c] = Append(@, x)]
<1>1. wire \in [Chats -> Seq(Items \cup {Broken, EOF})] /\ x \in Items \cup {Broken, EOF}
  BY DEF TypeOK, Take
<1>2. wire' = [wire EXCEPT ![c] = Append(@, x)]
  BY DEF Take
<1>3. wire' \in [Chats -> Seq(Items \cup {Broken, EOF})]
  BY <1>1, <1>2, SeqGrows
<1>4. wire[c] \in Seq(Items \cup {Broken, EOF})
  BY <1>1
<1>5. Position(c) \in Nat
  BY <1>4, LenProperties DEF Position
<1> QED
  BY <1>2, <1>3, <1>5 DEF Take, Quiet, trackVars

\* The types again, as far as a step of a call may touch them.
CallTypes ==
    /\ wire \in [Chats -> Seq(Items \cup {Broken, EOF})]
    /\ sent \in [Chats -> Seq(Events)]
    /\ ncalls \in [Chats -> Nat] /\ latest \in [Chats -> Nat]
    /\ finish \in [Chats -> Finishes \cup {"none"}]
    /\ blocked \in [Chats -> BOOLEAN]
    /\ DOMAIN tools = Chats
    /\ \A c \in Chats : /\ DOMAIN tools[c] \subseteq Blocks
                        /\ \A b \in DOMAIN tools[c] : tools[c][b] \subseteq Nat

TrackTypes ==
    /\ vendor \in Vendors
    /\ state \in {"connected", "disconnected"}
    /\ probing \in BOOLEAN
    /\ probe \in [Chats -> IF vendor = "anthropic" THEN Probing ELSE Sleeping]
    /\ pc \in [Chats -> PCs]

LEMMA TypesSplit == TypeOK <=> CallTypes /\ TrackTypes
BY DEF TypeOK, CallTypes, TrackTypes

\* Sending an event keeps the types of the channel.
LEMMA SendTypes ==
    ASSUME CallTypes, NEW c \in Chats, NEW e \in Events, Send(c, e)
    PROVE  sent' \in [Chats -> Seq(Events)]
BY SeqGrows DEF CallTypes, Send

(* The stream loop keeps the types.                                        *)
LEMMA ItemTypes ==
    ASSUME TypeOK, NEW c \in Chats,
           \/ \E b \in Blocks : BlockStart(c, b) \/ BlockFragment(c, b) \/ BlockStop(c, b)
           \/ Delta(c) \/ Report(c) \/ FunctionCall(c) \/ FinishReason(c)
           \/ PromptBlocked(c) \/ Other(c)
    PROVE  CallTypes' /\ pc' = pc /\ Quiet
<1>0. CallTypes
  BY TypesSplit
<1>a. ASSUME NEW x, Take(c, x)
      PROVE  /\ wire' \in [Chats -> Seq(Items' \cup {Broken, EOF})]
             /\ Position(c) \in Nat /\ pc' = pc /\ Quiet /\ Delivers(c, x)
  <2>1. Items' = Items
    BY <1>a, TakeTypes DEF Items, Quiet
  <2> QED
    BY <1>a, <2>1, TakeTypes
<1>1. ASSUME NEW b \in Blocks, BlockStart(c, b) PROVE CallTypes' /\ pc' = pc /\ Quiet
  BY <1>0, <1>1, <1>a DEF BlockStart, CallTypes
<1>2. ASSUME NEW b \in Blocks, BlockFragment(c, b) PROVE CallTypes' /\ pc' = pc /\ Quiet
  BY <1>0, <1>2, <1>a DEF BlockFragment, CallTypes
<1>3. ASSUME NEW b \in Blocks, BlockStop(c, b) PROVE CallTypes' /\ pc' = pc /\ Quiet
  <2>1. b \in DOMAIN tools[c]
    BY <1>3, <1>a DEF BlockStop, Delivers, Item
  <2>2. Event("calls", tools[c][b], 0) \in Events
    BY <1>0, <2>1, EventIsEvent DEF CallTypes, Kinds
  <2>3. sent' \in [Chats -> Seq(Events)]
    BY <1>0, <1>3, <2>2, SendTypes DEF BlockStop
  <2> QED
    BY <1>0, <1>3, <1>a, <2>3 DEF BlockStop, CallTypes
<1>4. CASE Delta(c)
  <2>1. PICK k \in {"text", "thought"} : Take(c, Item(k, 0)) /\ Send(c, Event(k, {Position(c)}, 0))
    BY <1>4 DEF Delta
  <2>2. Event(k, {Position(c)}, 0) \in Events
    BY <2>1, <1>a, EventIsEvent DEF Kinds
  <2>3. sent' \in [Chats -> Seq(Events)]
    BY <1>0, <2>1, <2>2, SendTypes
  <2> QED
    BY <1>0, <1>4, <1>a, <2>1, <2>3 DEF Delta, CallTypes
<1>5. CASE Report(c)
  <2>1. Take(c, Item("report", 0))
    BY <1>5 DEF Report
  <2>2. Event("usage", {Position(c)}, 0) \in Events
    BY <2>1, <1>a, EventIsEvent DEF Kinds
  <2>3. sent' \in [Chats -> Seq(Events)]
    BY <1>0, <1>5, <2>2, SendTypes DEF Report, CallTypes
  <2>4. latest' \in [Chats -> Nat]
    BY <1>0, <1>5, <1>a, <2>1 DEF Report, CallTypes
  <2> QED
    BY <1>0, <1>5, <1>a, <2>1, <2>3, <2>4 DEF Report, CallTypes
<1>6. CASE FunctionCall(c)
  <2>1. Take(c, Item("call", 0))
    BY <1>6 DEF FunctionCall
  <2>2. Event("calls", {Position(c)}, ncalls[c]) \in Events
    BY <1>0, <2>1, <1>a, EventIsEvent DEF Kinds, CallTypes
  <2>3. sent' \in [Chats -> Seq(Events)]
    BY <1>0, <1>6, <2>2, SendTypes DEF FunctionCall
  <2>4. NextIndex(c) \in Nat
    BY <1>0 DEF NextIndex, CallTypes
  <2>5. ncalls' \in [Chats -> Nat]
    BY <1>0, <1>6, <2>4 DEF FunctionCall, CallTypes
  <2> QED
    BY <1>0, <1>6, <1>a, <2>1, <2>3, <2>5 DEF FunctionCall, CallTypes
<1>7. CASE FinishReason(c)
  <2>1. PICK k \in Finishes : Take(c, Item(k, 0)) /\ finish' = [finish EXCEPT ![c] = k]
    BY <1>7 DEF FinishReason
  <2> QED
    BY <1>0, <1>7, <1>a, <2>1 DEF FinishReason, CallTypes
<1>8. CASE PromptBlocked(c)
  BY <1>0, <1>8, <1>a DEF PromptBlocked, CallTypes
<1>9. CASE Other(c)
  BY <1>0, <1>9, <1>a DEF Other, CallTypes
<1>10. CASE \E b \in Blocks : BlockStart(c, b) \/ BlockFragment(c, b) \/ BlockStop(c, b)
  BY <1>10, <1>1, <1>2, <1>3, Zenon
<1> QED
  BY <1>10, <1>4, <1>5, <1>6, <1>7, <1>8, <1>9, Zenon

(* Every step keeps the types.                                             *)
LEMMA TypeStep == TypeOK /\ [Next]_vars => TypeOK'
<1> SUFFICES ASSUME TypeOK, [Next]_vars PROVE TypeOK'
  OBVIOUS
<1>0. CallTypes /\ TrackTypes
  BY TypesSplit
<1>a. CallTypes' /\ TrackTypes' => TypeOK'
  BY DEF TypeOK, CallTypes, TrackTypes
<1>1. CASE UNCHANGED vars
  BY <1>0, <1>a, <1>1 DEF vars, callVars, trackVars, CallTypes, TrackTypes, Items
<1>2. ASSUME NEW c \in Chats,
             \/ \E b \in Blocks : BlockStart(c, b) \/ BlockFragment(c, b) \/ BlockStop(c, b)
             \/ Delta(c) \/ Report(c) \/ FunctionCall(c) \/ FinishReason(c)
             \/ PromptBlocked(c) \/ Other(c)
      PROVE  TypeOK'
  <2>1. CallTypes' /\ pc' = pc /\ Quiet
    BY <1>2, ItemTypes
  <2> QED
    BY <1>0, <1>a, <2>1 DEF Quiet, trackVars, TrackTypes
<1>3. ASSUME NEW c \in Chats, Refuse(c) \/ Open(c) \/ OpenFails(c)
      PROVE  TypeOK'
  <2>1. CallTypes'
    BY <1>0, <1>3 DEF Refuse, Open, OpenFails, gotVars, CallTypes, Items
  <2>2. TrackTypes'
    BY <1>0, <1>3 DEF Refuse, Open, OpenFails, trackVars, TrackTypes, PCs
  <2> QED
    BY <1>a, <2>1, <2>2
<1>4. ASSUME NEW c \in Chats, StreamFails(c) \/ StreamEnds(c)
      PROVE  TypeOK'
  <2>1. PICK x \in {Broken, EOF} : wire' = [wire EXCEPT ![c] = Append(@, x)]
    BY <1>4 DEF StreamFails, StreamEnds
  <2>2. Items' = Items
    BY <1>4 DEF StreamFails, StreamEnds, Items
  <2>3. wire' \in [Chats -> Seq(Items' \cup {Broken, EOF})]
    BY <1>0, <2>1, <2>2, SeqGrows DEF CallTypes
  <2>4. CallTypes'
    BY <1>0, <1>4, <2>3 DEF StreamFails, StreamEnds, CallTypes
  <2>5. TrackTypes'
    BY <1>0, <1>4 DEF StreamFails, StreamEnds, trackVars, TrackTypes, PCs
  <2> QED
    BY <1>a, <2>4, <2>5
<1>5. ASSUME NEW c \in Chats, SetConnected(c) \/ Mark(c) \/ Claim(c)
      PROVE  TypeOK'
  <2>1. CallTypes'
    BY <1>0, <1>5 DEF SetConnected, Mark, Claim, gotVars, CallTypes, Items
  <2>2. TrackTypes'
    BY <1>0, <1>5 DEF SetConnected, Mark, Claim, AfterMark, Claims, FirstPlace, TrackTypes, PCs, Probing, Sleeping
  <2> QED
    BY <1>a, <2>1, <2>2
<1>6. ASSUME NEW c \in Chats, SendUsage(c) \/ SendVerdict(c) \/ SendError(c)
      PROVE  TypeOK'
  <2>1. ASSUME NEW k \in Kinds, NEW f \in SUBSET Nat, Send(c, Event(k, f, 0))
        PROVE  sent' \in [Chats -> Seq(Events)]
    BY <1>0, <2>1, EventIsEvent, SendTypes
  <2>2. Verdict(c) \in Kinds /\ "usage" \in Kinds /\ "error" \in Kinds
    BY DEF Verdict, Kinds
  <2>3. {latest[c]} \in SUBSET Nat /\ {} \in SUBSET Nat
    BY <1>0 DEF CallTypes
  <2>4. sent' \in [Chats -> Seq(Events)]
    BY <1>0, <1>6, <2>1, <2>2, <2>3 DEF SendUsage, SendVerdict, SendError, CallTypes
  <2>5. CallTypes'
    BY <1>0, <1>6, <2>4 DEF SendUsage, SendVerdict, SendError, CallTypes, Items
  <2>6. TrackTypes'
    BY <1>0, <1>6 DEF SendUsage, SendVerdict, SendError, AfterError, trackVars, TrackTypes, PCs
  <2> QED
    BY <1>a, <2>5, <2>6
<1>7. ASSUME NEW c \in Chats, Tick(c) \/ Ping(c) \/ ProbeSets(c) \/ ReleaseProbe(c)
      PROVE  TypeOK'
  <2>1. CallTypes'
    BY <1>0, <1>7 DEF Tick, Ping, ProbeSets, ReleaseProbe, callVars, CallTypes, Items
  <2>2. TrackTypes'
    BY <1>0, <1>7 DEF Tick, Ping, ProbeSets, ReleaseProbe, callVars, TrackTypes, Probing, Sleeping
  <2> QED
    BY <1>a, <2>1, <2>2
<1>8. CASE Next
  BY <1>8, <1>2, <1>3, <1>4, <1>5, <1>6, <1>7, Zenon DEF Next
<1> QED
  BY <1>1, <1>8

(* A new client is well typed.                                             *)
LEMMA InitTypes == Init => TypeOK
<1> SUFFICES ASSUME Init PROVE TypeOK
  OBVIOUS
<1>1. <<>> \in Seq(Items \cup {Broken, EOF}) /\ <<>> \in Seq(Events)
  BY EmptySeq
<1>2. DOMAIN <<>> = {}
  OBVIOUS
<1>3. CallTypes
  BY <1>1, <1>2 DEF Init, CallTypes
<1>4. TrackTypes
  BY DEF Init, TrackTypes, PCs, Probing, Sleeping
<1> QED
  BY <1>3, <1>4, TypesSplit

(* The tracker, the probes and the calls of an adapter are well typed.     *)
THEOREM AdaptersTypeOK == Spec => []TypeOK
BY InitTypes, TypeStep, PTL DEF Spec

-----------------------------------------------------------------------------
(* Only Claim starts a probe, and only if none runs.                       *)
LEMMA OneProbeStep == TypeOK /\ OneProbe /\ [Next]_vars => OneProbe'
<1> SUFFICES ASSUME TypeOK, OneProbe, [Next]_vars PROVE OneProbe'
  OBVIOUS
<1>1. ASSUME UNCHANGED <<probing, probe>> PROVE OneProbe'
  BY <1>1 DEF OneProbe
<1>2. CASE UNCHANGED vars
  BY <1>1, <1>2 DEF vars, trackVars
<1>3. ASSUME NEW c \in Chats,
             \/ \E b \in Blocks : BlockStart(c, b) \/ BlockFragment(c, b) \/ BlockStop(c, b)
             \/ Delta(c) \/ Report(c) \/ FunctionCall(c) \/ FinishReason(c)
             \/ PromptBlocked(c) \/ Other(c)
      PROVE  OneProbe'
  BY <1>1, <1>3, ItemTypes DEF Quiet, trackVars
<1>4. ASSUME NEW c \in Chats,
             \/ Refuse(c) \/ Open(c) \/ OpenFails(c) \/ StreamFails(c) \/ StreamEnds(c)
             \/ SetConnected(c) \/ SendUsage(c) \/ SendVerdict(c) \/ SendError(c) \/ Mark(c)
      PROVE  OneProbe'
  BY <1>1, <1>4 DEF Refuse, Open, OpenFails, StreamFails, StreamEnds, SetConnected, SendUsage,
                    SendVerdict, SendError, Mark, trackVars
<1>5. ASSUME NEW c \in Chats, Claim(c) PROVE OneProbe'
  BY <1>5 DEF Claim, Claims, FirstPlace, OneProbe, TypeOK
<1>6. ASSUME NEW c \in Chats, Tick(c) \/ Ping(c) \/ ProbeSets(c) PROVE OneProbe'
  BY <1>6 DEF Tick, Ping, ProbeSets, OneProbe, TypeOK
<1>7. ASSUME NEW c \in Chats, ReleaseProbe(c) PROVE OneProbe'
  BY <1>7 DEF ReleaseProbe, OneProbe, TypeOK
<1>8. CASE Next
  BY <1>8, <1>3, <1>4, <1>5, <1>6, <1>7, Zenon DEF Next
<1> QED
  BY <1>2, <1>8

(* However many calls of one client lose the endpoint at once, one probe   *)
(* runs at most, and the claim flag says whether it does.                  *)
THEOREM AdaptersOneProbe == Spec => []OneProbe
<1>1. Init => OneProbe
  BY DEF Init, OneProbe
<1> QED
  BY <1>1, OneProbeStep, AdaptersTypeOK, PTL DEF Spec

-----------------------------------------------------------------------------
(* The contract.  What a step says on the channel of call c:               *)

Says(c, ks) == \E e \in Events : e.kind \in ks /\ sent'[c] = Append(sent[c], e)

SaysContent(c) ==
    /\ pc[c] = "reading" /\ pc'[c] = "reading"
    /\ vendor = "vertex" \/ ~Seen(c, "report")
    /\ Says(c, {"text", "thought", "calls"})

SaysUsage(c) ==
    /\ Says(c, {"usage"})
    /\ IF vendor = "vertex" THEN pc[c] = "clean" /\ pc'[c] = "done"
       ELSE /\ pc[c] = "reading" /\ pc'[c] = "reading" /\ Seen(c, "report")'
            /\ MessagesAPI \/ ~Seen(c, "report")

SaysEnd(c) ==
    /\ pc[c] # "closed" /\ pc'[c] = "closed"
    /\ Says(c, {"done", "length", "error"})

SaysNothing(c) ==
    /\ sent'[c] = sent[c]
    /\ pc[c] = "closed" <=> pc'[c] = "closed"
    /\ pc[c] = "done" => pc'[c] = "done"

\* The wire remembers, the vendor stays.
Keeps(c) == vendor' = vendor /\ (Seen(c, "report") => Seen(c, "report")')

SaysSomething(c) == SaysContent(c) \/ SaysUsage(c) \/ SaysEnd(c) \/ SaysNothing(c)

\* Nobody says anything for another call.
Untouched(c) ==
    /\ vendor' = vendor /\ pc'[c] = pc[c] /\ wire'[c] = wire[c] /\ sent'[c] = sent[c]
    /\ tools'[c] = tools[c] /\ ncalls'[c] = ncalls[c] /\ latest'[c] = latest[c]
    /\ finish'[c] = finish[c] /\ blocked'[c] = blocked[c]

LEMMA UntouchedSays ==
    ASSUME NEW c \in Chats, Untouched(c)
    PROVE  Keeps(c) /\ SaysNothing(c)
BY DEF Untouched, Keeps, SaysNothing, Seen

\* A growing wire keeps what was seen on it.
LEMMA WireGrows ==
    ASSUME TypeOK, NEW c \in Chats, NEW x \in Items \cup {Broken, EOF},
           wire' = [wire EXCEPT ![c] = Append(@, x)]
    PROVE  /\ \A k : Seen(c, k) => Seen(c, k)'
           /\ Seen(c, x.kind)'
<1>1. wire[c] \in Seq(Items \cup {Broken, EOF}) /\ wire'[c] = Append(wire[c], x)
  BY DEF TypeOK
<1>2. /\ DOMAIN wire[c] = 1..Len(wire[c]) /\ Len(wire[c]) \in Nat
      /\ DOMAIN wire'[c] = 1..(Len(wire[c]) + 1)
      /\ \A i \in 1..Len(wire[c]) : wire'[c][i] = wire[c][i]
      /\ wire'[c][Len(wire[c]) + 1] = x
  BY <1>1
<1> QED
  BY <1>2 DEF Seen

(* An item of the stream is content, a report, or says nothing.            *)
LEMMA ItemSays ==
    ASSUME TypeOK, NEW c \in Chats,
           \/ \E b \in Blocks : BlockStart(c, b) \/ BlockFragment(c, b) \/ BlockStop(c, b)
           \/ Delta(c) \/ Report(c) \/ FunctionCall(c) \/ FinishReason(c)
           \/ PromptBlocked(c) \/ Other(c)
    PROVE  Keeps(c) /\ SaysSomething(c)
<1>a. ASSUME NEW x, Take(c, x)
      PROVE  /\ Keeps(c) /\ Position(c) \in Nat
             /\ pc[c] = "reading" /\ pc' = pc
             /\ x.kind \notin {"other", "report"} /\ vendor # "vertex" => ~Seen(c, "report")
             /\ x.kind = "report" /\ vendor # "vertex" => MessagesAPI \/ ~Seen(c, "report")
             /\ x.kind = "report" => Seen(c, "report")'
             /\ sent' = sent => SaysNothing(c)
  <2>1. x \in Items /\ Delivers(c, x) /\ wire' = [wire EXCEPT ![c] = Append(@, x)]
        /\ pc[c] = "reading" /\ pc' = pc /\ vendor' = vendor /\ Position(c) \in Nat
    BY <1>a, TakeTypes DEF Quiet
  <2>2. (Seen(c, "report") => Seen(c, "report")') /\ Seen(c, x.kind)'
    BY <2>1, WireGrows
  <2> QED
    BY <2>1, <2>2 DEF Keeps, Delivers, SaysNothing
<1>b. ASSUME NEW e \in Events, Send(c, e) PROVE sent'[c] = Append(sent[c], e)
  BY <1>b DEF Send, TypeOK
<1>1. ASSUME NEW b \in Blocks, BlockStart(c, b) \/ BlockFragment(c, b)
      PROVE  Keeps(c) /\ SaysSomething(c)
  BY <1>1, <1>a DEF BlockStart, BlockFragment, SaysSomething
<1>2. ASSUME NEW b \in Blocks, BlockStop(c, b) PROVE Keeps(c) /\ SaysSomething(c)
  <2>1. Take(c, Item("stop", b)) /\ Item("stop", b).kind = "stop" /\ Item("stop", b).block = b
    BY <1>2 DEF BlockStop, Item
  <2>2. b \in DOMAIN tools[c]
    BY <2>1, TakeTypes DEF Delivers
  <2>3. Event("calls", tools[c][b], 0) \in Events /\ Event("calls", tools[c][b], 0).kind = "calls"
    BY <2>2, EventIsEvent DEF TypeOK, Kinds, Event
  <2>4. Says(c, {"text", "thought", "calls"})
    BY <1>2, <1>b, <2>3 DEF BlockStop, Says
  <2> QED
    BY <1>a, <2>1, <2>4 DEF SaysSomething, SaysContent
<1>3. CASE Delta(c)
  <2>1. PICK k \in {"text", "thought"} : Take(c, Item(k, 0)) /\ Send(c, Event(k, {Position(c)}, 0))
    BY <1>3 DEF Delta
  <2>2. Event(k, {Position(c)}, 0) \in Events /\ Event(k, {Position(c)}, 0).kind = k
    BY <2>1, <1>a, EventIsEvent DEF Kinds, Event
  <2>3. Says(c, {"text", "thought", "calls"})
    BY <1>b, <2>1, <2>2 DEF Says
  <2>4. Item(k, 0).kind \notin {"other", "report"}
    BY <2>1 DEF Item
  <2> QED
    BY <1>a, <2>1, <2>3, <2>4 DEF SaysSomething, SaysContent
<1>4. CASE Report(c)
  <2>1. Take(c, Item("report", 0)) /\ Item("report", 0).kind = "report"
    BY <1>4 DEF Report, Item
  <2>2. CASE vendor = "vertex"
    BY <1>4, <1>a, <2>1, <2>2 DEF Report, SaysSomething
  <2>3. CASE vendor # "vertex"
    <3>1. Event("usage", {Position(c)}, 0) \in Events /\ Event("usage", {Position(c)}, 0).kind = "usage"
      BY <2>1, <1>a, EventIsEvent DEF Kinds, Event
    <3>2. Says(c, {"usage"})
      BY <1>4, <1>b, <2>3, <3>1 DEF Report, Says
    <3> QED
      BY <1>a, <2>1, <2>3, <3>2 DEF SaysSomething, SaysUsage
  <2> QED
    BY <2>2, <2>3
<1>5. CASE FunctionCall(c)
  <2>1. Take(c, Item("call", 0)) /\ Item("call", 0).kind = "call"
    BY <1>5 DEF FunctionCall, Item
  <2>2. Event("calls", {Position(c)}, ncalls[c]) \in Events
        /\ Event("calls", {Position(c)}, ncalls[c]).kind = "calls"
    BY <2>1, <1>a, EventIsEvent DEF Kinds, Event, TypeOK
  <2>3. Says(c, {"text", "thought", "calls"})
    BY <1>5, <1>b, <2>2 DEF FunctionCall, Says
  <2> QED
    BY <1>a, <2>1, <2>3 DEF SaysSomething, SaysContent
<1>6. CASE FinishReason(c) \/ PromptBlocked(c) \/ Other(c)
  BY <1>6, <1>a DEF FinishReason, PromptBlocked, Other, SaysSomething
<1>7. CASE \E b \in Blocks : BlockStart(c, b) \/ BlockFragment(c, b) \/ BlockStop(c, b)
  BY <1>7, <1>1, <1>2
<1> QED
  BY <1>3, <1>4, <1>5, <1>6, <1>7

(* The end of a call: the adapter's usage report, then one ending.         *)
LEMMA EndingSays ==
    ASSUME TypeOK, NEW c \in Chats,
           \/ Refuse(c) \/ Open(c) \/ OpenFails(c) \/ StreamFails(c) \/ StreamEnds(c)
           \/ SetConnected(c) \/ SendUsage(c) \/ SendVerdict(c) \/ SendError(c)
           \/ Mark(c) \/ Claim(c)
    PROVE  Keeps(c) /\ SaysSomething(c)
<1>b. ASSUME NEW k \in Kinds, NEW f \in SUBSET Nat, Send(c, Event(k, f, 0))
      PROVE  Says(c, {k})
  <2>1. sent'[c] = Append(sent[c], Event(k, f, 0))
    BY <1>b DEF Send, TypeOK
  <2>2. Event(k, f, 0) \in Events /\ Event(k, f, 0).kind = k
    BY EventIsEvent DEF Event
  <2> QED
    BY <2>1, <2>2 DEF Says
<1>1. CASE StreamFails(c) \/ StreamEnds(c)
  <2>1. PICK x \in {Broken, EOF} : wire' = [wire EXCEPT ![c] = Append(@, x)]
    BY <1>1 DEF StreamFails, StreamEnds
  <2>2. Keeps(c)
    BY <1>1, <2>1, WireGrows DEF Keeps, StreamFails, StreamEnds
  <2>3. SaysNothing(c)
    BY <1>1 DEF SaysNothing, StreamFails, StreamEnds, TypeOK
  <2> QED
    BY <2>2, <2>3 DEF SaysSomething
<1>2. CASE Refuse(c) \/ Open(c) \/ OpenFails(c) \/ SetConnected(c) \/ Mark(c) \/ Claim(c)
  <2>1. UNCHANGED gotVars /\ vendor' = vendor
    BY <1>2 DEF Refuse, Open, OpenFails, SetConnected, Mark, Claim
  <2>2. SaysNothing(c)
    BY <1>2, <2>1 DEF SaysNothing, Refuse, Open, OpenFails, SetConnected, Mark, Claim, AfterMark,
                      gotVars, TypeOK
  <2>3. Keeps(c)
    BY <2>1 DEF Keeps, Seen, gotVars
  <2> QED
    BY <2>2, <2>3 DEF SaysSomething
<1>3. CASE SendUsage(c)
  <2>1. Keeps(c) /\ vendor = "vertex" /\ pc[c] = "clean" /\ pc'[c] = "done"
    BY <1>3 DEF SendUsage, Keeps, Seen, TypeOK
  <2>2. CASE latest[c] = 0
    BY <1>3, <2>1, <2>2 DEF SendUsage, SaysSomething, SaysNothing
  <2>3. CASE latest[c] # 0
    <3>1. {latest[c]} \in SUBSET Nat /\ "usage" \in Kinds
      BY DEF TypeOK, Kinds
    <3>2. Says(c, {"usage"})
      BY <1>3, <1>b, <2>3, <3>1 DEF SendUsage
    <3> QED
      BY <2>1, <3>2 DEF SaysSomething, SaysUsage
  <2> QED
    BY <2>2, <2>3
<1>4. CASE SendVerdict(c) \/ SendError(c)
  <2>1. Keeps(c) /\ pc[c] # "closed" /\ pc'[c] = "closed"
    BY <1>4 DEF SendVerdict, SendError, AfterError, Keeps, Seen, TypeOK
  <2>2. PICK k \in {"done", "length", "error"} : Send(c, Event(k, {}, 0))
    BY <1>4 DEF SendVerdict, SendError, Verdict
  <2>3. Says(c, {k})
    BY <1>b, <2>2 DEF Kinds
  <2> QED
    BY <2>1, <2>3 DEF SaysSomething, SaysEnd, Says
<1> QED
  BY <1>1, <1>2, <1>3, <1>4

(* A call's step says nothing on the channels of the others.               *)
LEMMA OthersUntouched ==
    ASSUME TypeOK, NEW c \in Chats, NEW d \in Chats, d # c,
           \/ \E b \in Blocks : BlockStart(d, b) \/ BlockFragment(d, b) \/ BlockStop(d, b)
           \/ Delta(d) \/ Report(d) \/ FunctionCall(d) \/ FinishReason(d) \/ PromptBlocked(d)
           \/ Other(d)
           \/ Refuse(d) \/ Open(d) \/ OpenFails(d) \/ StreamFails(d) \/ StreamEnds(d)
           \/ SetConnected(d) \/ SendUsage(d) \/ SendVerdict(d) \/ SendError(d)
           \/ Mark(d) \/ Claim(d)
    PROVE  Untouched(c)
<1>a. ASSUME NEW x, Take(d, x) PROVE wire'[c] = wire[c] /\ pc'[c] = pc[c] /\ vendor' = vendor
  BY <1>a DEF Take, TypeOK
<1>b. ASSUME NEW e, Send(d, e) PROVE sent'[c] = sent[c]
  BY <1>b DEF Send, TypeOK
<1>1. ASSUME NEW b \in Blocks, BlockStart(d, b) \/ BlockFragment(d, b) \/ BlockStop(d, b)
      PROVE  Untouched(c)
  <2>1. wire'[c] = wire[c] /\ pc'[c] = pc[c] /\ vendor' = vendor
    BY <1>1, <1>a DEF BlockStart, BlockFragment, BlockStop
  <2>2. sent'[c] = sent[c] /\ UNCHANGED <<ncalls, latest, finish, blocked>>
    BY <1>1, <1>b DEF BlockStart, BlockFragment, BlockStop
  <2>3. tools'[c] = tools[c]
    BY <1>1 DEF BlockStart, BlockFragment, BlockStop, TypeOK
  <2> QED
    BY <2>1, <2>2, <2>3 DEF Untouched
<1>2. CASE \E b \in Blocks : BlockStart(d, b) \/ BlockFragment(d, b) \/ BlockStop(d, b)
  BY <1>1, <1>2
<1>3. CASE Delta(d) \/ FunctionCall(d) \/ FinishReason(d) \/ PromptBlocked(d) \/ Other(d)
  <2>1. wire'[c] = wire[c] /\ pc'[c] = pc[c] /\ vendor' = vendor
    BY <1>3, <1>a DEF Delta, FunctionCall, FinishReason, PromptBlocked, Other
  <2>2. sent'[c] = sent[c] /\ UNCHANGED <<tools, latest>>
    BY <1>3, <1>b DEF Delta, FunctionCall, FinishReason, PromptBlocked, Other
  <2>3. ncalls'[c] = ncalls[c] /\ finish'[c] = finish[c] /\ blocked'[c] = blocked[c]
    BY <1>3 DEF Delta, FunctionCall, FinishReason, PromptBlocked, Other, TypeOK
  <2> QED
    BY <2>1, <2>2, <2>3 DEF Untouched
<1>4. CASE Report(d)
  <2>1. wire'[c] = wire[c] /\ pc'[c] = pc[c] /\ vendor' = vendor
    BY <1>4, <1>a DEF Report
  <2>2. sent'[c] = sent[c] /\ latest'[c] = latest[c] /\ UNCHANGED <<tools, ncalls, finish, blocked>>
    BY <1>4, <1>b DEF Report, TypeOK
  <2> QED
    BY <2>1, <2>2 DEF Untouched
<1>5. CASE \/ Refuse(d) \/ Open(d) \/ OpenFails(d) \/ StreamFails(d) \/ StreamEnds(d)
           \/ SetConnected(d) \/ Mark(d) \/ Claim(d)
  BY <1>5 DEF Refuse, Open, OpenFails, StreamFails, StreamEnds, SetConnected, Mark, Claim, gotVars,
              Untouched, TypeOK
<1>6. CASE SendUsage(d) \/ SendVerdict(d) \/ SendError(d)
  BY <1>6, <1>b DEF SendUsage, SendVerdict, SendError, Untouched, TypeOK
<1> QED
  BY <1>2, <1>3, <1>4, <1>5, <1>6

(* Whatever happens, each channel gets one kind of event, or none.         *)
LEMMA NextSays ==
    ASSUME TypeOK, [Next]_vars, NEW c \in Chats
    PROVE  Keeps(c) /\ SaysSomething(c)
<1>1. CASE UNCHANGED vars
  BY <1>1, UntouchedSays DEF vars, callVars, Untouched, SaysSomething
<1>2. ASSUME NEW d \in Chats, Tick(d) \/ Ping(d) \/ ProbeSets(d) \/ ReleaseProbe(d)
      PROVE  Untouched(c)
  BY <1>2 DEF Tick, Ping, ProbeSets, ReleaseProbe, callVars, Untouched
<1>3. ASSUME NEW d \in Chats,
           \/ \E b \in Blocks : BlockStart(d, b) \/ BlockFragment(d, b) \/ BlockStop(d, b)
           \/ Delta(d) \/ Report(d) \/ FunctionCall(d) \/ FinishReason(d) \/ PromptBlocked(d)
           \/ Other(d)
           \/ Refuse(d) \/ Open(d) \/ OpenFails(d) \/ StreamFails(d) \/ StreamEnds(d)
           \/ SetConnected(d) \/ SendUsage(d) \/ SendVerdict(d) \/ SendError(d)
           \/ Mark(d) \/ Claim(d)
      PROVE  Keeps(c) /\ SaysSomething(c)
  <2>1. CASE d # c
    BY <1>3, <2>1, OthersUntouched, UntouchedSays DEF SaysSomething
  <2>2. CASE d = c
    BY <1>3, <2>2, ItemSays, EndingSays
  <2> QED
    BY <2>1, <2>2
<1>4. CASE Next
  <2>1. PICK d \in Chats :
           \/ \E b \in Blocks : BlockStart(d, b) \/ BlockFragment(d, b) \/ BlockStop(d, b)
           \/ Delta(d) \/ Report(d) \/ FunctionCall(d) \/ FinishReason(d) \/ PromptBlocked(d)
           \/ Other(d)
           \/ Refuse(d) \/ Open(d) \/ OpenFails(d) \/ StreamFails(d) \/ StreamEnds(d)
           \/ SetConnected(d) \/ SendUsage(d) \/ SendVerdict(d) \/ SendError(d)
           \/ Mark(d) \/ Claim(d)
           \/ Tick(d) \/ Ping(d) \/ ProbeSets(d) \/ ReleaseProbe(d)
    BY <1>4 DEF Next
  <2> QED
    BY <1>2, <1>3, <2>1, UntouchedSays DEF SaysSomething
<1> QED
  BY <1>1, <1>4

-----------------------------------------------------------------------------
(* The channel of a call as the contract sees it: kinds instead of events. *)
Sent == {"delta", "calls", "usage", "done", "error"}
KindsOf(s) == [i \in DOMAIN s |-> KindOf(s[i])]

LEMMA KindCases ==
    /\ \A e \in Events : KindOf(e) \in Sent
    /\ \A e \in Events : KindOf(e) = "usage" <=> e.kind = "usage"
    /\ \A e \in Events : e.kind \in {"text", "thought", "calls"} => KindOf(e) \in {"delta", "calls"}
    /\ \A e \in Events : e.kind \in {"done", "length", "error"} => KindOf(e) \in {"done", "error"}
BY DEF KindOf, Events, Kinds, Sent

\* An interval starting at one has one length.
LEMMA SameInterval == \A m, n \in Nat : 1..m = 1..n => m = n
<1> SUFFICES ASSUME NEW m \in Nat, NEW n \in Nat, 1..m = 1..n PROVE m = n
  OBVIOUS
<1>1. m \in 1..m <=> m \in 1..n
  OBVIOUS
<1>2. n \in 1..m <=> n \in 1..n
  OBVIOUS
<1> QED
  BY <1>1, <1>2

LEMMA KindsOfIsSeq ==
    ASSUME NEW s \in Seq(Events)
    PROVE  KindsOf(s) \in Seq(Sent) /\ Len(KindsOf(s)) = Len(s)
<1>1. DOMAIN s = 1..Len(s) /\ Len(s) \in Nat
  BY LenProperties
<1>2. KindsOf(s) \in [1..Len(s) -> Sent]
  BY <1>1, KindCases, ElementOfSeq DEF KindsOf
<1>3. KindsOf(s) \in Seq(Sent)
  BY <1>1, <1>2, SeqDef
<1>4. 1..Len(KindsOf(s)) = 1..Len(s) /\ Len(KindsOf(s)) \in Nat
  BY <1>2, <1>3, LenProperties
<1> QED
  BY <1>1, <1>3, <1>4, SameInterval

LEMMA KindsOfAppend ==
    ASSUME NEW s \in Seq(Events), NEW e \in Events
    PROVE  KindsOf(Append(s, e)) = Append(KindsOf(s), KindOf(e))
<1> DEFINE t == Append(s, e)
           u == Append(KindsOf(s), KindOf(e))
<1>1. t \in Seq(Events) /\ Len(t) = Len(s) + 1 /\ Len(s) \in Nat
      /\ (\A i \in 1..Len(s) : t[i] = s[i]) /\ t[Len(s) + 1] = e
  OBVIOUS
<1>2. KindsOf(s) \in Seq(Sent) /\ Len(KindsOf(s)) = Len(s) /\ KindOf(e) \in Sent
  BY KindsOfIsSeq, KindCases
<1>3. u \in Seq(Sent) /\ Len(u) = Len(s) + 1
      /\ (\A i \in 1..Len(s) : u[i] = KindsOf(s)[i]) /\ u[Len(s) + 1] = KindOf(e)
  BY <1>2
<1>4. DOMAIN s = 1..Len(s) /\ DOMAIN t = 1..Len(t)
  BY <1>1, LenProperties
<1> HIDE DEF t, u
<1>5. KindsOf(t) \in Seq(Sent) /\ Len(KindsOf(t)) = Len(t)
  BY <1>1, KindsOfIsSeq
<1>6. \A i \in 1..Len(t) : KindsOf(t)[i] = u[i]
  <2> SUFFICES ASSUME NEW i \in 1..Len(t) PROVE KindsOf(t)[i] = u[i]
    OBVIOUS
  <2>1. KindsOf(t)[i] = KindOf(t[i])
    BY <1>4 DEF KindsOf
  <2>2. CASE i \in 1..Len(s)
    <3>1. KindsOf(s)[i] = KindOf(s[i])
      BY <1>4, <2>2 DEF KindsOf
    <3> QED
      BY <1>1, <1>3, <2>1, <2>2, <3>1
  <2>3. CASE i = Len(s) + 1
    BY <1>1, <1>3, <2>1, <2>3
  <2> QED
    BY <1>1, <2>2, <2>3
<1>7. KindsOf(t) = u
  BY <1>1, <1>3, <1>5, <1>6, SeqEqual
<1> QED
  BY <1>7 DEF t, u

\* Usage is reported behind the content: of the block APIs the server does it,
\* for Gemini the adapter itself, after the stream.
ReportedLast ==
    \A c \in Chats :
        (\E i \in DOMAIN sent[c] : sent[c][i].kind = "usage") =>
            IF vendor = "vertex" THEN pc[c] \in {"done", "closed"} ELSE Seen(c, "report")

LEMMA ReportedLastStep == TypeOK /\ ReportedLast /\ [Next]_vars => ReportedLast'
<1> SUFFICES ASSUME TypeOK, ReportedLast, [Next]_vars, NEW c \in Chats,
                    NEW i \in DOMAIN sent'[c], sent'[c][i].kind = "usage"
             PROVE  IF vendor' = "vertex" THEN pc'[c] \in {"done", "closed"} ELSE Seen(c, "report")'
  BY DEF ReportedLast
<1>0. Keeps(c) /\ SaysSomething(c) /\ sent[c] \in Seq(Events)
  BY NextSays DEF TypeOK
<1>1. ASSUME NEW ks, Says(c, ks), "usage" \notin ks
      PROVE  i \in DOMAIN sent[c] /\ sent[c][i].kind = "usage"
  <2>1. PICK e \in Events : e.kind \in ks /\ sent'[c] = Append(sent[c], e)
    BY <1>1 DEF Says
  <2>2. DOMAIN sent'[c] = 1..(Len(sent[c]) + 1) /\ DOMAIN sent[c] = 1..Len(sent[c])
        /\ Len(sent[c]) \in Nat
        /\ (\A j \in 1..Len(sent[c]) : sent'[c][j] = sent[c][j])
        /\ sent'[c][Len(sent[c]) + 1] = e
    BY <1>0, <2>1
  <2>3. i # Len(sent[c]) + 1
    BY <1>1, <2>1, <2>2
  <2> QED
    BY <2>2, <2>3
<1>2. CASE SaysContent(c)
  BY <1>0, <1>1, <1>2 DEF SaysContent, ReportedLast
<1>3. CASE SaysUsage(c)
  BY <1>0, <1>3 DEF SaysUsage, Keeps
<1>4. CASE SaysEnd(c)
  BY <1>0, <1>1, <1>4 DEF SaysEnd, ReportedLast, Keeps
<1>5. CASE SaysNothing(c)
  BY <1>0, <1>5 DEF SaysNothing, ReportedLast, Keeps
<1> QED
  BY <1>0, <1>2, <1>3, <1>4, <1>5 DEF SaysSomething

(* What is said is a step of the contract.                                 *)
LEMMA ContractStep ==
    ASSUME TypeOK, ReportedLast, [Next]_vars, NEW c \in Chats
    PROVE  \/ Contract(c)!Next
           \/ MessagesAPI /\ Contract(c)!Repeats
           \/ UNCHANGED <<Channel(c), pc[c] = "closed">>
<1>0. Keeps(c) /\ SaysSomething(c) /\ sent[c] \in Seq(Events)
  BY NextSays DEF TypeOK
<1>1. Channel(c) = KindsOf(sent[c]) /\ Channel(c)' = KindsOf(sent'[c])
  BY DEF Channel, KindsOf
<1>2. ASSUME NEW ks, Says(c, ks)
      PROVE  \E e \in Events : e.kind \in ks /\ Channel(c)' = Append(Channel(c), KindOf(e))
  BY <1>0, <1>1, <1>2, KindsOfAppend DEF Says
<1>3. ASSUME Contract(c)!Reported PROVE \E i \in DOMAIN sent[c] : sent[c][i].kind = "usage"
  <2>1. PICK i \in DOMAIN sent[c] : KindOf(sent[c][i]) = "usage"
    BY <1>3 DEF Contract!Reported, Channel
  <2>2. sent[c][i] \in Events
    BY <1>0, <2>1, LenProperties, ElementOfSeq
  <2> QED
    BY <2>1, <2>2, KindCases
<1>4. CASE SaysContent(c)
  <2>1. PICK e \in Events : /\ e.kind \in {"text", "thought", "calls"}
                            /\ Channel(c)' = Append(Channel(c), KindOf(e))
    BY <1>2, <1>4 DEF SaysContent
  <2>2. KindOf(e) \in {"delta", "calls"}
    BY <2>1, KindCases
  <2>3. ~Contract(c)!Reported
    BY <1>3, <1>4 DEF SaysContent, ReportedLast
  <2> QED
    BY <1>4, <2>1, <2>2, <2>3
    DEF SaysContent, Contract!Next, Contract!Content, Contract!Contents
<1>5. CASE SaysUsage(c)
  <2>1. PICK e \in Events : e.kind = "usage" /\ Channel(c)' = Append(Channel(c), KindOf(e))
    BY <1>2, <1>5 DEF SaysUsage
  <2>2. KindOf(e) = "usage"
    BY <2>1, KindCases
  <2>3. pc[c] # "closed" /\ pc'[c] # "closed"
    BY <1>5 DEF SaysUsage
  <2>4. MessagesAPI \/ ~Contract(c)!Reported
    BY <1>3, <1>5 DEF SaysUsage, ReportedLast
  <2> QED
    BY <2>1, <2>2, <2>3, <2>4 DEF Contract!Next, Contract!Usage, Contract!Repeats
<1>6. CASE SaysEnd(c)
  <2>1. PICK e \in Events : /\ e.kind \in {"done", "length", "error"}
                            /\ Channel(c)' = Append(Channel(c), KindOf(e))
    BY <1>2, <1>6 DEF SaysEnd
  <2>2. KindOf(e) \in {"done", "error"}
    BY <2>1, KindCases
  <2> QED
    BY <1>6, <2>1, <2>2 DEF SaysEnd, Contract!Next, Contract!End, Contract!Endings
<1>7. CASE SaysNothing(c)
  BY <1>1, <1>7 DEF SaysNothing
<1> QED
  BY <1>0, <1>4, <1>5, <1>6, <1>7 DEF SaysSomething

(* Whatever the vendor's stream delivers and however it ends, the channel  *)
(* of every call keeps the contract of ChatClient.Chat, except that one of *)
(* the Messages API may carry several usage reports.                       *)
THEOREM AdaptersKeepContract == Spec => KeepsContract
<1>1. Init => ReportedLast /\ \A c \in Chats : Contract(c)!Init
  <2> SUFFICES ASSUME Init, NEW c \in Chats
               PROVE  /\ (\E i \in DOMAIN sent[c] : sent[c][i].kind = "usage") => FALSE
                      /\ Contract(c)!Init
    BY DEF ReportedLast
  <2>1. sent[c] = <<>> /\ pc[c] = "new" /\ DOMAIN sent[c] = {}
    BY DEF Init
  <2>2. <<>> \in Seq(Events) /\ Len(<<>>) = 0
    OBVIOUS
  <2>3. Channel(c) \in Seq(Sent) /\ Len(Channel(c)) = 0
    <3>1. Channel(c) = KindsOf(sent[c])
      BY DEF Channel, KindsOf
    <3> QED
      BY <2>1, <2>2, <3>1, KindsOfIsSeq
  <2>4. Channel(c) = <<>>
    BY <2>3, EmptySeq
  <2> QED
    BY <2>1, <2>4 DEF Contract!Init
<1>2. TypeOK /\ ReportedLast /\ [Next]_vars =>
        [\A c \in Chats :
            \/ Contract(c)!Next
            \/ MessagesAPI /\ Contract(c)!Repeats
            \/ UNCHANGED <<Channel(c), pc[c] = "closed">>]_vars
  BY ContractStep
<1> QED
  BY <1>1, <1>2, ReportedLastStep, AdaptersTypeOK, PTL DEF Spec, KeepsContract
-----------------------------------------------------------------------------
(* What the consumer must see of a stream, when the stream grows by x.     *)
LEMMA Appended ==
    ASSUME NEW T, NEW w \in Seq(T), NEW x \in T
    PROVE  /\ Len(w) \in Nat /\ DOMAIN w = 1..Len(w)
           /\ Append(w, x) \in Seq(T)
           /\ Len(Append(w, x)) = Len(w) + 1 /\ DOMAIN Append(w, x) = 1..(Len(w) + 1)
           /\ \A i \in 1..Len(w) : Append(w, x)[i] = w[i]
           /\ Append(w, x)[Len(w) + 1] = x
OBVIOUS

\* The items heard of are finitely many, and their ranks are places among them.
LEMMA SpokenFinite ==
    ASSUME NEW v, NEW T, NEW w \in Seq(T)
    PROVE  /\ IsFiniteSet(Spoken(v, w)) /\ Cardinality(Spoken(v, w)) \in Nat
           /\ \A i \in Spoken(v, w) : Rank(v, w, i) \in 1..Cardinality(Spoken(v, w))
<1>1. DOMAIN w = 1..Len(w) /\ Len(w) \in Nat
  OBVIOUS
<1>2. IsFiniteSet(1..Len(w)) /\ Spoken(v, w) \in SUBSET (1..Len(w))
  BY <1>1, FS_Interval DEF Spoken
<1>3. IsFiniteSet(Spoken(v, w)) /\ Cardinality(Spoken(v, w)) \in Nat
  BY <1>2, FS_Subset, FS_CardinalityType
<1>4. ASSUME NEW i \in Spoken(v, w) PROVE Rank(v, w, i) \in 1..Cardinality(Spoken(v, w))
  <2> DEFINE P == {j \in Spoken(v, w) : j <= i}
  <2>1. P \in SUBSET Spoken(v, w) /\ i \in P
    BY <1>2, <1>4
  <2> HIDE DEF P
  <2>2. IsFiniteSet(P) /\ Cardinality(P) <= Cardinality(Spoken(v, w)) /\ Cardinality(P) \in Nat
    BY <1>3, <2>1, FS_Subset, FS_CardinalityType
  <2>3. Cardinality(P) # 0
    BY <2>1, <2>2, FS_EmptySet
  <2>4. Rank(v, w, i) = Cardinality(P)
    BY DEF Rank, P
  <2> QED
    BY <1>3, <2>2, <2>3, <2>4
<1> QED
  BY <1>3, <1>4

LEMMA SpokenGrows ==
    ASSUME NEW v, NEW T, NEW w \in Seq(T), NEW x \in T
    PROVE  /\ IF Speaks(v, x.kind)
              THEN /\ Spoken(v, Append(w, x)) = Spoken(v, w) \cup {Len(w) + 1}
                   /\ Cardinality(Spoken(v, Append(w, x))) = Cardinality(Spoken(v, w)) + 1
                   /\ Rank(v, Append(w, x), Len(w) + 1) = Cardinality(Spoken(v, w)) + 1
              ELSE Spoken(v, Append(w, x)) = Spoken(v, w)
           /\ \A i \in Spoken(v, w) : Rank(v, Append(w, x), i) = Rank(v, w, i)
<1> DEFINE u == Append(w, x)
           n == Len(w)
<1>1. /\ n \in Nat /\ DOMAIN w = 1..n /\ DOMAIN u = 1..(n + 1)
      /\ \A i \in 1..n : u[i] = w[i]
      /\ u[n + 1] = x
  BY Appended
<1>2. 1..(n + 1) = (1..n) \cup {n + 1} /\ n + 1 \notin 1..n
  BY <1>1
<1>3. IsFiniteSet(Spoken(v, w)) /\ Spoken(v, w) \subseteq 1..n
  BY <1>1, SpokenFinite DEF Spoken
<1> HIDE DEF u, n
<1>4. CASE ~Speaks(v, x.kind)
  <2>1. Spoken(v, u) = Spoken(v, w)
    BY <1>1, <1>2, <1>4 DEF Spoken
  <2> QED
    BY <1>4, <2>1 DEF Rank, u
<1>5. CASE Speaks(v, x.kind)
  <2>1. Spoken(v, u) = Spoken(v, w) \cup {n + 1} /\ n + 1 \notin Spoken(v, w)
    BY <1>1, <1>2, <1>3, <1>5 DEF Spoken
  <2>2. Cardinality(Spoken(v, u)) = Cardinality(Spoken(v, w)) + 1
    BY <1>3, <2>1, FS_AddElement
  <2>3. {j \in Spoken(v, u) : j <= n + 1} = Spoken(v, u)
    BY <1>1, <1>3, <2>1
  <2>4. ASSUME NEW i \in Spoken(v, w) PROVE Rank(v, u, i) = Rank(v, w, i)
    <3>1. {j \in Spoken(v, u) : j <= i} = {j \in Spoken(v, w) : j <= i}
      BY <1>1, <1>3, <2>1
    <3> QED
      BY <3>1 DEF Rank
  <2> QED
    BY <1>5, <2>1, <2>2, <2>3, <2>4 DEF Rank, u, n
<1> QED
  BY <1>4, <1>5

\* An item already there is heard of as before.
LEMMA TranslationStays ==
    ASSUME NEW T, NEW w \in Seq(T), NEW x \in T, NEW i \in DOMAIN w
    PROVE  Translation(Append(w, x), i) = Translation(w, i)
<1> DEFINE u == Append(w, x)
<1>1. /\ Len(w) \in Nat /\ i \in 1..Len(w)
      /\ \A j \in 1..Len(w) : u[j] = w[j]
  BY Appended
<1> HIDE DEF u
<1>2. \A j \in 1..(i - 1) : u[j] = w[j]
  BY <1>1
<1>3. Opened(u, i) = Opened(w, i)
  <2>1. {j \in 1..(i - 1) : u[j] = Item("start", u[i].block)}
          = {j \in 1..(i - 1) : w[j] = Item("start", w[i].block)}
    BY <1>1, <1>2
  <2> QED
    BY <2>1 DEF Opened
<1>4. {j \in 1..(i - 1) : u[j].kind = "call"} = {j \in 1..(i - 1) : w[j].kind = "call"}
  BY <1>2
<1>5. {j \in 1..(i - 1) : Opened(w, i) <= j /\ u[j].block = u[i].block}
        = {j \in 1..(i - 1) : Opened(w, i) <= j /\ w[j].block = w[i].block}
  BY <1>1, <1>2
<1> QED
  BY <1>1, <1>3, <1>4, <1>5 DEF Translation, u

\* Before the first item nothing was to be said.
LEMMA TellsNothing == \A v : Tells(v, <<>>, <<>>, <<>>)
<1> SUFFICES ASSUME NEW v PROVE Tells(v, <<>>, <<>>, <<>>)
  OBVIOUS
<1>1. Len(<<>>) = 0 /\ DOMAIN <<>> = {}
  OBVIOUS
<1>2. Spoken(v, <<>>) = {} /\ Cardinality(Spoken(v, <<>>)) = 0
  BY <1>1, FS_EmptySet, Zenon DEF Spoken
<1>3. Len(<<>>) = Cardinality(Spoken(v, <<>>)) + Len(<<>>)
  BY <1>1, <1>2
<1> QED
  BY <1>1, <1>2, <1>3, Zenon DEF Tells

\* A silent item is answered by silence, any other by its event.
LEMMA TellsItem ==
    ASSUME NEW v, NEW T, NEW w \in Seq(T), NEW x \in T, NEW s \in Seq(Events),
           Tells(v, s, w, <<>>)
    PROVE  /\ ~Speaks(v, x.kind) => Tells(v, s, Append(w, x), <<>>)
           /\ \A e \in Events : Speaks(v, x.kind) /\ e = Translation(Append(w, x), Len(w) + 1)
                                 => Tells(v, Append(s, e), Append(w, x), <<>>)
<1> DEFINE u == Append(w, x)
           n == Cardinality(Spoken(v, w))
<1>0. Len(<<>>) = 0 /\ DOMAIN <<>> = {}
  OBVIOUS
<1>1. n \in Nat /\ \A i \in Spoken(v, w) : Rank(v, w, i) \in 1..n
  BY SpokenFinite
<1>2. Len(s) = n /\ \A i \in Spoken(v, w) : s[Rank(v, w, i)] = Translation(w, i)
  BY <1>0, <1>1 DEF Tells
<1>3. \A i \in Spoken(v, w) : i \in DOMAIN w /\ Rank(v, u, i) = Rank(v, w, i)
                                             /\ Translation(u, i) = Translation(w, i)
  <2> SUFFICES ASSUME NEW i \in Spoken(v, w)
               PROVE  i \in DOMAIN w /\ Rank(v, u, i) = Rank(v, w, i)
                                     /\ Translation(u, i) = Translation(w, i)
    OBVIOUS
  <2>1. i \in DOMAIN w
    BY DEF Spoken
  <2> QED
    BY <2>1, SpokenGrows, TranslationStays
<1>4. ASSUME ~Speaks(v, x.kind) PROVE Tells(v, s, u, <<>>)
  <2>1. Spoken(v, u) = Spoken(v, w)
    BY <1>4, SpokenGrows
  <2> HIDE DEF u
  <2> QED
    BY <1>0, <1>1, <1>2, <1>3, <2>1 DEF Tells
<1>5. ASSUME Speaks(v, x.kind), NEW e \in Events, e = Translation(u, Len(w) + 1)
      PROVE  Tells(v, Append(s, e), u, <<>>)
  <2>1. /\ Spoken(v, u) = Spoken(v, w) \cup {Len(w) + 1} /\ Cardinality(Spoken(v, u)) = n + 1
        /\ Rank(v, u, Len(w) + 1) = n + 1
    BY <1>5, SpokenGrows
  <2>2. /\ Len(Append(s, e)) = n + 1 /\ Append(s, e)[n + 1] = e
        /\ \A i \in 1..n : Append(s, e)[i] = s[i]
    BY <1>1, <1>2, Appended
  <2> HIDE DEF u, n
  <2>3. ASSUME NEW i \in Spoken(v, u) PROVE Append(s, e)[Rank(v, u, i)] = Translation(u, i)
    <3>1. CASE i \in Spoken(v, w)
      BY <1>1, <1>2, <1>3, <2>2, <3>1
    <3>2. CASE i = Len(w) + 1
      BY <1>5, <2>1, <2>2, <3>2
    <3> QED
      BY <2>1, <3>1, <3>2
  <2>4. Len(Append(s, e)) = Cardinality(Spoken(v, u)) + Len(<<>>)
    BY <1>0, <1>1, <2>1, <2>2
  <2> QED
    BY <1>0, <2>3, <2>4 DEF Tells
<1> QED
  BY <1>4, <1>5

\* What is said behind the stream joins the ending.
LEMMA TellsMore ==
    ASSUME NEW v, NEW T, NEW w \in Seq(T), NEW s \in Seq(Events), NEW e \in Seq(Events),
           NEW f \in Events, Tells(v, s, w, e)
    PROVE  Tells(v, Append(s, f), w, Append(e, f))
<1> DEFINE n == Cardinality(Spoken(v, w))
           t == Append(s, f)
           g == Append(e, f)
<1>1. n \in Nat /\ \A i \in Spoken(v, w) : Rank(v, w, i) \in 1..n
  BY SpokenFinite
<1>2. /\ Len(s) \in Nat /\ Len(t) = Len(s) + 1 /\ t[Len(s) + 1] = f
      /\ \A i \in 1..Len(s) : t[i] = s[i]
  BY Appended
<1>3. /\ Len(e) \in Nat /\ DOMAIN e = 1..Len(e) /\ Len(g) = Len(e) + 1 /\ DOMAIN g = 1..(Len(e) + 1)
      /\ g[Len(e) + 1] = f
      /\ \A i \in 1..Len(e) : g[i] = e[i]
  BY Appended
<1> HIDE DEF t, g
<1>4. /\ Len(s) = n + Len(e)
      /\ \A i \in Spoken(v, w) : s[Rank(v, w, i)] = Translation(w, i)
      /\ \A k \in DOMAIN e : s[n + k] = e[k]
  BY DEF Tells
<1> HIDE DEF n
<1>5. Len(t) = n + Len(g)
  BY <1>1, <1>2, <1>3, <1>4
<1>6. ASSUME NEW i \in Spoken(v, w) PROVE t[Rank(v, w, i)] = Translation(w, i)
  <2>1. Rank(v, w, i) \in 1..Len(s)
    BY <1>1, <1>3, <1>4
  <2> QED
    BY <1>2, <1>4, <2>1
<1>7. ASSUME NEW k \in DOMAIN g PROVE t[n + k] = g[k]
  <2>1. CASE k \in 1..Len(e)
    <3>1. n + k \in 1..Len(s)
      BY <1>1, <1>3, <1>4, <2>1
    <3> QED
      BY <1>2, <1>3, <1>4, <2>1, <3>1
  <2>2. CASE k = Len(e) + 1
    BY <1>1, <1>2, <1>3, <1>4, <2>2
  <2> QED
    BY <1>3, <2>1, <2>2
<1> QED
  BY <1>5, <1>6, <1>7 DEF Tells, t, g, n

\* The latest item of some kinds.
IsLatest(w, kinds, n) ==
    /\ n \in DOMAIN w /\ w[n].kind \in kinds
    /\ \A j \in DOMAIN w : w[j].kind \in kinds => j <= n

LEMMA MaxIs ==
    ASSUME NEW S \in SUBSET Nat, NEW m \in S, \A j \in S : j <= m
    PROVE  Max(S) = m
<1>1. \A j \in S : m >= j
  OBVIOUS
<1>2. \A n \in S : (\A j \in S : n >= j) => n = m
  BY <1>1
<1> QED
  BY <1>1, <1>2, Zenon DEF Max

LEMMA LatestIs ==
    ASSUME NEW T, NEW w \in Seq(T), NEW kinds, NEW n, IsLatest(w, kinds, n)
    PROVE  Latest(w, kinds) = n /\ Has(w, kinds)
<1> DEFINE S == {i \in DOMAIN w : w[i].kind \in kinds}
<1>1. S \in SUBSET Nat
  OBVIOUS
<1>2. n \in S /\ \A j \in S : j <= n
  BY DEF IsLatest
<1> HIDE DEF S
<1>3. Max(S) = n
  BY <1>1, <1>2, MaxIs
<1> QED
  BY <1>2, <1>3 DEF Latest, Has, S

LEMMA LatestGrows ==
    ASSUME NEW T, NEW w \in Seq(T), NEW x \in T, NEW kinds
    PROVE  /\ Has(Append(w, x), kinds) <=> Has(w, kinds) \/ x.kind \in kinds
           /\ x.kind \in kinds => IsLatest(Append(w, x), kinds, Len(w) + 1)
           /\ \A n : x.kind \notin kinds /\ IsLatest(w, kinds, n) =>
                  IsLatest(Append(w, x), kinds, n) /\ Append(w, x)[n] = w[n]
<1> DEFINE u == Append(w, x)
<1>1. /\ Len(w) \in Nat /\ DOMAIN w = 1..Len(w) /\ DOMAIN u = 1..(Len(w) + 1)
      /\ \A j \in 1..Len(w) : u[j] = w[j]
      /\ u[Len(w) + 1] = x
  BY Appended
<1> HIDE DEF u
<1>2. Has(u, kinds) <=> Has(w, kinds) \/ x.kind \in kinds
  <2>1. ASSUME NEW j \in DOMAIN w, w[j].kind \in kinds PROVE j \in DOMAIN u /\ u[j].kind \in kinds
    BY <1>1, <2>1
  <2>2. ASSUME NEW j \in DOMAIN u, u[j].kind \in kinds
        PROVE  x.kind \in kinds \/ (j \in DOMAIN w /\ w[j].kind \in kinds)
    BY <1>1, <2>2
  <2>3. Len(w) + 1 \in DOMAIN u
    BY <1>1
  <2> QED
    BY <1>1, <2>1, <2>2, <2>3 DEF Has
<1>3. x.kind \in kinds => IsLatest(u, kinds, Len(w) + 1)
  BY <1>1 DEF IsLatest
<1>4. ASSUME NEW n, x.kind \notin kinds, IsLatest(w, kinds, n)
      PROVE  IsLatest(u, kinds, n) /\ u[n] = w[n]
  BY <1>1, <1>4 DEF IsLatest
<1> QED
  BY <1>2, <1>3, <1>4 DEF u

-----------------------------------------------------------------------------
(* What a call keeps of its stream.  A block in progress holds everything  *)
(* since its start, the index counts the calls, Gemini's report and finish *)
(* reason are the latest on the wire; and what was sent is what the wire   *)
(* said so far, in every place up to the one where the channel is closed.  *)
OpenBlocks(c) ==
    \A b \in DOMAIN tools[c] : \E o \in DOMAIN wire[c] :
        /\ wire[c][o] = Item("start", b)
        /\ \A j \in DOMAIN wire[c] : wire[c][j] = Item("start", b) => j <= o
        /\ tools[c][b] = {j \in o..Len(wire[c]) : wire[c][j].block = b}

CallsCounted(c) == ncalls[c] = Cardinality({j \in DOMAIN wire[c] : wire[c][j].kind = "call"})

ReportKept(c) ==
    vendor = "vertex" =>
        IF Has(wire[c], {"report"}) THEN IsLatest(wire[c], {"report"}, latest[c])
        ELSE latest[c] = 0

ReasonKept(c) ==
    /\ blocked[c] <=> Has(wire[c], {"prompt-blocked"})
    /\ IF vendor = "vertex" /\ Has(wire[c], Finishes)
         THEN \E n : IsLatest(wire[c], Finishes, n) /\ finish[c] = wire[c][n].kind
         ELSE finish[c] = "none"

Broke(c) == Has(wire[c], {"broken"})

Told(c) ==
    /\ pc[c] = "new" => wire[c] = <<>> /\ sent[c] = <<>>
    /\ pc[c] \in {"reading", "clean"} => ~Broke(c) /\ Tells(vendor, sent[c], wire[c], <<>>)
    /\ pc[c] = "error" \/ (pc[c] \in {"mark", "claim"} /\ vendor # "bedrock") =>
         Broke(c) /\ Tells(vendor, sent[c], wire[c], <<>>)
    /\ pc[c] = "done" =>
         ~Broke(c) /\ Tells(vendor, sent[c], wire[c], Usage(vendor, wire[c]))
    /\ pc[c] = "closed" => Tells(vendor, sent[c], wire[c], Ending(vendor, wire[c]))

WireKept(c) == OpenBlocks(c) /\ CallsCounted(c) /\ ReportKept(c) /\ ReasonKept(c)

ToldInv == \A c \in Chats : WireKept(c) /\ Told(c)

-----------------------------------------------------------------------------
\* The stream of call c has delivered x.
Grows(c, x) ==
    /\ x \in Items \cup {Broken, EOF} /\ vendor' = vendor
    /\ wire'[c] = Append(wire[c], x)

\* What stays of the bookkeeping when x is none of its business.
LEMMA BlocksStay ==
    ASSUME TypeOK, NEW c \in Chats, NEW x, Grows(c, x), OpenBlocks(c),
           DOMAIN tools'[c] \subseteq DOMAIN tools[c],
           \A b \in DOMAIN tools'[c] : tools'[c][b] = tools[c][b],
           x.block \notin DOMAIN tools'[c]
    PROVE  OpenBlocks(c)'
<1> DEFINE w == wire[c]
           n == Len(wire[c])
<1>1. /\ n \in Nat /\ DOMAIN w = 1..n /\ DOMAIN wire'[c] = 1..(n + 1) /\ Len(wire'[c]) = n + 1
      /\ \A j \in 1..n : wire'[c][j] = w[j]
      /\ wire'[c][n + 1] = x
  BY Appended DEF TypeOK, Grows
<1>2. PICK W : W = wire'[c]
  OBVIOUS
<1>3. PICK D : D = tools'[c]
  OBVIOUS
<1> SUFFICES ASSUME NEW b \in DOMAIN D
             PROVE  \E o \in DOMAIN W :
                      /\ W[o] = Item("start", b)
                      /\ \A j \in DOMAIN W : W[j] = Item("start", b) => j <= o
                      /\ D[b] = {j \in o..Len(W) : W[j].block = b}
  BY <1>2, <1>3 DEF OpenBlocks
<1>4. b \in DOMAIN tools[c] /\ D[b] = tools[c][b] /\ x.block # b
  BY <1>3
<1>5. PICK o \in DOMAIN w :
         /\ w[o] = Item("start", b)
         /\ \A j \in DOMAIN w : w[j] = Item("start", b) => j <= o
         /\ tools[c][b] = {j \in o..n : w[j].block = b}
  BY <1>4 DEF OpenBlocks
<1>6. x # Item("start", b)
  BY <1>4 DEF Item
<1> HIDE DEF w, n
<1>7. o \in DOMAIN W /\ W[o] = Item("start", b)
      /\ \A j \in DOMAIN W : W[j] = Item("start", b) => j <= o
  BY <1>1, <1>2, <1>5, <1>6
<1>8. {j \in o..Len(W) : W[j].block = b} = {j \in o..n : w[j].block = b}
  BY <1>1, <1>2, <1>4, <1>5
<1> QED
  BY <1>4, <1>5, <1>7, <1>8

LEMMA CallsStay ==
    ASSUME TypeOK, NEW c \in Chats, NEW x, Grows(c, x), CallsCounted(c)
    PROVE  /\ x.kind # "call" /\ ncalls'[c] = ncalls[c] => CallsCounted(c)'
           /\ x.kind = "call" /\ ncalls'[c] = ncalls[c] + 1 => CallsCounted(c)'
<1> DEFINE w == wire[c]
           n == Len(wire[c])
           S == {j \in DOMAIN w : w[j].kind = "call"}
<1>1. /\ n \in Nat /\ DOMAIN w = 1..n /\ DOMAIN wire'[c] = 1..(n + 1)
      /\ \A j \in 1..n : wire'[c][j] = w[j]
      /\ wire'[c][n + 1] = x
  BY Appended DEF TypeOK, Grows
<1>2. PICK W : W = wire'[c]
  OBVIOUS
<1>3. IsFiniteSet(S)
  <2>1. S \in SUBSET (1..n) /\ IsFiniteSet(1..n)
    BY <1>1, FS_Interval
  <2> HIDE DEF S
  <2> QED
    BY <2>1, FS_Subset
<1>4. CallsCounted(c)' <=> ncalls'[c] = Cardinality({j \in DOMAIN W : W[j].kind = "call"})
  BY <1>2 DEF CallsCounted
<1>5. ncalls[c] = Cardinality(S)
  BY DEF CallsCounted
<1>6. x.kind # "call" => {j \in DOMAIN W : W[j].kind = "call"} = S
  BY <1>1, <1>2
<1>7. x.kind = "call" => {j \in DOMAIN W : W[j].kind = "call"} = S \cup {n + 1} /\ n + 1 \notin S
  BY <1>1, <1>2
<1> HIDE DEF S
<1>8. n + 1 \notin S => Cardinality(S \cup {n + 1}) = Cardinality(S) + 1
  BY <1>3, FS_AddElement
<1> QED
  BY <1>4, <1>5, <1>6, <1>7, <1>8

LEMMA ReportStays ==
    ASSUME TypeOK, NEW c \in Chats, NEW x, Grows(c, x), ReportKept(c)
    PROVE  /\ x.kind # "report" /\ latest'[c] = latest[c] => ReportKept(c)'
           /\ x.kind = "report" /\ latest'[c] = Len(wire[c]) + 1 => ReportKept(c)'
           /\ vendor # "vertex" => ReportKept(c)'
<1>1. /\ wire[c] \in Seq(Items \cup {Broken, EOF}) /\ x \in Items \cup {Broken, EOF}
      /\ wire'[c] = Append(wire[c], x) /\ vendor' = vendor
  BY DEF TypeOK, Grows
<1> QED
  BY <1>1, LatestGrows DEF ReportKept

LEMMA ReasonStays ==
    ASSUME TypeOK, NEW c \in Chats, NEW x, Grows(c, x), ReasonKept(c)
    PROVE  /\ x.kind \notin Finishes \cup {"prompt-blocked"} \/ (x.kind \in Finishes /\ vendor # "vertex") =>
                (finish'[c] = finish[c] /\ blocked'[c] = blocked[c] => ReasonKept(c)')
           /\ x.kind \in Finishes /\ finish'[c] = x.kind /\ vendor = "vertex" =>
                (blocked'[c] = blocked[c] => ReasonKept(c)')
           /\ x.kind = "prompt-blocked" =>
                (finish'[c] = finish[c] /\ blocked'[c] = TRUE => ReasonKept(c)')
<1>1. /\ wire[c] \in Seq(Items \cup {Broken, EOF}) /\ x \in Items \cup {Broken, EOF}
      /\ wire'[c] = Append(wire[c], x) /\ vendor' = vendor
      /\ wire'[c][Len(wire[c]) + 1] = x
  BY Appended DEF TypeOK, Grows
<1>2. "prompt-blocked" \notin Finishes
  BY DEF Finishes
<1>3. /\ Has(wire'[c], {"prompt-blocked"}) <=> Has(wire[c], {"prompt-blocked"}) \/ x.kind = "prompt-blocked"
      /\ Has(wire'[c], Finishes) <=> Has(wire[c], Finishes) \/ x.kind \in Finishes
      /\ x.kind \in Finishes => IsLatest(wire'[c], Finishes, Len(wire[c]) + 1)
      /\ \A n : x.kind \notin Finishes /\ IsLatest(wire[c], Finishes, n) =>
                  IsLatest(wire'[c], Finishes, n) /\ wire'[c][n] = wire[c][n]
  <2> DEFINE T == Items \cup {Broken, EOF}
  <2>1. wire[c] \in Seq(T) /\ x \in T /\ wire'[c] = Append(wire[c], x)
    BY <1>1
  <2> HIDE DEF T
  <2>2. ASSUME NEW kinds
        PROVE
          /\ Has(wire'[c], kinds) <=> Has(wire[c], kinds) \/ x.kind \in kinds
          /\ x.kind \in kinds => IsLatest(wire'[c], kinds, Len(wire[c]) + 1)
          /\ \A n : x.kind \notin kinds /\ IsLatest(wire[c], kinds, n) =>
                 IsLatest(wire'[c], kinds, n) /\ wire'[c][n] = wire[c][n]
    <3> DEFINE w == wire[c]
               u == wire'[c]
    <3>1. w \in Seq(T) /\ u = Append(w, x)
      BY <2>1
    <3> SUFFICES /\ Has(u, kinds) <=> Has(w, kinds) \/ x.kind \in kinds
                 /\ x.kind \in kinds => IsLatest(u, kinds, Len(w) + 1)
                 /\ \A n : x.kind \notin kinds /\ IsLatest(w, kinds, n) =>
                        IsLatest(u, kinds, n) /\ u[n] = w[n]
      OBVIOUS
    <3> HIDE DEF w, u
    <3> QED
      BY <2>1, <3>1, LatestGrows
  <2>3. x.kind \in {"prompt-blocked"} <=> x.kind = "prompt-blocked"
    OBVIOUS
  <2> QED
    BY <2>2, <2>3
<1>4. ReasonKept(c)' <=>
         /\ blocked'[c] <=> Has(wire'[c], {"prompt-blocked"})
         /\ IF vendor' = "vertex" /\ Has(wire'[c], Finishes)
              THEN \E n : IsLatest(wire'[c], Finishes, n) /\ finish'[c] = wire'[c][n].kind
              ELSE finish'[c] = "none"
  BY DEF ReasonKept
<1> QED
  BY <1>1, <1>2, <1>3, <1>4 DEF ReasonKept

\* The event of the item that came last.
LEMMA LastTranslation ==
    ASSUME NEW T, NEW w \in Seq(T), NEW x \in T
    PROVE  LET e == Translation(Append(w, x), Len(w) + 1)
           IN  /\ x.kind \notin {"stop", "call", "report"} => e = Event(x.kind, {Len(w) + 1}, 0)
               /\ x.kind = "report" => e = Event("usage", {Len(w) + 1}, 0)
               /\ x.kind = "call" =>
                    e = Event("calls", {Len(w) + 1},
                              Cardinality({j \in DOMAIN w : w[j].kind = "call"}))
<1> DEFINE u == Append(w, x)
           n == Len(w)
<1>1. /\ n \in Nat /\ DOMAIN w = 1..n
      /\ \A j \in 1..n : u[j] = w[j]
      /\ u[n + 1] = x
  BY Appended
<1> HIDE DEF u, n
<1>2. (n + 1) - 1 = n
  BY <1>1
<1>3. {j \in 1..n : u[j].kind = "call"} = {j \in DOMAIN w : w[j].kind = "call"}
  BY <1>1
<1> QED
  BY <1>1, <1>2, <1>3 DEF Translation, u, n

\* The call of a block that stops has the fragments since the block's start.
LEMMA StopTranslation ==
    ASSUME NEW T, NEW w \in Seq(T), NEW x \in T, x.kind = "stop",
           NEW o \in DOMAIN w, w[o] = Item("start", x.block),
           \A j \in DOMAIN w : w[j] = Item("start", x.block) => j <= o
    PROVE  Translation(Append(w, x), Len(w) + 1)
             = Event("calls", {j \in o..Len(w) : w[j].block = x.block}, 0)
<1> DEFINE u == Append(w, x)
           n == Len(w)
           S == {j \in 1..n : u[j] = Item("start", x.block)}
<1>1. /\ n \in Nat /\ DOMAIN w = 1..n
      /\ \A j \in 1..n : u[j] = w[j]
      /\ u[n + 1] = x
  BY Appended
<1> HIDE DEF u, n
<1>2. (n + 1) - 1 = n
  BY <1>1
<1>3. S \in SUBSET Nat /\ o \in S /\ \A j \in S : j <= o
  BY <1>1
<1> HIDE DEF S
<1>4. Opened(u, n + 1) = o
  <2>1. Max(S) = o
    BY <1>3, MaxIs
  <2> QED
    BY <1>1, <1>2, <2>1 DEF Opened, S
<1>5. {j \in 1..n : o <= j /\ u[j].block = x.block} = {j \in o..n : w[j].block = x.block}
  BY <1>1
<1> QED
  BY <1>1, <1>2, <1>4, <1>5 DEF Translation, u, n

\* In the loop a call says what the item wants said, no more and no less.
LEMMA ToldItem ==
    ASSUME TypeOK, NEW c \in Chats, NEW x \in Items, Grows(c, x), Told(c),
           pc[c] = "reading", pc'[c] = "reading",
           \/ ~Speaks(vendor, x.kind) /\ sent'[c] = sent[c]
           \/ /\ Speaks(vendor, x.kind)
              /\ \E e \in Events : /\ e = Translation(wire'[c], Len(wire[c]) + 1)
                                   /\ sent'[c] = Append(sent[c], e)
    PROVE  Told(c)'
<1> DEFINE T == Items \cup {Broken, EOF}
<1>1. /\ wire[c] \in Seq(T) /\ x \in T /\ wire'[c] = Append(wire[c], x)
      /\ vendor' = vendor /\ sent[c] \in Seq(Events)
  BY DEF TypeOK, Grows
<1>2. ~Broke(c) /\ Tells(vendor, sent[c], wire[c], <<>>)
  BY DEF Told
<1> HIDE DEF T
<1>3. ~Broke(c)'
  <2>1. x.kind \notin {"broken"}
    BY DEF Items, PlainItems, VertexItems, BlockItems, Item
  <2>2. Has(Append(wire[c], x), {"broken"}) <=> Has(wire[c], {"broken"}) \/ x.kind \in {"broken"}
    BY <1>1, LatestGrows
  <2> QED
    BY <1>1, <1>2, <2>1, <2>2 DEF Broke
<1>4. Tells(vendor, sent'[c], wire'[c], <<>>)
  BY <1>1, <1>2, TellsItem
<1> QED
  BY <1>1, <1>3, <1>4 DEF Told

(* An item of the stream leaves the books right and says what it must.     *)
LEMMA ItemTold ==
    ASSUME TypeOK, NEW c \in Chats, WireKept(c), Told(c),
           \/ \E b \in Blocks : BlockStart(c, b) \/ BlockFragment(c, b) \/ BlockStop(c, b)
           \/ Delta(c) \/ Report(c) \/ FunctionCall(c) \/ FinishReason(c)
           \/ PromptBlocked(c) \/ Other(c)
    PROVE  WireKept(c)' /\ Told(c)'
<1> DEFINE n == Len(wire[c])
<1>0. wire[c] \in Seq(Items \cup {Broken, EOF}) /\ n \in Nat /\ DOMAIN tools[c] \subseteq Blocks
      /\ 0 \notin Blocks /\ c \in DOMAIN tools
  BY AdaptersAssumption DEF TypeOK
<1>a. ASSUME NEW x, Take(c, x)
      PROVE  /\ x \in Items /\ Grows(c, x) /\ pc[c] = "reading" /\ pc'[c] = "reading"
             /\ n + 1 = Position(c) /\ Position(c) \in Nat /\ Delivers(c, x)
  BY <1>a, TakeTypes DEF Grows, Quiet, Position, TypeOK
<1>b. ASSUME NEW k, NEW b, b \in Blocks \/ b = 0
      PROVE  /\ Item(k, b).kind = k /\ Item(k, b).block = b
             /\ vendor = "vertex" /\ Item(k, b) \in Items => b = 0
             /\ k \in Finishes /\ Item(k, b) \in Items => (vendor = "vertex" <=> b = 0)
  <2>1. 0 \notin Blocks
    BY <1>0
  <2> QED
    BY <1>b, <2>1 DEF Item, Items, PlainItems, VertexItems, BlockItems, Finishes
<1>c. ASSUME NEW k, NEW f \in SUBSET Nat, NEW i \in Nat, k \in Kinds, Send(c, Event(k, f, i))
      PROVE  Event(k, f, i) \in Events /\ sent'[c] = Append(sent[c], Event(k, f, i))
  BY <1>c, EventIsEvent DEF Send, TypeOK
\* The books that an item does not touch.
<1>d. ASSUME NEW k, Take(c, Item(k, 0)), UNCHANGED tools
      PROVE  OpenBlocks(c)'
  <2>1. Item(k, 0).block \notin DOMAIN tools'[c]
    BY <1>0, <1>b, <1>d
  <2> QED
    BY <1>a, <1>d, <2>1, BlocksStay DEF WireKept
\* The books that only items of other kinds concern.
<1>e. ASSUME NEW x, Take(c, x), UNCHANGED <<ncalls, latest, finish, blocked>>,
             x.kind \notin {"call", "report", "prompt-blocked"},
             x.kind \in Finishes => vendor # "vertex"
      PROVE  CallsCounted(c)' /\ ReportKept(c)' /\ ReasonKept(c)'
  BY <1>a, <1>e, CallsStay, ReportStays, ReasonStays DEF WireKept
<1>1. ASSUME NEW b \in Blocks, BlockStart(c, b) PROVE WireKept(c)' /\ Told(c)'
  <2> DEFINE x == Item("start", b)
  <2>1. Take(c, x) /\ x.kind = "start" /\ x.block = b
    BY <1>1, <1>b DEF BlockStart
  <2>2. /\ UNCHANGED <<ncalls, latest, finish, blocked, sent>>
        /\ tools' = [tools EXCEPT ![c] = [d \in DOMAIN @ \cup {b} |->
                                              IF d = b THEN {Position(c)} ELSE @[d]]]
    BY <1>1 DEF BlockStart
  <2>3. "start" \notin {"stop", "call", "report", "prompt-blocked"} \cup Finishes /\ ~Speaks(vendor, "start")
    BY DEF Finishes, Speaks
  <2>4. Told(c)'
    BY <1>a, <2>1, <2>2, <2>3, ToldItem
  <2>5. OpenBlocks(c)'
    <3>1. PICK W, D : W = wire'[c] /\ D = tools'[c]
      OBVIOUS
    <3>2. /\ DOMAIN wire[c] = 1..n /\ DOMAIN W = 1..(n + 1) /\ Len(W) = n + 1
          /\ \A j \in 1..n : W[j] = wire[c][j]
          /\ W[n + 1] = x
      BY <1>0, <1>a, <2>1, <3>1, Appended DEF Grows
    <3>3. /\ DOMAIN D = DOMAIN tools[c] \cup {b} /\ D[b] = {n + 1}
          /\ \A d \in DOMAIN D : d # b => d \in DOMAIN tools[c] /\ D[d] = tools[c][d]
      BY <1>0, <1>a, <2>1, <2>2, <3>1
    <3> SUFFICES ASSUME NEW d \in DOMAIN D
                 PROVE  \E o \in DOMAIN W :
                          /\ W[o] = Item("start", d)
                          /\ \A j \in DOMAIN W : W[j] = Item("start", d) => j <= o
                          /\ D[d] = {j \in o..Len(W) : W[j].block = d}
      BY <3>1 DEF OpenBlocks
    <3>4. CASE d = b
      <4>1. W[n + 1] = Item("start", d) /\ n + 1 \in DOMAIN W
            /\ \A j \in DOMAIN W : j <= n + 1
        BY <1>0, <3>2, <3>4
      <4>2. D[d] = {j \in (n + 1)..Len(W) : W[j].block = d}
        BY <1>0, <2>1, <3>2, <3>3, <3>4
      <4> QED
        BY <4>1, <4>2
    <3>5. CASE d # b
      <4>1. PICK o \in DOMAIN wire[c] :
               /\ wire[c][o] = Item("start", d)
               /\ \A j \in DOMAIN wire[c] : wire[c][j] = Item("start", d) => j <= o
               /\ tools[c][d] = {j \in o..n : wire[c][j].block = d}
        BY <3>3, <3>5 DEF WireKept, OpenBlocks
      <4>2. x # Item("start", d)
        BY <3>5 DEF Item
      <4> HIDE DEF x
      <4>3. o \in DOMAIN W /\ W[o] = Item("start", d)
            /\ \A j \in DOMAIN W : W[j] = Item("start", d) => j <= o
        BY <1>0, <3>2, <4>1, <4>2
      <4>4. {j \in o..Len(W) : W[j].block = d} = {j \in o..n : wire[c][j].block = d}
        BY <1>0, <2>1, <3>2, <3>5, <4>1
      <4> QED
        BY <3>3, <3>5, <4>1, <4>3, <4>4
    <3> QED
      BY <3>4, <3>5
  <2> QED
    BY <1>e, <2>1, <2>2, <2>3, <2>4, <2>5 DEF WireKept
<1>2. ASSUME NEW b \in Blocks, BlockFragment(c, b) PROVE WireKept(c)' /\ Told(c)'
  <2> DEFINE x == Item("fragment", b)
  <2>1. Take(c, x) /\ x.kind = "fragment" /\ x.block = b
    BY <1>2, <1>b DEF BlockFragment
  <2>2. /\ UNCHANGED <<ncalls, latest, finish, blocked, sent>>
        /\ tools' = [tools EXCEPT ![c][b] = @ \cup {Position(c)}]
    BY <1>2 DEF BlockFragment
  <2>3. "fragment" \notin {"stop", "call", "report", "prompt-blocked"} \cup Finishes
        /\ ~Speaks(vendor, "fragment")
    BY DEF Finishes, Speaks
  <2>4. Told(c)'
    BY <1>a, <2>1, <2>2, <2>3, ToldItem
  <2>5. OpenBlocks(c)'
    <3>1. PICK W, D : W = wire'[c] /\ D = tools'[c]
      OBVIOUS
    <3>2. /\ DOMAIN wire[c] = 1..n /\ DOMAIN W = 1..(n + 1) /\ Len(W) = n + 1
          /\ \A j \in 1..n : W[j] = wire[c][j]
          /\ W[n + 1] = x
      BY <1>0, <1>a, <2>1, <3>1, Appended DEF Grows
    <3>3. b \in DOMAIN tools[c]
      BY <1>a, <2>1 DEF Delivers
    <3>4. /\ DOMAIN D = DOMAIN tools[c] /\ D[b] = tools[c][b] \cup {n + 1}
          /\ \A d \in DOMAIN D : d # b => D[d] = tools[c][d]
      BY <1>0, <1>a, <2>1, <2>2, <3>1, <3>3
    <3> SUFFICES ASSUME NEW d \in DOMAIN D
                 PROVE  \E o \in DOMAIN W :
                          /\ W[o] = Item("start", d)
                          /\ \A j \in DOMAIN W : W[j] = Item("start", d) => j <= o
                          /\ D[d] = {j \in o..Len(W) : W[j].block = d}
      BY <3>1 DEF OpenBlocks
    <3>5. PICK o \in DOMAIN wire[c] :
             /\ wire[c][o] = Item("start", d)
             /\ \A j \in DOMAIN wire[c] : wire[c][j] = Item("start", d) => j <= o
             /\ tools[c][d] = {j \in o..n : wire[c][j].block = d}
      BY <3>4 DEF WireKept, OpenBlocks
    <3>6. x # Item("start", d)
      BY <2>1 DEF Item
    <3> HIDE DEF x
    <3>7. o \in DOMAIN W /\ W[o] = Item("start", d)
          /\ \A j \in DOMAIN W : W[j] = Item("start", d) => j <= o
      BY <1>0, <3>2, <3>5, <3>6
    <3>8. CASE d = b
      <4>1. {j \in o..Len(W) : W[j].block = d} = {j \in o..n : wire[c][j].block = d} \cup {n + 1}
        BY <1>0, <2>1, <3>2, <3>5, <3>8
      <4> QED
        BY <3>4, <3>5, <3>7, <3>8, <4>1
    <3>9. CASE d # b
      <4>1. W[n + 1].block # d /\ \A j \in 1..n : W[j].block = wire[c][j].block
        BY <2>1, <3>2, <3>9
      <4>2. {j \in o..Len(W) : W[j].block = d} = {j \in o..n : wire[c][j].block = d}
        <5>1. Len(W) = n + 1 /\ o..(n + 1) = (o..n) \cup {n + 1} /\ o..n \subseteq 1..n
          BY <1>0, <3>2, <3>5
        <5> QED
          BY <4>1, <5>1
      <4> QED
        BY <3>4, <3>5, <3>7, <3>9, <4>2
    <3> QED
      BY <3>8, <3>9
  <2> QED
    BY <1>e, <2>1, <2>2, <2>3, <2>4, <2>5 DEF WireKept
<1>3. ASSUME NEW b \in Blocks, BlockStop(c, b) PROVE WireKept(c)' /\ Told(c)'
  <2> DEFINE x == Item("stop", b)
  <2>1. Take(c, x) /\ x.kind = "stop" /\ x.block = b /\ b # 0
    BY <1>0, <1>3, <1>b DEF BlockStop
  <2>2. /\ UNCHANGED <<ncalls, latest, finish, blocked>> /\ Send(c, Event("calls", tools[c][b], 0))
        /\ tools' = [tools EXCEPT ![c] = [d \in DOMAIN @ \ {b} |-> @[d]]]
    BY <1>3 DEF BlockStop
  <2>3. x \in Items /\ Grows(c, x) /\ pc[c] = "reading" /\ pc'[c] = "reading" /\ Delivers(c, x)
    BY <1>a, <2>1
  <2>4. vendor # "vertex" /\ b \in DOMAIN tools[c] /\ Speaks(vendor, "stop")
    BY <1>b, <2>1, <2>3 DEF Delivers, Speaks
  <2> HIDE DEF x
  <2>5. PICK o \in DOMAIN wire[c] :
           /\ wire[c][o] = Item("start", b)
           /\ \A j \in DOMAIN wire[c] : wire[c][j] = Item("start", b) => j <= o
           /\ tools[c][b] = {j \in o..n : wire[c][j].block = b}
    BY <2>4 DEF WireKept, OpenBlocks
  <2>6. Event("calls", tools[c][b], 0) = Translation(wire'[c], n + 1)
    <3>1. x \in Items \cup {Broken, EOF} /\ wire'[c] = Append(wire[c], x)
      BY <2>3 DEF Grows
    <3>2. /\ wire[c][o] = Item("start", x.block)
          /\ \A j \in DOMAIN wire[c] : wire[c][j] = Item("start", x.block) => j <= o
      BY <2>1, <2>5
    <3>3. Translation(Append(wire[c], x), Len(wire[c]) + 1)
            = Event("calls", {j \in o..Len(wire[c]) : wire[c][j].block = x.block}, 0)
      BY <1>0, <2>1, <3>1, <3>2, StopTranslation
    <3> QED
      BY <2>1, <2>5, <3>1, <3>3
  <2>7. Event("calls", tools[c][b], 0) \in Events
        /\ sent'[c] = Append(sent[c], Event("calls", tools[c][b], 0))
    BY <1>c, <2>2, <2>4 DEF TypeOK, Kinds
  <2>8. Told(c)'
    BY <2>1, <2>3, <2>4, <2>6, <2>7, ToldItem
  <2>9. OpenBlocks(c)'
    <3>1. DOMAIN tools'[c] = DOMAIN tools[c] \ {b}
          /\ \A d \in DOMAIN tools'[c] : tools'[c][d] = tools[c][d]
      BY <1>0, <2>2
    <3> QED
      BY <2>1, <2>3, <3>1, BlocksStay DEF WireKept
  <2> QED
    BY <1>e, <2>1, <2>2, <2>4, <2>8, <2>9 DEF WireKept
<1>4. CASE Delta(c)
  <2>1. PICK k \in {"text", "thought"} : Take(c, Item(k, 0)) /\ Send(c, Event(k, {Position(c)}, 0))
    BY <1>4 DEF Delta
  <2> DEFINE x == Item(k, 0)
  <2>2. Take(c, x) /\ x.kind = k
    BY <2>1, <1>b
  <2> HIDE DEF x
  <2>3. x \in Items /\ Grows(c, x) /\ pc[c] = "reading" /\ pc'[c] = "reading"
        /\ n + 1 = Position(c) /\ Position(c) \in Nat
    BY <1>a, <2>2
  <2>4. k \notin {"stop", "call", "report", "prompt-blocked"} \cup Finishes /\ Speaks(vendor, k)
        /\ k \in Kinds
    BY DEF Finishes, Speaks, Kinds
  <2>5. Event(k, {n + 1}, 0) \in Events /\ sent'[c] = Append(sent[c], Event(k, {n + 1}, 0))
    BY <1>c, <2>1, <2>3, <2>4
  <2>6. Event(k, {n + 1}, 0) = Translation(wire'[c], n + 1)
    BY <1>0, <2>2, <2>3, <2>4, LastTranslation, ZenonT(30) DEF Grows
  <2>7. Told(c)'
    BY <2>2, <2>3, <2>4, <2>5, <2>6, ToldItem
  <2>8. UNCHANGED <<tools, ncalls, latest, finish, blocked>>
    BY <1>4 DEF Delta
  <2>9. WireKept(c)'
    BY <1>d, <1>e, <2>1, <2>2, <2>4, <2>8 DEF WireKept, x
  <2> QED
    BY <2>7, <2>9
<1>5. CASE Report(c)
  <2> DEFINE x == Item("report", 0)
  <2>1. Take(c, x) /\ x.kind = "report"
    BY <1>5, <1>b DEF Report
  <2>2. UNCHANGED <<tools, ncalls, finish, blocked>>
    BY <1>5 DEF Report
  <2>3. OpenBlocks(c)'
    BY <1>d, <2>1, <2>2
  <2> HIDE DEF x
  <2>4. x \in Items /\ Grows(c, x) /\ pc[c] = "reading" /\ pc'[c] = "reading"
        /\ n + 1 = Position(c) /\ Position(c) \in Nat
    BY <1>a, <2>1
  <2>5. "report" \notin {"call", "prompt-blocked"} \cup Finishes /\ "usage" \in Kinds
        /\ (Speaks(vendor, "report") <=> vendor # "vertex")
    BY DEF Finishes, Speaks, Kinds
  <2>6. CallsCounted(c)' /\ ReasonKept(c)'
    BY <2>1, <2>2, <2>4, <2>5, CallsStay, ReasonStays DEF WireKept
  <2>7. CASE vendor = "vertex"
    <3>1. latest'[c] = n + 1 /\ sent'[c] = sent[c]
      BY <1>5, <2>4, <2>7 DEF Report, TypeOK
    <3>2. Told(c)'
      BY <2>1, <2>4, <2>5, <2>7, <3>1, ToldItem
    <3>3. ReportKept(c)'
      BY <2>1, <2>4, <3>1, ReportStays DEF WireKept
    <3> QED
      BY <2>3, <2>6, <3>2, <3>3 DEF WireKept
  <2>8. CASE vendor # "vertex"
    <3>1. Send(c, Event("usage", {n + 1}, 0))
      BY <1>5, <2>4, <2>8 DEF Report
    <3>2. Event("usage", {n + 1}, 0) \in Events /\ sent'[c] = Append(sent[c], Event("usage", {n + 1}, 0))
      BY <1>c, <2>4, <2>5, <3>1
    <3>3. Event("usage", {n + 1}, 0) = Translation(wire'[c], n + 1)
      BY <1>0, <2>1, <2>4, LastTranslation, ZenonT(30) DEF Grows
    <3>4. Told(c)'
      BY <2>1, <2>4, <2>5, <2>8, <3>2, <3>3, ToldItem
    <3>5. ReportKept(c)'
      BY <2>4, <2>8, ReportStays DEF WireKept
    <3> QED
      BY <2>3, <2>6, <3>4, <3>5 DEF WireKept
  <2> QED
    BY <2>7, <2>8
<1>6. CASE FunctionCall(c)
  <2> DEFINE x == Item("call", 0)
  <2>1. Take(c, x) /\ x.kind = "call"
    BY <1>6, <1>b DEF FunctionCall
  <2>2. UNCHANGED <<tools, latest, finish, blocked>> /\ ncalls'[c] = ncalls[c] + 1
    BY <1>6 DEF FunctionCall, NextIndex, TypeOK
  <2>3. OpenBlocks(c)'
    BY <1>d, <2>1, <2>2
  <2> HIDE DEF x
  <2>4. x \in Items /\ Grows(c, x) /\ pc[c] = "reading" /\ pc'[c] = "reading"
        /\ n + 1 = Position(c) /\ Position(c) \in Nat
    BY <1>a, <2>1
  <2>5. "call" \notin {"report", "prompt-blocked"} \cup Finishes /\ "calls" \in Kinds
        /\ Speaks(vendor, "call")
    BY DEF Finishes, Speaks, Kinds
  <2>6. CallsCounted(c)' /\ ReportKept(c)' /\ ReasonKept(c)'
    BY <2>1, <2>2, <2>4, <2>5, CallsStay, ReportStays, ReasonStays DEF WireKept
  <2>7. /\ Event("calls", {n + 1}, ncalls[c]) \in Events
        /\ sent'[c] = Append(sent[c], Event("calls", {n + 1}, ncalls[c]))
    <3>1. Send(c, Event("calls", {n + 1}, ncalls[c]))
      BY <1>6, <2>4 DEF FunctionCall
    <3>2. ncalls[c] \in Nat /\ {n + 1} \in SUBSET Nat
      BY <2>4 DEF TypeOK
    <3> QED
      BY <1>c, <2>5, <3>1, <3>2
  <2>8. Event("calls", {n + 1}, ncalls[c]) = Translation(wire'[c], n + 1)
    <3>1. x \in Items \cup {Broken, EOF} /\ wire'[c] = Append(wire[c], x)
      BY <2>4 DEF Grows
    <3>2. Translation(Append(wire[c], x), Len(wire[c]) + 1)
            = Event("calls", {Len(wire[c]) + 1}, Cardinality({j \in DOMAIN wire[c] : wire[c][j].kind = "call"}))
      BY <1>0, <2>1, <3>1, LastTranslation
    <3> QED
      BY <3>1, <3>2 DEF WireKept, CallsCounted
  <2>9. Told(c)'
    BY <2>1, <2>4, <2>5, <2>7, <2>8, ToldItem
  <2> QED
    BY <2>3, <2>6, <2>9 DEF WireKept
<1>7. CASE FinishReason(c)
  <2>1. PICK k \in Finishes : Take(c, Item(k, 0)) /\ finish' = [finish EXCEPT ![c] = k]
    BY <1>7 DEF FinishReason
  <2> DEFINE x == Item(k, 0)
  <2>2. Take(c, x) /\ x.kind = k /\ UNCHANGED <<tools, ncalls, latest, blocked, sent>>
        /\ finish'[c] = k
    BY <1>7, <1>b, <2>1 DEF FinishReason, TypeOK
  <2>3. OpenBlocks(c)'
    BY <1>d, <2>1, <2>2
  <2>4. vendor = "vertex"
    BY <1>a, <1>b, <2>1
  <2> HIDE DEF x
  <2>5. x \in Items /\ Grows(c, x) /\ pc[c] = "reading" /\ pc'[c] = "reading"
    BY <1>a, <2>2
  <2>6. k \notin {"call", "report", "prompt-blocked"} /\ ~Speaks(vendor, k)
    BY <2>4 DEF Finishes, Speaks
  <2>7. Told(c)'
    BY <2>2, <2>5, <2>6, ToldItem
  <2>8. CallsCounted(c)' /\ ReportKept(c)' /\ ReasonKept(c)'
    BY <2>1, <2>2, <2>4, <2>5, <2>6, CallsStay, ReportStays, ReasonStays DEF WireKept
  <2> QED
    BY <2>3, <2>7, <2>8 DEF WireKept
<1>8. CASE PromptBlocked(c)
  <2> DEFINE x == Item("prompt-blocked", 0)
  <2>1. Take(c, x) /\ x.kind = "prompt-blocked" /\ UNCHANGED <<tools, ncalls, latest, finish, sent>>
        /\ blocked'[c] = TRUE
    BY <1>8, <1>b DEF PromptBlocked, TypeOK
  <2>2. OpenBlocks(c)'
    BY <1>d, <2>1
  <2> HIDE DEF x
  <2>3. x \in Items /\ Grows(c, x) /\ pc[c] = "reading" /\ pc'[c] = "reading"
    BY <1>a, <2>1
  <2>4. "prompt-blocked" \notin {"call", "report"} /\ ~Speaks(vendor, "prompt-blocked")
    BY DEF Speaks
  <2>5. Told(c)'
    BY <2>1, <2>3, <2>4, ToldItem
  <2>6. CallsCounted(c)' /\ ReportKept(c)' /\ ReasonKept(c)'
    BY <2>1, <2>3, <2>4, CallsStay, ReportStays, ReasonStays DEF WireKept
  <2> QED
    BY <2>2, <2>5, <2>6 DEF WireKept
<1>9. CASE Other(c)
  <2> DEFINE x == Item("other", 0)
  <2>1. Take(c, x) /\ x.kind = "other" /\ UNCHANGED <<tools, ncalls, latest, finish, blocked, sent>>
    BY <1>9, <1>b DEF Other
  <2>2. OpenBlocks(c)'
    BY <1>d, <2>1
  <2>3. "other" \notin {"call", "report", "prompt-blocked"} \cup Finishes /\ ~Speaks(vendor, "other")
    BY DEF Finishes, Speaks
  <2> HIDE DEF x
  <2>4. Told(c)'
    BY <1>a, <2>1, <2>3, ToldItem
  <2> QED
    BY <1>e, <2>1, <2>2, <2>3, <2>4 DEF WireKept
<1>10. CASE \E b \in Blocks : BlockStart(c, b) \/ BlockFragment(c, b) \/ BlockStop(c, b)
  BY <1>10, <1>1, <1>2, <1>3, Zenon
<1> QED
  BY <1>10, <1>4, <1>5, <1>6, <1>7, <1>8, <1>9, Zenon

\* The verdict on the turn is the one that can be read off the wire.
LEMMA VerdictIsOutcome ==
    ASSUME TypeOK, NEW c \in Chats, ReasonKept(c)
    PROVE  Verdict(c) = Outcome(vendor, wire[c]) /\ Verdict(c) \in {"error", "length", "done"}
<1>0. Verdict(c) \in {"error", "length", "done"}
  BY DEF Verdict
<1>1. CASE vendor = "vertex" /\ Has(wire[c], Finishes)
  <2>1. PICK n : IsLatest(wire[c], Finishes, n) /\ finish[c] = wire[c][n].kind
    BY <1>1 DEF ReasonKept
  <2>2. Latest(wire[c], Finishes) = n
    BY <2>1, LatestIs DEF TypeOK
  <2>3. finish[c] \in {"stop", "length", "safety"}
    BY <2>1 DEF IsLatest, Finishes
  <2>4. Outcome(vendor, wire[c]) =
          IF blocked[c] THEN "error"
          ELSE [stop |-> "done", length |-> "length", safety |-> "error"][finish[c]]
    BY <1>1, <2>1, <2>2 DEF Outcome, ReasonKept
  <2> QED
    BY <1>0, <2>3, <2>4 DEF Verdict
<1>2. CASE ~(vendor = "vertex" /\ Has(wire[c], Finishes))
  BY <1>0, <1>2 DEF Verdict, Outcome, ReasonKept
<1> QED
  BY <1>1, <1>2

\* The usage that Gemini's adapter reports last is the latest on the wire.
LEMMA UsageIsLatest ==
    ASSUME TypeOK, NEW c \in Chats, ReportKept(c)
    PROVE  /\ Usage(vendor, wire[c]) \in Seq(Events)
           /\ vendor # "vertex" => Usage(vendor, wire[c]) = <<>>
           /\ vendor = "vertex" =>
                IF latest[c] = 0 THEN Usage(vendor, wire[c]) = <<>>
                ELSE /\ Event("usage", {latest[c]}, 0) \in Events
                     /\ Usage(vendor, wire[c]) = Append(<<>>, Event("usage", {latest[c]}, 0))
<1>1. Event("usage", {latest[c]}, 0) \in Events
  BY EventIsEvent DEF TypeOK, Kinds
<1>2. CASE vendor = "vertex" /\ Has(wire[c], {"report"})
  <2>1. IsLatest(wire[c], {"report"}, latest[c])
    BY <1>2 DEF ReportKept
  <2>2. Latest(wire[c], {"report"}) = latest[c] /\ latest[c] # 0
    <3>1. wire[c] \in Seq(Items \cup {Broken, EOF})
      BY DEF TypeOK
    <3>2. latest[c] # 0
      BY <2>1, <3>1, Appended DEF IsLatest
    <3> QED
      BY <2>1, <3>1, <3>2, LatestIs
  <2>3. Usage(vendor, wire[c]) = <<Event("usage", {latest[c]}, 0)>>
    BY <1>2, <2>2 DEF Usage
  <2>4. \A e \in Events : <<e>> \in Seq(Events) /\ Append(<<>>, e) = <<e>>
    OBVIOUS
  <2>5. /\ Usage(vendor, wire[c]) \in Seq(Events)
        /\ Usage(vendor, wire[c]) = Append(<<>>, Event("usage", {latest[c]}, 0))
    BY <1>1, <2>3, <2>4
  <2> QED
    BY <1>1, <1>2, <2>2, <2>5
<1>3. CASE ~(vendor = "vertex" /\ Has(wire[c], {"report"}))
  <2>1. Usage(vendor, wire[c]) = <<>>
    BY <1>3 DEF Usage
  <2>2. vendor = "vertex" => latest[c] = 0
    BY <1>3 DEF ReportKept
  <2> QED
    BY <2>1, <2>2
<1> QED
  BY <1>2, <1>3

\* The end of the stream is no business of the books.
LEMMA WireEnds ==
    ASSUME TypeOK, NEW c \in Chats, WireKept(c), Told(c), NEW x \in {Broken, EOF},
           pc[c] = "reading", wire' = [wire EXCEPT ![c] = Append(@, x)],
           UNCHANGED <<vendor, tools, ncalls, latest, finish, blocked, sent>>
    PROVE  /\ WireKept(c)' /\ Tells(vendor, sent[c], wire[c], <<>>)'
           /\ Broke(c)' <=> x = Broken
<1>1. Grows(c, x) /\ wire[c] \in Seq(Items \cup {Broken, EOF}) /\ sent[c] \in Seq(Events)
      /\ x \in Items \cup {Broken, EOF}
  BY DEF Grows, TypeOK
<1>2. /\ x.block = 0 /\ x.kind \notin {"call", "report", "prompt-blocked"} \cup Finishes
      /\ ~Speaks(vendor, x.kind)
      /\ x.kind = "broken" <=> x = Broken
  BY DEF Broken, EOF, Item, Finishes, Speaks
<1>3. x.block \notin DOMAIN tools'[c] /\ DOMAIN tools'[c] = DOMAIN tools[c]
      /\ \A b \in DOMAIN tools'[c] : tools'[c][b] = tools[c][b]
  BY <1>2, AdaptersAssumption DEF TypeOK
<1>4. WireKept(c)'
  BY <1>1, <1>2, <1>3, BlocksStay, CallsStay, ReportStays, ReasonStays DEF WireKept
<1>5. ~Broke(c) /\ Tells(vendor, sent[c], wire[c], <<>>) /\ wire'[c] = Append(wire[c], x)
  BY <1>1 DEF Told, Grows
<1>6. Tells(vendor, sent[c], wire'[c], <<>>)
  <2> DEFINE T == Items \cup {Broken, EOF}
  <2>1. wire[c] \in Seq(T) /\ x \in T
    BY <1>1
  <2> HIDE DEF T
  <2>2. Tells(vendor, sent[c], Append(wire[c], x), <<>>)
    BY <1>1, <1>2, <1>5, <2>1, TellsItem
  <2> QED
    BY <1>5, <2>2
<1>7. Broke(c)' <=> x = Broken
  <2>1. Has(Append(wire[c], x), {"broken"}) <=> Has(wire[c], {"broken"}) \/ x.kind \in {"broken"}
    BY <1>1, LatestGrows
  <2> QED
    BY <1>2, <1>5, <2>1 DEF Broke
<1> QED
  BY <1>4, <1>6, <1>7

(* The end of a call: its last report, the verdict or the error.           *)
LEMMA EndTold ==
    ASSUME TypeOK, NEW c \in Chats, WireKept(c), Told(c),
           \/ Refuse(c) \/ Open(c) \/ OpenFails(c) \/ StreamFails(c) \/ StreamEnds(c)
           \/ SetConnected(c) \/ SendUsage(c) \/ SendVerdict(c) \/ SendError(c)
           \/ Mark(c) \/ Claim(c)
    PROVE  WireKept(c)' /\ Told(c)'
<1>a. ASSUME UNCHANGED <<vendor, wire, tools, ncalls, latest, finish, blocked>>
      PROVE  WireKept(c)' /\ (Broke(c)' <=> Broke(c))
  BY <1>a DEF WireKept, OpenBlocks, CallsCounted, ReportKept, ReasonKept, Broke
<1>b. /\ sent[c] \in Seq(Events) /\ wire[c] \in Seq(Items \cup {Broken, EOF})
      /\ vendor = "bedrock" => vendor # "vertex"
      /\ MessagesAPI => vendor # "vertex" /\ vendor # "bedrock"
  BY DEF TypeOK, MessagesAPI
<1>c. /\ <<>> \in Seq(Events)
      /\ \A e : Append(<<>>, e) = <<e>>
  OBVIOUS
<1>d. ASSUME NEW k \in Kinds, Send(c, Event(k, {}, 0))
      PROVE  Event(k, {}, 0) \in Events /\ sent'[c] = Append(sent[c], Event(k, {}, 0))
  BY <1>d, EventIsEvent DEF Send, TypeOK
<1>1. CASE Refuse(c) \/ OpenFails(c)
  <2>1. UNCHANGED <<vendor, wire, tools, ncalls, latest, finish, blocked>>
        /\ (pc'[c] = "returned" \/ (pc'[c] = "mark" /\ vendor' = "bedrock"))
    BY <1>1 DEF Refuse, OpenFails, gotVars, TypeOK
  <2> QED
    BY <1>a, <2>1 DEF Told
<1>2. CASE Open(c)
  <2>1. UNCHANGED <<vendor, wire, tools, ncalls, latest, finish, blocked, sent>>
        /\ pc'[c] = "reading" /\ wire[c] = <<>> /\ sent[c] = <<>>
    BY <1>2 DEF Open, gotVars, Told, TypeOK
  <2>2. ~Broke(c) /\ Tells(vendor, sent[c], wire[c], <<>>)
    BY <2>1, TellsNothing DEF Broke, Has
  <2> QED
    BY <1>a, <2>1, <2>2 DEF Told
<1>3. CASE StreamFails(c)
  <2>1. /\ pc[c] = "reading" /\ wire' = [wire EXCEPT ![c] = Append(@, Broken)]
        /\ UNCHANGED <<vendor, tools, ncalls, latest, finish, blocked, sent>>
        /\ pc'[c] \in {"mark", "error"}
    BY <1>3 DEF StreamFails, trackVars, TypeOK
  <2>2. WireKept(c)' /\ Tells(vendor, sent[c], wire[c], <<>>)' /\ Broke(c)'
    BY <2>1, WireEnds
  <2> QED
    BY <2>1, <2>2 DEF Told
<1>4. CASE StreamEnds(c)
  <2>1. /\ pc[c] = "reading" /\ wire' = [wire EXCEPT ![c] = Append(@, EOF)]
        /\ UNCHANGED <<vendor, tools, ncalls, latest, finish, blocked, sent>>
        /\ pc'[c] = IF vendor = "bedrock" THEN "done" ELSE "clean"
    BY <1>4 DEF StreamEnds, trackVars, TypeOK
  <2>2. EOF # Broken
    BY DEF EOF, Broken, Item
  <2>3. WireKept(c)' /\ Tells(vendor, sent[c], wire[c], <<>>)' /\ ~Broke(c)'
    BY <2>1, <2>2, WireEnds
  <2>4. pc'[c] = "done" => Usage(vendor, wire[c])' = <<>>
    BY <1>b, <2>1 DEF Usage
  <2> QED
    BY <2>1, <2>3, <2>4 DEF Told
<1>5. CASE SetConnected(c)
  <2>1. UNCHANGED <<vendor, wire, tools, ncalls, latest, finish, blocked, sent>>
        /\ pc[c] = "clean" /\ pc'[c] = "done" /\ MessagesAPI
    BY <1>5 DEF SetConnected, gotVars, TypeOK
  <2>2. Usage(vendor, wire[c]) = <<>>
    BY <1>b, <2>1 DEF Usage
  <2> QED
    BY <1>a, <2>1, <2>2 DEF Told
<1>6. CASE SendUsage(c)
  <2>1. UNCHANGED <<vendor, wire, tools, ncalls, latest, finish, blocked>>
        /\ pc[c] = "clean" /\ pc'[c] = "done" /\ vendor = "vertex"
    BY <1>6 DEF SendUsage, TypeOK
  <2>2. ~Broke(c) /\ Tells(vendor, sent[c], wire[c], <<>>)
    BY <2>1 DEF Told
  <2>3. Tells(vendor, sent'[c], wire[c], Usage(vendor, wire[c]))
    <3>1. CASE latest[c] = 0
      BY <1>6, <2>1, <2>2, <3>1, UsageIsLatest DEF SendUsage, WireKept
    <3>2. CASE latest[c] # 0
      <4>1. sent'[c] = Append(sent[c], Event("usage", {latest[c]}, 0))
        BY <1>6, <3>2 DEF SendUsage, Send, TypeOK
      <4>2. /\ Event("usage", {latest[c]}, 0) \in Events
            /\ Usage(vendor, wire[c]) = Append(<<>>, Event("usage", {latest[c]}, 0))
        BY <2>1, <3>2, UsageIsLatest DEF WireKept
      <4> QED
        BY <1>b, <1>c, <2>2, <4>1, <4>2, TellsMore
    <3> QED
      BY <3>1, <3>2
  <2> QED
    BY <1>a, <2>1, <2>2, <2>3 DEF Told
<1>7. CASE SendVerdict(c)
  <2>1. UNCHANGED <<vendor, wire, tools, ncalls, latest, finish, blocked>>
        /\ pc[c] = "done" /\ pc'[c] = "closed" /\ Send(c, Event(Verdict(c), {}, 0))
    BY <1>7 DEF SendVerdict, TypeOK
  <2>2. ~Broke(c) /\ Tells(vendor, sent[c], wire[c], Usage(vendor, wire[c]))
    BY <2>1 DEF Told
  <2>3. Verdict(c) = Outcome(vendor, wire[c]) /\ Verdict(c) \in Kinds
    BY VerdictIsOutcome DEF WireKept, Kinds
  <2>4. Usage(vendor, wire[c]) \in Seq(Events)
    BY UsageIsLatest DEF WireKept
  <2>5. /\ Event(Verdict(c), {}, 0) \in Events
        /\ sent'[c] = Append(sent[c], Event(Verdict(c), {}, 0))
    BY <1>d, <2>1, <2>3
  <2>6. Tells(vendor, sent'[c], wire[c], Append(Usage(vendor, wire[c]), Event(Verdict(c), {}, 0)))
    BY <1>b, <2>2, <2>4, <2>5, TellsMore
  <2>7. Tells(vendor, sent'[c], wire[c], Ending(vendor, wire[c]))
    BY <2>2, <2>3, <2>6 DEF Ending, Broke
  <2> QED
    BY <1>a, <2>1, <2>7 DEF Told
<1>8. CASE SendError(c)
  <2>1. UNCHANGED <<vendor, wire, tools, ncalls, latest, finish, blocked>>
        /\ pc[c] = "error" /\ pc'[c] = "closed" /\ Send(c, Event("error", {}, 0))
    BY <1>8 DEF SendError, AfterError, TypeOK
  <2>2. Broke(c) /\ Tells(vendor, sent[c], wire[c], <<>>)
    BY <2>1 DEF Told
  <2>3. Event("error", {}, 0) \in Events /\ sent'[c] = Append(sent[c], Event("error", {}, 0))
    BY <1>d, <2>1 DEF Kinds
  <2>4. Tells(vendor, sent'[c], wire[c], Append(<<>>, Event("error", {}, 0)))
    BY <1>b, <1>c, <2>2, <2>3, TellsMore
  <2>5. Tells(vendor, sent'[c], wire[c], Ending(vendor, wire[c]))
    BY <1>c, <2>2, <2>4 DEF Ending, Broke
  <2> QED
    BY <1>a, <2>1, <2>5 DEF Told
<1>9. CASE Mark(c) \/ Claim(c)
  <2>1. UNCHANGED <<vendor, wire, tools, ncalls, latest, finish, blocked, sent>>
        /\ pc[c] \in {"mark", "claim"}
        /\ pc'[c] \in (IF vendor = "bedrock" THEN {"returned", "claim"} ELSE {"error", "claim"})
    BY <1>9 DEF Mark, Claim, AfterMark, gotVars, TypeOK
  <2> QED
    BY <1>a, <2>1 DEF Told
<1> QED
  BY <1>1, <1>2, <1>3, <1>4, <1>5, <1>6, <1>7, <1>8, <1>9

(* Every step, of this call or another, keeps the books and what was said. *)
LEMMA ToldStep == TypeOK /\ ToldInv /\ [Next]_vars => ToldInv'
<1> SUFFICES ASSUME TypeOK, ToldInv, [Next]_vars, NEW c \in Chats
             PROVE  WireKept(c)' /\ Told(c)'
  BY DEF ToldInv
<1>0. WireKept(c) /\ Told(c)
  BY DEF ToldInv
<1>a. ASSUME Untouched(c) PROVE WireKept(c)' /\ Told(c)'
  <2>1. WireKept(c)'
    BY <1>0, <1>a DEF Untouched, WireKept, OpenBlocks, CallsCounted, ReportKept, ReasonKept
  <2>2. Told(c)'
    BY <1>0, <1>a DEF Untouched, Told, Broke
  <2> QED
    BY <2>1, <2>2
<1>1. CASE UNCHANGED vars
  BY <1>1, <1>a DEF vars, callVars, Untouched
<1>2. ASSUME NEW d \in Chats, Tick(d) \/ Ping(d) \/ ProbeSets(d) \/ ReleaseProbe(d)
      PROVE  WireKept(c)' /\ Told(c)'
  BY <1>2, <1>a DEF Tick, Ping, ProbeSets, ReleaseProbe, callVars, Untouched
<1>3. ASSUME NEW d \in Chats,
           \/ \E b \in Blocks : BlockStart(d, b) \/ BlockFragment(d, b) \/ BlockStop(d, b)
           \/ Delta(d) \/ Report(d) \/ FunctionCall(d) \/ FinishReason(d) \/ PromptBlocked(d)
           \/ Other(d)
           \/ Refuse(d) \/ Open(d) \/ OpenFails(d) \/ StreamFails(d) \/ StreamEnds(d)
           \/ SetConnected(d) \/ SendUsage(d) \/ SendVerdict(d) \/ SendError(d)
           \/ Mark(d) \/ Claim(d)
      PROVE  WireKept(c)' /\ Told(c)'
  <2>1. CASE d # c
    BY <1>3, <1>a, <2>1, OthersUntouched
  <2>2. CASE d = c
    BY <1>0, <1>3, <2>2, ItemTold, EndTold
  <2> QED
    BY <2>1, <2>2
<1>4. CASE Next
  BY <1>4, <1>2, <1>3, Zenon DEF Next
<1> QED
  BY <1>1, <1>4

LEMMA InitTold == Init => ToldInv
<1> SUFFICES ASSUME Init, NEW c \in Chats PROVE WireKept(c) /\ Told(c)
  BY DEF ToldInv
<1>1. /\ pc[c] = "new" /\ wire[c] = <<>> /\ sent[c] = <<>> /\ tools[c] = <<>>
      /\ ncalls[c] = 0 /\ latest[c] = 0 /\ finish[c] = "none" /\ blocked[c] = FALSE
      /\ DOMAIN <<>> = {}
  BY DEF Init
<1>2. OpenBlocks(c)
  BY <1>1 DEF OpenBlocks
<1>3. CallsCounted(c)
  <2>1. {j \in DOMAIN wire[c] : wire[c][j].kind = "call"} = {}
    BY <1>1
  <2> QED
    BY <1>1, <2>1, FS_EmptySet DEF CallsCounted
<1>4. ReportKept(c) /\ ReasonKept(c)
  BY <1>1 DEF ReportKept, ReasonKept, Has
<1>5. Told(c)
  BY <1>1 DEF Told
<1> QED
  BY <1>2, <1>3, <1>4, <1>5 DEF WireKept

(* However the blocks of a stream interleave and wherever it breaks, what  *)
(* is sent is what the wire says, item for item, and one true ending.      *)
THEOREM AdaptersTranslated == Spec => []Translated
<1>1. ToldInv => Translated
  BY DEF ToldInv, Told, Translated
<1> QED
  BY <1>1, InitTold, ToldStep, AdaptersTypeOK, PTL DEF Spec
=============================================================================
