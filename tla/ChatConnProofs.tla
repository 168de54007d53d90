--------------------------- MODULE ChatConnProofs ---------------------------
(***************************************************************************)
(* ChatConn's safety properties for any set of Chat calls and any retry    *)
(* limits.  ConnInv is inductive: OneProbe needs no help beyond types, the *)
(* budget of requests needs AttemptsCounted.                               *)
(***************************************************************************)
EXTENDS ChatConn, TLAPS

ConnInv == TypeOK /\ OneProbe /\ AttemptsCounted

(* One status attempt more leaves room for MaxRetries + 1 requests more.   *)
LEMMA NextStatusAttempt ==
    ASSUME NEW s \in Nat, NEW m \in Nat
    PROVE  (s + 1) * m = s * m + m /\ s * m \in Nat
OBVIOUS

(* A product grows with its first factor.                                  *)
LEMMA TimesMonotonic ==
    ASSUME NEW s \in Nat, NEW t \in Nat, NEW m \in Nat, s <= t
    PROVE  s * m <= t * m
OBVIOUS

(* The new client satisfies the invariant.                                 *)
LEMMA InitConnInv == Init => ConnInv
<1> SUFFICES ASSUME Init PROVE ConnInv
  OBVIOUS
<1>1. TypeOK
  <2>1. 0 \in 0..MaxRetries /\ 0 \in 0..StatusRetries /\ 0 \in 0..MaxFlips /\ 0 \in Nat
    BY BoundsAssumption
  <2> QED
    BY <2>1, Zenon DEF Init, TypeOK, States, ChatPCs, Responses, ProbePCs
<1>2. OneProbe
  BY DEF Init, OneProbe
<1>3. AttemptsCounted
  BY DEF Init, AttemptsCounted
<1> QED
  BY <1>1, <1>2, <1>3 DEF ConnInv

(* Every step keeps the types; AttemptsCounted keeps the two counters      *)
(* within the limits.                                                      *)
LEMMA TypeStep == TypeOK /\ AttemptsCounted /\ [Next]_vars => TypeOK'
<1> SUFFICES ASSUME TypeOK, AttemptsCounted, [Next]_vars PROVE TypeOK'
  OBVIOUS
<1> USE DEF TypeOK, States, ChatPCs, Responses, ProbePCs, chatVars
<1>1. CASE UNCHANGED vars
  BY <1>1 DEF vars
<1>2. CASE Flip
  <2>1. flips' \in 0..MaxFlips
    BY <1>2, BoundsAssumption DEF Flip
  <2> QED
    BY <1>2, <2>1 DEF Flip
<1>3. ASSUME NEW c \in Chats, EndContext(c) PROVE TypeOK'
  BY <1>3, BoundsAssumption DEF EndContext
<1>4. ASSUME NEW c \in Chats, Answered(c) PROVE TypeOK'
  BY <1>4 DEF Answered
<1>5. ASSUME NEW c \in Chats, TransportFails(c) PROVE TypeOK'
  BY <1>5 DEF TransportFails
<1>6. ASSUME NEW c \in Chats, OtherFails(c) PROVE TypeOK'
  BY <1>6 DEF OtherFails
<1>7. ASSUME NEW c \in Chats, ChatStep(c) \/ Timer(c) PROVE TypeOK'
  <2>0. posts[c] + 1 \in Nat
    OBVIOUS
  <2>1. CASE Start(c)
    BY <2>0, <2>1, Zenon DEF Start
  <2>2. CASE ContextEnds(c)
    BY <2>2 DEF ContextEnds
  <2>3. CASE MarkRetry(c)
    BY <2>3 DEF MarkRetry
  <2>4. CASE MarkExhausted(c)
    BY <2>4 DEF MarkExhausted
  <2>5. CASE BackoffEnds(c)
    <3>1. attempt[c] + 1 \in 0..MaxRetries
      BY <2>5, BoundsAssumption DEF BackoffEnds, AttemptsCounted
    <3> QED
      BY <2>0, <2>5, <3>1, Zenon DEF BackoffEnds
  <2>6. CASE ResponseEnds(c)
    BY <2>6 DEF ResponseEnds
  <2>7. CASE ResponseRetries(c)
    BY <2>7 DEF ResponseRetries
  <2>8. CASE WaitEnds(c)
    <3>1. sattempt[c] + 1 \in 0..StatusRetries /\ 0 \in 0..MaxRetries
      BY <2>8, BoundsAssumption DEF WaitEnds, AttemptsCounted
    <3> QED
      BY <2>0, <2>8, <3>1, Zenon DEF WaitEnds
  <2>9. CASE ErrorReturns(c)
    BY <2>9 DEF ErrorReturns
  <2>10. CASE Disconnect(c)
    BY <2>10 DEF Disconnect
  <2>11. CASE Claim(c)
    BY <2>11 DEF Claim
  <2> QED
    BY <1>7, <2>1, <2>2, <2>3, <2>4, <2>5, <2>6, <2>7, <2>8, <2>9, <2>10, <2>11 DEF ChatStep, Timer
<1>8. ASSUME NEW c \in Chats, ProbeStep(c) PROVE TypeOK'
  BY <1>8 DEF ProbeStep, Tick, PingAnswered, PingFails, ProbeSets, ReleaseProbe
<1> QED
  BY <1>1, <1>2, <1>3, <1>4, <1>5, <1>6, <1>7, <1>8 DEF Next

(* Every step keeps at most one probe, and its flag.  Only Claim and the   *)
(* probe itself touch either.                                              *)
LEMMA ProbeInvStep == TypeOK /\ OneProbe /\ [Next]_vars => OneProbe'
<1> SUFFICES ASSUME TypeOK, OneProbe, [Next]_vars PROVE OneProbe'
  OBVIOUS
<1>1. CASE UNCHANGED <<probing, probe>>
  BY <1>1 DEF OneProbe
<1>2. ASSUME NEW c \in Chats, Claim(c) PROVE OneProbe'
  <2>1. CASE probing
    <3>1. UNCHANGED <<probing, probe>>
      BY <1>2, <2>1 DEF Claim, TypeOK
    <3> QED
      BY <1>1, <3>1
  <2>2. CASE ~probing
    BY <1>2, <2>2 DEF Claim, TypeOK, OneProbe
  <2> QED
    BY <2>1, <2>2
<1>3. ASSUME NEW c \in Chats, ProbeStep(c) PROVE OneProbe'
  <2>1. probe[c] # "none" /\ probing
    BY <1>3 DEF ProbeStep, Tick, PingAnswered, PingFails, ProbeSets, ReleaseProbe, OneProbe
  <2>2. CASE ReleaseProbe(c)
    BY <2>1, <2>2 DEF ReleaseProbe, TypeOK, OneProbe
  <2>3. CASE ~ReleaseProbe(c)
    <3>1. probing' = probing /\ \E p \in ProbePCs \ {"none"} : probe' = [probe EXCEPT ![c] = p]
      BY <1>3, <2>3 DEF ProbeStep, Tick, PingAnswered, PingFails, ProbeSets, ProbePCs
    <3> QED
      BY <2>1, <3>1 DEF TypeOK, OneProbe
  <2> QED
    BY <2>2, <2>3
<1>4. ASSUME NEW c \in Chats, ChatStep(c) \/ Timer(c), ~Claim(c) PROVE UNCHANGED <<probing, probe>>
  BY <1>4 DEF ChatStep, Timer, Start, ContextEnds, MarkRetry, MarkExhausted, BackoffEnds,
              ResponseEnds, ResponseRetries, WaitEnds, ErrorReturns, Disconnect
<1>5. ASSUME NEW c \in Chats,
             EndContext(c) \/ Answered(c) \/ TransportFails(c) \/ OtherFails(c)
      PROVE UNCHANGED <<probing, probe>>
  BY <1>5 DEF EndContext, Answered, TransportFails, OtherFails
<1>6. Flip \/ UNCHANGED vars => UNCHANGED <<probing, probe>>
  BY DEF Flip, vars
<1> QED
  BY <1>1, <1>2, <1>3, <1>4, <1>5, <1>6 DEF Next

(* The requests sent by one call stay within what its counters allow.  The *)
(* call that moves is the only one whose counters change.                  *)
LEMMA CountStep == TypeOK /\ AttemptsCounted /\ [Next]_vars => AttemptsCounted'
<1> SUFFICES ASSUME TypeOK, AttemptsCounted, [Next]_vars PROVE AttemptsCounted'
  OBVIOUS
<1>1. CASE UNCHANGED <<pc, attempt, sattempt, posts>>
  BY <1>1 DEF AttemptsCounted
<1>2. ASSUME NEW c \in Chats, ChatStep(c) \/ Timer(c) PROVE AttemptsCounted'
  <2> DEFINE M == MaxRetries + 1
  <2>1. M \in Nat /\ MaxRetries \in Nat /\ StatusRetries \in Nat
    BY BoundsAssumption
  <2>2. sattempt[c] \in Nat /\ attempt[c] \in 0..MaxRetries /\ posts[c] \in Nat
    BY <2>1 DEF TypeOK
  <2>3. (sattempt[c] + 1) * M = sattempt[c] * M + M /\ sattempt[c] * M \in Nat
    BY <2>1, <2>2, NextStatusAttempt
  <2> USE DEF TypeOK
  <2>4. CASE Start(c)
    <3>1. posts[c] + 1 <= sattempt[c] * M + attempt[c] + 1
      BY <2>1, <2>2, <2>3, <2>4 DEF Start, AttemptsCounted
    <3> QED
      BY <2>4, <3>1, Zenon DEF Start, AttemptsCounted
  <2>5. CASE BackoffEnds(c)
    <3>1. posts[c] + 1 <= sattempt[c] * M + (attempt[c] + 1) + 1
      BY <2>1, <2>2, <2>3, <2>5 DEF BackoffEnds, AttemptsCounted
    <3> QED
      BY <2>5, <3>1, Zenon DEF BackoffEnds, AttemptsCounted
  <2>6. CASE WaitEnds(c)
    <3>1. posts[c] + 1 <= (sattempt[c] + 1) * M + 0 + 1
      BY <2>1, <2>2, <2>3, <2>6 DEF WaitEnds, AttemptsCounted
    <3> QED
      BY <2>6, <3>1, Zenon DEF WaitEnds, AttemptsCounted
  <2>7. ASSUME UNCHANGED <<attempt, sattempt, posts>>, pc[c] # "new",
               NEW p \in ChatPCs \ {"new"}, pc' = [pc EXCEPT ![c] = p],
               p = "backoff" => attempt[c] < MaxRetries,
               p = "wait" => sattempt[c] < StatusRetries
        PROVE  AttemptsCounted'
    BY <2>7, Zenon DEF AttemptsCounted
  <2>8. CASE MarkRetry(c)
    <3>1. attempt[c] < MaxRetries /\ "backoff" \in ChatPCs \ {"new"}
      BY <2>8 DEF MarkRetry, ChatPCs
    <3> QED
      BY <2>7, <2>8, <3>1, Zenon DEF MarkRetry
  <2>9. CASE ResponseRetries(c)
    <3>1. sattempt[c] < StatusRetries /\ "wait" \in ChatPCs \ {"new"} /\ pc[c] # "new"
      BY <2>9 DEF ResponseRetries, RetriesStatus, ChatPCs, Responses
    <3> QED
      BY <2>7, <2>9, <3>1, Zenon DEF ResponseRetries
  <2>10. CASE ContextEnds(c) \/ MarkExhausted(c)
    <3>1. pc' = [pc EXCEPT ![c] = "failed"] /\ pc[c] # "new" /\ UNCHANGED <<attempt, sattempt, posts>>
      BY <2>10 DEF ContextEnds, MarkExhausted
    <3> QED
      BY <2>7, <3>1 DEF ChatPCs
  <2>11. CASE ErrorReturns(c) \/ Claim(c) \/ Disconnect(c) \/ ResponseEnds(c)
    <3>1. /\ \E p \in {"returned", "claim", "failed"} : pc' = [pc EXCEPT ![c] = p]
          /\ pc[c] # "new" /\ UNCHANGED <<attempt, sattempt, posts>>
      BY <2>11 DEF ErrorReturns, Claim, Disconnect, ResponseEnds, Responses
    <3> QED
      BY <2>7, <3>1 DEF ChatPCs
  <2> QED
    BY <1>2, <2>4, <2>5, <2>6, <2>8, <2>9, <2>10, <2>11 DEF ChatStep, Timer
<1>3. ASSUME NEW c \in Chats, Answered(c) \/ TransportFails(c) \/ OtherFails(c)
      PROVE  AttemptsCounted'
  <2>1. /\ \E p \in Responses \cup {"mark", "failed"} : pc' = [pc EXCEPT ![c] = p]
        /\ pc[c] # "new" /\ UNCHANGED <<attempt, sattempt, posts>>
    BY <1>3 DEF Answered, TransportFails, OtherFails
  <2> QED
    BY <2>1 DEF AttemptsCounted, TypeOK, Responses
<1>4. ASSUME NEW c \in Chats, EndContext(c) \/ ProbeStep(c)
      PROVE  UNCHANGED <<pc, attempt, sattempt, posts>>
  BY <1>4 DEF EndContext, ProbeStep, Tick, PingAnswered, PingFails, ProbeSets, ReleaseProbe, chatVars
<1>5. Flip \/ UNCHANGED vars => UNCHANGED <<pc, attempt, sattempt, posts>>
  BY DEF Flip, vars, chatVars
<1> QED
  BY <1>1, <1>2, <1>3, <1>4, <1>5 DEF Next

(* ConnInv holds in every state: the conjuncts' steps put together.        *)
THEOREM ConnInvariant == Spec => []ConnInv
<1>1. ConnInv /\ [Next]_vars => ConnInv'
  BY TypeStep, ProbeInvStep, CountStep DEF ConnInv
<1> QED
  BY InitConnInv, <1>1, PTL DEF Spec

(* ChatConn's variables keep their types, the retry counters their limits. *)
THEOREM ConnTypeOK == Spec => []TypeOK
<1>1. ConnInv => TypeOK
  BY DEF ConnInv
<1> QED
  BY ConnInvariant, <1>1, PTL

(* However many Chat calls lose the endpoint at once, at most one probe    *)
(* goroutine runs, and ConnTracker.probing tells whether it does.          *)
THEOREM ConnOneProbe == Spec => []OneProbe
<1>1. ConnInv => OneProbe
  BY DEF ConnInv
<1> QED
  BY ConnInvariant, <1>1, PTL

(* The nested retry loops of one Chat call never send more requests than   *)
(* their two limits multiply to.                                           *)
THEOREM ConnPostBudget == Spec => []PostBudget
<1>1. ConnInv => PostBudget
  <2> SUFFICES ASSUME ConnInv, NEW c \in Chats
               PROVE  posts[c] <= (MaxRetries + 1) * (StatusRetries + 1)
    BY DEF PostBudget
  <2> DEFINE M == MaxRetries + 1
  <2>1. M \in Nat /\ MaxRetries \in Nat /\ StatusRetries \in Nat
    BY BoundsAssumption
  <2>2. sattempt[c] \in 0..StatusRetries /\ attempt[c] \in 0..MaxRetries /\ posts[c] \in Nat
    BY DEF ConnInv, TypeOK
  <2>3. sattempt[c] * M <= StatusRetries * M /\ StatusRetries * M \in Nat
    BY <2>1, <2>2, TimesMonotonic, NextStatusAttempt
  <2>4. (StatusRetries + 1) * M = StatusRetries * M + M /\ sattempt[c] * M \in Nat
    BY <2>1, <2>2, NextStatusAttempt
  <2>5. posts[c] = 0 \/ posts[c] <= sattempt[c] * M + attempt[c] + 1
    BY DEF ConnInv, AttemptsCounted
  <2>6. posts[c] <= (StatusRetries + 1) * M
    <3> HIDE DEF M
    <3>1. attempt[c] + 1 <= M
      BY <2>1, <2>2 DEF M
    <3> QED
      BY <2>1, <2>2, <2>3, <2>4, <2>5, <3>1
  <2> QED
    BY <2>1, <2>6
<1> QED
  BY ConnInvariant, <1>1, PTL

\* A step of one Chat call.
CallMoves(c) ==
    Answered(c) \/ TransportFails(c) \/ OtherFails(c) \/ ChatStep(c) \/ Timer(c)

(* A call does not touch what the others know of themselves.               *)
LEMMA OthersStay ==
    ASSUME TypeOK, NEW c \in Chats, CallMoves(c), NEW d \in Chats, d # c
    PROVE  pc'[d] = pc[d] /\ err'[d] = err[d] /\ attempt'[d] = attempt[d]
BY DEF TypeOK, CallMoves, Answered, TransportFails, OtherFails, ChatStep, Timer, Start, ContextEnds,
       MarkRetry, MarkExhausted, BackoffEnds, ResponseEnds, ResponseRetries, WaitEnds, ErrorReturns,
       Disconnect, Claim

(* Only calls touch what they know, and no other step makes the indicator  *)
(* worse.                                                                  *)
LEMMA CallsAlone ==
    ASSUME [Next]_vars, \A c \in Chats : ~CallMoves(c)
    PROVE  UNCHANGED <<pc, err, attempt>> /\ (UNCHANGED state \/ state' = "connected")
BY DEF Next, vars, chatVars, CallMoves, Flip, EndContext, ProbeStep, Tick, PingAnswered, PingFails,
       ProbeSets, ReleaseProbe

(* A call that gives up on a network error has used its last attempt.      *)
LEMMA LastAttemptStep == TypeOK /\ LastAttemptFails /\ [Next]_vars => LastAttemptFails'
<1> SUFFICES ASSUME TypeOK, LastAttemptFails, [Next]_vars PROVE LastAttemptFails'
  OBVIOUS
<1>1. ASSUME NEW c \in Chats, CallMoves(c) PROVE LastAttemptFails'
  <2>1. pc'[c] = "failed" /\ err'[c] = "network" => attempt'[c] = MaxRetries
    BY <1>1 DEF TypeOK, LastAttemptFails, CallMoves, Answered, TransportFails, OtherFails, ChatStep,
                Timer, Start, ContextEnds, MarkRetry, MarkExhausted, BackoffEnds, ResponseEnds,
                ResponseRetries, WaitEnds, ErrorReturns, Disconnect, Claim, Responses
  <2> QED
    BY <1>1, <2>1, OthersStay DEF LastAttemptFails
<1>2. CASE \A c \in Chats : ~CallMoves(c)
  BY <1>2, CallsAlone DEF LastAttemptFails
<1> QED
  BY <1>1, <1>2

(* What explains an outage stays: a call that has given up does nothing    *)
(* more but start the probe.                                               *)
LEMMA OutageStep ==
    ASSUME TypeOK, LastAttemptFails, TroubleHasCause, NEW c \in Chats, CallMoves(c),
           state' = "disconnected"
    PROVE  \E d \in Chats : pc'[d] \in {"claim", "returned"} /\ Suffered(d)'
<1>1. CASE Disconnect(c)
  <2>1. /\ pc'[c] \in {"claim", "returned"} /\ err'[c] = err[c] /\ attempt'[c] = attempt[c]
        /\ pc[c] = "failed" /\ err[c] \in Transport
    BY <1>1 DEF Disconnect, TypeOK
  <2> QED
    BY <2>1 DEF Suffered, Transport, LastAttemptFails
<1>2. CASE ~Disconnect(c)
  <2>1. state = "disconnected"
    BY <1>2 DEF CallMoves, Answered, TransportFails, OtherFails, ChatStep, Timer, Start, ContextEnds,
                MarkRetry, MarkExhausted, BackoffEnds, ResponseEnds, ResponseRetries, WaitEnds,
                ErrorReturns, Claim
  <2>2. PICK d \in Chats : pc[d] \in {"claim", "returned"} /\ Suffered(d)
    BY <2>1 DEF TroubleHasCause
  <2>3. CASE d = c
    <3>1. Claim(c)
      BY <2>2, <2>3 DEF CallMoves, Answered, TransportFails, OtherFails, ChatStep, Timer, Start,
             ContextEnds, MarkRetry, MarkExhausted, BackoffEnds, ResponseEnds, ResponseRetries,
             RetriesStatus, WaitEnds, ErrorReturns, Disconnect, Responses
    <3> QED
      BY <2>2, <2>3, <3>1 DEF Claim, TypeOK, Suffered
  <2>4. CASE d # c
    BY <2>2, <2>4, OthersStay DEF Suffered
  <2> QED
    BY <2>3, <2>4
<1> QED
  BY <1>1, <1>2

(* What explains that the client reconnects stays until something else is  *)
(* set: the call gets an answer, gives up, or leaves it behind.            *)
LEMMA ReconnectStep ==
    ASSUME TypeOK, LastAttemptFails, TroubleHasCause, NEW c \in Chats, CallMoves(c),
           state' = "reconnecting"
    PROVE  \E d \in Chats : Troubled(d)'
<1>1. CASE MarkRetry(c) \/ MarkExhausted(c)
  <2>1. \/ pc'[c] = "backoff"
        \/ pc'[c] = "failed" /\ err'[c] = "network" /\ attempt'[c] = MaxRetries
    BY <1>1 DEF MarkRetry, MarkExhausted, TypeOK
  <2> QED
    BY <2>1 DEF Troubled, Suffered
<1>2. CASE ~MarkRetry(c) /\ ~MarkExhausted(c)
  <2>1. state = "reconnecting" /\ ~Disconnect(c) /\ ~ResponseEnds(c) /\ ~ResponseRetries(c)
    BY <1>2 DEF CallMoves, Answered, TransportFails, OtherFails, ChatStep, Timer, Start, ContextEnds,
                BackoffEnds, ResponseEnds, ResponseRetries, WaitEnds, ErrorReturns, Disconnect, Claim
  <2>2. PICK d \in Chats : Troubled(d)
    BY <2>1 DEF TroubleHasCause
  <2>3. CASE d = c
    <3>1. CASE Answered(c) \/ TransportFails(c) \/ OtherFails(c)
      BY <2>2, <2>3, <3>1 DEF Troubled, Answered, TransportFails, OtherFails, TypeOK, Responses
    <3>2. CASE ContextEnds(c)
      <4>1. pc'[c] = "failed" /\ err'[c] \in {"canceled", "deadline"}
        BY <3>2 DEF ContextEnds, TypeOK
      <4> QED
        BY <2>3, <4>1 DEF Troubled, Suffered
    <3>3. CASE BackoffEnds(c)
      <4>1. pc'[c] = "do" /\ attempt'[c] > 0
        BY <3>3, BoundsAssumption DEF BackoffEnds, TypeOK
      <4> QED
        BY <2>3, <4>1 DEF Troubled
    <3>4. CASE ErrorReturns(c)
      BY <2>2, <2>3, <3>4 DEF Troubled, Suffered, ErrorReturns, TypeOK, Transport, Responses
    <3>5. ~Start(c) /\ ~WaitEnds(c) /\ ~Claim(c)
      BY <2>2, <2>3 DEF Troubled, Start, WaitEnds, Claim, Responses
    <3> QED
      BY <1>2, <2>1, <3>1, <3>2, <3>3, <3>4, <3>5 DEF CallMoves, ChatStep, Timer
  <2>4. CASE d # c
    BY <2>2, <2>4, OthersStay DEF Troubled, Suffered
  <2> QED
    BY <2>3, <2>4
<1> QED
  BY <1>1, <1>2

(* However calls, contexts and the probe interleave, the indicator tells   *)
(* of no trouble that no call had; a cancelled call is no outage, but may  *)
(* leave "reconnecting" behind.                                            *)
THEOREM ConnTroubleHasCause == Spec => []TroubleHasCause
<1> DEFINE Inv == LastAttemptFails /\ TroubleHasCause
<1>1. Init => Inv
  BY DEF Init, LastAttemptFails, TroubleHasCause
<1>2. TypeOK /\ Inv /\ [Next]_vars => Inv'
  <2> SUFFICES ASSUME TypeOK, Inv, [Next]_vars PROVE TroubleHasCause'
    BY LastAttemptStep
  <2>1. ASSUME NEW c \in Chats, CallMoves(c) PROVE TroubleHasCause'
    BY <2>1, OutageStep, ReconnectStep DEF TroubleHasCause
  <2>2. CASE \A c \in Chats : ~CallMoves(c)
    BY <2>2, CallsAlone DEF TroubleHasCause, Troubled, Suffered
  <2> QED
    BY <2>1, <2>2
<1>3. Inv => TroubleHasCause
  OBVIOUS
<1> QED
  BY ConnTypeOK, <1>1, <1>2, <1>3, PTL DEF Spec
=============================================================================
