------------------------------ MODULE ChatConn ------------------------------
(***************************************************************************)
(* The connection tracker of an OpenAIClient (src/llm/connstate.go), the   *)
(* two retry loops and the error path of its Chat (src/llm/openai.go, 289  *)
(* to 456) and its recovery probe (src/llm/probe.go), for several Chat     *)
(* calls on one client.  ConnTracker.mu makes each Get, Set, ClaimProbe    *)
(* and ReleaseProbe one step; everything between two of them interleaves.  *)
(* Each element of Chats is one Chat call with its context; a probe        *)
(* goroutine is named by the Chat call that started it.                    *)
(***************************************************************************)
EXTENDS Naturals

CONSTANTS
    Chats,          \* the Chat calls
    MaxRetries,     \* maxChatRetries (2 in the code)
    StatusRetries,  \* OpenAIClient.StatusRetries
    MaxFlips,       \* bound: how often the endpoint goes down or comes back
    Endings         \* the ways a context may end in this instance

ASSUME BoundsAssumption ==
    /\ MaxRetries \in Nat /\ StatusRetries \in Nat /\ MaxFlips \in Nat
    /\ Endings \subseteq {"canceled", "deadline"}

VARIABLES
    state,      \* ConnTracker.state
    probing,    \* ConnTracker.probing
    pc,         \* where each Chat call is
    attempt,    \* transport attempt of the current doChatRequest
    sattempt,   \* status attempt of doChatRequestRetryingStatus
    posts,      \* how many POSTs the call has sent
    err,        \* the error the call returns
    ctx,        \* the call's context: live, canceled or deadline
    probe,      \* where the probe goroutine started by each call is
    net,        \* the endpoint: up or down
    flips       \* how often it has changed

chatVars == <<pc, attempt, sattempt, posts, err>>
vars == <<state, probing, chatVars, ctx, probe, net, flips>>

States == {"connected", "reconnecting", "disconnected"}

\* A response: a status of 299 or less; one that retryableStatus accepts; any
\* other, or a Retry-After beyond StatusRetryMaxWait.
Responses == {"ok", "retryable", "final"}

\* "do": inside the HTTP round trip.  "mark": it failed, Set(Reconnecting) is
\* next.  "claim": Set(Disconnected) changed the state, ClaimProbe is next.
ChatPCs ==
    {"new", "do", "mark", "backoff", "wait", "failed", "claim", "returned"} \cup Responses
ProbePCs == {"none", "tick", "ping", "set", "exit"}

\* Mutant of Transport: a cancelled context counts as well.
MutTransport == {"network", "deadline", "canceled"}

\* What ClassifyTransportError does not map to "": a network failure, and also
\* context.DeadlineExceeded, whose Timeout() method says true (neterr.go:114).
Transport == {"network", "deadline"}

-----------------------------------------------------------------------------
(* Mutants.                                                                *)

\* ClaimProbe that reports success even when a probe is running.
MutClaim(c) ==
    /\ pc[c] = "claim"
    /\ probing' = TRUE
    /\ probe' = [probe EXCEPT ![c] = "tick"]
    /\ pc' = [pc EXCEPT ![c] = "returned"]
    /\ UNCHANGED <<state, attempt, sattempt, posts, err, ctx, net, flips>>

\* MarkRetry with an off-by-one in the attempt count.
MutMarkRetry(c) ==
    /\ pc[c] = "mark" /\ attempt[c] <= MaxRetries
    /\ state' = "reconnecting"
    /\ pc' = [pc EXCEPT ![c] = "backoff"]
    /\ UNCHANGED <<probing, attempt, sattempt, posts, err, ctx, probe, net, flips>>

\* ContextEnds without the ctx.Done case of the status wait.
MutDeafWait(c) ==
    /\ pc[c] \in {"do", "backoff"}
    /\ ctx[c] # "live"
    /\ err' = [err EXCEPT ![c] = ctx[c]]
    /\ pc' = [pc EXCEPT ![c] = "failed"]
    /\ UNCHANGED <<state, probing, attempt, sattempt, posts, ctx, probe, net, flips>>

\* ProbeSets leaves the tracker as it is.
MutProbeForgets(c) ==
    /\ probe[c] = "set"
    /\ probe' = [probe EXCEPT ![c] = "tick"]
    /\ UNCHANGED <<state, probing, chatVars, ctx, net, flips>>

-----------------------------------------------------------------------------
Init ==
    /\ state = "connected"
    /\ probing = FALSE
    /\ pc = [c \in Chats |-> "new"]
    /\ attempt = [c \in Chats |-> 0]
    /\ sattempt = [c \in Chats |-> 0]
    /\ posts = [c \in Chats |-> 0]
    /\ err = [c \in Chats |-> "none"]
    /\ ctx = [c \in Chats |-> "live"]
    /\ probe = [c \in Chats |-> "none"]
    /\ net = "up"
    /\ flips = 0

\* The environment: the endpoint goes down or comes back, a context ends (once
\* the call has returned nobody looks at it).
Flip ==
    /\ flips < MaxFlips
    /\ flips' = flips + 1
    /\ net' = IF net = "up" THEN "down" ELSE "up"
    /\ UNCHANGED <<state, probing, chatVars, ctx, probe>>

EndContext(c) ==
    /\ ctx[c] = "live" /\ pc[c] # "returned"
    /\ ctx' \in {[ctx EXCEPT ![c] = how] : how \in Endings}
    /\ UNCHANGED <<state, probing, chatVars, probe, net, flips>>

-----------------------------------------------------------------------------
\* Chat starts; the first POST goes out.
Start(c) ==
    /\ pc[c] = "new"
    /\ pc' = [pc EXCEPT ![c] = "do"]
    /\ posts' = [posts EXCEPT ![c] = @ + 1]
    /\ UNCHANGED <<state, probing, attempt, sattempt, err, ctx, probe, net, flips>>

\* Do returns a response, while the endpoint is up ...
Answered(c) ==
    /\ pc[c] = "do" /\ net = "up"
    /\ \E r \in Responses : pc' = [pc EXCEPT ![c] = r]
    /\ UNCHANGED <<state, probing, attempt, sattempt, posts, err, ctx, probe, net, flips>>

\* ... or with a transport error (a stale keep-alive connection fails too
\* while the endpoint is up) ...
TransportFails(c) ==
    /\ pc[c] = "do"
    /\ pc' = [pc EXCEPT ![c] = "mark"]
    /\ UNCHANGED <<state, probing, attempt, sattempt, posts, err, ctx, probe, net, flips>>

\* ... or with an error that is neither the context's nor the network's.
OtherFails(c) ==
    /\ pc[c] = "do"
    /\ err' = [err EXCEPT ![c] = "other"]
    /\ pc' = [pc EXCEPT ![c] = "failed"]
    /\ UNCHANGED <<state, probing, attempt, sattempt, posts, ctx, probe, net, flips>>

\* The context ends the round trip or either wait; its error is returned.
ContextEnds(c) ==
    /\ pc[c] \in {"do", "backoff", "wait"}
    /\ ctx[c] # "live"
    /\ err' = [err EXCEPT ![c] = ctx[c]]
    /\ pc' = [pc EXCEPT ![c] = "failed"]
    /\ UNCHANGED <<state, probing, attempt, sattempt, posts, ctx, probe, net, flips>>

\* Set(Reconnecting), on the last attempt too; then the backoff or the end.
MarkRetry(c) ==
    /\ pc[c] = "mark" /\ attempt[c] < MaxRetries
    /\ state' = "reconnecting"
    /\ pc' = [pc EXCEPT ![c] = "backoff"]
    /\ UNCHANGED <<probing, attempt, sattempt, posts, err, ctx, probe, net, flips>>

MarkExhausted(c) ==
    /\ pc[c] = "mark" /\ attempt[c] = MaxRetries
    /\ state' = "reconnecting"
    /\ err' = [err EXCEPT ![c] = "network"]
    /\ pc' = [pc EXCEPT ![c] = "failed"]
    /\ UNCHANGED <<probing, attempt, sattempt, posts, ctx, probe, net, flips>>

BackoffEnds(c) ==
    /\ pc[c] = "backoff"
    /\ attempt' = [attempt EXCEPT ![c] = @ + 1]
    /\ posts' = [posts EXCEPT ![c] = @ + 1]
    /\ pc' = [pc EXCEPT ![c] = "do"]
    /\ UNCHANGED <<state, probing, sattempt, err, ctx, probe, net, flips>>

\* Any response clears the degraded state; then the status decides.
RetriesStatus(c) == pc[c] = "retryable" /\ sattempt[c] < StatusRetries

ResponseEnds(c) ==
    /\ pc[c] \in Responses /\ ~RetriesStatus(c)
    /\ state' = "connected"
    /\ err' = [err EXCEPT ![c] = IF pc[c] = "ok" THEN "none" ELSE "api"]
    /\ pc' = [pc EXCEPT ![c] = IF pc[c] = "ok" THEN "returned" ELSE "failed"]
    /\ UNCHANGED <<probing, attempt, sattempt, posts, ctx, probe, net, flips>>

ResponseRetries(c) ==
    /\ RetriesStatus(c)
    /\ state' = "connected"
    /\ pc' = [pc EXCEPT ![c] = "wait"]
    /\ UNCHANGED <<probing, attempt, sattempt, posts, err, ctx, probe, net, flips>>

WaitEnds(c) ==
    /\ pc[c] = "wait"
    /\ sattempt' = [sattempt EXCEPT ![c] = @ + 1]
    /\ attempt' = [attempt EXCEPT ![c] = 0]
    /\ posts' = [posts EXCEPT ![c] = @ + 1]
    /\ pc' = [pc EXCEPT ![c] = "do"]
    /\ UNCHANGED <<state, probing, err, ctx, probe, net, flips>>

\* Chat's error path: Set(Disconnected) for an error of the transport class,
\* and on the edge into that state startRecoveryProbe.
ErrorReturns(c) ==
    /\ pc[c] = "failed" /\ err[c] \notin Transport
    /\ pc' = [pc EXCEPT ![c] = "returned"]
    /\ UNCHANGED <<state, probing, attempt, sattempt, posts, err, ctx, probe, net, flips>>

Disconnect(c) ==
    /\ pc[c] = "failed" /\ err[c] \in Transport
    /\ state' = "disconnected"
    /\ pc' = [pc EXCEPT ![c] = IF state # "disconnected" THEN "claim" ELSE "returned"]
    /\ UNCHANGED <<probing, attempt, sattempt, posts, err, ctx, probe, net, flips>>

Claim(c) ==
    /\ pc[c] = "claim"
    /\ probing' = TRUE
    /\ probe' = [probe EXCEPT ![c] = IF probing THEN @ ELSE "tick"]
    /\ pc' = [pc EXCEPT ![c] = "returned"]
    /\ UNCHANGED <<state, attempt, sattempt, posts, err, ctx, net, flips>>

-----------------------------------------------------------------------------
\* probeLoop: on a tick, the state is read; then the endpoint is pinged; then
\* the state is set; then the deferred ReleaseProbe runs.
Tick(c) ==
    /\ probe[c] = "tick"
    /\ probe' = [probe EXCEPT ![c] = IF state # "disconnected" THEN "exit" ELSE "ping"]
    /\ UNCHANGED <<state, probing, chatVars, ctx, net, flips>>

PingAnswered(c) ==
    /\ probe[c] = "ping" /\ net = "up"
    /\ probe' = [probe EXCEPT ![c] = "set"]
    /\ UNCHANGED <<state, probing, chatVars, ctx, net, flips>>

PingFails(c) ==
    /\ probe[c] = "ping" /\ net = "down"
    /\ probe' = [probe EXCEPT ![c] = "tick"]
    /\ UNCHANGED <<state, probing, chatVars, ctx, net, flips>>

ProbeSets(c) ==
    /\ probe[c] = "set"
    /\ state' = "connected"
    /\ probe' = [probe EXCEPT ![c] = "exit"]
    /\ UNCHANGED <<probing, chatVars, ctx, net, flips>>

ReleaseProbe(c) ==
    /\ probe[c] = "exit"
    /\ probing' = FALSE
    /\ probe' = [probe EXCEPT ![c] = "none"]
    /\ UNCHANGED <<state, chatVars, ctx, net, flips>>

\* What a Chat call does by itself, once its request or its wait is over; the
\* timers of the two waits; the answers of the endpoint are neither.
ChatStep(c) ==
    \/ Start(c) \/ ContextEnds(c) \/ MarkRetry(c) \/ MarkExhausted(c)
    \/ ResponseEnds(c) \/ ResponseRetries(c)
    \/ ErrorReturns(c) \/ Disconnect(c) \/ Claim(c)

Timer(c) == BackoffEnds(c) \/ WaitEnds(c)

ProbeStep(c) ==
    Tick(c) \/ PingAnswered(c) \/ PingFails(c) \/ ProbeSets(c) \/ ReleaseProbe(c)

Next ==
    \/ Flip
    \/ \E c \in Chats :
         \/ EndContext(c) \/ Answered(c) \/ TransportFails(c) \/ OtherFails(c)
         \/ ChatStep(c) \/ Timer(c) \/ ProbeStep(c)

Spec == Init /\ [][Next]_vars

\* Goroutines go on.  An endpoint need not answer a POST (the client has no
\* timeout of its own) and no backoff need end; a probe has its ticker and
\* probeTimeout.
Fairness == \A c \in Chats : WF_vars(ChatStep(c)) /\ WF_vars(ProbeStep(c))

FairSpec == Spec /\ Fairness

-----------------------------------------------------------------------------
TypeOK ==
    /\ state \in States
    /\ probing \in BOOLEAN
    /\ pc \in [Chats -> ChatPCs]
    /\ attempt \in [Chats -> 0..MaxRetries]
    /\ sattempt \in [Chats -> 0..StatusRetries]
    /\ posts \in [Chats -> Nat]
    /\ err \in [Chats -> {"none", "network", "deadline", "canceled", "other", "api"}]
    /\ ctx \in [Chats -> {"live", "canceled", "deadline"}]
    /\ probe \in [Chats -> ProbePCs]
    /\ net \in {"up", "down"}
    /\ flips \in 0..MaxFlips

(* At most one probe goroutine runs, and the claim flag says so            *)
(* (connstate.go:82-93, probe.go:22-26), however many Chat calls exhaust   *)
(* their retries at once.                                                  *)
OneProbe ==
    /\ \A c, d \in Chats : probe[c] # "none" /\ probe[d] # "none" => c = d
    /\ probing <=> \E c \in Chats : probe[c] # "none"

(* The two retry loops together send at most (MaxRetries + 1) requests for *)
(* each of the StatusRetries + 1 status attempts (openai.go:281-283, 380). *)
PostBudget == \A c \in Chats : posts[c] <= (MaxRetries + 1) * (StatusRetries + 1)

\* Why: what a call has sent is fixed by its two attempt counters.
AttemptsCounted ==
    \A c \in Chats :
        /\ pc[c] = "new" => posts[c] = 0
        /\ pc[c] # "new" => posts[c] <= sattempt[c] * (MaxRetries + 1) + attempt[c] + 1
        /\ pc[c] = "backoff" => attempt[c] < MaxRetries
        /\ pc[c] = "wait" => sattempt[c] < StatusRetries

\* A transport error of the call marks an outage: all attempts are used up, or
\* the deadline of its context counts as one (see ContextIsNoOutage).
Suffered(c) ==
    \/ err[c] = "network" /\ attempt[c] = MaxRetries
    \/ err[c] = "deadline"

\* A call that has failed before and not heard from the endpoint since.
Troubled(c) ==
    \/ pc[c] = "backoff"
    \/ pc[c] \in {"do", "mark"} \cup Responses /\ attempt[c] > 0
    \/ pc[c] = "failed" /\ Suffered(c)
    \/ pc[c] \in {"failed", "returned"} /\ err[c] = "other" /\ attempt[c] > 0
    \/ pc[c] \in {"failed", "returned"} /\ err[c] = "canceled"

(* The indicator tells of no trouble that no call had, whatever the order  *)
(* in which calls and probe set it: it says disconnected only after a call *)
(* that gave up for good, and reconnecting only while a call has failed    *)
(* and not got through, or behind one that was cancelled, or failed in     *)
(* another way, in between.  Such a call leaves reconnecting behind, but   *)
(* never an outage (connstate.go:10-13, openai.go:306-310, 319-321, 444).  *)
TroubleHasCause ==
    /\ state = "disconnected" =>
           \E c \in Chats : pc[c] \in {"claim", "returned"} /\ Suffered(c)
    /\ state = "reconnecting" => \E c \in Chats : Troubled(c)

\* Why: the retry loop gives up on a network error with its last attempt only.
LastAttemptFails ==
    \A c \in Chats : pc[c] = "failed" /\ err[c] = "network" => attempt[c] = MaxRetries

(* A call whose context has ended returns, even if the endpoint never      *)
(* answers it and neither wait would ever be over: the round trip, the     *)
(* backoff and the status wait all watch the context (openai.go:292,       *)
(* 330-334, 403-407).                                                      *)
EndedContextReturns == \A c \in Chats : ctx[c] # "live" ~> pc[c] = "returned"

EventuallyUp == <>[](net = "up")

(* Once the endpoint stays up, a probe that is on watch clears the marker, *)
(* and every probe goroutine exits (probe.go:22-26, 40-41).                *)
WatchedClears ==
    EventuallyUp => \A c \in Chats :
        /\ probe[c] \in {"tick", "ping"} /\ state = "disconnected" ~> state # "disconnected"
        /\ probe[c] # "none" ~> probe[c] = "none"

(* openai.go:444-447: on exhaustion the probe is started "so the TUI       *)
(* clears the marker once the endpoint is back, even if the user never     *)
(* sends another turn".                                                    *)
MarkerClears == EventuallyUp => (state = "disconnected" ~> state # "disconnected")

(* neterr.go:51-55 and openai.go:306-310: the end of the caller's own      *)
(* context, deadline included, is not a transport failure.                 *)
ContextIsNoOutage ==
    [][\A c \in Chats : pc[c] = "failed" /\ pc'[c] # "failed" /\ err[c] \in {"canceled", "deadline"} =>
           UNCHANGED state]_vars
=============================================================================
