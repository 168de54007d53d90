-------------------------------- MODULE Pool --------------------------------
(***************************************************************************)
(* llm.Pool (src/llm/pool.go): a counting semaphore with a FIFO of parked  *)
(* waiters and direct hand-off.  Every element of Calls is one Acquire     *)
(* call made by a goroutine of its own, together with the waiter it may    *)
(* allocate and the release closure it may get back, so a waiter and its   *)
(* channel are never reused.  Pool.mu makes each critical section one      *)
(* step; the steps between them (the select, the hand-off send after the   *)
(* unlock) interleave.                                                     *)
(***************************************************************************)
EXTENDS Integers, Sequences, FiniteSets, SequencesExt

CONSTANTS
    Calls,          \* the Acquire calls
    NoCall,         \* no waiter is being handed a slot
    Size,           \* the size given to NewPoolNamed
    QueueTimeout,   \* the timeout given to NewPoolNamed
    MaxUses         \* bound: how often one release closure is invoked

ASSUME SizeAssumption == Size \in Int
ASSUME TimeoutAssumption == QueueTimeout \in Int
ASSUME UsesAssumption == MaxUses \in Nat
ASSUME NoCallAssumption == NoCall \notin Calls

VARIABLES
    inflight,   \* Pool.inflight
    queue,      \* Pool.queue, each waiter named by its call
    done,       \* the waiters whose done flag is set
    ch,         \* the waiters whose one-element channel is full
    pc,         \* where each call's goroutine is
    to,         \* the waiter a releasing goroutine is about to send to
    uses,       \* how often the call's release closure has been invoked
    cancelled   \* the calls whose context is done

vars == <<inflight, queue, done, ch, pc, to, uses, cancelled>>

-----------------------------------------------------------------------------
\* Mutant of Capacity: the clamp is missing.
MutUnclamped == Size

\* NewPoolNamed clamps a size below 1, and a timeout below 0 to "none".
Capacity == IF Size < 1 THEN 1 ELSE Size
Timed == QueueTimeout > 0

\* "select": parked.  "abandon": gave up, has not locked the mutex yet.
\* "release": inside Pool.release, before its lock.  "send": past its unlock.
PCs == {"new", "select", "abandon", "held", "release", "send", "returned"}

-----------------------------------------------------------------------------
(* Mutants: plausible bugs that the runs' properties must catch.           *)

\* Cancelled and TimedOut with their case missing from the select.
MutNoCase(c) == FALSE

\* AbandonHanded forgets the slot it was handed.
MutAbandonLeaks(c) ==
    /\ pc[c] = "abandon"
    /\ c \in done
    /\ pc' = [pc EXCEPT ![c] = "returned"]
    /\ UNCHANGED <<inflight, queue, done, ch, to, uses, cancelled>>

\* HandOff neither pops nor marks the waiter it sends to.
MutHandOffUnmarked(c) ==
    /\ pc[c] = "release"
    /\ queue # <<>>
    /\ to' = [to EXCEPT ![c] = Head(queue)]
    /\ pc' = [pc EXCEPT ![c] = "send"]
    /\ UNCHANGED <<inflight, queue, done, ch, uses, cancelled>>

\* HandOff serves the newest waiter.
MutHandOffLIFO(c) ==
    /\ pc[c] = "release"
    /\ queue # <<>>
    /\ queue' = Front(queue)
    /\ done' = done \cup {Last(queue)}
    /\ to' = [to EXCEPT ![c] = Last(queue)]
    /\ pc' = [pc EXCEPT ![c] = "send"]
    /\ UNCHANGED <<inflight, ch, uses, cancelled>>

-----------------------------------------------------------------------------
Init ==
    /\ inflight = 0
    /\ queue = <<>>
    /\ done = {}
    /\ ch = {}
    /\ pc = [c \in Calls |-> "new"]
    /\ to = [c \in Calls |-> NoCall]
    /\ uses = [c \in Calls |-> 0]
    /\ cancelled = {}

\* The context of a call ends, at any time.
Cancel(c) ==
    /\ c \notin cancelled
    /\ cancelled' = cancelled \cup {c}
    /\ UNCHANGED <<inflight, queue, done, ch, pc, to, uses>>

\* Acquire's critical section: the fast path does not look at the context.
AcquireFast(c) ==
    /\ pc[c] = "new"
    /\ inflight < Capacity
    /\ inflight' = inflight + 1
    /\ pc' = [pc EXCEPT ![c] = "held"]
    /\ UNCHANGED <<queue, done, ch, to, uses, cancelled>>

AcquirePark(c) ==
    /\ pc[c] = "new"
    /\ ~(inflight < Capacity)
    /\ queue' = Append(queue, c)
    /\ pc' = [pc EXCEPT ![c] = "select"]
    /\ UNCHANGED <<inflight, done, ch, to, uses, cancelled>>

\* The select of a parked call; with several cases ready, any may be taken.
Granted(c) ==
    /\ pc[c] = "select"
    /\ c \in ch
    /\ ch' = ch \ {c}
    /\ pc' = [pc EXCEPT ![c] = "held"]
    /\ UNCHANGED <<inflight, queue, done, to, uses, cancelled>>

Cancelled(c) ==
    /\ pc[c] = "select"
    /\ c \in cancelled
    /\ pc' = [pc EXCEPT ![c] = "abandon"]
    /\ UNCHANGED <<inflight, queue, done, ch, to, uses, cancelled>>

TimedOut(c) ==
    /\ pc[c] = "select"
    /\ Timed
    /\ pc' = [pc EXCEPT ![c] = "abandon"]
    /\ UNCHANGED <<inflight, queue, done, ch, to, uses, cancelled>>

\* abandon, when release had already marked the waiter: the slot it was
\* handed goes through release() before the error is returned.
AbandonHanded(c) ==
    /\ pc[c] = "abandon"
    /\ c \in done
    /\ pc' = [pc EXCEPT ![c] = "release"]
    /\ UNCHANGED <<inflight, queue, done, ch, to, uses, cancelled>>

\* abandon, when the waiter is still parked.
AbandonParked(c) ==
    /\ pc[c] = "abandon"
    /\ c \notin done
    /\ done' = done \cup {c}
    /\ queue' = RemoveFirst(queue, c)
    /\ pc' = [pc EXCEPT ![c] = "returned"]
    /\ UNCHANGED <<inflight, ch, to, uses, cancelled>>

\* The release closure: sync.Once lets only the first call reach release().
CallRelease(c) ==
    /\ \/ pc[c] = "held"
       \/ pc[c] = "returned" /\ uses[c] > 0
    /\ uses[c] < MaxUses
    /\ uses' = [uses EXCEPT ![c] = @ + 1]
    /\ pc' = [pc EXCEPT ![c] = IF uses[c] = 0 THEN "release" ELSE @]
    /\ UNCHANGED <<inflight, queue, done, ch, to, cancelled>>

\* release(): waiters already done are dropped, the first live one is marked
\* under the lock; the send to its channel comes after the unlock.
HandOff(c) ==
    /\ pc[c] = "release"
    /\ \E i \in DOMAIN queue :
         /\ queue[i] \notin done
         /\ \A j \in 1..(i - 1) : queue[j] \in done
         /\ queue' = SubSeq(queue, i + 1, Len(queue))
         /\ done' = done \cup {queue[i]}
         /\ to' = [to EXCEPT ![c] = queue[i]]
    /\ pc' = [pc EXCEPT ![c] = "send"]
    /\ UNCHANGED <<inflight, ch, uses, cancelled>>

\* release() with no live waiter.
Free(c) ==
    /\ pc[c] = "release"
    /\ \A i \in DOMAIN queue : queue[i] \in done
    /\ queue' = <<>>
    /\ inflight' = inflight - 1
    /\ pc' = [pc EXCEPT ![c] = "returned"]
    /\ UNCHANGED <<done, ch, to, uses, cancelled>>

\* w.ch <- struct{}{}: blocks while the one-element buffer is full.
Send(c) ==
    /\ pc[c] = "send"
    /\ to[c] \notin ch
    /\ ch' = ch \cup {to[c]}
    /\ to' = [to EXCEPT ![c] = NoCall]
    /\ pc' = [pc EXCEPT ![c] = "returned"]
    /\ UNCHANGED <<inflight, queue, done, uses, cancelled>>

\* What the call's goroutine does by itself once Acquire has been entered.
Step(c) ==
    \/ Granted(c) \/ Cancelled(c) \/ TimedOut(c)
    \/ AbandonHanded(c) \/ AbandonParked(c)
    \/ HandOff(c) \/ Free(c) \/ Send(c)

Next ==
    \E c \in Calls :
        Cancel(c) \/ AcquireFast(c) \/ AcquirePark(c) \/ CallRelease(c) \/ Step(c)

Spec == Init /\ [][Next]_vars

-----------------------------------------------------------------------------
\* Go's scheduler: a goroutine that can continue does.
Scheduled(c) ==
    \/ Granted(c) \/ Cancelled(c) \/ AbandonHanded(c) \/ AbandonParked(c)
    \/ HandOff(c) \/ Free(c) \/ Send(c)

FairSpec == Spec /\ \A c \in Calls : WF_vars(Scheduled(c))

\* Two things that not every pool and caller offer: a queue timeout that fires,
\* and holders that call the closure Acquire gave them (line 71).
TimersFire == \A c \in Calls : WF_vars(TimedOut(c))
HoldersRelease == \A c \in Calls : WF_vars(pc[c] = "held" /\ CallRelease(c))

-----------------------------------------------------------------------------
TypeOK ==
    /\ inflight \in Int
    /\ queue \in Seq(Calls)
    /\ done \subseteq Calls
    /\ ch \subseteq Calls
    /\ pc \in [Calls -> PCs]
    /\ to \in [Calls -> Calls \cup {NoCall}]
    /\ uses \in [Calls -> Nat]
    /\ cancelled \subseteq Calls

\* A call owns a slot from the moment release() marks its waiter or the fast
\* path counts it, until its own release() hands the slot on or frees it.
Owns(c) ==
    \/ pc[c] \in {"held", "release"}
    \/ pc[c] \in {"select", "abandon"} /\ c \in done

Owners == {c \in Calls : Owns(c)}

(* inflight counts exactly the slots somebody owns: no interleaving of a   *)
(* hand-off with a cancellation or timeout of the waiter it is handed to   *)
(* leaks a slot or frees it twice (pool.go:109-128, 134-154).              *)
SlotAccounting == IsFiniteSet(Owners) /\ inflight = Cardinality(Owners)

CapacityRespected == inflight <= Capacity

(* The counter is right and never above the capacity (pool.go:14-20).      *)
SlotsCounted == SlotAccounting /\ CapacityRespected

(* The comment in Acquire, pool.go:74-79: a non-empty queue implies        *)
(* inflight == capacity, so the fast path never barges past a waiter.      *)
QueueImpliesFull == queue # <<>> => inflight = Capacity

(* The queue holds exactly the parked calls that nobody has marked, once   *)
(* each: a call that gave up or was handed a slot is not in it.            *)
ParkedOnce ==
    /\ \A i, j \in DOMAIN queue : queue[i] = queue[j] => i = j
    /\ \A c \in Calls :
         c \in Range(queue) <=> pc[c] \in {"select", "abandon"} /\ c \notin done

(* Each hand-off in progress has a waiter of its own, marked done and with *)
(* its channel still empty.                                                *)
HandOffs ==
    /\ ch \subseteq done
    /\ \A c \in done : pc[c] # "new"
    /\ \A c \in Calls : pc[c] = "send" => to[c] \in done \ ch
    /\ \A b, c \in Calls : pc[b] = "send" /\ pc[c] = "send" /\ to[b] = to[c] => b = c

(* pool.go:149 "buffered(1) -- never blocks": a releasing goroutine never  *)
(* finds the channel of the waiter it marked full.                         *)
SendNeverBlocks == \A c \in Calls : pc[c] = "send" => to[c] \notin ch

\* The inductive invariant behind them.
PoolInv ==
    /\ TypeOK
    /\ ParkedOnce
    /\ HandOffs
    /\ SlotAccounting
    /\ CapacityRespected
    /\ QueueImpliesFull

-----------------------------------------------------------------------------
(* The pool implements its abstract specification: FIFO hand-off, capacity,*)
(* no barging.                                                             *)
Slots == INSTANCE SlotPool WITH holding <- Owners, waiting <- queue
SlotsSpec == Slots!Spec

Waits(c)   == pc[c] = "select"
Returns(c) == pc[c] \in {"held", "returned"}

(* Every parked call returns when holders release their slots: no hand-off *)
(* is lost and no free slot is left beside a parked waiter.  When no       *)
(* holder ever releases it returns if its context ends, and also if the    *)
(* queue timeout fires: giving up does not depend on the other callers     *)
(* (pool.go:74-79, 98-107).                                                *)
ParkedReturns ==
    \A c \in Calls :
        /\ HoldersRelease => (Waits(c) ~> Returns(c))
        /\ c \in cancelled /\ Waits(c) ~> Returns(c)
        /\ TimersFire => (Waits(c) ~> Returns(c))
=============================================================================
