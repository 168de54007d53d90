----------------------------- MODULE PoolProofs -----------------------------
(***************************************************************************)
(* The pool's safety properties for every set of calls, size and timeout,  *)
(* and that every step of Pool is a step of SlotPool.  PooledChat uses the *)
(* pool as Pool allows, so Pool's theorems hold of the composition; an open *)
(* event stream always holds a slot; and no event is lost, doubled or      *)
(* reordered between the inner client and the loop.                        *)
(***************************************************************************)
EXTENDS PooledChat, FiniteSetTheorems, SequenceTheorems, TLAPS

-----------------------------------------------------------------------------
(* Facts about the queue.                                                  *)

(* Removing position i of a sequence: what is left, and in which order     *)
(* (the append(p.queue[:i], p.queue[i+1:]...) of pool.go:122).             *)
LEMMA RemoveAtProperties ==
    ASSUME NEW S, NEW q \in Seq(S), NEW i \in 1..Len(q)
    PROVE  /\ RemoveAt(q, i) \in Seq(S)
           /\ Len(RemoveAt(q, i)) = Len(q) - 1
           /\ \A j \in 1..(Len(q) - 1) :
                RemoveAt(q, i)[j] = IF j < i THEN q[j] ELSE q[j + 1]
<1> DEFINE a == SubSeq(q, 1, i - 1)
           b == SubSeq(q, i + 1, Len(q))
<1>1. Len(q) \in Nat /\ \A j \in 1..Len(q) : q[j] \in S
  BY LenProperties, ElementOfSeq
<1>2. a \in Seq(S) /\ Len(a) = i - 1 /\ \A j \in 1..(i - 1) : a[j] = q[j]
  <2>1. \A j \in 1..(i - 1) : q[j] \in S
    BY <1>1
  <2> QED BY <1>1, <2>1, SubSeqProperties
<1>3. b \in Seq(S) /\ Len(b) = Len(q) - i
      /\ \A j \in 1..(Len(q) - i) : b[j] = q[i + j]
  <2>1. \A j \in (i + 1)..Len(q) : q[j] \in S
    BY <1>1
  <2>2. /\ b \in Seq(S)
        /\ Len(b) = IF i + 1 <= Len(q) THEN Len(q) - (i + 1) + 1 ELSE 0
        /\ \A j \in 1..(Len(q) - (i + 1) + 1) : b[j] = q[(i + 1) + j - 1]
    <3> HIDE DEF b
    <3>1. i + 1 \in Int /\ Len(q) \in Int
      BY <1>1
    <3> QED BY <2>1, <3>1, SubSeqProperties DEF b
  <2> HIDE DEF b
  <2> QED BY <1>1, <2>2
<1> HIDE DEF a, b
<1>4. /\ a \o b \in Seq(S)
      /\ Len(a \o b) = Len(a) + Len(b)
      /\ \A j \in 1..(Len(a) + Len(b)) :
           (a \o b)[j] = IF j <= Len(a) THEN a[j] ELSE b[j - Len(a)]
  BY <1>2, <1>3, ConcatProperties
<1>5. RemoveAt(q, i) = a \o b
  BY DEF RemoveAt, a, b
<1>6. Len(a) + Len(b) = Len(q) - 1
  BY <1>1, <1>2, <1>3
<1>7. ASSUME NEW j \in 1..(Len(q) - 1)
      PROVE  (a \o b)[j] = IF j < i THEN q[j] ELSE q[j + 1]
  <2>1. CASE j < i
    BY <1>1, <1>2, <1>4, <1>6, <2>1
  <2>2. CASE ~(j < i)
    <3>1. j - Len(a) \in 1..(Len(q) - i) /\ i + (j - Len(a)) = j + 1
      BY <1>1, <1>2, <2>2
    <3>2. (a \o b)[j] = b[j - Len(a)]
      BY <1>1, <1>2, <1>4, <1>6, <2>2
    <3> QED BY <1>1, <1>3, <2>2, <3>1, <3>2
  <2> QED BY <2>1, <2>2
<1> QED
  BY <1>4, <1>5, <1>6, <1>7

(* ... and when every element occurs once, exactly the removed one is gone *)
(* and the others still occur once.                                        *)
LEMMA RemoveAtDistinct ==
    ASSUME NEW S, NEW q \in Seq(S), NEW k \in 1..Len(q),
           \A i, j \in 1..Len(q) : q[i] = q[j] => i = j
    PROVE  LET r == RemoveAt(q, k)
           IN  /\ \A i, j \in DOMAIN r : r[i] = r[j] => i = j
               /\ Range(r) = Range(q) \ {q[k]}
<1> DEFINE n == Len(q)
           r == RemoveAt(q, k)
<1>1. n \in Nat /\ DOMAIN q = 1..n /\ DOMAIN r = 1..(n - 1)
  BY RemoveAtProperties, LenProperties
<1>2. \A j \in 1..(n - 1) : r[j] = IF j < k THEN q[j] ELSE q[j + 1]
  BY RemoveAtProperties
<1>3. \A i, j \in 1..n : q[i] = q[j] => i = j
  OBVIOUS
<1>4. k \in 1..n
  OBVIOUS
<1> HIDE DEF r, n
<1>5. \A j \in 1..(n - 1) : r[j] = q[IF j < k THEN j ELSE j + 1]
  BY <1>2
<1>6. ASSUME NEW i \in 1..(n - 1), NEW j \in 1..(n - 1), r[i] = r[j]
      PROVE  i = j
  <2> DEFINE a == IF i < k THEN i ELSE i + 1
             b == IF j < k THEN j ELSE j + 1
  <2>1. a \in 1..n /\ b \in 1..n
    BY <1>1, <1>4
  <2>2. q[a] = q[b]
    BY <1>5, <1>6
  <2>3. a = b
    <3> HIDE DEF a, b
    <3> QED BY <1>3, <2>1, <2>2
  <2> QED BY <1>1, <1>4, <2>3
<1>7. ASSUME NEW j \in 1..(n - 1)
      PROVE  r[j] \in Range(q) \ {q[k]}
  <2> DEFINE a == IF j < k THEN j ELSE j + 1
  <2>1. a \in 1..n /\ a # k
    BY <1>1, <1>4
  <2>2. r[j] = q[a]
    BY <1>5
  <2> HIDE DEF a
  <2> QED BY <1>1, <1>3, <1>4, <2>1, <2>2 DEF Range
<1>8. ASSUME NEW i \in 1..n, q[i] # q[k]
      PROVE  \E j \in 1..(n - 1) : r[j] = q[i]
  <2> DEFINE a == IF i < k THEN i ELSE i - 1
  <2>1. a \in 1..(n - 1) /\ (IF a < k THEN a ELSE a + 1) = i
    BY <1>1, <1>4, <1>8
  <2> HIDE DEF a
  <2> QED BY <1>5, <2>1
<1>9. Range(r) = {r[j] : j \in 1..(n - 1)} /\ Range(q) = {q[i] : i \in 1..n}
  BY <1>1 DEF Range
<1>10. Range(r) = Range(q) \ {q[k]}
  BY <1>7, <1>8, <1>9
<1> QED
  BY <1>1, <1>6, <1>10 DEF r

(* A waiter that occurs once in the queue is removed from where it stands  *)
(* (the loop of abandon, pool.go:120-125).                                 *)
LEMMA RemoveFirstProperties ==
    ASSUME NEW S, NEW q \in Seq(S), NEW c,
           NEW k \in 1..Len(q), q[k] = c,
           \A j \in 1..Len(q) : q[j] = c => j = k
    PROVE  RemoveFirst(q, c) = RemoveAt(q, k)
<1>1. {j \in 1..Len(q) : q[j] = c} = {k}
  OBVIOUS
<1>2. k \in Int
  BY LenProperties
<1>3. Min({k}) = k
  BY <1>2 DEF Min
<1>4. SelectInSeq(q, LAMBDA v : v = c) = k
  BY <1>1, <1>3 DEF SelectInSeq
<1> QED
  BY <1>4 DEF RemoveFirst
-----------------------------------------------------------------------------
(* The inductive invariant.                                                *)

LEMMA CapacityPositive == Capacity \in Nat \ {0}
  BY SizeAssumption DEF Capacity

(* Ownership that does not change leaves the accounting alone.             *)
LEMMA OwnersKept ==
    ASSUME SlotAccounting, inflight' = inflight,
           \A d \in Calls : Owns(d)' <=> Owns(d)
    PROVE  SlotAccounting'
<1>1. Owners' = Owners
  BY DEF Owners
<1> QED
  BY <1>1 DEF SlotAccounting

(* A new owner is counted once; one that leaves is subtracted once.        *)
LEMMA OwnerAdded ==
    ASSUME SlotAccounting, NEW c \in Calls, ~Owns(c), Owns(c)',
           inflight' = inflight + 1,
           \A d \in Calls \ {c} : Owns(d)' <=> Owns(d)
    PROVE  SlotAccounting'
<1>1. Owners' = Owners \cup {c} /\ c \notin Owners
  BY DEF Owners
<1> QED
  BY <1>1, FS_AddElement DEF SlotAccounting

LEMMA OwnerRemoved ==
    ASSUME SlotAccounting, NEW c \in Calls, Owns(c), ~Owns(c)',
           inflight' = inflight - 1,
           \A d \in Calls \ {c} : Owns(d)' <=> Owns(d)
    PROVE  SlotAccounting'
<1>1. Owners' = Owners \ {c} /\ c \in Owners
  BY DEF Owners
<1> QED
  BY <1>1, FS_RemoveElement DEF SlotAccounting

(* A slot that passes from one call to another keeps the count.            *)
LEMMA OwnerSwapped ==
    ASSUME SlotAccounting, NEW c \in Calls, NEW d \in Calls, c # d,
           Owns(c), ~Owns(c)', ~Owns(d), Owns(d)', inflight' = inflight,
           \A e \in Calls \ {c, d} : Owns(e)' <=> Owns(e)
    PROVE  SlotAccounting' /\ Owners' = (Owners \ {c}) \cup {d}
<1> DEFINE rest == Owners \ {c}
<1>1. Owners' = rest \cup {d} /\ c \in Owners /\ d \notin rest
  BY DEF Owners
<1>2. IsFiniteSet(rest) /\ Cardinality(rest) = Cardinality(Owners) - 1
  BY <1>1, FS_RemoveElement DEF SlotAccounting
<1>3. IsFiniteSet(Owners) /\ Cardinality(Owners) \in Nat
  BY FS_CardinalityType DEF SlotAccounting
<1> HIDE DEF rest
<1>4. IsFiniteSet(rest \cup {d}) /\ Cardinality(rest \cup {d}) = Cardinality(rest) + 1
  BY <1>1, <1>2, FS_AddElement
<1> QED
  BY <1>1, <1>2, <1>3, <1>4 DEF SlotAccounting, rest

(* Every count a state of PoolInv has is at least 0, and at least 1 as     *)
(* long as somebody owns a slot.                                           *)
LEMMA OwnerCounted ==
    ASSUME SlotAccounting, NEW c \in Calls, Owns(c)
    PROVE  inflight \in Nat \ {0}
<1>1. Owners # {} /\ IsFiniteSet(Owners) /\ inflight = Cardinality(Owners)
  BY DEF SlotAccounting, Owners
<1> QED
  BY <1>1, FS_EmptySet, FS_CardinalityType
LEMMA InitPoolInv == Init => PoolInv
<1> SUFFICES ASSUME Init PROVE PoolInv
  OBVIOUS
<1>1. TypeOK
  BY DEF Init, TypeOK, PCs
<1>2. Owners = {}
  BY DEF Init, Owners, Owns
<1>3. SlotAccounting /\ CapacityRespected /\ QueueImpliesFull
  BY <1>2, FS_EmptySet, CapacityPositive
     DEF Init, SlotAccounting, CapacityRespected, QueueImpliesFull
<1>4. ParkedOnce /\ HandOffs
  BY DEF Init, ParkedOnce, HandOffs, Range
<1> QED
  BY <1>1, <1>3, <1>4 DEF PoolInv

(* A step that leaves the queue, the flags and the hand-offs alone and     *)
(* takes one goroutine from a parked place to a parked place, or from one  *)
(* that is not parked to another, keeps ParkedOnce.                        *)
LEMMA ParkedKept ==
    ASSUME PoolInv, queue' = queue, done' = done,
           \A d \in Calls : d \notin done =>
              (pc[d] \in {"select", "abandon"} <=> pc'[d] \in {"select", "abandon"})
    PROVE  ParkedOnce'
BY DEF PoolInv, ParkedOnce, Range

(* ... and one that starts or ends no hand-off keeps HandOffs.             *)
LEMMA HandOffsKept ==
    ASSUME PoolInv, done' = done, ch' \subseteq ch, to' = to,
           \A d \in Calls : /\ pc'[d] = "send" <=> pc[d] = "send"
                            /\ pc'[d] = "new" => pc[d] = "new"
    PROVE  HandOffs'
BY DEF PoolInv, TypeOK, HandOffs

LEMMA AcquireFastInv ==
    ASSUME PoolInv, NEW c \in Calls, AcquireFast(c)
    PROVE  PoolInv'
<1>1. TypeOK'
  BY DEF PoolInv, TypeOK, PCs, AcquireFast
<1>2. ParkedOnce'
  BY ParkedKept DEF PoolInv, TypeOK, AcquireFast
<1>3. HandOffs'
  BY HandOffsKept DEF PoolInv, TypeOK, AcquireFast
<1>4. SlotAccounting'
  <2>1. c \notin done /\ ~Owns(c) /\ Owns(c)'
    BY DEF PoolInv, TypeOK, HandOffs, AcquireFast, Owns
  <2>2. \A d \in Calls \ {c} : Owns(d)' <=> Owns(d)
    BY DEF PoolInv, TypeOK, AcquireFast, Owns
  <2> QED BY <2>1, <2>2, OwnerAdded DEF PoolInv, AcquireFast
<1>5. CapacityRespected' /\ QueueImpliesFull'
  BY SizeAssumption
     DEF PoolInv, TypeOK, AcquireFast, CapacityRespected, QueueImpliesFull, Capacity
<1> QED
  BY <1>1, <1>2, <1>3, <1>4, <1>5 DEF PoolInv

LEMMA AcquireParkInv ==
    ASSUME PoolInv, NEW c \in Calls, AcquirePark(c)
    PROVE  PoolInv'
<1>0. c \notin done /\ pc[c] = "new" /\ c \notin Range(queue)
  BY DEF PoolInv, TypeOK, HandOffs, ParkedOnce, AcquirePark
<1>1. TypeOK'
  BY DEF PoolInv, TypeOK, PCs, AcquirePark
<1>2. ParkedOnce'
  <2>1. /\ queue' \in Seq(Calls) /\ Len(queue) \in Nat
        /\ Len(queue') = Len(queue) + 1
        /\ \A i \in 1..Len(queue) : queue'[i] = queue[i]
        /\ queue'[Len(queue) + 1] = c
        /\ DOMAIN queue = 1..Len(queue) /\ DOMAIN queue' = 1..(Len(queue) + 1)
    BY AppendProperties, LenProperties DEF PoolInv, TypeOK, AcquirePark
  <2>2. Range(queue') = Range(queue) \cup {c}
    BY <2>1 DEF Range
  <2>3. \A i \in 1..Len(queue) : queue[i] # c
    BY <1>0, <2>1 DEF Range
  <2>4. \A i, j \in DOMAIN queue' : queue'[i] = queue'[j] => i = j
    BY <2>1, <2>3 DEF PoolInv, ParkedOnce
  <2>5. \A d \in Calls : d \in Range(queue') <=>
                           pc'[d] \in {"select", "abandon"} /\ d \notin done'
    BY <1>0, <2>2 DEF PoolInv, TypeOK, ParkedOnce, AcquirePark
  <2> QED BY <2>4, <2>5 DEF ParkedOnce, Range
<1>3. HandOffs'
  BY HandOffsKept DEF PoolInv, TypeOK, AcquirePark
<1>4. SlotAccounting'
  <2>1. \A d \in Calls : Owns(d)' <=> Owns(d)
    BY <1>0 DEF PoolInv, TypeOK, AcquirePark, Owns
  <2> QED BY <2>1, OwnersKept DEF PoolInv, AcquirePark
<1>5. CapacityRespected' /\ QueueImpliesFull'
  BY SizeAssumption
     DEF PoolInv, TypeOK, AcquirePark, CapacityRespected, QueueImpliesFull, Capacity
<1> QED
  BY <1>1, <1>2, <1>3, <1>4, <1>5 DEF PoolInv

(* The steps that move one goroutine between places of the same ownership  *)
(* and touch neither the count nor the queue.                              *)
LEMMA QuietInv ==
    ASSUME PoolInv, NEW c \in Calls,
           \/ Cancel(c) \/ Granted(c) \/ Cancelled(c) \/ TimedOut(c)
           \/ AbandonHanded(c) \/ CallRelease(c)
    PROVE  PoolInv'
<1>1. /\ inflight' = inflight /\ queue' = queue /\ done' = done /\ to' = to
      /\ ch' \subseteq ch
  BY DEF Cancel, Granted, Cancelled, TimedOut, AbandonHanded, CallRelease
<1>2. TypeOK'
  <2>1. CASE Cancel(c)
    BY <2>1 DEF Cancel, PoolInv, TypeOK
  <2>2. CASE Granted(c)
    BY <2>2 DEF Granted, PoolInv, TypeOK, PCs
  <2>3. CASE Cancelled(c) \/ TimedOut(c) \/ AbandonHanded(c)
    BY <2>3 DEF Cancelled, TimedOut, AbandonHanded, PoolInv, TypeOK, PCs
  <2>4. CASE CallRelease(c)
    BY <2>4 DEF CallRelease, PoolInv, TypeOK, PCs
  <2> QED BY <2>1, <2>2, <2>3, <2>4
<1>3. /\ \A d \in Calls \ {c} : pc'[d] = pc[d]
      /\ \/ pc'[c] = pc[c]
         \/ pc[c] = "select" /\ c \in done /\ pc'[c] = "held"
         \/ pc[c] = "select" /\ pc'[c] = "abandon"
         \/ pc[c] = "abandon" /\ c \in done /\ pc'[c] = "release"
         \/ pc[c] = "held" /\ pc'[c] = "release"
  <2>1. CASE Cancel(c)
    BY <2>1 DEF Cancel
  <2>2. CASE Granted(c)
    BY <2>2 DEF Granted, PoolInv, TypeOK, HandOffs
  <2>3. CASE Cancelled(c) \/ TimedOut(c) \/ AbandonHanded(c)
    BY <2>3 DEF Cancelled, TimedOut, AbandonHanded, PoolInv, TypeOK
  <2>4. CASE CallRelease(c)
    <3>1. uses[c] \in Nat
      BY DEF PoolInv, TypeOK
    <3>2. CASE uses[c] = 0
      BY <2>4, <3>2 DEF CallRelease, PoolInv, TypeOK
    <3>3. CASE uses[c] # 0
      BY <2>4, <3>3 DEF CallRelease, PoolInv, TypeOK
    <3> QED BY <3>2, <3>3
  <2> QED BY <2>1, <2>2, <2>3, <2>4
<1>4. ParkedOnce'
  BY <1>1, <1>3, ParkedKept
<1>5. HandOffs'
  BY <1>1, <1>3, HandOffsKept
<1>6. SlotAccounting'
  <2>1. \A d \in Calls : Owns(d)' <=> Owns(d)
    BY <1>1, <1>3 DEF Owns
  <2> QED BY <1>1, <2>1, OwnersKept DEF PoolInv
<1>7. CapacityRespected' /\ QueueImpliesFull'
  BY <1>1 DEF PoolInv, CapacityRespected, QueueImpliesFull, Capacity
<1> QED
  BY <1>2, <1>4, <1>5, <1>6, <1>7 DEF PoolInv

(* abandon takes its own waiter, and nothing else, out of the queue.       *)
LEMMA AbandonRemoves ==
    ASSUME PoolInv, NEW c \in Calls, AbandonParked(c)
    PROVE  \E k \in 1..Len(queue) : queue[k] = c /\ queue' = RemoveAt(queue, k)
<1>1. c \in Range(queue)
  BY DEF PoolInv, ParkedOnce, AbandonParked
<1>2. DOMAIN queue = 1..Len(queue) /\ queue \in Seq(Calls)
  BY LenProperties DEF PoolInv, TypeOK
<1>3. PICK k \in 1..Len(queue) : queue[k] = c
  BY <1>1, <1>2 DEF Range
<1>4. \A j \in 1..Len(queue) : queue[j] = c => j = k
  BY <1>2, <1>3 DEF PoolInv, ParkedOnce
<1>5. RemoveFirst(queue, c) = RemoveAt(queue, k)
  BY <1>2, <1>3, <1>4, RemoveFirstProperties
<1> QED
  BY <1>3, <1>5 DEF AbandonParked

LEMMA AbandonParkedInv ==
    ASSUME PoolInv, NEW c \in Calls, AbandonParked(c)
    PROVE  PoolInv'
<1>1. queue \in Seq(Calls) /\ Len(queue) \in Nat /\ DOMAIN queue = 1..Len(queue)
  BY LenProperties DEF PoolInv, TypeOK
<1>2. PICK k \in 1..Len(queue) : queue[k] = c /\ queue' = RemoveAt(queue, k)
  BY AbandonRemoves
<1>3. \A i, j \in 1..Len(queue) : queue[i] = queue[j] => i = j
  BY <1>1 DEF PoolInv, ParkedOnce
<1>4. TypeOK'
  BY <1>1, <1>2, RemoveAtProperties DEF PoolInv, TypeOK, PCs, AbandonParked
<1>5. /\ \A i, j \in DOMAIN queue' : queue'[i] = queue'[j] => i = j
      /\ Range(queue') = Range(queue) \ {c}
  BY <1>1, <1>2, <1>3, RemoveAtDistinct
<1>6. ParkedOnce'
  <2>1. \A d \in Calls : d \in Range(queue') <=>
                           pc'[d] \in {"select", "abandon"} /\ d \notin done'
    BY <1>5 DEF PoolInv, TypeOK, ParkedOnce, AbandonParked
  <2> QED BY <1>5, <2>1 DEF ParkedOnce, Range
<1>7. HandOffs'
  BY DEF PoolInv, TypeOK, HandOffs, AbandonParked
<1>8. SlotAccounting'
  <2>1. \A d \in Calls : Owns(d)' <=> Owns(d)
    BY DEF PoolInv, TypeOK, AbandonParked, Owns
  <2> QED BY <2>1, OwnersKept DEF PoolInv, AbandonParked
<1>9. CapacityRespected' /\ QueueImpliesFull'
  <2>1. queue # <<>>
    BY <1>1, <1>2, EmptySeq
  <2> QED
    BY <2>1 DEF PoolInv, AbandonParked, CapacityRespected, QueueImpliesFull, Capacity
<1> QED
  BY <1>4, <1>6, <1>7, <1>8, <1>9 DEF PoolInv

(* No done waiter is ever left in the queue, so release() hands its slot   *)
(* to the head: the longest-waiting call.                                  *)
LEMMA HandOffServesHead ==
    ASSUME PoolInv, NEW c \in Calls, HandOff(c)
    PROVE  /\ queue # <<>>
           /\ Head(queue) \in Calls \ (done \cup {c})
           /\ pc[Head(queue)] \in {"select", "abandon"}
           /\ queue' = Tail(queue)
           /\ done' = done \cup {Head(queue)}
           /\ to' = [to EXCEPT ![c] = Head(queue)]
<1>1. queue \in Seq(Calls) /\ Len(queue) \in Nat /\ DOMAIN queue = 1..Len(queue)
  BY LenProperties DEF PoolInv, TypeOK
<1>2. \A i \in 1..Len(queue) : /\ queue[i] \in Calls \ done
                               /\ pc[queue[i]] \in {"select", "abandon"}
  BY <1>1, ElementOfSeq DEF PoolInv, ParkedOnce, Range
<1>3. PICK i \in 1..Len(queue) :
         /\ \A j \in 1..(i - 1) : queue[j] \in done
         /\ queue' = SubSeq(queue, i + 1, Len(queue))
         /\ done' = done \cup {queue[i]}
         /\ to' = [to EXCEPT ![c] = queue[i]]
  BY <1>1 DEF HandOff
<1>4. i = 1
  <2>1. i # 1 => 1 \in 1..(i - 1) /\ 1 \in 1..Len(queue)
    BY <1>1
  <2> QED BY <1>2, <1>3, <2>1
<1>5. queue # <<>> /\ Head(queue) = queue[1]
  BY <1>1, <1>3, <1>4, EmptySeq
<1>6. Tail(queue) = SubSeq(queue, 2, Len(queue))
  BY <1>1, <1>5, TailIsSubSeq
<1>7. pc[c] = "release"
  BY DEF HandOff
<1> QED
  BY <1>1, <1>2, <1>3, <1>4, <1>5, <1>6, <1>7

(* What a queue without repetitions loses with its head.                   *)
LEMMA TailDistinct ==
    ASSUME NEW S, NEW q \in Seq(S), q # <<>>,
           \A i, j \in 1..Len(q) : q[i] = q[j] => i = j
    PROVE  /\ Tail(q) \in Seq(S)
           /\ \A i, j \in DOMAIN Tail(q) : Tail(q)[i] = Tail(q)[j] => i = j
           /\ Range(Tail(q)) = Range(q) \ {Head(q)}
<1>1. Len(q) \in Nat \ {0} /\ 1 \in 1..Len(q) /\ Head(q) = q[1]
  BY EmptySeq, LenProperties
<1>2. RemoveAt(q, 1) = Tail(q)
  <2>1. SubSeq(q, 1, 0) = <<>>
    BY SubSeqEmpty
  <2>2. Tail(q) = SubSeq(q, 2, Len(q)) /\ Tail(q) \in Seq(S)
    BY TailIsSubSeq, HeadTailProperties
  <2>3. RemoveAt(q, 1) = SubSeq(q, 1, 1 - 1) \o SubSeq(q, 1 + 1, Len(q))
    BY DEF RemoveAt
  <2>4. 1 - 1 = 0 /\ 1 + 1 = 2
    OBVIOUS
  <2>5. RemoveAt(q, 1) = <<>> \o Tail(q)
    BY <2>1, <2>2, <2>3, <2>4
  <2> QED BY <2>2, <2>5, ConcatEmptySeq
<1>3. Tail(q) \in Seq(S)
  BY HeadTailProperties
<1> QED
  BY <1>1, <1>2, <1>3, RemoveAtDistinct

LEMMA HandOffInv ==
    ASSUME PoolInv, NEW c \in Calls, HandOff(c)
    PROVE  PoolInv'
<1>1. PICK w \in Calls \ (done \cup {c}) :
      /\ queue # <<>> /\ w = Head(queue)
      /\ pc[w] \in {"select", "abandon"}
      /\ queue' = Tail(queue) /\ done' = done \cup {w}
      /\ to' = [to EXCEPT ![c] = w]
  BY HandOffServesHead
<1>2. queue \in Seq(Calls) /\ DOMAIN queue = 1..Len(queue)
  BY LenProperties DEF PoolInv, TypeOK
<1>3. \A i, j \in 1..Len(queue) : queue[i] = queue[j] => i = j
  BY <1>2 DEF PoolInv, ParkedOnce
<1>4. /\ Tail(queue) \in Seq(Calls)
      /\ \A i, j \in DOMAIN Tail(queue) : Tail(queue)[i] = Tail(queue)[j] => i = j
      /\ Range(Tail(queue)) = Range(queue) \ {w}
  BY <1>1, <1>2, <1>3, TailDistinct
<1>5. /\ pc[c] = "release" /\ pc' = [pc EXCEPT ![c] = "send"]
      /\ inflight' = inflight /\ ch' = ch /\ uses' = uses /\ cancelled' = cancelled
  BY DEF HandOff
<1>6. TypeOK'
  BY <1>1, <1>4, <1>5 DEF PoolInv, TypeOK, PCs
<1>7. ParkedOnce'
  <2>1. \A d \in Calls : d \in Range(queue') <=>
                           pc'[d] \in {"select", "abandon"} /\ d \notin done'
    BY <1>1, <1>4, <1>5 DEF PoolInv, TypeOK, ParkedOnce
  <2>2. \A i, j \in DOMAIN queue' : queue'[i] = queue'[j] => i = j
    BY <1>1, <1>4
  <2> QED BY <2>1, <2>2 DEF ParkedOnce, Range
<1>8. HandOffs'
  BY <1>1, <1>5 DEF PoolInv, TypeOK, HandOffs
<1>9. SlotAccounting'
  <2>1. Owns(c) /\ ~Owns(c)' /\ ~Owns(w) /\ Owns(w)'
    BY <1>1, <1>5 DEF PoolInv, TypeOK, Owns
  <2>2. ASSUME NEW d \in Calls \ {c, w}
        PROVE  Owns(d)' <=> Owns(d)
    <3>1. pc'[d] = pc[d] /\ (d \in done' <=> d \in done)
      BY <1>1, <1>5 DEF PoolInv, TypeOK
    <3> QED BY <3>1 DEF Owns
  <2>3. w \in Calls /\ c # w /\ SlotAccounting
    BY <1>1 DEF PoolInv
  <2>4. \A d \in Calls \ {c, w} : Owns(d)' <=> Owns(d)
    BY <2>2
  <2> QED BY <1>5, <2>1, <2>3, <2>4, OwnerSwapped
<1>10. CapacityRespected' /\ QueueImpliesFull'
  BY <1>1, <1>5 DEF PoolInv, CapacityRespected, QueueImpliesFull, Capacity
<1> QED
  BY <1>6, <1>7, <1>8, <1>9, <1>10 DEF PoolInv

(* inflight goes down only when nobody is parked.                          *)
LEMMA FreeFindsNobody ==
    ASSUME PoolInv, NEW c \in Calls, Free(c)
    PROVE  queue = <<>> /\ queue' = <<>>
<1>1. queue \in Seq(Calls) /\ Len(queue) \in Nat /\ DOMAIN queue = 1..Len(queue)
  BY LenProperties DEF PoolInv, TypeOK
<1>2. \A i \in DOMAIN queue : queue[i] \notin done
  BY <1>1, ElementOfSeq DEF PoolInv, ParkedOnce, Range
<1>3. Len(queue) = 0
  <2>1. Len(queue) # 0 => 1 \in DOMAIN queue
    BY <1>1
  <2> QED BY <1>2, <2>1 DEF Free
<1> QED
  BY <1>1, <1>3, EmptySeq DEF Free

LEMMA FreeInv ==
    ASSUME PoolInv, NEW c \in Calls, Free(c)
    PROVE  PoolInv'
<1>1. queue = <<>> /\ queue' = <<>>
  BY FreeFindsNobody
<1>2. TypeOK'
  BY <1>1 DEF PoolInv, TypeOK, PCs, Free
<1>3. ParkedOnce'
  BY <1>1, ParkedKept DEF PoolInv, TypeOK, Free
<1>4. HandOffs'
  BY HandOffsKept DEF PoolInv, TypeOK, Free
<1>5. SlotAccounting'
  <2>1. Owns(c) /\ ~Owns(c)'
    BY DEF PoolInv, TypeOK, Free, Owns
  <2>2. \A d \in Calls \ {c} : Owns(d)' <=> Owns(d)
    BY DEF PoolInv, TypeOK, Free, Owns
  <2> QED BY <2>1, <2>2, OwnerRemoved DEF PoolInv, Free
<1>6. CapacityRespected' /\ QueueImpliesFull'
  BY <1>1, SizeAssumption
     DEF PoolInv, TypeOK, Free, CapacityRespected, QueueImpliesFull, Capacity
<1> QED
  BY <1>2, <1>3, <1>4, <1>5, <1>6 DEF PoolInv

LEMMA SendInv ==
    ASSUME PoolInv, NEW c \in Calls, Send(c)
    PROVE  PoolInv'
<1>1. TypeOK'
  <2>1. to[c] \in Calls
    BY DEF PoolInv, TypeOK, HandOffs, Send
  <2> QED BY <2>1 DEF PoolInv, TypeOK, PCs, Send
<1>2. ParkedOnce'
  BY ParkedKept DEF PoolInv, TypeOK, Send
<1>3. HandOffs'
  BY DEF PoolInv, TypeOK, HandOffs, Send
<1>4. SlotAccounting'
  <2>1. \A d \in Calls : Owns(d)' <=> Owns(d)
    BY DEF PoolInv, TypeOK, Send, Owns
  <2> QED BY <2>1, OwnersKept DEF PoolInv, Send
<1>5. CapacityRespected' /\ QueueImpliesFull'
  BY DEF PoolInv, Send, CapacityRespected, QueueImpliesFull, Capacity
<1> QED
  BY <1>1, <1>2, <1>3, <1>4, <1>5 DEF PoolInv

(* Every step of every call keeps the invariant.                           *)
LEMMA NextPoolInv == PoolInv /\ [Next]_vars => PoolInv'
<1> SUFFICES ASSUME PoolInv, [Next]_vars PROVE PoolInv'
  OBVIOUS
<1>1. CASE UNCHANGED vars
  BY <1>1 DEF vars, PoolInv, TypeOK, ParkedOnce, HandOffs, SlotAccounting, Owners, Owns,
              CapacityRespected, QueueImpliesFull, Capacity, Range
<1>2. CASE Next
  BY <1>2, AcquireFastInv, AcquireParkInv, QuietInv, AbandonParkedInv,
     HandOffInv, FreeInv, SendInv DEF Next, Step
<1> QED
  BY <1>1, <1>2

(* No interleaving of acquires, releases, hand-offs, cancellations and     *)
(* timeouts breaks the pool's bookkeeping (pool.go:72-154).                *)
THEOREM PoolInvariant == Spec => []PoolInv
BY InitPoolInv, NextPoolInv, PTL DEF Spec

(* Type correctness of the pool's state.                                   *)
THEOREM PoolTypeOK == Spec => []TypeOK
BY PoolInvariant, PTL DEF PoolInv

(* inflight is the number of calls that own a slot, always, and at most    *)
(* Capacity calls own one.                                                 *)
THEOREM PoolSlotsCounted == Spec => []SlotsCounted
BY PoolInvariant, PTL DEF PoolInv, SlotsCounted

(* The invariant of the comment in Acquire, pool.go:74-79.                 *)
THEOREM PoolQueueImpliesFull == Spec => []QueueImpliesFull
BY PoolInvariant, PTL DEF PoolInv

(* The send of pool.go:149 never finds its channel full.                   *)
THEOREM PoolSendNeverBlocks == Spec => []SendNeverBlocks
<1>1. PoolInv => SendNeverBlocks
  BY DEF PoolInv, HandOffs, SendNeverBlocks
<1> QED
  BY <1>1, PoolInvariant, PTL

-----------------------------------------------------------------------------
(* Refinement: holding is Owners, waiting is queue.                        *)

LEMMA OwnersEqual ==
    ASSUME \A d \in Calls : Owns(d)' <=> Owns(d)
    PROVE  Owners' = Owners
BY DEF Owners

(* SlotPool counts with the same Cardinality.                              *)
LEMMA SameCardinality == Cardinality(Owners) = Slots!Cardinality(Owners)
BY DEF Cardinality, Slots!Cardinality

LEMMA FastGrants ==
    ASSUME PoolInv, NEW c \in Calls, AcquireFast(c)
    PROVE  Slots!Grant(c)
<1>1. Owners' = Owners \cup {c} /\ c \notin Owners
  BY DEF PoolInv, TypeOK, HandOffs, AcquireFast, Owners, Owns
<1>2. queue = <<>> /\ Cardinality(Owners) < Capacity /\ queue' = queue
  BY SizeAssumption DEF PoolInv, TypeOK, SlotAccounting, QueueImpliesFull, AcquireFast, Capacity
<1> QED
  BY <1>1, <1>2, SameCardinality DEF Slots!Grant

LEMMA ParkParks ==
    ASSUME PoolInv, NEW c \in Calls, AcquirePark(c)
    PROVE  Slots!Park(c)
<1>1. c \notin done /\ c \notin Owners /\ c \notin Range(queue)
  BY DEF PoolInv, TypeOK, HandOffs, ParkedOnce, AcquirePark, Owners, Owns
<1>2. Owners' = Owners
  BY <1>1, OwnersEqual DEF PoolInv, TypeOK, AcquirePark, Owns
<1>3. Cardinality(Owners) = Capacity
  BY SizeAssumption DEF PoolInv, TypeOK, SlotAccounting, CapacityRespected, AcquirePark, Capacity
<1> QED
  BY <1>1, <1>2, <1>3, SameCardinality DEF Slots!Park, AcquirePark, Range, Slots!Range

LEMMA AbandonGivesUp ==
    ASSUME PoolInv, NEW c \in Calls, AbandonParked(c)
    PROVE  \E i \in DOMAIN queue : Slots!GiveUp(i)
<1>1. PICK k \in 1..Len(queue) : queue[k] = c /\ queue' = RemoveAt(queue, k)
  BY AbandonRemoves
<1>2. DOMAIN queue = 1..Len(queue)
  BY LenProperties DEF PoolInv, TypeOK
<1>3. Owners' = Owners
  BY OwnersEqual DEF PoolInv, TypeOK, AbandonParked, Owns
<1> QED
  BY <1>1, <1>2, <1>3 DEF Slots!GiveUp, RemoveAt, Slots!RemoveAt

LEMMA HandOffPassesOn ==
    ASSUME PoolInv, NEW c \in Calls, HandOff(c)
    PROVE  Slots!PassOn(c)
<1>1. PICK w \in Calls \ (done \cup {c}) :
      /\ queue # <<>> /\ w = Head(queue)
      /\ pc[w] \in {"select", "abandon"}
      /\ queue' = Tail(queue) /\ done' = done \cup {w}
  BY HandOffServesHead
<1>2. pc[c] = "release" /\ pc' = [pc EXCEPT ![c] = "send"]
  BY DEF HandOff
<1>3. Owners' = (Owners \ {c}) \cup {w} /\ c \in Owners
  <2>1. /\ Owns(c) /\ ~Owns(c)' /\ Owns(w)'
    BY <1>1, <1>2 DEF PoolInv, TypeOK, Owns
  <2>2. ASSUME NEW d \in Calls \ {c, w}
        PROVE  Owns(d)' <=> Owns(d)
    BY <1>1, <1>2 DEF PoolInv, TypeOK, Owns
  <2> QED BY <1>1, <2>1, <2>2 DEF Owners
<1> QED
  BY <1>1, <1>3 DEF Slots!PassOn

LEMMA FreeReturns ==
    ASSUME PoolInv, NEW c \in Calls, Free(c)
    PROVE  Slots!Return(c)
<1>1. queue = <<>> /\ queue' = <<>>
  BY FreeFindsNobody
<1>2. c \in Owners /\ Owners' = Owners \ {c}
  BY DEF PoolInv, TypeOK, Free, Owners, Owns
<1> QED
  BY <1>1, <1>2 DEF Slots!Return

LEMMA QuietStutters ==
    ASSUME PoolInv, NEW c \in Calls,
           \/ Cancel(c) \/ Granted(c) \/ Cancelled(c) \/ TimedOut(c)
           \/ AbandonHanded(c) \/ CallRelease(c) \/ Send(c)
    PROVE  UNCHANGED <<Owners, queue>>
<1>1. queue' = queue /\ done' = done
  BY DEF Cancel, Granted, Cancelled, TimedOut, AbandonHanded, CallRelease, Send
<1>2. \A d \in Calls : Owns(d)' <=> Owns(d)
  <2>1. CASE Cancel(c)
    BY <2>1 DEF Cancel, Owns
  <2>2. CASE Granted(c)
    BY <2>2 DEF Granted, PoolInv, TypeOK, HandOffs, Owns
  <2>3. CASE Cancelled(c) \/ TimedOut(c) \/ AbandonHanded(c) \/ Send(c)
    BY <2>3 DEF Cancelled, TimedOut, AbandonHanded, Send, PoolInv, TypeOK, Owns
  <2>4. CASE CallRelease(c)
    <3>1. uses[c] \in Nat
      BY DEF PoolInv, TypeOK
    <3>2. CASE uses[c] = 0
      BY <2>4, <3>2 DEF CallRelease, PoolInv, TypeOK, Owns
    <3>3. CASE uses[c] # 0
      BY <2>4, <3>3 DEF CallRelease, PoolInv, TypeOK, Owns
    <3> QED BY <3>2, <3>3
  <2> QED BY <2>1, <2>2, <2>3, <2>4
<1> QED
  BY <1>1, <1>2, OwnersEqual

LEMMA StepRefines == PoolInv /\ [Next]_vars => [Slots!Next]_(Slots!vars)
<1> SUFFICES ASSUME PoolInv, [Next]_vars PROVE [Slots!Next]_(Slots!vars)
  OBVIOUS
<1>1. CASE UNCHANGED vars
  BY <1>1 DEF vars, Slots!vars, Owners, Owns
<1>2. ASSUME NEW c \in Calls,
             \/ Cancel(c) \/ AcquireFast(c) \/ AcquirePark(c)
             \/ CallRelease(c) \/ Step(c)
      PROVE  [Slots!Next]_(Slots!vars)
  <2>1. CASE AcquireFast(c)
    BY <2>1, FastGrants DEF Slots!Next
  <2>2. CASE AcquirePark(c)
    BY <2>2, ParkParks DEF Slots!Next
  <2>3. CASE AbandonParked(c)
    BY <2>3, AbandonGivesUp DEF Slots!Next
  <2>4. CASE HandOff(c)
    BY <2>4, HandOffPassesOn DEF Slots!Next
  <2>5. CASE Free(c)
    BY <2>5, FreeReturns DEF Slots!Next
  <2>6. CASE \/ Cancel(c) \/ Granted(c) \/ Cancelled(c) \/ TimedOut(c)
             \/ AbandonHanded(c) \/ CallRelease(c) \/ Send(c)
    BY <2>6, QuietStutters DEF Slots!vars
  <2> QED BY <1>2, <2>1, <2>2, <2>3, <2>4, <2>5, <2>6 DEF Step
<1> QED
  BY <1>1, <1>2 DEF Next

(* The pool implements SlotPool: strict FIFO hand-off, no barging, at most *)
(* Capacity holders, for every number of calls and every interleaving of   *)
(* Acquire, release, cancellation and timeout (pool.go:14-26).             *)
THEOREM PoolImplementsSlotPool == Spec => SlotsSpec
<1>1. Init => Slots!Init
  BY DEF Init, Slots!Init, Owners, Owns
<1> QED
  BY <1>1, StepRefines, PoolInvariant, PTL DEF Spec, SlotsSpec, Slots!Spec

-----------------------------------------------------------------------------
(* The pooled chat.                                                        *)

(* Every step of the composition is a step of the pool or none of it.      *)
LEMMA ChatStepsPool == [ChatNext]_allVars => [Next]_vars
<1> SUFFICES ASSUME [ChatNext]_allVars PROVE [Next]_vars
  OBVIOUS
<1>1. CASE UNCHANGED allVars
  BY <1>1 DEF allVars, vars
<1>2. ASSUME NEW c \in Calls, PoolStep(c)
      PROVE  Next
  BY <1>2 DEF PoolStep, Next
<1>3. ASSUME NEW c \in Calls, ChatFails(c) \/ ForwardReleases(c)
      PROVE  Next
  BY <1>3 DEF ChatFails, ForwardReleases, Next
<1>4. ASSUME NEW c \in Calls, StreamFails(c) \/ Break(c) \/ ConsumerEnds(c)
      PROVE  [Next]_vars
  <2>1. /\ cancelled' = cancelled \cup {c}
        /\ UNCHANGED <<inflight, queue, done, ch, pc, to, uses>>
    BY <1>4 DEF StreamFails, Break, ConsumerEnds
  <2>2. CASE c \in cancelled
    <3>1. cancelled' = cancelled
      BY <2>1, <2>2
    <3> QED BY <2>1, <3>1 DEF vars
  <2>3. CASE c \notin cancelled
    BY <2>1, <2>3 DEF Cancel, Next
  <2> QED BY <2>2, <2>3
<1>5. ASSUME NEW c \in Calls,
             \/ ChatOpens(c) \/ InnerProduces(c) \/ InnerPuts(c) \/ InnerCloses(c)
             \/ ForwardRecv(c) \/ ForwardSend(c) \/ ForwardEnds(c) \/ ForwardCloses(c)
             \/ Consume(c) \/ Drain(c)
      PROVE  UNCHANGED vars
  BY <1>5 DEF ChatOpens, InnerProduces, InnerPuts, InnerCloses, ForwardRecv, ForwardSend,
              ForwardEnds, ForwardCloses, Consume, Drain
<1> QED
  BY <1>1, <1>2, <1>3, <1>4, <1>5 DEF ChatNext, InnerChatReturns, Forwarder

(* PooledClient, its forwarders and its consumers stay within the pool's   *)
(* contract, whatever the inner client does (pooled.go:23-42).             *)
THEOREM ChatUsesPool == ChatSpec => UsesPool
<1>1. ChatInit => Init
  BY DEF ChatInit
<1> QED
  BY <1>1, ChatStepsPool, PTL DEF ChatSpec, UsesPool

THEOREM ChatPoolInv == ChatSpec => []PoolInv
BY ChatUsesPool, PoolInvariant, PTL DEF UsesPool, Spec

-----------------------------------------------------------------------------
ChatInv == PlacesOK /\ SlotFollowsStream

LEMMA ChatInitInv == ChatInit => ChatInv
BY DEF ChatInit, Init, ChatInv, PlacesOK, SlotFollowsStream, Forwarders, Consumers

(* A pool step of call c takes no slot away from a forwarder: it never     *)
(* leaves "held" or "returned", and enters "held" only from before.        *)
LEMMA PoolStepKeeps ==
    ASSUME TypeOK, NEW c \in Calls, PoolStep(c)
    PROVE  /\ uses' = uses /\ UNCHANGED chatVars
           /\ \A d \in Calls \ {c} : pc'[d] = pc[d]
           /\ pc[c] \in {"held", "returned"} => pc'[c] = pc[c]
           /\ pc'[c] \in {"new", "select", "held"} =>
                pc[c] \in {"new", "select", "held"}
<1>1. UNCHANGED chatVars
  BY DEF PoolStep
<1>2. CASE Cancel(c)
  BY <1>1, <1>2 DEF Cancel
<1>3. CASE AcquireFast(c) \/ AcquirePark(c)
  BY <1>1, <1>3 DEF AcquireFast, AcquirePark, TypeOK
<1>4. CASE Granted(c) \/ Cancelled(c) \/ TimedOut(c)
  BY <1>1, <1>4 DEF Granted, Cancelled, TimedOut, TypeOK
<1>5. CASE AbandonHanded(c) \/ AbandonParked(c)
  BY <1>1, <1>5 DEF AbandonHanded, AbandonParked, TypeOK
<1>6. CASE HandOff(c) \/ Free(c) \/ Send(c)
  BY <1>1, <1>6 DEF HandOff, Free, Send, TypeOK
<1> QED
  BY <1>2, <1>3, <1>4, <1>5, <1>6 DEF PoolStep, Step

LEMMA ChatNextInv == ChatInv /\ TypeOK /\ [ChatNext]_allVars => ChatInv'
<1> SUFFICES ASSUME ChatInv, TypeOK, [ChatNext]_allVars PROVE ChatInv'
  OBVIOUS
<1> USE DEF ChatInv, PlacesOK, SlotFollowsStream, Forwarders, Consumers
<1>1. CASE UNCHANGED allVars
  BY <1>1 DEF allVars, vars, chatVars
<1>2. ASSUME NEW c \in Calls, PoolStep(c)
      PROVE  ChatInv'
  BY <1>2, PoolStepKeeps DEF chatVars
<1>3. ASSUME NEW c \in Calls, ChatFails(c)
      PROVE  ChatInv'
  BY <1>3 DEF ChatFails, CallRelease, chatVars, TypeOK
<1>4. ASSUME NEW c \in Calls, ForwardReleases(c)
      PROVE  ChatInv'
  BY <1>4 DEF ForwardReleases, CallRelease, TypeOK
<1>5. ASSUME NEW c \in Calls, ForwardCloses(c)
      PROVE  ChatInv'
  BY <1>5 DEF ForwardCloses, vars
<1>6. ASSUME NEW c \in Calls, ChatOpens(c)
      PROVE  ChatInv'
  BY <1>6 DEF ChatOpens, vars
<1>7. ASSUME NEW c \in Calls, StreamFails(c) \/ ConsumerEnds(c) \/ Break(c)
      PROVE  ChatInv'
  BY <1>7 DEF StreamFails, ConsumerEnds, Break
<1>8. ASSUME NEW c \in Calls, InnerProduces(c) \/ InnerPuts(c) \/ InnerCloses(c)
      PROVE  ChatInv'
  BY <1>8 DEF InnerProduces, InnerPuts, InnerCloses, vars
<1>9. ASSUME NEW c \in Calls, ForwardRecv(c) \/ ForwardSend(c) \/ ForwardEnds(c)
      PROVE  ChatInv'
  BY <1>9 DEF ForwardRecv, ForwardSend, ForwardEnds, vars
<1>10. ASSUME NEW c \in Calls, Consume(c) \/ Drain(c)
      PROVE  ChatInv'
  BY <1>10 DEF Consume, Drain, vars
<1> QED
  BY <1>1, <1>2, <1>3, <1>4, <1>5, <1>6, <1>7, <1>8, <1>9, <1>10
     DEF ChatNext, InnerChatReturns, Forwarder

(* Where a forwarder is fixes where its slot is, in every interleaving of  *)
(* any number of Stream loops over one pool.                               *)
THEOREM ChatSlotFollowsStream == ChatSpec => [](PoolInv /\ SlotFollowsStream)
<1>1. ChatInv /\ PoolInv /\ [ChatNext]_allVars => ChatInv'
  BY ChatNextInv DEF PoolInv
<1>2. ChatInv => SlotFollowsStream
  BY DEF ChatInv
<1> QED
  BY <1>1, <1>2, ChatInitInv, ChatPoolInv, PTL DEF ChatSpec

(* pooled.go:7-9: an open stream holds a slot, and there are never more    *)
(* open streams than the pool's capacity.                                  *)
THEOREM ChatStreamHoldsSlot == ChatSpec => []StreamHoldsSlot
<1>1. PoolInv /\ SlotFollowsStream => StreamHoldsSlot
  <2> SUFFICES ASSUME PoolInv, SlotFollowsStream PROVE StreamHoldsSlot
    OBVIOUS
  <2> DEFINE open == {c \in Calls : inner[c] = "open"}
  <2>1. \A c \in Calls : inner[c] = "open" => Owns(c)
    BY DEF SlotFollowsStream, Owns
  <2>2. open \in SUBSET Owners
    BY <2>1 DEF Owners
  <2>3. IsFiniteSet(Owners) /\ Cardinality(Owners) <= Capacity
    BY DEF PoolInv, SlotAccounting, CapacityRespected
  <2>4. IsFiniteSet(open) /\ Cardinality(open) <= Cardinality(Owners)
    BY <2>2, <2>3, FS_Subset
  <2>5. Cardinality(open) \in Nat /\ Cardinality(Owners) \in Nat /\ Capacity \in Nat
    BY <2>3, <2>4, FS_CardinalityType, CapacityPositive
  <2>6. Cardinality(open) <= Capacity
    BY <2>3, <2>4, <2>5
  <2> QED BY <2>1, <2>6 DEF StreamHoldsSlot
<1> QED
  BY <1>1, ChatSlotFollowsStream, PTL

(* The end of a stream, and the error of a Chat that failed, are seen only *)
(* after the slot was given back.                                          *)
THEOREM ChatEndedHoldsNothing == ChatSpec => []EndedHoldsNothing
<1>1. SlotFollowsStream => EndedHoldsNothing
  BY DEF SlotFollowsStream, EndedHoldsNothing, Owns
<1> QED
  BY <1>1, ChatSlotFollowsStream, PTL

-----------------------------------------------------------------------------
(* Events are numbered in the order the inner client produces them, so     *)
(* every buffer on their way holds a run of consecutive numbers.           *)
Run(s, n) == \A i \in 1..Len(s) : s[i] = n + i

LEMMA RunAppend ==
    ASSUME NEW s \in Seq(Nat), NEW n \in Nat, NEW e \in Nat,
           Run(s, n), e = n + Len(s) + 1
    PROVE  /\ Append(s, e) \in Seq(Nat) /\ Len(Append(s, e)) = Len(s) + 1
           /\ Run(Append(s, e), n)
BY AppendProperties, LenProperties DEF Run

LEMMA RunTail ==
    ASSUME NEW s \in Seq(Nat), NEW n \in Nat, Run(s, n), s # <<>>
    PROVE  /\ Head(s) = n + 1 /\ Len(s) \in Nat \ {0}
           /\ Tail(s) \in Seq(Nat) /\ Len(Tail(s)) = Len(s) - 1
           /\ Run(Tail(s), n + 1)
<1>1. Len(s) \in Nat \ {0}
  BY EmptySeq
<1>2. /\ Tail(s) \in Seq(Nat) /\ Len(Tail(s)) = Len(s) - 1
      /\ \A i \in 1..Len(Tail(s)) : Tail(s)[i] = s[i + 1]
  BY HeadTailProperties
<1>3. Head(s) = n + 1
  BY <1>1 DEF Run
<1> QED
  BY <1>1, <1>2, <1>3 DEF Run

LEMMA RunConcat ==
    ASSUME NEW s \in Seq(Nat), NEW t \in Seq(Nat), NEW n \in Nat,
           Run(s, n), Run(t, n + Len(s))
    PROVE  /\ s \o t \in Seq(Nat) /\ Len(s \o t) = Len(s) + Len(t)
           /\ Run(s \o t, n)
<1>1. Len(s) \in Nat /\ Len(t) \in Nat
  BY LenProperties
<1>2. /\ s \o t \in Seq(Nat) /\ Len(s \o t) = Len(s) + Len(t)
      /\ \A i \in 1..(Len(s) + Len(t)) :
            (s \o t)[i] = IF i <= Len(s) THEN s[i] ELSE t[i - Len(s)]
  BY ConcatProperties
<1>3. ASSUME NEW i \in 1..(Len(s) + Len(t)) PROVE (s \o t)[i] = n + i
  <2>1. CASE i <= Len(s)
    BY <1>1, <1>2, <2>1 DEF Run
  <2>2. CASE ~(i <= Len(s))
    <3>1. i - Len(s) \in 1..Len(t)
      BY <1>1, <2>2
    <3>2. t[i - Len(s)] = n + Len(s) + (i - Len(s))
      BY <3>1 DEF Run
    <3> QED BY <1>1, <1>2, <2>2, <3>2
  <2> QED BY <2>1, <2>2
<1> QED
  BY <1>2, <1>3 DEF Run

LEMMA RunSmall ==
    ASSUME NEW n \in Nat
    PROVE  /\ <<>> \in Seq(Nat) /\ Len(<<>>) = 0 /\ Run(<<>>, n)
           /\ <<n + 1>> \in Seq(Nat) /\ Len(<<n + 1>>) = 1 /\ Run(<<n + 1>>, n)
BY DEF Run

LEMMA RunPrefix ==
    ASSUME NEW s \in Seq(Nat), NEW n \in Nat, Run(s, 0), Len(s) <= n
    PROVE  /\ IsPrefix(s, [i \in 1..n |-> i])
           /\ Len(s) = n => s = [i \in 1..n |-> i]
<1> DEFINE whole == [i \in 1..n |-> i]
<1>1. Len(s) \in Nat /\ s \in [1..Len(s) -> Nat]
  BY LenProperties
<1>2. whole \in Seq(Nat) /\ Len(whole) = n /\ \A i \in 1..n : whole[i] = i
  OBVIOUS
<1> HIDE DEF whole
<1>3. SubSeq(s, 1, Len(s)) = [i \in 1..Len(s) |-> s[i]]
  BY <1>1
<1>4. SubSeq(whole, 1, Len(s)) = [i \in 1..Len(s) |-> whole[i]]
  BY <1>1, <1>2
<1>5. \A i \in 1..Len(s) : s[i] = whole[i]
  BY <1>1, <1>2 DEF Run
<1>6. SubSeq(s, 1, Len(s)) = SubSeq(whole, 1, Len(s))
  BY <1>3, <1>4, <1>5
<1>7. Len(s) = n => s = whole
  BY <1>1, <1>2, <1>5, SeqEqual
<1> QED
  BY <1>2, <1>6, <1>7 DEF IsPrefix, whole

(* Sums of lengths, as plain numbers.                                      *)
LEMMA SumPut ==
    ASSUME NEW a \in Nat, NEW b \in Nat, NEW d \in Nat, NEW n, n = a + b + d + 1
    PROVE  n = a + b + (d + 1) + 0 /\ n = (a + b) + d + 1 /\ a + b \in Nat
OBVIOUS

LEMMA SumGroup == \A a, b, d \in Nat : a + (b + d) = (a + b) + d
OBVIOUS

LEMMA SumMove ==
    ASSUME NEW a \in Nat, NEW b \in Nat
    PROVE  /\ a + (b + 1) = (a + b) + 1
           /\ b # 0 => (a + 1) + (b - 1) = a + b /\ a + 1 <= a + b
OBVIOUS

-----------------------------------------------------------------------------
FlowTypes ==
    /\ sent \in [Calls -> Nat] /\ offer \in [Calls -> BOOLEAN] /\ hand \in [Calls -> Nat]
    /\ innerBuf \in [Calls -> Seq(Nat)]
    /\ out \in [Calls -> Seq(Nat)]
    /\ got \in [Calls -> Seq(Nat)]

InHand(c)  == IF fwd[c] = "send" THEN 1 ELSE 0
Offered(c) == IF offer[c] THEN 1 ELSE 0
Passed(c)  == Len(got[c]) + Len(out[c])

(* The buffers on the way of a call's events hold one run after another;   *)
(* once the loop has left, only what it saw still matters.                 *)
Accounted(c) ==
    /\ Run(got[c], 0) /\ Len(got[c]) <= sent[c]
    /\ cons[c] \in {"calling", "ranging"} =>
        /\ Run(out[c], Len(got[c]))
        /\ fwd[c] = "send" => hand[c] = Passed(c) + 1
        /\ Run(innerBuf[c], Passed(c) + InHand(c))
        /\ sent[c] = Passed(c) + InHand(c) + Len(innerBuf[c]) + Offered(c)
    /\ offer[c] => inner[c] = "open"
    /\ fwd[c] \in {"release", "close", "exited"} => innerBuf[c] = <<>>

FlowInv == FlowTypes /\ \A c \in Calls : Accounted(c)

LEMMA FlowInitInv == ChatInit => FlowInv
<1> SUFFICES ASSUME ChatInit PROVE FlowInv
  OBVIOUS
<1>1. FlowTypes
  BY EmptySeq DEF ChatInit, FlowTypes
<1>2. ASSUME NEW c \in Calls PROVE Accounted(c)
  <2>1. /\ got[c] = <<>> /\ out[c] = <<>> /\ innerBuf[c] = <<>>
        /\ sent[c] = 0 /\ offer[c] = FALSE /\ fwd[c] = "none"
    BY DEF ChatInit
  <2>2. Len(<<>>) = 0 /\ Run(<<>>, 0)
    BY RunSmall
  <2> QED BY <2>1, <2>2 DEF Accounted, Passed, InHand, Offered
<1> QED
  BY <1>1, <1>2 DEF FlowInv

\* Lengths of the buffers, as numbers.
LEMMA FlowLengths ==
    ASSUME FlowTypes, NEW c \in Calls
    PROVE  /\ Len(got[c]) \in Nat /\ Len(out[c]) \in Nat /\ Len(innerBuf[c]) \in Nat
           /\ Passed(c) \in Nat /\ InHand(c) \in {0, 1} /\ Offered(c) \in {0, 1}
           /\ sent[c] \in Nat /\ hand[c] \in Nat /\ offer[c] \in BOOLEAN
           /\ got[c] \in Seq(Nat) /\ out[c] \in Seq(Nat) /\ innerBuf[c] \in Seq(Nat)
<1>1. got[c] \in Seq(Nat) /\ out[c] \in Seq(Nat) /\ innerBuf[c] \in Seq(Nat)
  BY DEF FlowTypes
<1>2. Len(got[c]) \in Nat /\ Len(out[c]) \in Nat /\ Len(innerBuf[c]) \in Nat
  BY <1>1, LenProperties
<1> QED
  BY <1>1, <1>2 DEF FlowTypes, Passed, InHand, Offered

\* A step that leaves what Accounted looks at alone, for one call.
LEMMA AccountedKept ==
    ASSUME NEW c \in Calls, Accounted(c),
           got'[c] = got[c], out'[c] = out[c], innerBuf'[c] = innerBuf[c],
           sent'[c] = sent[c], offer'[c] = offer[c], hand'[c] = hand[c],
           inner'[c] = inner[c], fwd'[c] = fwd[c], cons'[c] = cons[c]
    PROVE  Accounted(c)'
BY DEF Accounted, Passed, InHand, Offered

LEMMA ProducerKeeps ==
    ASSUME FlowInv, ChatInv, NEW c \in Calls,
           InnerProduces(c) \/ InnerPuts(c) \/ InnerCloses(c)
    PROVE  FlowTypes' /\ Accounted(c)'
<1>0. FlowTypes /\ Accounted(c)
  BY DEF FlowInv
<1>n. /\ Len(got[c]) \in Nat /\ Len(out[c]) \in Nat /\ Len(innerBuf[c]) \in Nat
      /\ Passed(c) \in Nat /\ InHand(c) \in {0, 1} /\ Offered(c) \in {0, 1}
      /\ sent[c] \in Nat /\ hand[c] \in Nat /\ offer[c] \in BOOLEAN
      /\ got[c] \in Seq(Nat) /\ out[c] \in Seq(Nat) /\ innerBuf[c] \in Seq(Nat)
  BY <1>0, FlowLengths
<1>1. CASE InnerProduces(c)
  <2>1. FlowTypes'
    BY <1>0, <1>1 DEF InnerProduces, FlowTypes
  <2>2. /\ sent'[c] = sent[c] + 1 /\ offer'[c] = TRUE /\ offer[c] = FALSE /\ inner'[c] = "open"
        /\ UNCHANGED <<innerBuf, fwd, hand, out, cons, got>>
    BY <1>0, <1>1 DEF InnerProduces, FlowTypes
  <2>3. fwd[c] \in {"recv", "send"}
    BY <1>1 DEF InnerProduces, ChatInv, SlotFollowsStream
  <2>4. /\ Passed(c)' = Passed(c) /\ InHand(c)' = InHand(c)
        /\ Offered(c) = 0 /\ Offered(c)' = 1
    BY <2>2 DEF Passed, InHand, Offered
  <2> QED
    BY <1>0, <2>1, <2>2, <2>3, <2>4, <1>n DEF Accounted
<1>2. CASE InnerPuts(c)
  <2>1. /\ innerBuf'[c] = Append(innerBuf[c], sent[c]) /\ offer'[c] = FALSE /\ offer[c]
        /\ UNCHANGED <<inner, sent, fwd, hand, out, cons, got>>
    BY <1>0, <1>2 DEF InnerPuts, FlowTypes
  <2>2. Append(innerBuf[c], sent[c]) \in Seq(Nat)
    BY <1>0, <1>n, AppendProperties
  <2>3. FlowTypes'
    BY <1>0, <1>2, <2>2 DEF InnerPuts, FlowTypes
  <2>4. fwd[c] \in {"recv", "send"}
    BY <1>0, <2>1 DEF Accounted, ChatInv, SlotFollowsStream
  <2>5. CASE cons[c] \in {"calling", "ranging"}
    <3>1. /\ Run(innerBuf[c], Passed(c) + InHand(c))
          /\ sent[c] = Passed(c) + InHand(c) + Len(innerBuf[c]) + 1
      BY <1>0, <2>1, <2>5 DEF Accounted, Offered
    <3>2. /\ Run(Append(innerBuf[c], sent[c]), Passed(c) + InHand(c))
          /\ Len(Append(innerBuf[c], sent[c])) = Len(innerBuf[c]) + 1
      <4>1. /\ Passed(c) + InHand(c) \in Nat
            /\ sent[c] = (Passed(c) + InHand(c)) + Len(innerBuf[c]) + 1
        BY <3>1, <1>n
      <4> QED BY <3>1, <4>1, <1>n, RunAppend
    <3>3. /\ Passed(c)' = Passed(c) /\ InHand(c)' = InHand(c)
          /\ Offered(c)' = 0 /\ Offered(c) = 1
      BY <2>1 DEF Passed, InHand, Offered
    <3>4. /\ Run(innerBuf'[c], (Passed(c) + InHand(c))')
          /\ sent'[c] = (Passed(c) + InHand(c) + Len(innerBuf[c]) + Offered(c))'
      <4>1. Run(innerBuf'[c], (Passed(c) + InHand(c))')
        BY <2>1, <3>2, <3>3
      <4>2. Len(innerBuf'[c]) = Len(innerBuf[c]) + 1 /\ sent'[c] = sent[c]
        BY <2>1, <3>2
      <4>3. sent[c] = Passed(c) + InHand(c) + (Len(innerBuf[c]) + 1) + 0
        <5>1. InHand(c) \in Nat
          BY <1>n
        <5> QED BY <3>1, <5>1, <1>n, SumPut
      <4> QED BY <3>3, <4>1, <4>2, <4>3
    <3> QED
      BY <1>0, <2>1, <2>3, <2>4, <2>5, <3>3, <3>4 DEF Accounted
  <2>6. CASE cons[c] \notin {"calling", "ranging"}
    BY <1>0, <2>1, <2>3, <2>4, <2>6 DEF Accounted
  <2> QED BY <2>5, <2>6
<1>3. CASE InnerCloses(c)
  BY <1>0, <1>3 DEF InnerCloses, FlowTypes, Accounted, Passed, InHand, Offered
<1> QED
  BY <1>1, <1>2, <1>3

LEMMA ForwarderKeeps ==
    ASSUME FlowInv, ChatInv, NEW c \in Calls, Forwarder(c)
    PROVE  FlowTypes' /\ Accounted(c)'
<1>0. FlowTypes /\ Accounted(c)
  BY DEF FlowInv
<1>n. /\ Len(got[c]) \in Nat /\ Len(out[c]) \in Nat /\ Len(innerBuf[c]) \in Nat
      /\ Passed(c) \in Nat /\ InHand(c) \in {0, 1} /\ Offered(c) \in {0, 1}
      /\ sent[c] \in Nat /\ hand[c] \in Nat /\ offer[c] \in BOOLEAN
      /\ got[c] \in Seq(Nat) /\ out[c] \in Seq(Nat) /\ innerBuf[c] \in Seq(Nat)
  BY <1>0, FlowLengths
<1>1. CASE ForwardRecv(c)
  <2>1. /\ fwd[c] = "recv" /\ innerBuf[c] # <<>> /\ fwd'[c] = "send"
        /\ hand'[c] = Head(innerBuf[c]) /\ innerBuf'[c] = Tail(innerBuf[c])
        /\ UNCHANGED <<inner, sent, offer, out, cons, got>>
    BY <1>0, <1>1 DEF ForwardRecv, FlowTypes, ChatInv, PlacesOK
  <2>2. Head(innerBuf[c]) \in Nat /\ Tail(innerBuf[c]) \in Seq(Nat)
    BY <1>0, <2>1, <1>n, HeadTailProperties
  <2>3. FlowTypes'
    BY <1>0, <1>1, <2>2 DEF ForwardRecv, FlowTypes
  <2>4. CASE cons[c] \in {"calling", "ranging"}
    <3>1. /\ Run(innerBuf[c], Passed(c))
          /\ sent[c] = Passed(c) + Len(innerBuf[c]) + Offered(c)
      BY <1>0, <2>1, <2>4, <1>n DEF Accounted, InHand
    <3>2. /\ hand'[c] = Passed(c) + 1 /\ Run(innerBuf'[c], Passed(c) + 1)
          /\ Len(innerBuf'[c]) = Len(innerBuf[c]) - 1
      BY <1>0, <2>1, <3>1, <1>n, RunTail
    <3>3. /\ Passed(c)' = Passed(c) /\ InHand(c)' = 1 /\ Offered(c)' = Offered(c)
      BY <2>1 DEF Passed, InHand, Offered
    <3>4. /\ Run(innerBuf'[c], (Passed(c) + InHand(c))') /\ hand'[c] = (Passed(c) + 1)'
          /\ sent'[c] = (Passed(c) + InHand(c) + Len(innerBuf[c]) + Offered(c))'
      BY <2>1, <3>1, <3>2, <3>3, <1>n
    <3> QED
      BY <1>0, <2>1, <2>3, <2>4, <3>3, <3>4 DEF Accounted
  <2>5. CASE cons[c] \notin {"calling", "ranging"}
    BY <1>0, <2>1, <2>3, <2>5 DEF Accounted
  <2> QED BY <2>4, <2>5
<1>2. CASE ForwardSend(c)
  <2>1. /\ fwd[c] = "send" /\ fwd'[c] = "recv" /\ out'[c] = Append(out[c], hand[c])
        /\ UNCHANGED <<inner, sent, offer, innerBuf, cons, got>>
    BY <1>0, <1>2 DEF ForwardSend, FlowTypes, ChatInv, PlacesOK
  <2>2. Append(out[c], hand[c]) \in Seq(Nat)
    BY <1>0, <1>n, AppendProperties
  <2>3. FlowTypes'
    BY <1>0, <1>2, <2>2 DEF ForwardSend, FlowTypes
  <2>4. CASE cons[c] \in {"calling", "ranging"}
    <3>1. /\ Run(out[c], Len(got[c])) /\ hand[c] = Len(got[c]) + Len(out[c]) + 1
          /\ Run(innerBuf[c], Passed(c) + 1)
          /\ sent[c] = Passed(c) + 1 + Len(innerBuf[c]) + Offered(c)
      BY <1>0, <2>1, <2>4 DEF Accounted, Passed, InHand
    <3>2. Run(out'[c], Len(got[c])) /\ Len(out'[c]) = Len(out[c]) + 1
      BY <1>0, <2>1, <3>1, <1>n, RunAppend, ZenonT(30)
    <3>3. /\ Passed(c)' = Passed(c) + 1 /\ InHand(c)' = 0 /\ Offered(c)' = Offered(c)
      <4>1. got'[c] = got[c] /\ Len(out'[c]) = Len(out[c]) + 1
        BY <2>1, <3>2
      <4>2. Passed(c)' = Len(got[c]) + (Len(out[c]) + 1)
        BY <4>1 DEF Passed
      <4>3. Len(got[c]) \in Nat /\ Len(out[c]) \in Nat /\ Passed(c) = Len(got[c]) + Len(out[c])
        BY <1>n DEF Passed
      <4>4. Passed(c)' = Passed(c) + 1
        BY <4>2, <4>3, SumMove
      <4>5. InHand(c)' = 0 /\ Offered(c)' = Offered(c)
        BY <2>1 DEF InHand, Offered
      <4> QED BY <4>4, <4>5
    <3>4. /\ Run(innerBuf'[c], (Passed(c) + InHand(c))')
          /\ sent'[c] = (Passed(c) + InHand(c) + Len(innerBuf[c]) + Offered(c))'
      BY <2>1, <3>1, <3>3, <1>n
    <3> QED
      BY <1>0, <2>1, <2>3, <2>4, <3>2, <3>3, <3>4 DEF Accounted
  <2>5. CASE cons[c] \notin {"calling", "ranging"}
    BY <1>0, <2>1, <2>3, <2>5 DEF Accounted
  <2> QED BY <2>4, <2>5
<1>3. CASE ForwardEnds(c) \/ ForwardReleases(c) \/ ForwardCloses(c)
  <2>1. /\ fwd[c] # "send" /\ fwd'[c] \in {"release", "close", "exited"}
        /\ innerBuf[c] = <<>>
        /\ UNCHANGED <<inner, sent, offer, innerBuf, hand, out, cons, got>>
    BY <1>0, <1>3
       DEF ForwardEnds, ForwardReleases, ForwardCloses, Accounted, ChatInv, PlacesOK
  <2> QED
    BY <1>0, <2>1 DEF FlowTypes, Accounted, Passed, InHand, Offered
<1> QED
  BY <1>1, <1>2, <1>3 DEF Forwarder

LEMMA ConsumerKeeps ==
    ASSUME FlowInv, ChatInv, NEW c \in Calls,
           Consume(c) \/ Break(c) \/ Drain(c) \/ ConsumerEnds(c)
    PROVE  FlowTypes' /\ Accounted(c)'
<1>0. FlowTypes /\ Accounted(c)
  BY DEF FlowInv
<1>n. /\ Len(got[c]) \in Nat /\ Len(out[c]) \in Nat /\ Len(innerBuf[c]) \in Nat
      /\ Passed(c) \in Nat /\ InHand(c) \in {0, 1} /\ Offered(c) \in {0, 1}
      /\ sent[c] \in Nat /\ hand[c] \in Nat /\ offer[c] \in BOOLEAN
      /\ got[c] \in Seq(Nat) /\ out[c] \in Seq(Nat) /\ innerBuf[c] \in Seq(Nat)
  BY <1>0, FlowLengths
<1>1. CASE Consume(c) \/ Break(c)
  <2>1. /\ cons[c] = "ranging" /\ out[c] # <<>> /\ cons'[c] \in {"ranging", "draining"}
        /\ out'[c] = Tail(out[c]) /\ got'[c] = Append(got[c], Head(out[c]))
        /\ UNCHANGED <<inner, sent, offer, innerBuf, fwd, hand>>
    BY <1>0, <1>1 DEF Consume, Break, FlowTypes, ChatInv, PlacesOK
  <2>2. /\ Run(got[c], 0) /\ Run(out[c], Len(got[c]))
        /\ fwd[c] = "send" => hand[c] = Passed(c) + 1
        /\ Run(innerBuf[c], Passed(c) + InHand(c))
        /\ sent[c] = Passed(c) + InHand(c) + Len(innerBuf[c]) + Offered(c)
    BY <1>0, <2>1 DEF Accounted
  <2>3. /\ Head(out[c]) = Len(got[c]) + 1 /\ Len(out[c]) \in Nat \ {0}
        /\ Tail(out[c]) \in Seq(Nat) /\ Len(Tail(out[c])) = Len(out[c]) - 1
        /\ Run(Tail(out[c]), Len(got[c]) + 1)
    BY <1>0, <2>1, <2>2, <1>n, RunTail
  <2>4. /\ Append(got[c], Head(out[c])) \in Seq(Nat)
        /\ Len(Append(got[c], Head(out[c]))) = Len(got[c]) + 1
        /\ Run(Append(got[c], Head(out[c])), 0)
    <3>1. got[c] \in Seq(Nat) /\ Len(got[c]) \in Nat
      BY <1>0, <1>n
    <3>2. Head(out[c]) \in Nat /\ Head(out[c]) = 0 + Len(got[c]) + 1
      BY <2>3, <3>1
    <3> QED BY <2>2, <3>1, <3>2, RunAppend
  <2>5. FlowTypes'
    BY <1>0, <1>1, <2>3, <2>4 DEF Consume, Break, FlowTypes
  <2>6. Passed(c)' = Passed(c) /\ Len(got'[c]) <= Passed(c)
    <3>1. Len(got'[c]) = Len(got[c]) + 1 /\ Len(out'[c]) = Len(out[c]) - 1
      BY <2>1, <2>3, <2>4
    <3>2. Passed(c)' = (Len(got[c]) + 1) + (Len(out[c]) - 1)
      BY <3>1 DEF Passed
    <3>3. Len(got[c]) \in Nat /\ Len(out[c]) \in Nat \ {0} /\ Passed(c) = Len(got[c]) + Len(out[c])
      BY <2>3, <1>n DEF Passed
    <3>4. /\ (Len(got[c]) + 1) + (Len(out[c]) - 1) = Len(got[c]) + Len(out[c])
          /\ Len(got[c]) + 1 <= Len(got[c]) + Len(out[c])
      BY <3>3, SumMove
    <3>5. Passed(c)' = Passed(c) /\ Len(got'[c]) <= Passed(c)
      BY <3>1, <3>2, <3>3, <3>4
    <3> QED BY <3>5
  <2>7. InHand(c)' = InHand(c) /\ Offered(c)' = Offered(c)
    BY <2>1 DEF InHand, Offered
  <2>8. Run(out'[c], Len(got'[c]))
    BY <2>1, <2>3, <2>4
  <2>9. Len(got'[c]) <= sent'[c]
    <3>1. Len(got'[c]) \in Nat
      BY <2>1, <2>4, <1>n
    <3> QED BY <2>1, <2>2, <2>6, <3>1, <1>n
  <2> QED
    BY <1>0, <2>1, <2>2, <2>4, <2>5, <2>6, <2>7, <2>8, <2>9 DEF Accounted
<1>2. CASE Drain(c)
  <2>1. /\ cons[c] = "draining" /\ out[c] # <<>> /\ out'[c] = Tail(out[c])
        /\ UNCHANGED <<inner, sent, offer, innerBuf, fwd, hand, cons, got>>
    BY <1>0, <1>2 DEF Drain, FlowTypes
  <2>2. Tail(out[c]) \in Seq(Nat)
    BY <1>0, <2>1, <1>n, HeadTailProperties
  <2>3. FlowTypes'
    BY <1>0, <1>2, <2>2 DEF Drain, FlowTypes
  <2> QED BY <1>0, <2>1, <2>3 DEF Accounted
<1>3. CASE ConsumerEnds(c)
  <2>1. /\ cons'[c] = "ended"
        /\ UNCHANGED <<inner, sent, offer, innerBuf, fwd, hand, out, got>>
    BY <1>3 DEF ConsumerEnds, ChatInv, PlacesOK
  <2> QED BY <1>0, <2>1 DEF FlowTypes, Accounted
<1> QED
  BY <1>1, <1>2, <1>3

\* What Accounted looks at, for one call.
SameFlow(d) ==
    /\ got'[d] = got[d] /\ out'[d] = out[d] /\ innerBuf'[d] = innerBuf[d]
    /\ sent'[d] = sent[d] /\ offer'[d] = offer[d] /\ hand'[d] = hand[d]
    /\ inner'[d] = inner[d] /\ fwd'[d] = fwd[d] /\ cons'[d] = cons[d]

\* A step of one call's stream leaves the other calls' streams alone.
LEMMA OthersKept ==
    ASSUME FlowTypes, PlacesOK, NEW c \in Calls, NEW d \in Calls \ {c},
           \/ InnerChatReturns(c) \/ StreamFails(c) \/ Forwarder(c)
           \/ InnerProduces(c) \/ InnerPuts(c) \/ InnerCloses(c)
           \/ Consume(c) \/ Break(c) \/ Drain(c) \/ ConsumerEnds(c)
    PROVE  SameFlow(d)
<1> USE DEF FlowTypes, PlacesOK, SameFlow
<1>1. CASE InnerChatReturns(c) \/ StreamFails(c)
  BY <1>1 DEF InnerChatReturns, ChatFails, ChatOpens, StreamFails, chatVars
<1>2. CASE Forwarder(c)
  <2>1. CASE ForwardRecv(c) \/ ForwardSend(c)
    BY <2>1 DEF ForwardRecv, ForwardSend
  <2>2. CASE ForwardEnds(c) \/ ForwardReleases(c) \/ ForwardCloses(c)
    BY <2>2 DEF ForwardEnds, ForwardReleases, ForwardCloses
  <2> QED BY <1>2, <2>1, <2>2 DEF Forwarder
<1>3. CASE InnerProduces(c) \/ InnerPuts(c) \/ InnerCloses(c)
  BY <1>3 DEF InnerProduces, InnerPuts, InnerCloses
<1>4. CASE Consume(c) \/ Break(c)
  BY <1>4 DEF Consume, Break
<1>5. CASE Drain(c) \/ ConsumerEnds(c)
  BY <1>5 DEF Drain, ConsumerEnds
<1> QED
  BY <1>1, <1>2, <1>3, <1>4, <1>5

\* Chat opens a stream with nothing on its way yet, or opens none.
LEMMA ChatKeeps ==
    ASSUME FlowInv, ChatInv, NEW c \in Calls, InnerChatReturns(c) \/ StreamFails(c)
    PROVE  FlowTypes' /\ Accounted(c)'
<1>0. FlowTypes /\ Accounted(c)
  BY DEF FlowInv
<1>1. CASE ChatFails(c)
  BY <1>0, <1>1 DEF ChatFails, chatVars, FlowTypes, Accounted, Passed, InHand, Offered
<1>2. CASE StreamFails(c)
  <2>1. /\ cons'[c] = "failed"
        /\ UNCHANGED <<inner, sent, offer, innerBuf, fwd, hand, out, got>>
    BY <1>2 DEF StreamFails, ChatInv, PlacesOK
  <2> QED BY <1>0, <2>1 DEF FlowTypes, Accounted
<1>3. CASE ChatOpens(c)
  <2>1. /\ fwd[c] = "none" /\ fwd'[c] = "recv" /\ inner'[c] = "open"
        /\ cons[c] = "calling" /\ cons'[c] = "ranging"
        /\ UNCHANGED <<sent, offer, innerBuf, hand, out, got>>
    BY <1>3 DEF ChatOpens, ChatInv, PlacesOK, SlotFollowsStream
  <2> QED BY <1>0, <2>1 DEF FlowTypes, Accounted, Passed, InHand, Offered
<1> QED
  BY <1>1, <1>2, <1>3 DEF InnerChatReturns

LEMMA FlowNextInv == FlowInv /\ ChatInv /\ [ChatNext]_allVars => FlowInv'
<1> SUFFICES ASSUME FlowInv, ChatInv, [ChatNext]_allVars PROVE FlowInv'
  OBVIOUS
<1>1. CASE UNCHANGED chatVars
  BY <1>1 DEF chatVars, FlowInv, FlowTypes, Accounted, Passed, InHand, Offered
<1>2. ASSUME NEW c \in Calls,
             \/ InnerChatReturns(c) \/ StreamFails(c) \/ Forwarder(c)
             \/ InnerProduces(c) \/ InnerPuts(c) \/ InnerCloses(c)
             \/ Consume(c) \/ Break(c) \/ Drain(c) \/ ConsumerEnds(c)
      PROVE  FlowInv'
  <2>1. FlowTypes' /\ Accounted(c)'
    BY <1>2, ChatKeeps, ForwarderKeeps, ProducerKeeps, ConsumerKeeps
  <2>2. ASSUME NEW d \in Calls \ {c} PROVE Accounted(d)'
    <3>1. SameFlow(d)
      BY <1>2, OthersKept DEF FlowInv, ChatInv
    <3> QED BY <3>1, AccountedKept DEF SameFlow, FlowInv
  <2> QED BY <2>1, <2>2 DEF FlowInv
<1> QED
  BY <1>1, <1>2 DEF ChatNext, PoolStep, allVars

\* What is accounted for, put end to end, is everything produced.
LEMMA WholeRun ==
    ASSUME FlowInv, ChatInv, NEW c \in Calls, cons[c] = "ranging"
    PROVE  /\ got[c] \o InFlight(c) \in Seq(Nat) /\ Run(got[c] \o InFlight(c), 0)
           /\ Len(got[c] \o InFlight(c)) = sent[c]
<1> DEFINE held == IF fwd[c] = "send" THEN <<hand[c]>> ELSE <<>>
           last == IF offer[c] THEN <<sent[c]>> ELSE <<>>
           p == Passed(c)
           q == p + InHand(c)
           r == q + Len(innerBuf[c])
<1>n. /\ Len(got[c]) \in Nat /\ Len(out[c]) \in Nat /\ Len(innerBuf[c]) \in Nat
      /\ Passed(c) \in Nat /\ InHand(c) \in {0, 1} /\ Offered(c) \in {0, 1}
      /\ sent[c] \in Nat /\ hand[c] \in Nat /\ offer[c] \in BOOLEAN
      /\ got[c] \in Seq(Nat) /\ out[c] \in Seq(Nat) /\ innerBuf[c] \in Seq(Nat)
  BY FlowLengths DEF FlowInv
<1>1. /\ Run(got[c], 0) /\ Run(out[c], Len(got[c]))
      /\ fwd[c] = "send" => hand[c] = p + 1
      /\ Run(innerBuf[c], q) /\ sent[c] = r + Offered(c)
      /\ p = Len(got[c]) + Len(out[c])
  BY DEF FlowInv, Accounted, Passed
<1>2. p \in Nat /\ q \in Nat /\ r \in Nat
  BY <1>n
<1> HIDE DEF p, q, r
<1>3. held \in Seq(Nat) /\ Len(held) = InHand(c) /\ Run(held, p)
  BY <1>1, <1>2, RunSmall DEF InHand
<1>4. last \in Seq(Nat) /\ Len(last) = Offered(c) /\ Run(last, r)
  BY <1>1, <1>2, RunSmall DEF Offered
<1> HIDE DEF held, last
<1>5. p + Len(held) = q /\ q + Len(innerBuf[c]) = r /\ r + Len(last) = sent[c]
  BY <1>1, <1>3, <1>4 DEF q, r
<1> DEFINE s1 == out[c] \o held
           s2 == s1 \o innerBuf[c]
           s3 == s2 \o last
           s4 == got[c] \o s3
           g == Len(got[c])
<1>6. s1 \in Seq(Nat) /\ g + Len(s1) = q /\ Run(s1, g)
  <2>1. g \in Nat /\ Run(out[c], g) /\ Run(held, g + Len(out[c]))
    BY <1>1, <1>3, <1>n
  <2>2. s1 \in Seq(Nat) /\ Len(s1) = Len(out[c]) + Len(held) /\ Run(s1, g)
    BY <1>n, <1>3, <2>1, RunConcat
  <2>3. g + (Len(out[c]) + Len(held)) = (g + Len(out[c])) + Len(held)
    <3>1. g \in Nat /\ Len(out[c]) \in Nat /\ Len(held) \in Nat
      BY <1>n, <1>3, LenProperties
    <3> HIDE DEF g
    <3> QED BY <3>1, SumGroup, Zenon
  <2> QED BY <1>1, <1>5, <2>2, <2>3
<1> HIDE DEF s1
<1>7. s2 \in Seq(Nat) /\ g + Len(s2) = r /\ Run(s2, g)
  <2>1. g \in Nat /\ Run(s1, g) /\ Run(innerBuf[c], g + Len(s1))
    BY <1>1, <1>6, <1>n
  <2>2. s2 \in Seq(Nat) /\ Len(s2) = Len(s1) + Len(innerBuf[c]) /\ Run(s2, g)
    BY <1>n, <1>6, <2>1, RunConcat
  <2>3. g + (Len(s1) + Len(innerBuf[c])) = (g + Len(s1)) + Len(innerBuf[c])
    <3>1. g \in Nat /\ Len(s1) \in Nat /\ Len(innerBuf[c]) \in Nat
      BY <1>n, <1>6, LenProperties
    <3> HIDE DEF g
    <3> QED BY <3>1, SumGroup, Zenon
  <2> QED BY <1>5, <1>6, <2>2, <2>3
<1> HIDE DEF s2
<1>8. s3 \in Seq(Nat) /\ g + Len(s3) = sent[c] /\ Run(s3, g)
  <2>1. g \in Nat /\ Run(s2, g) /\ Run(last, g + Len(s2))
    BY <1>4, <1>7, <1>n
  <2>2. s3 \in Seq(Nat) /\ Len(s3) = Len(s2) + Len(last) /\ Run(s3, g)
    BY <1>4, <1>7, <2>1, RunConcat
  <2>3. g + (Len(s2) + Len(last)) = (g + Len(s2)) + Len(last)
    <3>1. g \in Nat /\ Len(s2) \in Nat /\ Len(last) \in Nat
      BY <1>n, <1>4, <1>7, LenProperties
    <3> HIDE DEF g
    <3> QED BY <3>1, SumGroup, Zenon
  <2> QED BY <1>5, <1>7, <2>2, <2>3
<1> HIDE DEF s3
<1>9. s4 \in Seq(Nat) /\ Len(s4) = sent[c] /\ Run(s4, 0)
  <2>1. Run(s3, 0 + Len(got[c]))
    BY <1>8, <1>n
  <2> QED BY <1>1, <1>8, <1>n, <2>1, RunConcat
<1>10. s4 = got[c] \o InFlight(c)
  BY DEF s1, s2, s3, InFlight, held, last
<1> QED
  BY <1>9, <1>10

(* pooled.go:16: the loop sees a prefix of what the inner client produced, *)
(* in order, with the rest on its way, for any number of events and any    *)
(* buffer sizes.                                                           *)
THEOREM ChatNothingLost == ChatSpec => []NothingLost
<1>1. ASSUME FlowInv, ChatInv, NEW c \in Calls
      PROVE  LET produced == [i \in 1..sent[c] |-> i]
             IN  /\ IsPrefix(got[c], produced)
                 /\ cons[c] = "ranging" => got[c] \o InFlight(c) = produced
                 /\ cons[c] = "ranging" /\ outClosed[c] => got[c] \o out[c] = produced
  <2> DEFINE produced == [i \in 1..sent[c] |-> i]
  <2>n. got[c] \in Seq(Nat) /\ out[c] \in Seq(Nat) /\ sent[c] \in Nat
    BY <1>1, FlowLengths DEF FlowInv
  <2>1. IsPrefix(got[c], produced)
    BY <1>1, <2>n, RunPrefix DEF FlowInv, Accounted
  <2>2. ASSUME cons[c] = "ranging" PROVE got[c] \o InFlight(c) = produced
    <3> DEFINE all == got[c] \o InFlight(c)
    <3>1. all \in Seq(Nat) /\ Run(all, 0) /\ Len(all) = sent[c]
      BY <1>1, <2>2, WholeRun
    <3> HIDE DEF all
    <3>2. Len(all) <= sent[c]
      BY <2>n, <3>1
    <3>3. all = produced
      BY <2>n, <3>1, <3>2, RunPrefix
    <3> QED BY <3>3 DEF all
  <2>3. ASSUME cons[c] = "ranging", outClosed[c] PROVE got[c] \o out[c] = produced
    <3>1. fwd[c] = "exited" /\ innerBuf[c] = <<>> /\ ~offer[c]
      BY <1>1, <2>3 DEF FlowInv, Accounted, ChatInv, SlotFollowsStream
    <3>2. InFlight(c) = out[c]
      BY <2>n, <3>1, ConcatEmptySeq DEF InFlight
    <3> QED BY <2>2, <2>3, <3>2
  <2> QED BY <2>1, <2>2, <2>3
<1>2. FlowInv /\ ChatInv => NothingLost
  BY <1>1 DEF NothingLost
<1>3. ChatInv /\ PoolInv /\ [ChatNext]_allVars => ChatInv'
  BY ChatNextInv DEF PoolInv
<1> QED
  BY <1>2, <1>3, FlowInitInv, FlowNextInv, ChatInitInv, ChatPoolInv, PTL DEF ChatSpec

=============================================================================
