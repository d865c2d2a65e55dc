---------------------------- MODULE SkQueueProof ----------------------------
(***************************************************************************)
(* Proofs about SkQueue, for any threads, usages and capacity: refcnt, by  *)
(* which sk_queue_destroy_ex decides when to free, counts the calls inside *)
(* whatever way they leave.  Where whoever may wait on a side is the only  *)
(* caller there (WaitersAlone), the ring has no lost wake-up and is the    *)
(* closable bounded queue of BoundedQueue.                                 *)
(***************************************************************************)
EXTENDS SkQueue, FiniteSetTheorems, TLAPS

Counted == {"inside", "wait", "woken", "timedout", "resumed", "late", "commit"}

Holders == {t \in Users : pc[t] \in Counted}

Shape ==
  /\ \A t \in Users : /\ pc[t] \notin {"mark", "drain", "free"}
                      /\ pc[t] # "idle" => req[t] \in Request
  /\ \A d \in Destroyers : pc[d] \in {"idle", "mark", "drain", "free"}

IInv == TypeOK /\ Shape /\ refcnt = Cardinality(Holders)

LEMMA Kinds ==
  /\ \A t \in Users : t \in Threads /\ t \notin Destroyers
  /\ \A d \in Destroyers : d \in Threads /\ d \notin Users
  BY Sets DEF Threads

LEMMA RefcntIs == RefcntExact <=> refcnt = Cardinality(Holders)
  BY DEF RefcntExact, Holders, Counted

(* A count of users is in range. *)
LEMMA InRange ==
  ASSUME NEW S \in SUBSET Users
  PROVE  IsFiniteSet(S) /\ Cardinality(S) \in 0 .. Cardinality(Users)
<1>1. IsFiniteSet(S) /\ Cardinality(S) <= Cardinality(Users)
  BY Sets, FS_Subset
<1>2. Cardinality(S) \in Nat /\ Cardinality(Users) \in Nat
  BY <1>1, Sets, FS_CardinalityType
<1> QED
  BY <1>1, <1>2

LEMMA Joins ==
  ASSUME NEW t \in Users, t \notin Holders, Holders' = Holders \cup {t}
  PROVE  Cardinality(Holders)' = Cardinality(Holders) + 1
<1>1. IsFiniteSet(Holders)
  BY InRange DEF Holders
<1> QED
  BY <1>1, FS_AddElement

LEMMA Leaves ==
  ASSUME NEW t \in Users, t \in Holders, Holders' = Holders \ {t}
  PROVE  Cardinality(Holders)' = Cardinality(Holders) - 1
<1>1. IsFiniteSet(Holders)
  BY InRange DEF Holders
<1> QED
  BY <1>1, FS_RemoveElement

(* Types follow from the parts that steps change. *)
LEMMA RangeKept ==
  ASSUME refcnt' = Cardinality(Holders)'
  PROVE  refcnt' \in 0 .. Cardinality(Users)
<1>1. Holders' \in SUBSET Users
  BY DEF Holders
<1> QED
  BY <1>1, InRange

LEMMA WrapType ==
  ASSUME NEW k \in Slots
  PROVE  Wrap(k + 1) \in Slots
BY Capacity DEF Wrap, Slots, mq_maxmsg

LEMMA InitInv == Init => IInv
<1> SUFFICES ASSUME Init PROVE IInv
  OBVIOUS
<1>1. Holders = {}
  BY Kinds DEF Init, Holders, Counted
<1>2. Cardinality(Holders) = 0 /\ 0 \in 0 .. Cardinality(Users)
  BY <1>1, FS_EmptySet, Sets, FS_CardinalityType
<1>3. 0 \in Slots
  BY Capacity DEF Slots, mq_maxmsg
<1>4. TypeOK
  BY <1>2, <1>3 DEF Init, TypeOK, Places
<1>5. Shape
  BY Kinds DEF Init, Shape
<1> QED
  BY <1>2, <1>4, <1>5 DEF IInv, Init

(* A user goes from one place to another; with a reference or without one. *)
LEMMA UserMoves ==
  ASSUME IInv, NEW t \in Users, NEW b \in Places, b \notin {"mark", "drain", "free", "idle"},
         pc[t] # "idle", req' = req, pc' = [pc EXCEPT ![t] = b],
         \/ pc[t] \in Counted /\ b \in Counted /\ refcnt' = refcnt
         \/ pc[t] \notin Counted /\ b \notin Counted /\ refcnt' = refcnt
         \/ pc[t] \in Counted /\ b \notin Counted /\ refcnt' = refcnt - 1
         \/ pc[t] \notin Counted /\ b \in Counted /\ refcnt' = refcnt + 1
  PROVE  pc' \in [Threads -> Places] /\ Shape' /\ refcnt' = Cardinality(Holders)'
<1>1. pc'[t] = b /\ \A s \in Threads : s # t => pc'[s] = pc[s]
  BY Kinds DEF IInv, TypeOK
<1>2. pc' \in [Threads -> Places]
  BY DEF IInv, TypeOK
<1>3. Shape'
  BY <1>1, Kinds DEF IInv, Shape
<1>4. refcnt = Cardinality(Holders)
  BY DEF IInv
<1>5. CASE (pc[t] \in Counted <=> b \in Counted) /\ refcnt' = refcnt
  <2>1. Holders' = Holders
    BY <1>1, <1>5, Kinds DEF Holders
  <2> QED
    BY <1>2, <1>3, <1>4, <1>5, <2>1
<1>6. CASE pc[t] \in Counted /\ b \notin Counted /\ refcnt' = refcnt - 1
  <2>1. t \in Holders /\ Holders' = Holders \ {t}
    BY <1>1, <1>6, Kinds DEF Holders
  <2> QED
    BY <1>2, <1>3, <1>4, <1>6, <2>1, Leaves
<1>7. CASE pc[t] \notin Counted /\ b \in Counted /\ refcnt' = refcnt + 1
  <2>1. t \notin Holders /\ Holders' = Holders \cup {t}
    BY <1>1, <1>7, Kinds DEF Holders
  <2> QED
    BY <1>2, <1>3, <1>4, <1>7, <2>1, Joins
<1> QED
  BY <1>5, <1>6, <1>7

(* A user whose operation took effect gives its reference back, and wakes  *)
(* a sleeper, whose reference stays.                                       *)
LEMMA UserCommits ==
  ASSUME IInv, NEW t \in Users, NEW op, NEW other, Commits(t, op), req' = req,
         Signal(t, other) \/ Goto(t, "unlock")
  PROVE  pc' \in [Threads -> Places] /\ Shape' /\ refcnt' = Cardinality(Holders)'
<1>1. pc[t] = "commit" /\ refcnt' = refcnt - 1 /\ t \in Threads
  BY Kinds DEF Commits
<1>2. CASE Goto(t, "unlock")
  BY <1>1, <1>2, UserMoves DEF Goto, Counted, Places
<1>3. CASE Signal(t, other) /\ Sleepers(other) # {}
  <2>1. PICK u \in Users : pc[u] = "wait" /\ pc' = [pc EXCEPT ![t] = "unlock", ![u] = "woken"]
    BY <1>3 DEF Signal, Sleepers
  <2>2. u # t
    BY <1>1, <2>1
  <2>3. pc'[t] = "unlock" /\ pc'[u] = "woken" /\ \A s \in Threads : s # t /\ s # u => pc'[s] = pc[s]
    BY <1>1, <2>1, <2>2, Kinds DEF IInv, TypeOK
  <2>4. pc' \in [Threads -> Places]
    BY <2>1 DEF IInv, TypeOK, Places
  <2>5. Shape'
    BY <1>1, <2>1, <2>3, Kinds DEF IInv, Shape
  <2>6. t \in Holders /\ Holders' = Holders \ {t}
    BY <1>1, <2>1, <2>2, <2>3, Kinds DEF Holders, Counted
  <2> QED
    BY <1>1, <2>4, <2>5, <2>6, Leaves DEF IInv
<1>4. CASE Signal(t, other) /\ Sleepers(other) = {}
  BY <1>2, <1>4 DEF Signal
<1> QED
  BY <1>2, <1>3, <1>4

USE DEF ring, life, results, Step, Destroy

LEMMA StepInv ==
  ASSUME IInv, NEW t \in Users, Step(t) \/ TimeOut(t)
  PROVE  IInv'
<1>0. t \in Threads /\ t \in Users \cup {Nobody} /\ Nobody \in Users \cup {Nobody}
  BY Kinds
<1>1. CASE CheckQueue(t)
  <2>1. PICK b \in {"checked", "refused"} : pc' = [pc EXCEPT ![t] = b]
    BY <1>1 DEF CheckQueue, Goto
  <2>2. pc' \in [Threads -> Places] /\ Shape' /\ refcnt' = Cardinality(Holders)'
    BY <1>1, <2>1, UserMoves DEF CheckQueue, Counted, Places
  <2>3. status' \in [Users -> {"unknown", "success", "timeout", "bad_parameter"}]
    BY <1>1 DEF CheckQueue, Ends, IInv, TypeOK
  <2> QED
    BY <1>1, <2>2, <2>3 DEF CheckQueue, IInv, TypeOK
<1>2. CASE Enter(t)
  <2>1. pc' \in [Threads -> Places] /\ Shape' /\ refcnt' = Cardinality(Holders)'
    BY <1>2, UserMoves DEF Enter, Goto, Counted, Places
  <2> QED
    BY <1>0, <1>2, <2>1, RangeKept DEF Enter, IInv, TypeOK
<1>3. CASE Wait(t)
  <2>1. pc' \in [Threads -> Places] /\ Shape' /\ refcnt' = Cardinality(Holders)'
    BY <1>3, UserMoves DEF Wait, Goto, Counted, Places
  <2> QED
    BY <1>0, <1>3, <2>1 DEF Wait, IInv, TypeOK
<1>4. CASE TimeOut(t)
  <2>1. pc' \in [Threads -> Places] /\ Shape' /\ refcnt' = Cardinality(Holders)'
    BY <1>4, UserMoves DEF TimeOut, Goto, Counted, Places
  <2> QED
    BY <1>4, <2>1 DEF TimeOut, IInv, TypeOK
<1>5. CASE Relock(t)
  <2>1. PICK b \in {"resumed", "late"} : pc' = [pc EXCEPT ![t] = b]
    BY <1>5 DEF Relock, Goto
  <2>2. pc' \in [Threads -> Places] /\ Shape' /\ refcnt' = Cardinality(Holders)'
    BY <1>5, <2>1, UserMoves DEF Relock, Counted, Places
  <2> QED
    BY <1>0, <1>5, <2>2 DEF Relock, IInv, TypeOK
<1>6. CASE Fail(t)
  <2>1. pc' \in [Threads -> Places] /\ Shape' /\ refcnt' = Cardinality(Holders)'
    BY <1>6, UserMoves DEF Fail, Goto, Counted, Places
  <2>2. status' \in [Users -> {"unknown", "success", "timeout", "bad_parameter"}]
    BY <1>6 DEF Fail, Ends, IInv, TypeOK
  <2> QED
    BY <1>6, <2>1, <2>2, RangeKept DEF Fail, IInv, TypeOK
<1>7. CASE Admit(t)
  <2>1. pc' \in [Threads -> Places] /\ Shape' /\ refcnt' = Cardinality(Holders)'
    BY <1>7, UserMoves DEF Admit, Goto, Counted, Places
  <2> QED
    BY <1>7, <2>1 DEF Admit, IInv, TypeOK
<1>8. CASE StoreMsg(t)
  <2>1. pc' \in [Threads -> Places] /\ Shape' /\ refcnt' = Cardinality(Holders)'
    BY <1>8, UserCommits DEF StoreMsg
  <2>2. status' \in [Users -> {"unknown", "success", "timeout", "bad_parameter"}]
    BY <1>8 DEF StoreMsg, Commits, Ends, IInv, TypeOK
  <2>3. write' \in Slots
    BY <1>8, WrapType DEF StoreMsg, IInv, TypeOK
  <2>4. req[t].msg \in Msgs \cup {Blank}
    BY <1>8 DEF StoreMsg, Commits, IInv, Shape, Request
  <2>5. msgbuffer' \in [Slots -> Msgs \cup {Blank}]
    BY <1>8, <2>4 DEF StoreMsg, IInv, TypeOK
  <2> QED
    BY <1>8, <2>1, <2>2, <2>3, <2>5, RangeKept DEF StoreMsg, IInv, TypeOK
<1>9. CASE FetchMsg(t)
  <2>1. pc' \in [Threads -> Places] /\ Shape' /\ refcnt' = Cardinality(Holders)'
    BY <1>9, UserCommits DEF FetchMsg
  <2>2. status' \in [Users -> {"unknown", "success", "timeout", "bad_parameter"}]
    BY <1>9 DEF FetchMsg, Commits, Ends, IInv, TypeOK
  <2>3. read' \in Slots
    BY <1>9, WrapType DEF FetchMsg, IInv, TypeOK
  <2>4. got' \in [Users -> Msgs \cup {Blank}]
    BY <1>9 DEF FetchMsg, IInv, TypeOK
  <2> QED
    BY <1>9, <2>1, <2>2, <2>3, <2>4, RangeKept DEF FetchMsg, IInv, TypeOK
<1>10. CASE Return(t)
  <2>1. /\ pc'[t] = "idle" /\ pc[t] \in {"unlock", "refused"} /\ req'[t] = Idle
        /\ \A s \in Threads : s # t => pc'[s] = pc[s]
        /\ \A s \in Users : s # t => req'[s] = req[s]
    BY <1>0, <1>10 DEF Return, Goto, IInv, TypeOK
  <2>2. Holders' = Holders
    BY <2>1, Kinds DEF Holders, Counted
  <2>3. Shape'
    BY <2>1, Kinds DEF IInv, Shape
  <2>4. TypeOK'
    BY <1>0, <1>10 DEF Return, Goto, Ends, IInv, TypeOK, Places
  <2> QED
    BY <1>10, <2>2, <2>3, <2>4 DEF Return, IInv
<1> QED
  BY <1>1, <1>2, <1>3, <1>4, <1>5, <1>6, <1>7, <1>8, <1>9, <1>10

LEMMA CallInv ==
  ASSUME IInv, NEW t \in Users, NEW r \in usage[t], Call(t, r)
  PROVE  IInv'
<1>1. r \in Request
  BY CallsOfUsers DEF IInv, TypeOK
<1>2. /\ pc'[t] = "called" /\ pc[t] = "idle" /\ req'[t] = r
      /\ \A s \in Threads : s # t => pc'[s] = pc[s]
      /\ \A s \in Users : s # t => req'[s] = req[s]
  BY Kinds DEF Call, Goto, IInv, TypeOK
<1>3. Holders' = Holders
  BY <1>2, Kinds DEF Holders, Counted
<1>4. Shape'
  BY <1>1, <1>2, Kinds DEF IInv, Shape
<1>5. TypeOK'
  BY <1>1, Kinds DEF Call, Goto, IInv, TypeOK, Places
<1> QED
  BY <1>3, <1>4, <1>5 DEF Call, IInv

(* Those that a broadcast wakes keep their references. *)
LEMMA DestroyInv ==
  ASSUME IInv, NEW d \in Destroyers, CallDestroy(d) \/ Destroy(d)
  PROVE  IInv'
<1>1. /\ pc' \in [Threads -> Places] /\ pc'[d] \in {"idle", "mark", "drain", "free"}
      /\ \A s \in Threads : s # d => pc'[s] = pc[s] \/ (pc[s] = "wait" /\ pc'[s] = "woken")
  <2>1. CASE Drain(d)
    BY <2>1, Kinds DEF Drain, IInv, TypeOK, Places
  <2>2. CASE CallDestroy(d) \/ MarkDestroyed(d) \/ FreeQueue(d)
    BY <2>2, Kinds DEF CallDestroy, MarkDestroyed, FreeQueue, Goto, IInv, TypeOK, Places
  <2> QED
    BY <2>1, <2>2
<1>2. Holders' = Holders
  BY <1>1, Kinds DEF Holders, Counted
<1>3. Shape'
  <2>1. req' = req
    BY DEF CallDestroy, MarkDestroyed, Drain, FreeQueue
  <2> QED
    BY <1>1, <2>1, Kinds DEF IInv, Shape
<1>4. TypeOK'
  BY <1>1 DEF CallDestroy, MarkDestroyed, Drain, FreeQueue, IInv, TypeOK
<1>5. refcnt' = refcnt
  BY DEF CallDestroy, MarkDestroyed, Drain, FreeQueue
<1> QED
  BY <1>2, <1>3, <1>4, <1>5 DEF IInv

LEMMA NextInv == IInv /\ [Next]_vars => IInv'
<1> SUFFICES ASSUME IInv, [Next]_vars PROVE IInv'
  OBVIOUS
<1>1. CASE UNCHANGED vars
  BY <1>1 DEF vars, IInv, TypeOK, Shape, Holders
<1>2. CASE Next
  BY <1>2, StepInv, CallInv, DestroyInv DEF Next
<1> QED
  BY <1>1, <1>2

LEMMA Invariance == Spec => []IInv
  BY InitInv, NextInv, PTL DEF Spec

(* Every variable keeps its type: refcnt is no less than 0 and no more     *)
(* than the users, the indices stay in the ring.                           *)
THEOREM TypeCorrect == Spec => []TypeOK
<1>1. IInv => TypeOK
  BY DEF IInv
<1> QED
  BY <1>1, Invariance, PTL

(* refcnt counts the calls that have taken it and not given it back.       *)
THEOREM RefcntCounts == Spec => []RefcntExact
<1>1. IInv => RefcntExact
  BY RefcntIs DEF IInv
<1> QED
  BY <1>1, Invariance, PTL

-----------------------------------------------------------------------------
(* The ring as a count. *)

LEMMA Modulo ==
  \A n \in Nat \ {0} : \A r, w \in 0 .. n - 1 :
    (w + n - r) % n = IF r <= w THEN w - r ELSE w + n - r
OBVIOUS

(* The messages in a ring that is read at r and written at w.              *)
Occupied(r, w) == IF r <= w THEN w - r ELSE w + mq_maxmsg - r

(* read = write is the empty ring; full is one slot less, if there is one. *)
LEMMA OccupiedIs ==
  ASSUME NEW r \in Slots, NEW w \in Slots
  PROVE  /\ Occupied(r, w) \in 0 .. max_msg_count
         /\ (w + mq_maxmsg - r) % mq_maxmsg = Occupied(r, w)
         /\ r = w <=> Occupied(r, w) = 0
         /\ (r + mq_maxmsg - w) % mq_maxmsg = 1 <=> max_msg_count > 0 /\ Occupied(r, w) = max_msg_count
<1>1. /\ mq_maxmsg \in Nat \ {0} /\ mq_maxmsg = max_msg_count + 1 /\ max_msg_count \in Nat
      /\ r \in 0 .. mq_maxmsg - 1 /\ w \in 0 .. mq_maxmsg - 1
  BY Capacity DEF Slots, mq_maxmsg
<1> HIDE DEF mq_maxmsg
<1>2. \A a, b \in 0 .. mq_maxmsg - 1 :
        (b + mq_maxmsg - a) % mq_maxmsg = IF a <= b THEN b - a ELSE b + mq_maxmsg - a
  BY <1>1, Modulo
<1>3. (w + mq_maxmsg - r) % mq_maxmsg = Occupied(r, w)
  BY <1>1, <1>2 DEF Occupied
<1>4. (r + mq_maxmsg - w) % mq_maxmsg = IF w <= r THEN r - w ELSE r + mq_maxmsg - w
  BY <1>1, <1>2
<1>5. Occupied(r, w) \in 0 .. max_msg_count /\ (r = w <=> Occupied(r, w) = 0)
  BY <1>1 DEF Occupied
<1>6. (r + mq_maxmsg - w) % mq_maxmsg = 1 <=> max_msg_count > 0 /\ Occupied(r, w) = max_msg_count
  <2> DEFINE x == (r + mq_maxmsg - w) % mq_maxmsg
  <2>1. x = IF w <= r THEN r - w ELSE r + mq_maxmsg - w
    BY <1>4
  <2> HIDE DEF x
  <2>2. x = 1 <=> max_msg_count > 0 /\ Occupied(r, w) = max_msg_count
    BY <1>1, <2>1 DEF Occupied
  <2> QED
    BY <2>2 DEF x
<1> QED
  BY <1>3, <1>5, <1>6

(* Storing adds a message to a ring that is not full. *)
LEMMA StoreCounts ==
  ASSUME TypeOK, ~ IsFull, max_msg_count > 0
  PROVE  Occupied(read, Wrap(write + 1)) = Occupied(read, write) + 1
<1>1. Occupied(read, write) # max_msg_count
  BY OccupiedIs DEF TypeOK, IsFull
<1> QED
  BY <1>1, Capacity DEF TypeOK, Slots, Occupied, Wrap, mq_maxmsg

(* Fetching takes one from a ring that is not empty. *)
LEMMA FetchCounts ==
  ASSUME TypeOK, ~ IsEmpty
  PROVE  Occupied(Wrap(read + 1), write) = Occupied(read, write) - 1
BY Capacity DEF TypeOK, Slots, Occupied, Wrap, IsEmpty, mq_maxmsg

-----------------------------------------------------------------------------
(* Callers that wait. *)

Waited == {"wait", "woken", "timedout", "resumed", "late"}

(* The places of the holder of the mutex. *)
Locked == {"inside", "resumed", "late", "commit", "unlock"}

CallsKept ==
  \A t \in Users : IF pc[t] = "idle" THEN req[t] = Idle ELSE req[t] \in usage[t]

Mutexed == \A t \in Users : pc[t] \in Locked <=> mutex = t

Timeouts ==
  \A t \in Users : /\ pc[t] \in Waited => req[t].timeout # "immediate"
                   /\ pc[t] \in {"timedout", "late"} => req[t].timeout = "delay"

(* A sleeper cannot proceed; whoever was signalled, or goes on to the      *)
(* memcpy, can.                                                            *)
Room ==
  \A t \in Users : /\ pc[t] = "wait" => Blocked(t)
                   /\ pc[t] = "commit" => ~ Blocked(t)
                   /\ pc[t] \in {"woken", "resumed"} /\ magicnum => ~ Blocked(t)

Told == \A t \in Users : pc[t] \in {"unlock", "refused"} <=> status[t] # "unknown"

Marked == \A d \in Destroyers : pc[d] \in {"drain", "free"} => ~ magicnum

Waits == CallsKept /\ Mutexed /\ Timeouts /\ Room /\ Told /\ Marked

LEMMA InitWaits == Init => Waits
BY Kinds, Sets DEF Init, Waits, CallsKept, Mutexed, Timeouts, Room, Told, Marked, Waited, Locked

(* A waiter meets nobody on its side. *)
LEMMA Alone ==
  ASSUME WaitersAlone, IInv, Waits, NEW s \in Users, NEW t \in Users, s # t, pc[s] \in Waited, pc[t] # "idle"
  PROVE  req[s].op # req[t].op
<1>1. usage \in Usages /\ req[s] \in usage[s] /\ req[t] \in usage[t] /\ req[s].timeout # "immediate"
  BY DEF IInv, TypeOK, Waits, CallsKept, Timeouts, Waited
<1> QED
  BY <1>1 DEF WaitersAlone

LEMMA OneInside ==
  ASSUME IInv, Waits, NEW s \in Users, NEW t \in Users, pc[s] \in Locked, pc[t] \in Locked
  PROVE  s = t
BY DEF Waits, Mutexed

LEMMA OpIs ==
  ASSUME IInv, NEW t \in Users, pc[t] # "idle"
  PROVE  req[t] \in Request /\ req[t] # Idle /\ req[t].op \in {"send", "receive"}
BY Sets DEF IInv, Shape, Request

(* A user moves, and the ring stays.                                       *)
LEMMA MoveWaits ==
  ASSUME IInv, Waits, NEW t \in Users, NEW b, b # "idle", pc[t] # "idle",
         pc' = [pc EXCEPT ![t] = b], UNCHANGED <<ring, magicnum, usage, req>>,
         \/ (pc[t] \in Locked <=> b \in Locked) /\ mutex' = mutex
         \/ pc[t] \notin Locked /\ b \in Locked /\ mutex = Nobody /\ mutex' = t
         \/ pc[t] \in Locked /\ b \notin Locked /\ mutex' = Nobody,
         b \in Waited => req[t].timeout # "immediate",
         b \in {"timedout", "late"} => req[t].timeout = "delay",
         b = "wait" => Blocked(t),
         b = "commit" => ~ Blocked(t),
         b \in {"woken", "resumed"} /\ magicnum => ~ Blocked(t),
         b \in {"unlock", "refused"} <=> status'[t] # "unknown",
         \A s \in Users : s # t => status'[s] = status[s]
  PROVE  Waits'
<1>1. pc'[t] = b /\ \A s \in Threads : s # t => pc'[s] = pc[s]
  BY Kinds DEF IInv, TypeOK
<1>2. \A s \in Users : Blocked(s)' <=> Blocked(s)
  BY DEF Blocked, IsFull, IsEmpty
<1>3. CallsKept' /\ Timeouts' /\ Room' /\ Told'
  BY <1>1, <1>2, Kinds DEF Waits, CallsKept, Timeouts, Room, Told
<1>4. Mutexed'
  BY <1>1, Kinds, Sets DEF Waits, Mutexed
<1>5. Marked'
  BY <1>1, Kinds DEF Waits, Marked
<1> QED
  BY <1>3, <1>4, <1>5 DEF Waits

(* What blocks the callers of op: Blocked, by operation.                   *)
Shut(op) == IF op = "send" THEN IsFull ELSE IsEmpty

(* A user's operation takes effect, and it wakes a caller of the other     *)
(* side, if one sleeps: there is one at most.                              *)
LEMMA CommitWaits ==
  ASSUME WaitersAlone, IInv, Waits, NEW t \in Users, NEW op \in {"send", "receive"},
         NEW other \in {"send", "receive"}, op # other,
         Commits(t, op), UNCHANGED <<magicnum, usage, req, mutex>>,
         \/ Signal(t, other) /\ ~ Shut(other)'
         \/ Goto(t, "unlock") /\ (Shut(other)' <=> Shut(other))
  PROVE  Waits'
<1>1. pc[t] = "commit" /\ req[t].op = op /\ status' = [status EXCEPT ![t] = "success"]
  BY DEF Commits, Ends
<1>2. ASSUME NEW s \in Users, s # t, pc[s] \in Waited PROVE req[s].op = other
  BY <1>1, <1>2, Alone, OpIs DEF Waited
<1>3. PICK W \in SUBSET {s \in Users : pc[s] = "wait" /\ req[s].op = other} :
        /\ pc'[t] = "unlock"
        /\ \A s \in Threads : s # t => pc'[s] = IF s \in W THEN "woken" ELSE pc[s]
        /\ \/ ~ Shut(other)' /\ \A s \in Users : pc'[s] # "wait"
           \/ W = {} /\ (Shut(other)' <=> Shut(other))
  <2>1. CASE Goto(t, "unlock") /\ (Shut(other)' <=> Shut(other))
    <3> WITNESS {} \in SUBSET {s \in Users : pc[s] = "wait" /\ req[s].op = other}
    <3> QED
      BY <2>1, Kinds DEF Goto, IInv, TypeOK
  <2>2. CASE Signal(t, other) /\ ~ Shut(other)' /\ Sleepers(other) = {}
    <3>1. pc' = [pc EXCEPT ![t] = "unlock"]
      BY <2>2 DEF Signal, Goto
    <3>2. \A s \in Users : pc'[s] # "wait"
      BY <1>1, <1>2, <2>2, <3>1, Kinds DEF Sleepers, Waited, IInv, TypeOK
    <3> WITNESS {} \in SUBSET {s \in Users : pc[s] = "wait" /\ req[s].op = other}
    <3> QED
      BY <2>2, <3>1, <3>2, Kinds DEF IInv, TypeOK
  <2>3. CASE Signal(t, other) /\ ~ Shut(other)' /\ Sleepers(other) # {}
    <3>1. PICK u \in Users : /\ pc[u] = "wait" /\ req[u].op = other
                             /\ pc' = [pc EXCEPT ![t] = "unlock", ![u] = "woken"]
      BY <2>3 DEF Signal, Sleepers
    <3>2. u # t /\ u \in Threads /\ t \in Threads
      BY <1>1, <3>1, Kinds
    <3>3. pc'[t] = "unlock" /\ \A s \in Threads : s # t => pc'[s] = IF s = u THEN "woken" ELSE pc[s]
      BY <3>1, <3>2 DEF IInv, TypeOK
    <3>4. ASSUME NEW s \in Users, pc'[s] = "wait" PROVE FALSE
      <4>1. s # t /\ s # u /\ pc[s] = "wait"
        BY <3>3, <3>4, Kinds
      <4>2. req[s].op = req[u].op
        BY <1>2, <3>1, <3>2, <4>1 DEF Waited
      <4>3. pc[s] \in Waited /\ pc[u] # "idle" /\ s # u
        BY <3>1, <4>1 DEF Waited
      <4> QED
        BY <4>2, <4>3, Alone
    <3>5. {u} \in SUBSET {s \in Users : pc[s] = "wait" /\ req[s].op = other}
      BY <3>1
    <3> USE <3>5
    <3> WITNESS {u} \in SUBSET {s \in Users : pc[s] = "wait" /\ req[s].op = other}
    <3> QED
      BY <2>3, <3>3, <3>4
  <2> QED
    BY <2>1, <2>2, <2>3
<1>4. \A s \in W : s \in Users /\ s # t /\ pc[s] = "wait"
  BY <1>1
<1>5. CallsKept' /\ Timeouts'
  BY <1>1, <1>3, <1>4, Kinds DEF Waits, CallsKept, Timeouts, Waited
<1>6. Mutexed'
  BY <1>1, <1>3, <1>4, Kinds DEF Waits, Mutexed, Locked
<1>7. Told'
  BY <1>1, <1>3, <1>4, Kinds DEF Waits, Told, IInv, TypeOK
<1>8. Marked'
  BY <1>3, <1>4, Kinds DEF Waits, Marked
<1>9. Room'
  <2> SUFFICES ASSUME NEW s \in Users
               PROVE  /\ pc'[s] = "wait" => Blocked(s)'
                      /\ pc'[s] = "commit" => ~ Blocked(s)'
                      /\ pc'[s] \in {"woken", "resumed"} /\ magicnum => ~ Blocked(s)'
    BY DEF Room
  <2>1. pc'[s] # "commit"
    <3>1. CASE s = t
      BY <1>3, <3>1
    <3>2. CASE s # t
      BY <1>1, <1>3, <3>2, OneInside, Kinds DEF Locked
    <3> QED
      BY <3>1, <3>2
  <2>2. CASE s = t
    BY <1>3, <2>1, <2>2
  <2>3. CASE s # t /\ pc'[s] \in Waited
    <3>1. pc[s] \in Waited
      BY <1>3, <1>4, <2>3, Kinds DEF Waited
    <3>2. req[s].op = other /\ req'[s].op = other
      BY <1>2, <2>3, <3>1
    <3>3. (Blocked(s)' <=> Shut(other)') /\ (Blocked(s) <=> Shut(other))
      BY <3>2 DEF Blocked, Shut
    <3>4. CASE ~ Shut(other)' /\ \A v \in Users : pc'[v] # "wait"
      BY <2>1, <3>3, <3>4
    <3>5. CASE W = {} /\ (Shut(other)' <=> Shut(other))
      BY <1>3, <2>1, <2>3, <3>3, <3>5, Kinds DEF Waits, Room
    <3> QED
      BY <1>3, <3>4, <3>5
  <2>4. CASE pc'[s] \notin Waited
    BY <2>1, <2>4 DEF Waited
  <2> QED
    BY <2>2, <2>3, <2>4
<1> QED
  BY <1>5, <1>6, <1>7, <1>8, <1>9 DEF Waits

(* With no room at all nothing is stored and read = write = 0 for ever.    *)
LEMMA NoRoom ==
  ASSUME TypeOK, max_msg_count = 0
  PROVE  read = 0 /\ write = 0 /\ Wrap(write + 1) = 0 /\ ~ IsFull /\ IsEmpty
<1>1. read = 0 /\ write = 0 /\ Wrap(write + 1) = 0
  BY DEF TypeOK, Slots, mq_maxmsg, Wrap
<1>2. ~ IsFull
  BY OccupiedIs DEF TypeOK, IsFull
<1> QED
  BY <1>1, <1>2 DEF IsEmpty

LEMMA StoreWaits ==
  ASSUME WaitersAlone, IInv, IInv', Waits, NEW t \in Users, StoreMsg(t)
  PROVE  Waits'
<1>1. /\ Commits(t, "send") /\ write' = Wrap(write + 1) /\ read' = read
      /\ UNCHANGED <<magicnum, usage, req, mutex>>
      /\ IF read # write' THEN Signal(t, "receive") ELSE Goto(t, "unlock")
  BY DEF StoreMsg
<1>2. CASE read # write'
  <2>1. Signal(t, "receive") /\ ~ Shut("receive")'
    BY <1>1, <1>2 DEF Shut, IsEmpty
  <2> QED
    BY <1>1, <2>1, CommitWaits
<1>3. CASE read = write'
  <2>1. ~ IsFull
    BY <1>1 DEF Waits, Room, Blocked, Commits
  <2>2. max_msg_count = 0
    <3> SUFFICES ASSUME max_msg_count > 0 PROVE FALSE
      BY Capacity
    <3>1. Occupied(read, write') = Occupied(read, write) + 1
      BY <1>1, <2>1, StoreCounts DEF IInv
    <3>2. Occupied(read, write') = 0 /\ Occupied(read, write) \in Nat
      BY <1>1, <1>3, OccupiedIs, Capacity DEF IInv, TypeOK
    <3> QED
      BY <3>1, <3>2
  <2>3. Shut("receive")' <=> Shut("receive")
    BY <1>1, <2>2, NoRoom DEF IInv, Shut, IsEmpty
  <2> QED
    BY <1>1, <1>3, <2>3, CommitWaits
<1> QED
  BY <1>2, <1>3

LEMMA FetchWaits ==
  ASSUME WaitersAlone, IInv, IInv', Waits, NEW t \in Users, FetchMsg(t)
  PROVE  Waits'
<1>1. /\ Commits(t, "receive") /\ read' = Wrap(read + 1) /\ write' = write
      /\ UNCHANGED <<magicnum, usage, req, mutex>>
      /\ IF (read' + mq_maxmsg - write) % mq_maxmsg = 1 THEN Goto(t, "unlock") ELSE Signal(t, "send")
  BY DEF FetchMsg
<1>2. ~ IsEmpty
  BY <1>1 DEF Waits, Room, Blocked, Commits
<1>3. (read' + mq_maxmsg - write) % mq_maxmsg # 1
  <2>1. Occupied(read', write) = Occupied(read, write) - 1
    BY <1>1, <1>2, FetchCounts DEF IInv
  <2>2. /\ Occupied(read, write) \in 0 .. max_msg_count
        /\ (read' + mq_maxmsg - write) % mq_maxmsg = 1 <=> max_msg_count > 0 /\ Occupied(read', write) = max_msg_count
    BY <1>1, OccupiedIs DEF IInv, TypeOK
  <2> QED
    BY <2>1, <2>2, Capacity
<1>4. Signal(t, "send") /\ ~ Shut("send")'
  BY <1>1, <1>3 DEF Shut, IsFull
<1> QED
  BY <1>1, <1>4, CommitWaits

LEMMA StepWaits ==
  ASSUME WaitersAlone, IInv, IInv', Waits, NEW t \in Users, Step(t) \/ TimeOut(t)
  PROVE  Waits'
<1>0. /\ t \in Threads /\ t # Nobody /\ mutex # t <=> pc[t] \notin Locked
      /\ status \in [Users -> {"unknown", "success", "timeout", "bad_parameter"}]
      /\ status[t] # "unknown" <=> pc[t] \in {"unlock", "refused"}
  BY Kinds, Sets DEF Waits, Mutexed, Told, IInv, TypeOK
<1>1. CASE CheckQueue(t)
  <2>1. CASE magicnum
    BY <1>0, <1>1, <2>1, MoveWaits DEF CheckQueue, Goto, Waited, Locked
  <2>2. CASE ~ magicnum
    BY <1>0, <1>1, <2>2, MoveWaits DEF CheckQueue, Goto, Ends, Waited, Locked
  <2> QED
    BY <2>1, <2>2
<1>2. CASE Enter(t)
  BY <1>0, <1>2, MoveWaits DEF Enter, Goto, Waited, Locked
<1>3. CASE Wait(t)
  BY <1>0, <1>3, MoveWaits DEF Wait, Goto, Waited, Locked
<1>4. CASE TimeOut(t)
  BY <1>0, <1>4, MoveWaits DEF TimeOut, Goto, Waited, Locked
<1>5. CASE Relock(t)
  <2>1. req[t].timeout # "immediate" /\ (pc[t] = "timedout" => req[t].timeout = "delay")
    BY <1>5 DEF Relock, Waits, Timeouts, Waited
  <2>2. pc[t] = "woken" /\ magicnum => ~ Blocked(t)
    BY DEF Waits, Room
  <2>3. CASE pc[t] = "woken"
    <3>1. /\ pc' = [pc EXCEPT ![t] = "resumed"] /\ mutex = Nobody /\ mutex' = t
          /\ UNCHANGED <<ring, magicnum, usage, req, status>>
      BY <1>5, <2>3 DEF Relock, Goto
    <3>2. magicnum => ~ Blocked(t)
      BY <2>2, <2>3
    <3> QED
      BY <1>0, <2>1, <2>3, <3>1, <3>2, MoveWaits DEF Waited, Locked
  <2>4. CASE pc[t] = "timedout"
    <3>1. /\ pc' = [pc EXCEPT ![t] = "late"] /\ mutex = Nobody /\ mutex' = t
          /\ UNCHANGED <<ring, magicnum, usage, req, status>>
      BY <1>5, <2>4 DEF Relock, Goto
    <3> QED
      BY <1>0, <2>1, <2>4, <3>1, MoveWaits DEF Waited, Locked
  <2> QED
    BY <1>5, <2>3, <2>4 DEF Relock
<1>6. CASE Fail(t)
  BY <1>0, <1>6, MoveWaits DEF Fail, Goto, Ends, Waited, Locked
<1>7. CASE Admit(t)
  <2>1. ~ Blocked(t)
    BY <1>7 DEF Admit, Waits, Room
  <2> QED
    BY <1>0, <1>7, <2>1, MoveWaits DEF Admit, Goto, Waited, Locked
<1>8. CASE StoreMsg(t)
  BY <1>8, StoreWaits
<1>9. CASE FetchMsg(t)
  BY <1>9, FetchWaits
<1>10. CASE Return(t)
  <2>1. /\ pc'[t] = "idle" /\ req'[t] = Idle /\ status'[t] = "unknown" /\ pc[t] \in {"unlock", "refused"}
        /\ \A s \in Threads : s # t => pc'[s] = pc[s]
        /\ \A s \in Users : s # t => req'[s] = req[s] /\ status'[s] = status[s]
        /\ mutex' = IF pc[t] = "unlock" THEN Nobody ELSE mutex
        /\ UNCHANGED <<ring, life>>
    BY <1>0, <1>10 DEF Return, Goto, Ends, IInv, TypeOK
  <2>2. \A s \in Users : s # t => (Blocked(s)' <=> Blocked(s))
    BY <2>1 DEF Blocked, IsFull, IsEmpty
  <2>3. CallsKept' /\ Timeouts' /\ Room' /\ Told'
    BY <2>1, <2>2, Kinds DEF Waits, CallsKept, Timeouts, Room, Told, Waited
  <2>4. Mutexed'
    BY <2>1, Kinds, Sets DEF Waits, Mutexed, Locked
  <2>5. Marked'
    BY <2>1, Kinds DEF Waits, Marked
  <2> QED
    BY <2>3, <2>4, <2>5 DEF Waits
<1> QED
  BY <1>1, <1>2, <1>3, <1>4, <1>5, <1>6, <1>7, <1>8, <1>9, <1>10

LEMMA CallWaits ==
  ASSUME IInv, Waits, NEW t \in Users, NEW r \in usage[t], Call(t, r)
  PROVE  Waits'
<1>1. /\ pc'[t] = "called" /\ pc[t] = "idle" /\ req'[t] = r
      /\ \A s \in Threads : s # t => pc'[s] = pc[s]
      /\ \A s \in Users : s # t => req'[s] = req[s]
      /\ UNCHANGED <<ring, life, mutex, status>>
  BY Kinds DEF Call, Goto, IInv, TypeOK
<1>2. \A s \in Users : s # t => (Blocked(s)' <=> Blocked(s))
  BY <1>1 DEF Blocked, IsFull, IsEmpty
<1>3. CallsKept' /\ Timeouts' /\ Room' /\ Told'
  BY <1>1, <1>2, Kinds DEF Waits, CallsKept, Timeouts, Room, Told, Waited
<1>4. Mutexed' /\ Marked'
  BY <1>1, Kinds DEF Waits, Mutexed, Marked, Locked
<1> QED
  BY <1>3, <1>4 DEF Waits

(* A broadcast wakes everybody, in a queue that is marked.                 *)
LEMMA DestroyWaits ==
  ASSUME IInv, Waits, NEW d \in Destroyers, CallDestroy(d) \/ Destroy(d)
  PROVE  Waits'
<1>1. /\ \A s \in Users : pc'[s] = pc[s] \/ (pc[s] = "wait" /\ pc'[s] = "woken" /\ ~ magicnum')
      /\ magicnum' => magicnum
      /\ \A e \in Destroyers : pc'[e] \in {"drain", "free"} => ~ magicnum'
  <2>1. CASE CallDestroy(d)
    BY <2>1, Kinds DEF CallDestroy, Goto, IInv, TypeOK, Waits, Marked
  <2>2. CASE MarkDestroyed(d)
    BY <2>2, Kinds DEF MarkDestroyed, Goto, IInv, TypeOK
  <2>3. CASE Drain(d)
    BY <2>3, Kinds DEF Drain, IInv, TypeOK, Waits, Marked
  <2>4. CASE FreeQueue(d)
    BY <2>4, Kinds DEF FreeQueue, Goto, IInv, TypeOK, Waits, Marked
  <2> QED
    BY <2>1, <2>2, <2>3, <2>4
<1>2. UNCHANGED <<ring, usage, mutex, req, status>>
  BY DEF CallDestroy, MarkDestroyed, Drain, FreeQueue
<1>3. \A s \in Users : Blocked(s)' <=> Blocked(s)
  BY <1>2 DEF Blocked, IsFull, IsEmpty
<1>4. CallsKept' /\ Timeouts' /\ Told'
  BY <1>1, <1>2 DEF Waits, CallsKept, Timeouts, Told, Waited
<1>5. Room'
  BY <1>1, <1>3 DEF Waits, Room
<1>6. Mutexed' /\ Marked'
  BY <1>1, <1>2 DEF Waits, Mutexed, Marked, Locked
<1> QED
  BY <1>4, <1>5, <1>6 DEF Waits

LEMMA NextWaits ==
  ASSUME WaitersAlone
  PROVE  IInv /\ IInv' /\ Waits /\ [Next]_vars => Waits'
<1> SUFFICES ASSUME IInv, IInv', Waits, [Next]_vars PROVE Waits'
  OBVIOUS
<1>1. CASE UNCHANGED vars
  BY <1>1 DEF vars, Waits, CallsKept, Mutexed, Timeouts, Room, Told, Marked, Blocked, IsFull, IsEmpty
<1>2. CASE Next
  BY <1>2, StepWaits, CallWaits, DestroyWaits DEF Next
<1> QED
  BY <1>1, <1>2

LEMMA WaitsInvariance ==
  ASSUME WaitersAlone
  PROVE  Spec => []Waits
<1>1. IInv /\ IInv' /\ Waits /\ [Next]_vars => Waits'
  BY NextWaits
<1> QED
  BY <1>1, InitWaits, Invariance, PTL DEF Spec

(* No sleeper is forgotten, with one signal for each operation: for any    *)
(* users whose waiters are alone on their side, and any capacity.          *)
THEOREM SleepersAreWoken ==
  ASSUME WaitersAlone
  PROVE  Spec => []NoForgottenSleeper
<1>1. Waits => NoForgottenSleeper
  BY DEF Waits, Room, NoForgottenSleeper, Sleepers, Blocked
<1> QED
  BY <1>1, WaitsInvariance, PTL

-----------------------------------------------------------------------------
(* The ring as a sequence. *)

(* The slot of the k-th message of a ring that is read at r.               *)
Place(r, k) == IF r + k - 1 < mq_maxmsg THEN r + k - 1 ELSE r + k - 1 - mq_maxmsg

Cells == Msgs \cup {Blank}

(* Items, of any buffer and indices, as defined and by places.             *)
ItemsBy(b, r, w) ==
  [k \in 1 .. (w + mq_maxmsg - r) % mq_maxmsg |-> b[(r + k - 1) % mq_maxmsg]]

ItemsOf(b, r, w) == [k \in 1 .. Occupied(r, w) |-> b[Place(r, k)]]

LEMMA ModuloPlace ==
  \A n \in Nat \ {0} : \A r \in 0 .. n - 1, k \in 1 .. n :
    (r + k - 1) % n = IF r + k - 1 < n THEN r + k - 1 ELSE r + k - 1 - n
OBVIOUS

LEMMA PlaceIs ==
  ASSUME NEW r \in Slots, NEW k \in 1 .. mq_maxmsg
  PROVE  (r + k - 1) % mq_maxmsg = Place(r, k) /\ Place(r, k) \in Slots
<1>1. mq_maxmsg \in Nat \ {0} /\ r \in 0 .. mq_maxmsg - 1
  BY Capacity DEF Slots, mq_maxmsg
<1> HIDE DEF mq_maxmsg
<1>2. (r + k - 1) % mq_maxmsg = Place(r, k)
  BY <1>1, ModuloPlace DEF Place
<1>3. Place(r, k) \in Slots
  BY <1>1 DEF Place, Slots
<1> QED
  BY <1>2, <1>3

LEMMA ItemsAre ==
  ASSUME NEW b \in [Slots -> Cells], NEW r \in Slots, NEW w \in Slots
  PROVE  /\ ItemsBy(b, r, w) = ItemsOf(b, r, w)
         /\ ItemsOf(b, r, w) \in [1 .. Occupied(r, w) -> Cells]
         /\ ItemsOf(b, r, w) \in Seq(Cells) /\ Len(ItemsOf(b, r, w)) = Occupied(r, w)
<1>1. (w + mq_maxmsg - r) % mq_maxmsg = Occupied(r, w) /\ Occupied(r, w) \in 0 .. max_msg_count
  BY OccupiedIs
<1>2. \A k \in 1 .. Occupied(r, w) : k \in 1 .. mq_maxmsg
  BY <1>1, Capacity DEF mq_maxmsg
<1>3. \A k \in 1 .. Occupied(r, w) : (r + k - 1) % mq_maxmsg = Place(r, k) /\ b[Place(r, k)] \in Cells
  BY <1>2, PlaceIs
<1> DEFINE n == Occupied(r, w)
           sum == (w + mq_maxmsg - r) % mq_maxmsg
           at(k) == (r + k - 1) % mq_maxmsg
<1>4. n \in Nat /\ sum = n
  BY <1>1, Capacity
<1>5. ItemsOf(b, r, w) = [k \in 1 .. n |-> b[Place(r, k)]]
  BY DEF ItemsOf
<1>6. \A k \in 1 .. n : at(k) = Place(r, k) /\ b[Place(r, k)] \in Cells
  BY <1>3
<1> HIDE DEF n, sum, at, Place
<1>7. [k \in 1 .. sum |-> b[at(k)]] = ItemsOf(b, r, w)
  BY ONLY <1>4, <1>5, <1>6
<1>8. ItemsOf(b, r, w) \in [1 .. n -> Cells]
  BY ONLY <1>5, <1>6
<1>9. ItemsOf(b, r, w) \in Seq(Cells) /\ Len(ItemsOf(b, r, w)) = n
  BY ONLY <1>4, <1>8
<1> QED
  BY <1>7, <1>8, <1>9 DEF n, sum, at, ItemsBy

LEMMA ItemsType ==
  ASSUME NEW b \in [Slots -> Cells], NEW r \in Slots, NEW w \in Slots
  PROVE  ItemsOf(b, r, w) \in [1 .. Occupied(r, w) -> Cells]
BY ItemsAre

LEMMA AppendIs ==
  ASSUME NEW S, NEW n \in Nat, NEW f \in [1 .. n -> S], NEW g \in [1 .. n + 1 -> S],
         \A k \in 1 .. n : g[k] = f[k]
  PROVE  g = Append(f, g[n + 1])
OBVIOUS

LEMMA TailIs ==
  ASSUME NEW S, NEW n \in Nat, NEW f \in [1 .. n + 1 -> S], NEW g \in [1 .. n -> S],
         \A k \in 1 .. n : g[k] = f[k + 1]
  PROVE  f # <<>> /\ g = Tail(f) /\ f[1] = Head(f)
OBVIOUS

(* write++ appends what is in the slot at write.                           *)
LEMMA StoreAppends ==
  ASSUME NEW b \in [Slots -> Cells], NEW c \in [Slots -> Cells], NEW r \in Slots, NEW w \in Slots,
         Occupied(r, Wrap(w + 1)) = Occupied(r, w) + 1,
         \A k \in Slots : k # w => c[k] = b[k]
  PROVE  ItemsOf(c, r, Wrap(w + 1)) = Append(ItemsOf(b, r, w), c[w])
<1> DEFINE n == Occupied(r, w)
           f == ItemsOf(b, r, w)
           g == ItemsOf(c, r, Wrap(w + 1))
<1>1. n \in 0 .. max_msg_count /\ n + 1 \in 0 .. max_msg_count /\ Wrap(w + 1) \in Slots /\ max_msg_count \in Nat
  BY OccupiedIs, WrapType, Capacity
<1>2. Place(r, n + 1) = w /\ \A k \in 1 .. n : Place(r, k) # w
  BY <1>1 DEF Place, Occupied, Slots, mq_maxmsg
<1> HIDE DEF n, f, g
<1>3. ASSUME NEW k \in 1 .. n PROVE Place(r, k) \in Slots
  <2>1. k \in 1 .. mq_maxmsg
    BY <1>1 DEF mq_maxmsg
  <2> QED
    BY <2>1, PlaceIs
<1>4. f \in [1 .. n -> Cells] /\ g \in [1 .. n + 1 -> Cells]
  <2>1. f \in [1 .. n -> Cells]
    BY ItemsType DEF n, f
  <2>2. g \in [1 .. Occupied(r, Wrap(w + 1)) -> Cells]
    BY <1>1, ItemsType DEF g
  <2>3. Occupied(r, Wrap(w + 1)) = n + 1
    BY DEF n
  <2> QED
    BY <2>1, <2>2, <2>3
<1>5. \A k \in 1 .. n : f[k] = b[Place(r, k)]
  BY DEF n, f, ItemsOf
<1>6. \A k \in 1 .. n + 1 : g[k] = c[Place(r, k)]
  BY DEF n, g, ItemsOf
<1>7. \A k \in 1 .. n : g[k] = f[k]
  <2>1. \A k \in 1 .. n : k \in 1 .. n + 1
    BY <1>1
  <2> QED
    BY <1>2, <1>3, <1>5, <1>6, <2>1
<1>8. n + 1 \in 1 .. n + 1 /\ n \in Nat
  BY <1>1
<1>9. g = Append(f, g[n + 1])
  BY <1>4, <1>7, <1>8, AppendIs
<1>10. g[n + 1] = c[w]
  BY <1>2, <1>6, <1>8
<1> QED
  BY <1>9, <1>10 DEF f, g

(* read++ takes what is in the slot at read.                               *)
LEMMA FetchTakes ==
  ASSUME NEW b \in [Slots -> Cells], NEW r \in Slots, NEW w \in Slots,
         Occupied(r, w) = Occupied(Wrap(r + 1), w) + 1
  PROVE  /\ ItemsOf(b, r, w) # <<>>
         /\ ItemsOf(b, Wrap(r + 1), w) = Tail(ItemsOf(b, r, w))
         /\ b[r] = Head(ItemsOf(b, r, w))
<1> DEFINE n == Occupied(Wrap(r + 1), w)
           f == ItemsOf(b, r, w)
           g == ItemsOf(b, Wrap(r + 1), w)
<1>1. n \in 0 .. max_msg_count /\ n + 1 \in 0 .. max_msg_count /\ Wrap(r + 1) \in Slots /\ max_msg_count \in Nat
  BY OccupiedIs, WrapType, Capacity
<1> HIDE DEF n, f, g
<1>2. Place(r, 1) = r /\ \A k \in 1 .. n : Place(Wrap(r + 1), k) = Place(r, k + 1)
  <2>1. Place(r, 1) = r
    BY <1>1 DEF Place, Slots, mq_maxmsg
  <2>2. ASSUME NEW k \in 1 .. n PROVE Place(Wrap(r + 1), k) = Place(r, k + 1)
    <3>1. k \in Nat /\ 1 <= k /\ k <= max_msg_count /\ r \in 0 .. max_msg_count
      BY <1>1 DEF Slots, mq_maxmsg
    <3>2. CASE r = max_msg_count
      BY <1>1, <3>1, <3>2 DEF Place, Wrap, mq_maxmsg
    <3>3. CASE r # max_msg_count
      BY <1>1, <3>1, <3>3 DEF Place, Wrap, mq_maxmsg
    <3> QED
      BY <3>2, <3>3
  <2> QED
    BY <2>1, <2>2
<1>3. f \in [1 .. n + 1 -> Cells] /\ g \in [1 .. n -> Cells]
  BY <1>1, ItemsType DEF n, f, g
<1>4. \A k \in 1 .. n + 1 : f[k] = b[Place(r, k)]
  BY DEF n, f, ItemsOf
<1>5. \A k \in 1 .. n : g[k] = b[Place(Wrap(r + 1), k)]
  BY DEF n, g, ItemsOf
<1>6. \A k \in 1 .. n : g[k] = f[k + 1]
  <2>1. \A k \in 1 .. n : k + 1 \in 1 .. n + 1
    BY <1>1
  <2> QED
    BY <1>2, <1>4, <1>5, <2>1
<1>7. 1 \in 1 .. n + 1 /\ n \in Nat
  BY <1>1
<1>8. f # <<>> /\ g = Tail(f) /\ f[1] = Head(f)
  BY <1>3, <1>6, <1>7, TailIs
<1>9. f[1] = b[r]
  BY <1>2, <1>4, <1>7
<1> QED
  BY <1>8, <1>9 DEF f, g

-----------------------------------------------------------------------------
(* The ring implements the bounded queue. *)

LEMMA ItemsDef ==
  Items = ItemsBy(msgbuffer, read, write) /\ Items' = ItemsBy(msgbuffer', read', write')
BY DEF Items, ItemsBy

LEMMA ItemsNow ==
  ASSUME TypeOK
  PROVE  /\ Items = ItemsOf(msgbuffer, read, write)
         /\ Len(Items) = Occupied(read, write)
         /\ Items = <<>> <=> IsEmpty
         /\ IsFull => Len(Items) = max_msg_count
         /\ ~ IsFull /\ max_msg_count > 0 => Len(Items) < max_msg_count
<1>0. msgbuffer \in [Slots -> Cells] /\ read \in Slots /\ write \in Slots
  BY DEF TypeOK, Cells
<1>1. /\ Items = ItemsOf(msgbuffer, read, write)
      /\ Items \in Seq(Cells) /\ Len(Items) = Occupied(read, write)
  <2>1. /\ ItemsBy(msgbuffer, read, write) = ItemsOf(msgbuffer, read, write)
        /\ ItemsOf(msgbuffer, read, write) \in Seq(Cells)
        /\ Len(ItemsOf(msgbuffer, read, write)) = Occupied(read, write)
    BY <1>0, ItemsAre
  <2> QED
    BY <2>1, ItemsDef
<1>2. /\ Occupied(read, write) \in 0 .. max_msg_count
      /\ IsEmpty <=> Occupied(read, write) = 0
      /\ IsFull <=> max_msg_count > 0 /\ Occupied(read, write) = max_msg_count
  BY OccupiedIs DEF TypeOK, IsEmpty, IsFull
<1>3. Items = <<>> <=> Len(Items) = 0
  BY <1>1
<1>4. Occupied(read, write) \in Nat /\ max_msg_count \in Nat /\ Occupied(read, write) <= max_msg_count
  BY <1>2, Capacity
<1> QED
  BY <1>1, <1>2, <1>3, <1>4

(* A step that leaves the ring and the results is none of the queue's.     *)
LEMMA QuietStep ==
  ASSUME UNCHANGED <<ring, magicnum, req, results>>
  PROVE  UNCHANGED Queue!vars
BY DEF Queue!vars, Items

(* A user's call runs, and has no result before its last places.           *)
LEMMA Runs ==
  ASSUME IInv, Waits, NEW t \in Users, pc[t] \notin {"idle", "unlock", "refused"}
  PROVE  /\ Queue!Running(t, req[t].op) /\ req[t].op \in {"send", "receive"}
         /\ req[t] # Idle /\ status[t] = "unknown"
<1>1. req[t] # Idle /\ req[t].op \in {"send", "receive"} /\ status[t] = "unknown"
  BY OpIs DEF Waits, Told
<1> QED
  BY <1>1 DEF Queue!Running

LEMMA CheckImplements ==
  ASSUME IInv, Waits, NEW t \in Users, CheckQueue(t)
  PROVE  Queue!Refuse(t) \/ UNCHANGED Queue!vars
<1>1. CASE magicnum
  BY <1>1, QuietStep DEF CheckQueue
<1>2. CASE ~ magicnum
  <2>1. UNCHANGED <<ring, magicnum, req, got>> /\ status' = [status EXCEPT ![t] = "bad_parameter"] /\ pc[t] = "called"
    BY <1>2 DEF CheckQueue, Ends
  <2>2. Items' = Items
    BY <2>1 DEF Items
  <2>3. Queue!Running(t, "send") \/ Queue!Running(t, "receive")
    BY <2>1, Runs
  <2> QED
    BY <1>2, <2>1, <2>2, <2>3 DEF Queue!Refuse, Queue!Ends
<1> QED
  BY <1>1, <1>2

LEMMA FailImplements ==
  ASSUME IInv, Waits, NEW t \in Users, Fail(t)
  PROVE  Queue!GiveUp(t)
<1>1. UNCHANGED <<ring, magicnum, req, got>> /\ status' = [status EXCEPT ![t] = "timeout"]
  BY DEF Fail, Ends
<1>2. pc[t] \in {"inside", "late", "resumed"}
  BY DEF Fail
<1>3. /\ Queue!Running(t, req[t].op) /\ req[t].op \in {"send", "receive"}
      /\ req[t] # Idle /\ status[t] = "unknown"
  BY <1>2, Runs
<1>4. Items' = Items
  BY <1>1 DEF Items
<1>5. /\ \/ Queue!Running(t, "send") /\ Len(Items) = max_msg_count
         \/ Queue!Running(t, "receive") /\ Items = <<>>
         \/ req[t] # Idle /\ status[t] = "unknown" /\ req[t].timeout # "immediate"
      /\ req[t].timeout = "infinity" => ~ magicnum
  <2>1. CASE pc[t] = "inside" /\ Blocked(t) /\ req[t].timeout = "immediate"
    <3>1. CASE req[t].op = "send"
      BY <1>3, <2>1, <3>1, ItemsNow DEF Blocked, IInv
    <3>2. CASE req[t].op = "receive"
      BY <1>3, <2>1, <3>2, ItemsNow DEF Blocked, IInv
    <3> QED
      BY <1>3, <3>1, <3>2
  <2>2. CASE pc[t] = "late"
    BY <1>3, <2>2 DEF Waits, Timeouts, Waited
  <2>3. CASE pc[t] = "resumed" /\ ~ magicnum
    BY <1>3, <2>3 DEF Waits, Timeouts, Waited
  <2> QED
    BY <2>1, <2>2, <2>3 DEF Fail
<1> QED
  BY <1>1, <1>4, <1>5 DEF Queue!GiveUp, Queue!Ends

LEMMA StoreImplements ==
  ASSUME max_msg_count > 0, IInv, IInv', Waits, NEW t \in Users, StoreMsg(t)
  PROVE  Queue!Send(t)
<1>1. /\ pc[t] = "commit" /\ req[t].op = "send" /\ status' = [status EXCEPT ![t] = "success"]
      /\ msgbuffer' = [msgbuffer EXCEPT ![write] = req[t].msg] /\ write' = Wrap(write + 1)
      /\ UNCHANGED <<read, magicnum, req, got>>
  BY DEF StoreMsg, Commits, Ends
<1>2. ~ IsFull
  BY <1>1 DEF Waits, Room, Blocked
<1>3. Len(Items) < max_msg_count
  BY <1>2, ItemsNow DEF IInv
<1>4. Queue!Running(t, "send")
  BY <1>1, Runs
<1>5. Items' = Append(Items, req[t].msg)
  <2>1. /\ msgbuffer \in [Slots -> Cells] /\ msgbuffer' \in [Slots -> Cells]
        /\ read \in Slots /\ write \in Slots /\ read' \in Slots /\ write' \in Slots
    BY DEF IInv, TypeOK, Cells
  <2>2. msgbuffer'[write] = req[t].msg /\ \A k \in Slots : k # write => msgbuffer'[k] = msgbuffer[k]
    BY <1>1, <2>1
  <2>3. Occupied(read, Wrap(write + 1)) = Occupied(read, write) + 1
    BY <1>2, StoreCounts DEF IInv
  <2>4. ItemsOf(msgbuffer', read, Wrap(write + 1)) = Append(ItemsOf(msgbuffer, read, write), msgbuffer'[write])
    BY <2>1, <2>2, <2>3, StoreAppends
  <2>5. Items' = ItemsOf(msgbuffer', read', write')
    BY <2>1, ItemsDef, ItemsAre
  <2>6. Items = ItemsOf(msgbuffer, read, write)
    BY ItemsNow DEF IInv
  <2> QED
    BY <1>1, <2>2, <2>4, <2>5, <2>6
<1> QED
  BY <1>1, <1>3, <1>4, <1>5 DEF Queue!Send, Queue!Ends

LEMMA FetchImplements ==
  ASSUME IInv, IInv', Waits, NEW t \in Users, FetchMsg(t)
  PROVE  Queue!Receive(t)
<1>1. /\ pc[t] = "commit" /\ req[t].op = "receive" /\ status' = [status EXCEPT ![t] = "success"]
      /\ got' = [got EXCEPT ![t] = msgbuffer[read]] /\ read' = Wrap(read + 1)
      /\ UNCHANGED <<msgbuffer, write, magicnum, req>>
  BY DEF FetchMsg, Commits, Ends
<1>2. ~ IsEmpty
  BY <1>1 DEF Waits, Room, Blocked
<1>3. Queue!Running(t, "receive")
  BY <1>1, Runs
<1>4. Items # <<>> /\ Items' = Tail(Items) /\ msgbuffer[read] = Head(Items)
  <2>1. /\ msgbuffer \in [Slots -> Cells]
        /\ read \in Slots /\ write \in Slots /\ read' \in Slots
    BY DEF IInv, TypeOK, Cells
  <2>2. Occupied(read, write) = Occupied(Wrap(read + 1), write) + 1
    <3>1. Occupied(Wrap(read + 1), write) = Occupied(read, write) - 1
      BY <1>2, FetchCounts DEF IInv
    <3>2. Occupied(read, write) \in 0 .. max_msg_count
      BY <2>1, OccupiedIs
    <3> QED
      BY <3>1, <3>2, Capacity
  <2>3. /\ ItemsOf(msgbuffer, read, write) # <<>>
        /\ ItemsOf(msgbuffer, Wrap(read + 1), write) = Tail(ItemsOf(msgbuffer, read, write))
        /\ msgbuffer[read] = Head(ItemsOf(msgbuffer, read, write))
    BY <2>1, <2>2, FetchTakes
  <2>4. Items' = ItemsOf(msgbuffer, read', write)
    BY <1>1, <2>1, ItemsDef, ItemsAre
  <2>5. Items = ItemsOf(msgbuffer, read, write)
    BY ItemsNow DEF IInv
  <2> QED
    BY <1>1, <2>3, <2>4, <2>5
<1> QED
  BY <1>1, <1>3, <1>4 DEF Queue!Receive, Queue!Ends

LEMMA ReturnImplements ==
  ASSUME IInv, Waits, NEW t \in Users, Return(t)
  PROVE  Queue!Return(t)
<1>1. status[t] # "unknown"
  BY DEF Return, Waits, Told
<1>2. Items' = Items
  BY DEF Return, Items
<1> QED
  BY <1>1, <1>2 DEF Return, Ends, Queue!Return

LEMMA NextImplements ==
  ASSUME max_msg_count > 0
  PROVE  IInv /\ IInv' /\ Waits /\ [Next]_vars => [Queue!Next]_(Queue!vars)
<1> SUFFICES ASSUME IInv, IInv', Waits, [Next]_vars PROVE Queue!Next \/ UNCHANGED Queue!vars
  OBVIOUS
<1>1. CASE UNCHANGED vars
  BY <1>1, QuietStep DEF vars
<1>2. ASSUME NEW t \in Users, Step(t) \/ TimeOut(t) PROVE Queue!Next \/ UNCHANGED Queue!vars
  <2>1. CASE \/ Enter(t) \/ Wait(t) \/ TimeOut(t) \/ Relock(t) \/ Admit(t)
    BY <2>1, QuietStep DEF Enter, Wait, TimeOut, Relock, Admit
  <2>2. CASE CheckQueue(t)
    BY <2>2, CheckImplements DEF Queue!Next
  <2>3. CASE Fail(t)
    BY <2>3, FailImplements DEF Queue!Next
  <2>4. CASE StoreMsg(t)
    BY <2>4, StoreImplements DEF Queue!Next
  <2>5. CASE FetchMsg(t)
    BY <2>5, FetchImplements DEF Queue!Next
  <2>6. CASE Return(t)
    BY <2>6, ReturnImplements DEF Queue!Next
  <2> QED
    BY <1>2, <2>1, <2>2, <2>3, <2>4, <2>5, <2>6
<1>3. ASSUME NEW t \in Users, NEW r \in usage[t], Call(t, r) PROVE Queue!Next
  <2>1. r \in Request
    BY CallsOfUsers DEF IInv, TypeOK
  <2>2. req[t] = Idle
    BY <1>3 DEF Call, Waits, CallsKept
  <2>3. Items' = Items
    BY <1>3 DEF Call, Items
  <2>4. Queue!Invoke(t, r)
    BY <1>3, <2>2, <2>3 DEF Call, Queue!Invoke
  <2> QED
    BY <2>1, <2>4 DEF Queue!Next
<1>4. ASSUME NEW d \in Destroyers, Destroy(d) \/ CallDestroy(d) PROVE Queue!Next \/ UNCHANGED Queue!vars
  <2>1. CASE Drain(d) \/ FreeQueue(d) \/ CallDestroy(d)
    BY <2>1, QuietStep DEF Drain, FreeQueue, CallDestroy
  <2>2. CASE MarkDestroyed(d)
    <3>1. Items' = Items
      BY <2>2 DEF MarkDestroyed, Items
    <3>2. CASE magicnum
      BY <2>2, <3>1, <3>2 DEF MarkDestroyed, Queue!Destroy, Queue!Next
    <3>3. CASE ~ magicnum
      <4>1. magicnum' = magicnum
        BY <2>2, <3>3 DEF MarkDestroyed, IInv, TypeOK
      <4> QED
        BY <2>2, <4>1, QuietStep DEF MarkDestroyed
    <3> QED
      BY <3>2, <3>3
  <2> QED
    BY <1>4, <2>1, <2>2
<1> QED
  BY <1>1, <1>2, <1>3, <1>4 DEF Next

LEMMA InitImplements == Init => Queue!Init
<1> SUFFICES ASSUME Init PROVE Queue!Init
  OBVIOUS
<1>1. TypeOK /\ IsEmpty
  BY InitInv DEF IInv, Init, IsEmpty
<1>2. Items = <<>>
  BY <1>1, ItemsNow
<1> QED
  BY <1>2 DEF Init, Queue!Init

(* The ring with its mutex and two condition variables is an atomic        *)
(* bounded queue, destroy included: for any number of users whose waiters  *)
(* are alone on their side, and any capacity but zero, with which          *)
(* sk_queue_create_ex makes a queue that accepts messages and holds none.  *)
THEOREM Implements ==
  ASSUME WaitersAlone, max_msg_count > 0
  PROVE  Spec => ImplementsQueue
<1>1. IInv /\ IInv' /\ Waits /\ [Next]_vars => [Queue!Next]_(Queue!vars)
  BY NextImplements
<1>2. Spec => []Waits
  BY WaitsInvariance
<1> QED
  BY <1>1, <1>2, InitImplements, Invariance, PTL DEF Spec, ImplementsQueue, Queue!Spec

(* So no waiter makes a full ring of messages look like an empty one.      *)
THEOREM StoredAreSeen ==
  ASSUME WaitersAlone, max_msg_count > 0
  PROVE  Spec => StoredIsSeen
<1>1. ASSUME IInv, IInv', Waits, [Next]_vars, write' # write PROVE read' # write'
  <2>1. PICK t \in Users : StoreMsg(t)
    BY <1>1 DEF Next, vars, CheckQueue, Enter, Wait, TimeOut, Relock, Fail, Admit, FetchMsg, Return,
       Call, CallDestroy, MarkDestroyed, Drain, FreeQueue
  <2>2. write' = Wrap(write + 1) /\ read' = read /\ ~ IsFull
    BY <1>1, <2>1 DEF StoreMsg, Commits, Waits, Room, Blocked
  <2>3. Occupied(read, write') = Occupied(read, write) + 1
    BY <1>1, <2>2, StoreCounts DEF IInv
  <2>4. Occupied(read, write) \in Nat /\ (read = write' <=> Occupied(read, write') = 0)
    BY <1>1, <2>2, OccupiedIs, Capacity DEF IInv, TypeOK
  <2> QED
    BY <2>2, <2>3, <2>4
<1>2. IInv /\ IInv' /\ Waits /\ [Next]_vars => [write' # write => read' # write']_vars
  BY <1>1
<1>3. Spec => []Waits
  BY WaitsInvariance
<1> QED
  BY <1>2, <1>3, Invariance, PTL DEF Spec, StoredIsSeen

=============================================================================
