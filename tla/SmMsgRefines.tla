---------------------------- MODULE SmMsgRefines ----------------------------
(***************************************************************************)
(* SmMsg implements MessageFifo, for any threads, any calls and any        *)
(* capacity: the ring of smmsg.c with its three semaphores is an atomic    *)
(* bounded FIFO.  A call takes effect in the step that decides its result: *)
(* tail++ for a send that is accepted, the full test for one that is not,  *)
(* the copy for a pop, the loop for an edit or a query.                    *)
(***************************************************************************)
EXTENDS SmMsgProof

USE DEF queue_size, Slots

(* A call under way has no result before the step that decides it; past    *)
(* the early return its message has a window; a filled slot keeps its      *)
(* message until the tail covers it.                                       *)
Undecided == {"idle", "called", "push", "woken", "inside", "advance"}

Answers ==
  \A t \in Threads :
    /\ return_value[t] = Unknown <=> pc[t] \in Undecided
    /\ pc[t] \in {"inside", "advance"} /\ req[t].op \in {"send_message", "is_message"}
         => req[t].m.hsm # SK_INVALID_HSM
    /\ pc[t] = "advance" => queue[tail] = req[t].m

(***************************************************************************)
(* The ring as a sequence.                                                 *)
(***************************************************************************)

(* The slot of the k-th message. *)
Place(k) == IF head + k - 1 < queue_size THEN head + k - 1 ELSE head + k - 1 - queue_size

LEMMA Modulo ==
  \A n \in Nat \ {0} : \A h \in 0 .. n - 1, k \in 1 .. n :
    (h + k - 1) % n = IF h + k - 1 < n THEN h + k - 1 ELSE h + k - 1 - n
OBVIOUS

LEMMA PendingIs ==
  ASSUME TypeOK
  PROVE  /\ get_nmessage \in 0 .. nqueue
         /\ Pending = [k \in 1 .. get_nmessage |-> queue[Place(k)]]
         /\ \A k \in 1 .. get_nmessage : (head + k - 1) % queue_size = Place(k)
         /\ \A k \in 1 .. get_nmessage : Place(k) \in PendingSlots
         /\ \A i \in PendingSlots : \E k \in 1 .. get_nmessage : Place(k) = i
         /\ Pending \in [1 .. get_nmessage -> MESSAGE]
<1>1. get_nmessage \in 0 .. nqueue
  BY Capacity DEF TypeOK, get_nmessage
<1>2. ASSUME NEW k \in 1 .. get_nmessage
      PROVE  (head + k - 1) % queue_size = Place(k)
  <2>1. head \in 0 .. queue_size - 1 /\ k \in 1 .. queue_size /\ queue_size \in Nat \ {0}
    BY <1>1, Capacity DEF TypeOK
  <2> HIDE DEF queue_size
  <2> QED
    BY <2>1, Modulo DEF Place
<1>3. Pending = [k \in 1 .. get_nmessage |-> queue[Place(k)]]
  BY <1>2 DEF Pending
<1>4. ASSUME NEW k \in 1 .. get_nmessage PROVE Place(k) \in PendingSlots
  BY Capacity DEF TypeOK, get_nmessage, Place, PendingSlots
<1>5. ASSUME NEW i \in PendingSlots PROVE \E k \in 1 .. get_nmessage : Place(k) = i
  <2> DEFINE k == IF head <= i THEN i - head + 1 ELSE i + queue_size - head + 1
  <2>1. k \in 1 .. get_nmessage /\ Place(k) = i
    BY Capacity DEF TypeOK, get_nmessage, Place, PendingSlots
  <2> QED
    BY <2>1
<1>6. Pending \in [1 .. get_nmessage -> MESSAGE]
  BY <1>3, <1>4 DEF TypeOK, PendingSlots
<1> QED
  BY <1>1, <1>2, <1>3, <1>4, <1>5, <1>6

LEMMA PendingLen ==
  ASSUME TypeOK
  PROVE  /\ Pending \in Seq(MESSAGE)
         /\ Len(Pending) = get_nmessage
         /\ Full <=> Len(Pending) = nqueue
<1>1. Pending \in Seq(MESSAGE) /\ Len(Pending) = get_nmessage
  BY PendingIs
<1>2. Full <=> get_nmessage = nqueue
  BY Capacity DEF TypeOK, Full, def, get_nmessage
<1> QED
  BY <1>1, <1>2

(* Nothing but the pending slots matters. *)
LEMMA PendingKept ==
  ASSUME TypeOK, TypeOK', UNCHANGED <<head, tail>>, \A i \in PendingSlots : queue'[i] = queue[i]
  PROVE  Pending' = Pending
<1>1. Pending' = [k \in 1 .. get_nmessage |-> queue'[(head + k - 1) % queue_size]]
  BY DEF Pending, get_nmessage
<1> HIDE DEF queue_size
<1>2. Pending' = [k \in 1 .. get_nmessage |-> queue'[Place(k)]]
  BY <1>1, PendingIs
<1> QED
  BY <1>2, PendingIs

(* tail++ appends the message of the filled slot. *)
LEMMA AppendsMessage ==
  ASSUME TypeOK, TypeOK', ~ Full, UNCHANGED <<queue, head>>, tail' = Wrap(tail + 1)
  PROVE  Pending' = Append(Pending, queue[tail])
<1> DEFINE n == get_nmessage
<1>1. get_nmessage' = n + 1
  BY AdvanceTailCounts
<1>2. Pending' = [k \in 1 .. n + 1 |-> queue[(head + k - 1) % queue_size]]
  BY <1>1 DEF Pending
<1>3. n \in 0 .. nqueue - 1 /\ Place(n + 1) = tail /\ (head + (n + 1) - 1) % queue_size = tail
  <2>1. n \in 0 .. nqueue - 1 /\ Place(n + 1) = tail
    BY Capacity, PendingIs DEF TypeOK, get_nmessage, Place, Full, def
  <2>2. head \in 0 .. queue_size - 1 /\ n + 1 \in 1 .. queue_size /\ queue_size \in Nat \ {0}
    BY <2>1, Capacity DEF TypeOK
  <2> HIDE DEF queue_size, n
  <2> QED
    BY <2>1, <2>2, Modulo DEF Place
<1> HIDE DEF queue_size, n
<1>4. \A k \in 1 .. n : Pending[k] = queue[(head + k - 1) % queue_size]
  BY DEF Pending, n
<1>5. Pending' \in [1 .. n + 1 -> MESSAGE] /\ Pending'[n + 1] = queue[tail]
  <2>1. \A k \in 1 .. n : Pending[k] \in MESSAGE
    BY PendingIs DEF n
  <2>2. queue[tail] \in MESSAGE
    BY DEF TypeOK
  <2>3. \A k \in 1 .. n + 1 : queue[(head + k - 1) % queue_size] \in MESSAGE
    <3>1. ASSUME NEW k \in 1 .. n + 1 PROVE k \in 1 .. n \/ k = n + 1
      BY <1>3
    <3> QED
      BY <1>3, <1>4, <2>1, <2>2, <3>1
  <2>4. n + 1 \in 1 .. n + 1
    BY <1>3
  <2> QED
    BY <1>2, <1>3, <2>3, <2>4
<1> QED
  BY <1>2, <1>3, <1>4, <1>5, PendingIs DEF n

LEMMA TailIs ==
  ASSUME NEW S, NEW n \in Nat, NEW f \in [1 .. n + 1 -> S], NEW g \in [1 .. n -> S],
         \A k \in 1 .. n : g[k] = f[k + 1]
  PROVE  f # <<>> /\ g = Tail(f) /\ f[1] = Head(f)
OBVIOUS

(* head++ takes the oldest message. *)
LEMMA TakesMessage ==
  ASSUME TypeOK, TypeOK', head # tail, UNCHANGED <<queue, tail>>, head' = Wrap(head + 1)
  PROVE  /\ Pending # <<>>
         /\ Pending' = Tail(Pending)
         /\ queue[head] = Head(Pending)
<1> DEFINE n == get_nmessage'
<1>1. get_nmessage = n + 1 /\ n \in 0 .. nqueue - 1
  <2>1. n = get_nmessage - 1 /\ get_nmessage \in 0 .. nqueue /\ get_nmessage # 0
    BY AdvanceHeadCounts, PendingIs, CountBounds
  <2> QED
    BY <2>1, Capacity
<1>2. Pending' = [k \in 1 .. n |-> queue[(head' + k - 1) % queue_size]]
  BY DEF Pending
<1> HIDE DEF n
<1>3. ASSUME NEW k \in 1 .. n PROVE (head' + k - 1) % queue_size = Place(k + 1)
  <2>1. IF head' + k - 1 < queue_size THEN Place(k + 1) = head' + k - 1
                                      ELSE Place(k + 1) = head' + k - 1 - queue_size
    BY <1>1, Capacity DEF TypeOK, Wrap, Place
  <2>2. head' \in 0 .. queue_size - 1 /\ k \in 1 .. queue_size /\ queue_size \in Nat \ {0}
    BY <1>1, Capacity DEF TypeOK
  <2> HIDE DEF queue_size
  <2> QED
    BY <2>1, <2>2, Modulo
<1>4. Place(1) = head
  BY Capacity DEF TypeOK, Place
<1> HIDE DEF queue_size
<1>5. Pending' = [k \in 1 .. n |-> Pending[k + 1]]
  BY <1>1, <1>2, <1>3, PendingIs
<1>6. Pending \in [1 .. n + 1 -> MESSAGE] /\ Pending' \in [1 .. n -> MESSAGE]
  <2>1. Pending \in [1 .. n + 1 -> MESSAGE]
    BY <1>1, PendingIs
  <2>2. \A k \in 1 .. n : k + 1 \in 1 .. n + 1
    BY <1>1
  <2> QED
    BY <1>5, <2>1, <2>2
<1>7. Pending[1] = queue[head]
  <2>1. 1 \in 1 .. get_nmessage
    BY <1>1
  <2> QED
    BY <1>4, <2>1, PendingIs
<1>8. n \in Nat /\ \A k \in 1 .. n : Pending'[k] = Pending[k + 1]
  BY <1>1, <1>5
<1> HIDE DEF Pending
<1> QED
  BY <1>6, <1>7, <1>8, TailIs

(* The loops over all slots edit the pending ones in their order. *)
LEMMA EditsMessages ==
  ASSUME TypeOK, TypeOK', NEW r \in Request, r.op \in EditOps,
         UNCHANGED <<head, tail>>, queue' = Edited(queue, r)
  PROVE  Pending' = Edited(Pending, r)
<1>1. Pending' = [k \in 1 .. get_nmessage |-> queue'[(head + k - 1) % queue_size]]
  BY DEF Pending, get_nmessage
<1>2. Pending' = [k \in 1 .. get_nmessage |-> queue'[Place(k)]]
  <2> HIDE DEF queue_size
  <2> QED
    BY <1>1, PendingIs
<1>3. /\ DOMAIN Pending = 1 .. get_nmessage
      /\ \A k \in 1 .. get_nmessage : Place(k) \in Slots /\ Pending[k] = queue[Place(k)]
  BY PendingIs DEF PendingSlots
<1>4. DOMAIN queue = Slots
  BY DEF TypeOK
<1> HIDE DEF Slots
<1>5. CASE r.op = "erase_message"
  <2>1. queue' = EraseMessage(queue, r.m.hsm)
    BY <1>5 DEF Edited
  <2>2. Pending' = EraseMessage(Pending, r.m.hsm)
    BY <1>2, <1>3, <1>4, <2>1 DEF EraseMessage
  <2> QED
    BY <1>5, <2>2 DEF Edited
<1>6. CASE r.op = "erase_message_type"
  <2>1. queue' = EraseMessageType(queue, r.m.hsm, r.m.message)
    BY <1>6 DEF Edited
  <2>2. Pending' = EraseMessageType(Pending, r.m.hsm, r.m.message)
    BY <1>2, <1>3, <1>4, <2>1 DEF EraseMessageType
  <2> QED
    BY <1>6, <2>2 DEF Edited
<1>7. CASE r.op = "invalidate_message"
  <2>1. queue' = InvalidateMessage(queue, r.m.message)
    BY <1>7 DEF Edited
  <2>2. Pending' = InvalidateMessage(Pending, r.m.message)
    BY <1>2, <1>3, <1>4, <2>1 DEF InvalidateMessage
  <2> QED
    BY <1>7, <2>2 DEF Edited
<1> QED
  BY <1>5, <1>6, <1>7 DEF EditOps

(* The scans from head to tail find what is pending. *)
LEMMA FindsMessages ==
  ASSUME TypeOK, NEW r \in Request, r.op \in QueryOps
  PROVE  Found(queue, PendingSlots, r) <=> Found(Pending, DOMAIN Pending, r)
<1>1. /\ DOMAIN Pending = 1 .. get_nmessage
      /\ \A k \in 1 .. get_nmessage : Place(k) \in PendingSlots /\ Pending[k] = queue[Place(k)]
      /\ \A i \in PendingSlots : \E k \in 1 .. get_nmessage : Place(k) = i
  BY PendingIs
<1>2. CASE r.op = "is_message"
  BY <1>1, <1>2 DEF Found
<1>3. CASE r.op = "is_message_param"
  BY <1>1, <1>3 DEF Found
<1> QED
  BY <1>2, <1>3 DEF QueryOps

(***************************************************************************)
(* The calls.                                                              *)
(***************************************************************************)

LEMMA InitAnswers == Init => Answers
BY DEF Init, Answers, Undecided, Unknown

LEMMA CallAnswers ==
  ASSUME IInv, Answers, NEW t \in Threads, NEW r \in Request, Call(t, r)
  PROVE  Answers'
BY DEF Answers, Undecided, Call, Goto, ring, IInv, TypeOK

LEMMA AcquireAnswers ==
  ASSUME IInv, Answers, NEW t \in Threads, Acquire(t)
  PROVE  Answers'
<1> USE DEF IInv, TypeOK, Answers, Undecided, At, Goto, ring
<1>1. CASE LockSystem(t)
  BY <1>1 DEF LockSystem
<1>2. CASE WaitEvent(t)
  BY <1>2 DEF WaitEvent
<1>3. CASE LockAccess(t)
  <2>1. pc[t] \in Undecided /\ (req[t].op \in {"send_message", "is_message"} => req[t].m.hsm # SK_INVALID_HSM)
    BY <1>3 DEF LockAccess, EditOps
  <2> QED
    BY <1>3, <2>1 DEF LockAccess
<1> QED
  BY <1>1, <1>2, <1>3 DEF Acquire

LEMMA RunAnswers ==
  ASSUME IInv, Answers, NEW t \in Threads, Run(t)
  PROVE  Answers'
<1> USE RequestTypes DEF IInv
<1>1. CASE NoWindow(t)
  BY <1>1 DEF Answers, Undecided, NoWindow, At, Goto, Reply, Unknown, ring, TypeOK
<1>2. CASE StoreMessage(t)
  <2>1. pc[t] = "inside" /\ \A u \in Threads : pc[u] # "advance"
    BY <1>2 DEF StoreMessage, At, AccessMutex, HoldsAccess
  <2>2. CASE Full
    BY <1>2, <2>1, <2>2 DEF Answers, Undecided, StoreMessage, At, Goto, Reply, Unknown, TypeOK
  <2>3. CASE ~ Full
    <3>1. /\ pc' = [pc EXCEPT ![t] = "advance"] /\ req[t].op = "send_message"
          /\ queue' = [queue EXCEPT ![tail] = req[t].m]
          /\ UNCHANGED <<tail, req, return_value>>
      BY <1>2, <2>3 DEF StoreMessage, At, Goto
    <3>2. queue'[tail'] = req'[t].m
      BY <3>1 DEF TypeOK
    <3> QED
      BY <2>1, <3>1, <3>2 DEF Answers, Undecided, TypeOK
  <2> QED
    BY <2>2, <2>3
<1>3. CASE AdvanceTail(t)
  <2>1. pc[t] = "advance" /\ \A u \in Threads : u # t => pc[u] # "advance"
    BY <1>3 DEF AdvanceTail, AccessMutex, HoldsAccess
  <2> QED
    BY <1>3, <2>1 DEF Answers, Undecided, AdvanceTail, Goto, Reply, Unknown, TypeOK
<1>4. CASE PopMessage(t)
  BY <1>4 DEF Answers, Undecided, PopMessage, At, Goto, Reply, Unknown, TypeOK
<1>5. CASE EditMessages(t)
  <2>1. pc[t] = "inside" /\ \A u \in Threads : pc[u] # "advance"
    BY <1>5 DEF EditMessages, At, AccessMutex, HoldsAccess
  <2> QED
    BY <1>5, <2>1 DEF Answers, Undecided, EditMessages, At, Goto, Reply, Unknown, TypeOK
<1>6. CASE QueryMessages(t)
  BY <1>6 DEF Answers, Undecided, QueryMessages, At, Goto, Reply, Unknown, ring, TypeOK
<1>7. CASE UnlockAccess(t)
  BY <1>7 DEF Answers, Undecided, UnlockAccess, Finish, Goto, Reply, Unknown, ring, TypeOK
<1>8. CASE UnlockSystem(t)
  BY <1>8 DEF Answers, Undecided, UnlockSystem, Finish, Goto, Reply, Unknown, ring, TypeOK
<1>9. CASE ReturnUnlocked(t)
  BY <1>9 DEF Answers, Undecided, ReturnUnlocked, Finish, Goto, Reply, Unknown, ring, TypeOK
<1> QED
  BY <1>1, <1>2, <1>3, <1>4, <1>5, <1>6, <1>7, <1>8, <1>9 DEF Run

LEMMA NextAnswers == IInv /\ Answers /\ [Next]_vars => Answers'
<1> SUFFICES ASSUME IInv, Answers, [Next]_vars PROVE Answers'
  OBVIOUS
<1>1. CASE UNCHANGED vars
  BY <1>1 DEF vars, Answers
<1>2. CASE Next
  BY <1>2, CallAnswers, AcquireAnswers, RunAnswers, RequestTypes DEF Next, Threads
<1> QED
  BY <1>1, <1>2

(***************************************************************************)
(* The steps.                                                              *)
(***************************************************************************)

(* MessageFifo has the same terms. *)
LEMMA Shared ==
  /\ Fifo!Threads = Threads /\ Fifo!Unknown = Unknown
  /\ Fifo!Erased = Erased /\ Fifo!PopRequest = PopRequest
  /\ Fifo!EditOps = EditOps /\ Fifo!QueryOps = QueryOps
  /\ \A f, r : Fifo!Edited(f, r) = Edited(f, r)
  /\ \A f, places, r : Fifo!Found(f, places, r) = Found(f, places, r)
<1>1. /\ Fifo!Threads = Threads /\ Fifo!Unknown = Unknown
      /\ Fifo!Erased = Erased /\ Fifo!PopRequest = PopRequest
      /\ Fifo!EditOps = EditOps /\ Fifo!QueryOps = QueryOps
  BY DEF Fifo!Threads, Threads, Fifo!Unknown, Unknown, Fifo!Erased, Erased, Fifo!PopRequest, PopRequest,
         Fifo!EditOps, EditOps, Fifo!QueryOps, QueryOps
<1>2. ASSUME NEW f, NEW r PROVE Fifo!Edited(f, r) = Edited(f, r)
  BY DEF Fifo!Edited, Edited, Fifo!EraseMessage, EraseMessage, Fifo!EraseMessageType, EraseMessageType,
         Fifo!InvalidateMessage, InvalidateMessage, Fifo!Erased, Erased
<1>3. ASSUME NEW f, NEW places, NEW r PROVE Fifo!Found(f, places, r) = Found(f, places, r)
  BY DEF Fifo!Found, Found
<1> QED
  BY <1>1, <1>2, <1>3

(* A request under way is one, and stays the abstract call. *)
LEMMA UnderWay ==
  ASSUME IInv, NEW t \in Threads, pc[t] # "idle"
  PROVE  req[t] \in Request /\ req[t] # Idle
BY RequestTypes DEF IInv, TypeOK, CallShape

(* Steps that only take or give back a semaphore are invisible. *)
LEMMA QuietStep ==
  ASSUME IInv, IInv', UNCHANGED <<ring, req, return_value, out>>
  PROVE  UNCHANGED Fifo!vars
<1>1. Pending' = Pending
  BY PendingKept DEF IInv, ring
<1> QED
  BY <1>1 DEF Fifo!vars

(* A call returns. *)
LEMMA FinishStep ==
  ASSUME IInv, IInv', NEW t \in Threads, return_value[t] # Unknown, Finish(t), UNCHANGED ring
  PROVE  Fifo!Return(t)
<1>1. Pending' = Pending
  BY PendingKept DEF IInv, ring
<1> QED
  BY <1>1, Shared DEF Finish, Reply, Fifo!Return

LEMMA RunImplements ==
  ASSUME IInv, IInv', Answers, NEW t \in Threads, Run(t)
  PROVE  Fifo!Next \/ UNCHANGED Fifo!vars
<1> DEFINE Steps == Fifo!Put(t) \/ Fifo!Refuse(t) \/ Fifo!Take(t) \/ Fifo!Edit(t) \/ Fifo!Query(t) \/ Fifo!Return(t)
<1>0. Steps => Fifo!Next
  BY DEF Fifo!Next, Threads, Fifo!Threads
<1> HIDE DEF Steps
<1>1. CASE NoWindow(t)
  <2>1. req[t] # Idle /\ return_value[t] = Unknown /\ UNCHANGED ring /\ pc[t] \in {"push", "called"}
    BY <1>1, UnderWay DEF NoWindow, At, Answers, Undecided
  <2>2. Pending' = Pending
    BY <2>1, PendingKept DEF IInv, ring
  <2>3. Fifo!Replies(t, 0) /\ UNCHANGED out /\ req[t].m.hsm = SK_INVALID_HSM
    BY <1>1 DEF NoWindow, Reply, Fifo!Replies
  <2>4. CASE req[t].op = "send_message"
    <3>1. Fifo!Refuse(t)
      BY <2>1, <2>2, <2>3, <2>4, Shared DEF Fifo!Refuse, Fifo!Running
    <3> QED
      BY <1>0, <3>1 DEF Steps
  <2>5. CASE req[t].op = "is_message"
    <3>1. Fifo!Query(t)
      BY <2>1, <2>2, <2>3, <2>5, Shared DEF Fifo!Query, Fifo!Running, QueryOps
    <3> QED
      BY <1>0, <3>1 DEF Steps
  <2> QED
    BY <1>1, <2>4, <2>5 DEF NoWindow, At
<1>2. CASE StoreMessage(t)
  <2>1. /\ req[t] # Idle /\ return_value[t] = Unknown /\ req[t].op = "send_message"
        /\ UNCHANGED <<head, tail, req, out>>
    BY <1>2, UnderWay DEF StoreMessage, At, Answers, Undecided
  <2>2. CASE Full
    <3>1. Pending' = Pending
      BY <1>2, <2>1, <2>2, PendingKept DEF StoreMessage, IInv
    <3>2. Fifo!Refuse(t)
      BY <1>2, <2>1, <2>2, <3>1, PendingLen, Shared
         DEF IInv, StoreMessage, Reply, Fifo!Refuse, Fifo!Running, Fifo!Replies
    <3> QED
      BY <1>0, <3>2 DEF Steps
  <2>3. CASE ~ Full
    <3>1. queue' = [queue EXCEPT ![tail] = req[t].m] /\ UNCHANGED return_value
      BY <1>2, <2>3 DEF StoreMessage
    <3>2. tail \notin PendingSlots
      BY DEF PendingSlots, IInv, TypeOK
    <3>3. Pending' = Pending
      BY <2>1, <3>1, <3>2, PendingKept DEF IInv, TypeOK, PendingSlots
    <3> QED
      BY <2>1, <3>1, <3>3 DEF Fifo!vars
  <2> QED
    BY <2>2, <2>3
<1>3. CASE AdvanceTail(t)
  <2>1. /\ req[t] # Idle /\ return_value[t] = Unknown /\ req[t].op = "send_message"
        /\ req[t].m.hsm # SK_INVALID_HSM /\ queue[tail] = req[t].m
    BY <1>3, UnderWay DEF AdvanceTail, Answers, Undecided, IInv, CallShape
  <2>2. ~ Full
    BY <1>3 DEF AdvanceTail, IInv, RoomToAdvance, Publishers
  <2>3. Pending' = Append(Pending, req[t].m)
    <3>1. UNCHANGED <<queue, head>> /\ tail' = Wrap(tail + 1) /\ TypeOK /\ TypeOK'
      BY <1>3 DEF AdvanceTail, IInv
    <3>2. Pending' = Append(Pending, queue[tail])
      BY <2>2, <3>1, AppendsMessage
    <3> QED
      BY <2>1, <3>2
  <2>4. Len(Pending) < nqueue
    <3>1. Len(Pending) = get_nmessage /\ Len(Pending) # nqueue /\ get_nmessage \in 0 .. nqueue
      BY <2>2, PendingLen, PendingIs DEF IInv
    <3> QED
      BY <3>1, Capacity
  <2>5. Fifo!Put(t)
    BY <1>3, <2>1, <2>3, <2>4, Shared
       DEF AdvanceTail, Reply, Fifo!Put, Fifo!Running, Fifo!Replies
  <2> QED
    BY <1>0, <2>5 DEF Steps
<1>4. CASE PopMessage(t)
  <2>1. req[t] # Idle /\ return_value[t] = Unknown /\ req[t].op = "pop_message"
    BY <1>4, UnderWay DEF PopMessage, At, Answers, Undecided
  <2>2. head # tail
    BY <1>4, ClaimFindsMessage, RequestTypes DEF PopMessage, At, PopNeverEmpty, IInv, CallShape, Threads
  <2>3. Pending # <<>> /\ Pending' = Tail(Pending) /\ queue[head] = Head(Pending)
    BY <1>4, <2>2, TakesMessage DEF PopMessage, IInv
  <2>4. Fifo!Take(t)
    BY <1>4, <2>1, <2>2, <2>3, Shared
       DEF PopMessage, Reply, Fifo!Take, Fifo!Running, Fifo!Replies
  <2> QED
    BY <1>0, <2>4 DEF Steps
<1>5. CASE EditMessages(t)
  <2>1. /\ req[t] # Idle /\ return_value[t] = Unknown /\ req[t].op \in EditOps
        /\ req[t] \in Request
    BY <1>5, UnderWay DEF EditMessages, At, Answers, Undecided
  <2>2. Pending' = Edited(Pending, req[t])
    BY <1>5, <2>1, EditsMessages DEF EditMessages, IInv
  <2>3. Fifo!Edit(t)
    BY <1>5, <2>1, <2>2, Shared
       DEF EditMessages, Reply, Fifo!Edit, Fifo!Running, Fifo!Replies
  <2> QED
    BY <1>0, <2>3 DEF Steps
<1>6. CASE QueryMessages(t)
  <2>1. /\ req[t] # Idle /\ return_value[t] = Unknown /\ req[t].op \in QueryOps
        /\ req[t] \in Request
        /\ req[t].op = "is_message" => req[t].m.hsm # SK_INVALID_HSM
    BY <1>6, UnderWay DEF QueryMessages, At, Answers, Undecided
  <2>2. Pending' = Pending
    BY <1>6, PendingKept DEF QueryMessages, IInv, ring
  <2>3. Fifo!Query(t)
    BY <1>6, <2>1, <2>2, FindsMessages, Shared
       DEF QueryMessages, Reply, IInv, Fifo!Query, Fifo!Running, Fifo!Replies
  <2> QED
    BY <1>0, <2>3 DEF Steps
<1>7. CASE UnlockAccess(t)
  <2>1. CASE req[t].op = "send_message"
    BY <1>7, <2>1, QuietStep DEF UnlockAccess, ring
  <2>2. CASE req[t].op # "send_message"
    BY <1>0, <1>7, <2>2, FinishStep DEF UnlockAccess, Answers, Undecided, Steps
  <2> QED
    BY <2>1, <2>2
<1>8. CASE UnlockSystem(t)
  BY <1>0, <1>8, FinishStep DEF UnlockSystem, Answers, Undecided, Steps
<1>9. CASE ReturnUnlocked(t)
  BY <1>0, <1>9, FinishStep DEF ReturnUnlocked, Answers, Undecided, Steps
<1> QED
  BY <1>1, <1>2, <1>3, <1>4, <1>5, <1>6, <1>7, <1>8, <1>9 DEF Run

LEMMA CallImplements ==
  ASSUME IInv, IInv', NEW t \in Threads, NEW r \in Request, Call(t, r)
  PROVE  Fifo!Invoke(t, r)
<1>1. Pending' = Pending
  BY PendingKept DEF IInv, Call, ring
<1> QED
  BY <1>1 DEF Call, Fifo!Invoke, IInv, CallShape

LEMMA NextImplements == IInv /\ IInv' /\ Answers /\ [Next]_vars => [Fifo!Next]_(Fifo!vars)
<1> SUFFICES ASSUME IInv, IInv', Answers, [Next]_vars PROVE Fifo!Next \/ UNCHANGED Fifo!vars
  OBVIOUS
<1>1. CASE UNCHANGED vars
  BY <1>1, QuietStep DEF vars, ring
<1>2. ASSUME NEW t \in Clients, NEW r \in Requests, Call(t, r) PROVE Fifo!Next
  BY <1>2, CallImplements, RequestTypes, Shared DEF Fifo!Next, Threads
<1>3. ASSUME NEW t \in Schedulers, Call(t, PopRequest) PROVE Fifo!Next
  BY <1>3, CallImplements, RequestTypes, Shared DEF Fifo!Next, Threads
<1>4. ASSUME NEW t \in Threads, Acquire(t) PROVE UNCHANGED Fifo!vars
  BY <1>4, QuietStep DEF Acquire, LockSystem, WaitEvent, LockAccess
<1>5. ASSUME NEW t \in Threads, Run(t) PROVE Fifo!Next \/ UNCHANGED Fifo!vars
  BY <1>5, RunImplements
<1> QED
  BY <1>1, <1>2, <1>3, <1>4, <1>5 DEF Next

LEMMA InitImplements == Init => Fifo!Init
<1> SUFFICES ASSUME Init PROVE Fifo!Init
  OBVIOUS
<1>1. get_nmessage = 0
  BY DEF Init, get_nmessage
<1>2. Pending = <<>>
  BY <1>1 DEF Pending
<1> QED
  BY <1>2, Shared DEF Init, Fifo!Init

(* The message queue is an atomic bounded FIFO: whatever threads cross in  *)
(* smmsg.c, every call takes effect at once, none is lost, doubled or out  *)
(* of order, and a slot is not used again before its message was taken.    *)
THEOREM Implements == Spec => ImplementsFifo
<1>1. Init => Answers /\ Fifo!Init
  BY InitAnswers, InitImplements
<1>2. IInv /\ IInv' /\ Answers /\ [Next]_vars => Answers' /\ [Fifo!Next]_(Fifo!vars)
  BY NextAnswers, NextImplements
<1> QED
  BY <1>1, <1>2, Invariance, PTL DEF Spec, ImplementsFifo, Fifo!Spec

=============================================================================
