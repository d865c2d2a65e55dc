----------------------------- MODULE SmMsgProof -----------------------------
(***************************************************************************)
(* Proofs about SmMsg, for any threads, any calls and any capacity: IInv   *)
(* is inductive, and the invariants that the runs check follow from it.    *)
(* The argument is one of counting: a thread that passes sem_event or that *)
(* posts it moves into or out of Claimants and Publishers in the same step *)
(* as the number of messages changes, and access makes the steps on the    *)
(* ring exclude each other.                                                *)
(***************************************************************************)
EXTENDS SmMsg, FiniteSetTheorems, TLAPS

USE DEF queue_size, Slots

(***************************************************************************)
(* The ring.                                                               *)
(***************************************************************************)

(* A slot index stays one when it is advanced and wrapped. *)
LEMMA WrapInRing ==
  \A i \in Slots : Wrap(i + 1) \in Slots
BY Capacity DEF Wrap

(* The number of messages is a natural, and zero just when the two indices *)
(* meet (get_nmessage of smmsg.c).                                         *)
LEMMA CountBounds ==
  ASSUME TypeOK
  PROVE  /\ get_nmessage \in Nat
         /\ get_nmessage = 0 <=> head = tail
BY Capacity DEF TypeOK, get_nmessage

(* Moving the tail of a ring with room adds one message, also where the    *)
(* tail wraps.                                                             *)
LEMMA AdvanceTailCounts ==
  ASSUME TypeOK, ~ Full, tail' = Wrap(tail + 1), head' = head
  PROVE  get_nmessage' = get_nmessage + 1
BY Capacity DEF TypeOK, get_nmessage, Full, def, Wrap

(* Moving the head of a ring that is not empty removes one message. *)
LEMMA AdvanceHeadCounts ==
  ASSUME TypeOK, head # tail, head' = Wrap(head + 1), tail' = tail
  PROVE  get_nmessage' = get_nmessage - 1
BY Capacity DEF TypeOK, get_nmessage, Wrap

(* An edit keeps every slot a message. *)
LEMMA EditedType ==
  ASSUME NEW f \in [Slots -> MESSAGE], NEW r \in Request, r.op \in EditOps
  PROVE  Edited(f, r) \in [Slots -> MESSAGE]
<1>1. Erased \in MESSAGE
  BY NullValues DEF Erased, MESSAGE
<1>2. EraseMessage(f, r.m.hsm) \in [Slots -> MESSAGE]
  BY <1>1 DEF EraseMessage
<1>3. EraseMessageType(f, r.m.hsm, r.m.message) \in [Slots -> MESSAGE]
  BY <1>1 DEF EraseMessageType
<1>4. InvalidateMessage(f, r.m.message) \in [Slots -> MESSAGE]
  BY NullValues DEF InvalidateMessage, MESSAGE
<1>5. QED
  BY <1>2, <1>3, <1>4 DEF Edited, EditOps

(***************************************************************************)
(* The threads.                                                            *)
(***************************************************************************)

(* A request that is under way is a record with an operation. *)
LEMMA RequestTypes ==
  /\ PopRequest \in Request
  /\ Requests \subseteq Request
  /\ \A r \in Requests : r.op # "pop_message"
  /\ PopRequest.op = "pop_message"
  /\ Erased \in MESSAGE
  /\ Idle \notin Request
BY RequestSet, NullValues DEF Request, PopRequest, Ops, MESSAGE, Erased

(* Claimants and Publishers are finite. *)
LEMMA FiniteCounts ==
  /\ IsFiniteSet(Claimants) /\ Cardinality(Claimants) \in Nat
  /\ IsFiniteSet(Publishers) /\ Cardinality(Publishers) \in Nat
<1>1. IsFiniteSet(Threads)
  BY ThreadSets, FS_Union DEF Threads
<1>2. IsFiniteSet(Claimants) /\ IsFiniteSet(Publishers)
  BY <1>1, FS_Subset DEF Claimants, Publishers, Threads
<1>3. QED
  BY <1>2, FS_CardinalityType

(* What a move of one thread does to the two sets. *)
LEMMA MoveOne ==
  ASSUME TypeOK, NEW t \in Threads, NEW place \in Places,
         pc' = [pc EXCEPT ![t] = place]
  PROVE  /\ Claimants' = IF t \in Schedulers /\ place \in {"woken", "inside"}
                         THEN Claimants \cup {t} ELSE Claimants \ {t}
         /\ Publishers' = IF place = "advance"
                          THEN Publishers \cup {t} ELSE Publishers \ {t}
BY DEF TypeOK, Claimants, Publishers, Threads

(* A move that changes neither set, nor the ring, nor sem_event. *)
LEMMA QuietMove ==
  ASSUME TypeOK, EventAccounting, NEW t \in Threads, NEW place \in Places,
         pc' = [pc EXCEPT ![t] = place],
         t \in Claimants <=> t \in Schedulers /\ place \in {"woken", "inside"},
         t \in Publishers <=> place = "advance",
         UNCHANGED <<head, tail, sem_event>>
  PROVE  EventAccounting'
<1>1. Claimants' = Claimants
  <2>1. \/ Claimants' = Claimants \cup {t} /\ t \in Claimants
        \/ Claimants' = Claimants \ {t} /\ t \notin Claimants
    BY MoveOne
  <2>2. QED
    BY <2>1
<1>2. Publishers' = Publishers
  <2>1. \/ Publishers' = Publishers \cup {t} /\ t \in Publishers
        \/ Publishers' = Publishers \ {t} /\ t \notin Publishers
    BY MoveOne
  <2>2. QED
    BY <2>1
<1>3. QED
  BY <1>1, <1>2 DEF EventAccounting, get_nmessage

(* The initial state. *)
LEMMA InitIInv == Init => IInv
<1> SUFFICES ASSUME Init PROVE IInv
  OBVIOUS
<1> USE RequestTypes
<1>1. TypeOK
  BY Capacity, GarbageSet DEF Init, TypeOK, Places, Unknown
<1>2. CallShape
  BY DEF Init, CallShape, Threads
<1>3. AccessMutex /\ SystemMutex /\ RoomToAdvance
  BY DEF Init, AccessMutex, SystemMutex, RoomToAdvance, HoldsAccess, HoldsSystem, Publishers
<1>4. EventAccounting
  <2>1. Claimants = {} /\ Publishers = {}
    BY DEF Init, Claimants, Publishers, Threads
  <2>2. get_nmessage = 0
    BY DEF Init, get_nmessage
  <2>3. QED
    BY <2>1, <2>2, FS_EmptySet DEF Init, EventAccounting
<1>5. QED
  BY <1>1, <1>2, <1>3, <1>4 DEF IInv
(***************************************************************************)
(* Each action preserves the invariant.                                    *)
(***************************************************************************)

LEMMA CallStep ==
  ASSUME IInv, NEW t \in Threads, NEW r \in Request,
         (t \in Clients /\ r \in Requests) \/ (t \in Schedulers /\ r = PopRequest), Call(t, r)
  PROVE  IInv'
<1> USE RequestTypes DEF IInv
<1>1. TypeOK'
  <2>1. /\ queue' \in [Slots -> MESSAGE]
        /\ head' \in Slots /\ tail' \in Slots
    BY WrapInRing, EditedType DEF Call, TypeOK, CallShape, At, ring
  <2>2. access' \in {0, 1} /\ sem_system' \in {0, 1} /\ sem_event' \in Nat
    BY DEF Call, TypeOK, AccessMutex, SystemMutex, HoldsAccess, HoldsSystem, semaphores
  <2>3. /\ pc' \in [Threads -> Places]
        /\ req' \in [Threads -> Requests \cup {PopRequest, Idle}]
    BY DEF Call, TypeOK, Goto, Places
  <2>4. /\ return_value' \in [Threads -> {Unknown, 0, 1}]
        /\ out' \in [Threads -> MESSAGE]
    BY DEF Call, TypeOK, Reply, Unknown
  <2>5. QED
    BY <2>1, <2>2, <2>3, <2>4 DEF TypeOK
<1>2. CallShape'
  BY ThreadSets DEF Call, TypeOK, CallShape, At, Goto, Threads, EditOps, QueryOps
<1>3. AccessMutex'
  BY DEF Call, TypeOK, CallShape, AccessMutex, HoldsAccess, At, Goto, semaphores
<1>4. SystemMutex'
  BY DEF Call, TypeOK, CallShape, AccessMutex, SystemMutex, HoldsAccess, HoldsSystem, At, Goto, semaphores
<1>5. RoomToAdvance'
  BY DEF Call, TypeOK, CallShape, AccessMutex, RoomToAdvance, Publishers, HoldsAccess, Full, def, At, Goto, ring
<1>6. EventAccounting'
  <2>1. pc' = [pc EXCEPT ![t] = "called"] /\ pc[t] = "idle"
    BY DEF Call, Goto, At
  <2>2. QED
    BY <2>1, QuietMove DEF Call, Claimants, Publishers, ring, semaphores, Places
<1>7. QED
  BY <1>1, <1>2, <1>3, <1>4, <1>5, <1>6

LEMMA LockSystemStep ==
  ASSUME IInv, NEW t \in Threads, LockSystem(t)
  PROVE  IInv'
<1> USE RequestTypes DEF IInv
<1>1. TypeOK'
  <2>1. /\ queue' \in [Slots -> MESSAGE]
        /\ head' \in Slots /\ tail' \in Slots
    BY WrapInRing, EditedType DEF LockSystem, TypeOK, CallShape, At, ring
  <2>2. access' \in {0, 1} /\ sem_system' \in {0, 1} /\ sem_event' \in Nat
    BY DEF LockSystem, TypeOK, AccessMutex, SystemMutex, HoldsAccess, HoldsSystem, semaphores
  <2>3. /\ pc' \in [Threads -> Places]
        /\ req' \in [Threads -> Requests \cup {PopRequest, Idle}]
    BY DEF LockSystem, TypeOK, Goto, Places
  <2>4. /\ return_value' \in [Threads -> {Unknown, 0, 1}]
        /\ out' \in [Threads -> MESSAGE]
    BY DEF LockSystem, TypeOK, Reply, Unknown
  <2>5. QED
    BY <2>1, <2>2, <2>3, <2>4 DEF TypeOK
<1>2. CallShape'
  BY ThreadSets DEF LockSystem, TypeOK, CallShape, At, Goto, Threads, EditOps, QueryOps
<1>3. AccessMutex'
  BY DEF LockSystem, TypeOK, CallShape, AccessMutex, HoldsAccess, At, Goto, semaphores
<1>4. SystemMutex'
  BY DEF LockSystem, TypeOK, CallShape, AccessMutex, SystemMutex, HoldsAccess, HoldsSystem, At, Goto, semaphores
<1>5. RoomToAdvance'
  BY DEF LockSystem, TypeOK, CallShape, AccessMutex, RoomToAdvance, Publishers, HoldsAccess, Full, def, At, Goto, ring
<1>6. EventAccounting'
  <2>1. pc' = [pc EXCEPT ![t] = "push"] /\ pc[t] = "called"
    BY DEF LockSystem, Goto, At
  <2>2. QED
    BY <2>1, QuietMove DEF LockSystem, Claimants, Publishers, ring, semaphores, Places
<1>7. QED
  BY <1>1, <1>2, <1>3, <1>4, <1>5, <1>6

LEMMA WaitEventStep ==
  ASSUME IInv, NEW t \in Threads, WaitEvent(t)
  PROVE  IInv'
<1> USE RequestTypes DEF IInv
<1>1. TypeOK'
  <2>1. /\ queue' \in [Slots -> MESSAGE]
        /\ head' \in Slots /\ tail' \in Slots
    BY WrapInRing, EditedType DEF WaitEvent, TypeOK, CallShape, At, ring
  <2>2. access' \in {0, 1} /\ sem_system' \in {0, 1} /\ sem_event' \in Nat
    BY DEF WaitEvent, TypeOK, AccessMutex, SystemMutex, HoldsAccess, HoldsSystem, semaphores
  <2>3. /\ pc' \in [Threads -> Places]
        /\ req' \in [Threads -> Requests \cup {PopRequest, Idle}]
    BY DEF WaitEvent, TypeOK, Goto, Places
  <2>4. /\ return_value' \in [Threads -> {Unknown, 0, 1}]
        /\ out' \in [Threads -> MESSAGE]
    BY DEF WaitEvent, TypeOK, Reply, Unknown
  <2>5. QED
    BY <2>1, <2>2, <2>3, <2>4 DEF TypeOK
<1>2. CallShape'
  BY ThreadSets DEF WaitEvent, TypeOK, CallShape, At, Goto, Threads, EditOps, QueryOps
<1>3. AccessMutex'
  BY DEF WaitEvent, TypeOK, CallShape, AccessMutex, HoldsAccess, At, Goto, semaphores
<1>4. SystemMutex'
  BY DEF WaitEvent, TypeOK, CallShape, AccessMutex, SystemMutex, HoldsAccess, HoldsSystem, At, Goto, semaphores
<1>5. RoomToAdvance'
  BY DEF WaitEvent, TypeOK, CallShape, AccessMutex, RoomToAdvance, Publishers, HoldsAccess, Full, def, At, Goto, ring
<1>6. EventAccounting'
  <2>1. pc' = [pc EXCEPT ![t] = "woken"] /\ pc[t] = "called" /\ t \in Schedulers
    BY DEF WaitEvent, Goto, At, CallShape, Threads, TypeOK
  <2>2. Claimants' = Claimants \cup {t} /\ t \notin Claimants /\ Publishers' = Publishers
    BY <2>1, MoveOne DEF Claimants, Publishers, Places
  <2>3. Cardinality(Claimants') = Cardinality(Claimants) + 1
    BY <2>2, FS_AddElement, FiniteCounts
  <2>4. get_nmessage' = get_nmessage /\ sem_event' = sem_event - 1
    BY DEF WaitEvent, get_nmessage, ring
  <2>5. QED
    BY <2>2, <2>3, <2>4, FiniteCounts, CountBounds DEF EventAccounting, TypeOK
<1>7. QED
  BY <1>1, <1>2, <1>3, <1>4, <1>5, <1>6

LEMMA NoWindowStep ==
  ASSUME IInv, NEW t \in Threads, NoWindow(t)
  PROVE  IInv'
<1> USE RequestTypes DEF IInv
<1>1. TypeOK'
  <2>1. /\ queue' \in [Slots -> MESSAGE]
        /\ head' \in Slots /\ tail' \in Slots
    BY WrapInRing, EditedType DEF NoWindow, TypeOK, CallShape, At, ring
  <2>2. access' \in {0, 1} /\ sem_system' \in {0, 1} /\ sem_event' \in Nat
    BY DEF NoWindow, TypeOK, AccessMutex, SystemMutex, HoldsAccess, HoldsSystem, semaphores
  <2>3. /\ pc' \in [Threads -> Places]
        /\ req' \in [Threads -> Requests \cup {PopRequest, Idle}]
    BY DEF NoWindow, TypeOK, Goto, Places
  <2>4. /\ return_value' \in [Threads -> {Unknown, 0, 1}]
        /\ out' \in [Threads -> MESSAGE]
    BY DEF NoWindow, TypeOK, Reply, Unknown
  <2>5. QED
    BY <2>1, <2>2, <2>3, <2>4 DEF TypeOK
<1>2. CallShape'
  BY ThreadSets DEF NoWindow, TypeOK, CallShape, At, Goto, Threads, EditOps, QueryOps
<1>3. AccessMutex'
  BY DEF NoWindow, TypeOK, CallShape, AccessMutex, HoldsAccess, At, Goto, semaphores
<1>4. SystemMutex'
  BY DEF NoWindow, TypeOK, CallShape, AccessMutex, SystemMutex, HoldsAccess, HoldsSystem, At, Goto, semaphores
<1>5. RoomToAdvance'
  BY DEF NoWindow, TypeOK, CallShape, AccessMutex, RoomToAdvance, Publishers, HoldsAccess, Full, def, At, Goto, ring
<1>6. EventAccounting'
  <2>1. PICK place \in {"unlock_system", "done"} :
          pc' = [pc EXCEPT ![t] = place] /\ pc[t] \in {"push", "called"}
    BY DEF NoWindow, Goto, At
  <2>2. QED
    BY <2>1, QuietMove DEF NoWindow, Claimants, Publishers, ring, semaphores, Places
<1>7. QED
  BY <1>1, <1>2, <1>3, <1>4, <1>5, <1>6

LEMMA LockAccessStep ==
  ASSUME IInv, NEW t \in Threads, LockAccess(t)
  PROVE  IInv'
<1> USE RequestTypes DEF IInv
<1>1. TypeOK'
  <2>1. /\ queue' \in [Slots -> MESSAGE]
        /\ head' \in Slots /\ tail' \in Slots
    BY WrapInRing, EditedType DEF LockAccess, TypeOK, CallShape, At, ring
  <2>2. access' \in {0, 1} /\ sem_system' \in {0, 1} /\ sem_event' \in Nat
    BY DEF LockAccess, TypeOK, AccessMutex, SystemMutex, HoldsAccess, HoldsSystem, semaphores
  <2>3. /\ pc' \in [Threads -> Places]
        /\ req' \in [Threads -> Requests \cup {PopRequest, Idle}]
    BY DEF LockAccess, TypeOK, Goto, Places
  <2>4. /\ return_value' \in [Threads -> {Unknown, 0, 1}]
        /\ out' \in [Threads -> MESSAGE]
    BY DEF LockAccess, TypeOK, Reply, Unknown
  <2>5. QED
    BY <2>1, <2>2, <2>3, <2>4 DEF TypeOK
<1>2. CallShape'
  BY ThreadSets DEF LockAccess, TypeOK, CallShape, At, Goto, Threads, EditOps, QueryOps
<1>3. AccessMutex'
  BY DEF LockAccess, TypeOK, CallShape, AccessMutex, HoldsAccess, At, Goto, semaphores
<1>4. SystemMutex'
  <2>1. /\ pc' = [pc EXCEPT ![t] = "inside"]
        /\ req' = req /\ sem_system' = sem_system
        /\ req[t].op = "send_message" => pc[t] = "push"
    BY DEF LockAccess, At, Goto, EditOps
  <2>2. \A u \in Threads : HoldsSystem(u)' => HoldsSystem(u)
    BY <2>1 DEF HoldsSystem, HoldsAccess, TypeOK
  <2>3. QED
    BY <2>1, <2>2 DEF SystemMutex
<1>5. RoomToAdvance'
  BY DEF LockAccess, TypeOK, CallShape, AccessMutex, RoomToAdvance, Publishers, HoldsAccess, Full, def, At, Goto, ring
<1>6. EventAccounting'
  <2>1. pc' = [pc EXCEPT ![t] = "inside"] /\ pc[t] # "inside" /\ pc[t] # "advance"
    BY DEF LockAccess, Goto, At
  <2>2. t \in Schedulers <=> pc[t] = "woken"
    BY ThreadSets DEF LockAccess, At, CallShape, Threads, EditOps, TypeOK
  <2>3. QED
    BY <2>1, <2>2, QuietMove DEF LockAccess, Claimants, Publishers, ring, Places
<1>7. QED
  BY <1>1, <1>2, <1>3, <1>4, <1>5, <1>6

LEMMA StoreMessageStep ==
  ASSUME IInv, NEW t \in Threads, StoreMessage(t)
  PROVE  IInv'
<1> USE RequestTypes DEF IInv
<1>1. TypeOK'
  <2>1. /\ queue' \in [Slots -> MESSAGE]
        /\ head' \in Slots /\ tail' \in Slots
    <3>1. req[t] \in Request
      BY DEF StoreMessage, TypeOK, CallShape, At
    <3>2. req[t].m \in MESSAGE
      BY <3>1 DEF Request
    <3>3. QED
      BY <3>2 DEF StoreMessage, TypeOK
  <2>2. access' \in {0, 1} /\ sem_system' \in {0, 1} /\ sem_event' \in Nat
    BY DEF StoreMessage, TypeOK, AccessMutex, SystemMutex, HoldsAccess, HoldsSystem, semaphores
  <2>3. /\ pc' \in [Threads -> Places]
        /\ req' \in [Threads -> Requests \cup {PopRequest, Idle}]
    BY DEF StoreMessage, TypeOK, Goto, Places
  <2>4. /\ return_value' \in [Threads -> {Unknown, 0, 1}]
        /\ out' \in [Threads -> MESSAGE]
    BY DEF StoreMessage, TypeOK, Reply, Unknown
  <2>5. QED
    BY <2>1, <2>2, <2>3, <2>4 DEF TypeOK
<1>2. CallShape'
  BY ThreadSets DEF StoreMessage, TypeOK, CallShape, At, Goto, Threads, EditOps, QueryOps
<1>3. AccessMutex'
  BY DEF StoreMessage, TypeOK, CallShape, AccessMutex, HoldsAccess, At, Goto, semaphores
<1>4. SystemMutex'
  BY DEF StoreMessage, TypeOK, CallShape, AccessMutex, SystemMutex, HoldsAccess, HoldsSystem, At, Goto, semaphores
<1>5. RoomToAdvance'
  BY DEF StoreMessage, TypeOK, CallShape, AccessMutex, RoomToAdvance, Publishers, HoldsAccess, Full, def, At, Goto, ring
<1>6. EventAccounting'
  <2>1. get_nmessage' = get_nmessage /\ t \notin Schedulers /\ pc[t] = "inside"
    BY DEF StoreMessage, get_nmessage, At, CallShape
  <2>2. CASE Full
    <3>1. pc' = [pc EXCEPT ![t] = "leave"]
      BY <2>2 DEF StoreMessage, Goto
    <3>2. QED
      BY <2>1, <2>2, <3>1, QuietMove DEF StoreMessage, Claimants, Publishers, Places
  <2>3. CASE ~ Full
    <3>1. sem_event' = sem_event + 1 /\ pc' = [pc EXCEPT ![t] = "advance"]
      BY <2>3 DEF StoreMessage, Goto
    <3>2. Publishers' = Publishers \cup {t} /\ t \notin Publishers
      BY <2>1, <3>1, MoveOne DEF Publishers, Places
    <3>3. Claimants' = Claimants
      BY <2>1, <3>1, MoveOne DEF Claimants, Places
    <3>4. Cardinality(Publishers') = Cardinality(Publishers) + 1
      BY <3>2, FS_AddElement, FiniteCounts
    <3>5. QED
      BY <2>1, <3>1, <3>2, <3>3, <3>4, FiniteCounts, CountBounds DEF EventAccounting, TypeOK
  <2>4. QED
    BY <2>2, <2>3
<1>7. QED
  BY <1>1, <1>2, <1>3, <1>4, <1>5, <1>6

LEMMA AdvanceTailStep ==
  ASSUME IInv, NEW t \in Threads, AdvanceTail(t)
  PROVE  IInv'
<1> USE RequestTypes DEF IInv
<1>1. TypeOK'
  <2>1. /\ queue' \in [Slots -> MESSAGE]
        /\ head' \in Slots /\ tail' \in Slots
    BY WrapInRing, EditedType DEF AdvanceTail, TypeOK, CallShape, At, ring
  <2>2. access' \in {0, 1} /\ sem_system' \in {0, 1} /\ sem_event' \in Nat
    BY DEF AdvanceTail, TypeOK, AccessMutex, SystemMutex, HoldsAccess, HoldsSystem, semaphores
  <2>3. /\ pc' \in [Threads -> Places]
        /\ req' \in [Threads -> Requests \cup {PopRequest, Idle}]
    BY DEF AdvanceTail, TypeOK, Goto, Places
  <2>4. /\ return_value' \in [Threads -> {Unknown, 0, 1}]
        /\ out' \in [Threads -> MESSAGE]
    BY DEF AdvanceTail, TypeOK, Reply, Unknown
  <2>5. QED
    BY <2>1, <2>2, <2>3, <2>4 DEF TypeOK
<1>2. CallShape'
  BY ThreadSets DEF AdvanceTail, TypeOK, CallShape, At, Goto, Threads, EditOps, QueryOps
<1>3. AccessMutex'
  BY DEF AdvanceTail, TypeOK, CallShape, AccessMutex, HoldsAccess, At, Goto, semaphores
<1>4. SystemMutex'
  BY DEF AdvanceTail, TypeOK, CallShape, AccessMutex, SystemMutex, HoldsAccess, HoldsSystem, At, Goto, semaphores
<1>5. RoomToAdvance'
  BY DEF AdvanceTail, TypeOK, CallShape, AccessMutex, RoomToAdvance, Publishers, HoldsAccess, Full, def, At, Goto, ring
<1>6. EventAccounting'
  <2>1. pc' = [pc EXCEPT ![t] = "leave"] /\ pc[t] = "advance"
    BY DEF AdvanceTail, Goto
  <2>2. Publishers' = Publishers \ {t} /\ t \in Publishers /\ Claimants' = Claimants
    BY <2>1, MoveOne DEF Claimants, Publishers, Places
  <2>3. Cardinality(Publishers') = Cardinality(Publishers) - 1
    BY <2>2, FS_RemoveElement, FiniteCounts
  <2>4. get_nmessage' = get_nmessage + 1 /\ sem_event' = sem_event
    BY <2>2, AdvanceTailCounts DEF AdvanceTail, RoomToAdvance, semaphores
  <2>5. QED
    BY <2>2, <2>3, <2>4, FiniteCounts, CountBounds DEF EventAccounting, TypeOK
<1>7. QED
  BY <1>1, <1>2, <1>3, <1>4, <1>5, <1>6

LEMMA PopMessageStep ==
  ASSUME IInv, NEW t \in Threads, PopMessage(t)
  PROVE  IInv'
<1> USE RequestTypes DEF IInv
<1>1. TypeOK'
  <2>1. /\ queue' \in [Slots -> MESSAGE]
        /\ head' \in Slots /\ tail' \in Slots
    BY WrapInRing, EditedType DEF PopMessage, TypeOK, CallShape, At, ring
  <2>2. access' \in {0, 1} /\ sem_system' \in {0, 1} /\ sem_event' \in Nat
    BY DEF PopMessage, TypeOK, AccessMutex, SystemMutex, HoldsAccess, HoldsSystem, semaphores
  <2>3. /\ pc' \in [Threads -> Places]
        /\ req' \in [Threads -> Requests \cup {PopRequest, Idle}]
    BY DEF PopMessage, TypeOK, Goto, Places
  <2>4. /\ return_value' \in [Threads -> {Unknown, 0, 1}]
        /\ out' \in [Threads -> MESSAGE]
    BY DEF PopMessage, TypeOK, Reply, Unknown
  <2>5. QED
    BY <2>1, <2>2, <2>3, <2>4 DEF TypeOK
<1>2. CallShape'
  BY ThreadSets DEF PopMessage, TypeOK, CallShape, At, Goto, Threads, EditOps, QueryOps
<1>3. AccessMutex'
  BY DEF PopMessage, TypeOK, CallShape, AccessMutex, HoldsAccess, At, Goto, semaphores
<1>4. SystemMutex'
  BY DEF PopMessage, TypeOK, CallShape, AccessMutex, SystemMutex, HoldsAccess, HoldsSystem, At, Goto, semaphores
<1>5. RoomToAdvance'
  BY DEF PopMessage, TypeOK, CallShape, AccessMutex, RoomToAdvance, Publishers, HoldsAccess, Full, def, At, Goto, ring
<1>6. EventAccounting'
  <2>1. pc' = [pc EXCEPT ![t] = "leave"] /\ pc[t] = "inside" /\ t \in Schedulers
    BY DEF PopMessage, Goto, At, CallShape, Threads, TypeOK
  <2>2. Claimants' = Claimants \ {t} /\ t \in Claimants /\ Publishers' = Publishers
    BY <2>1, MoveOne DEF Claimants, Publishers, Places
  <2>3. Cardinality(Claimants') = Cardinality(Claimants) - 1
    BY <2>2, FS_RemoveElement, FiniteCounts
  <2>4. get_nmessage' - get_nmessage = sem_event' - sem_event - 1
    <3>1. CASE head # tail
      <4>1. get_nmessage' = get_nmessage - 1 /\ sem_event' = sem_event
        BY <3>1, AdvanceHeadCounts DEF PopMessage
      <4>2. QED
        BY <4>1, CountBounds DEF TypeOK
    <3>2. CASE head = tail
      <4>1. get_nmessage' = get_nmessage /\ sem_event' = sem_event + 1
        BY <3>2 DEF PopMessage, get_nmessage
      <4>2. QED
        BY <4>1, CountBounds DEF TypeOK
    <3>3. QED
      BY <3>1, <3>2
  <2>5. /\ sem_event \in Nat /\ sem_event' \in Nat
        /\ get_nmessage \in Nat /\ get_nmessage' \in Int
    <3>1. sem_event \in Nat /\ sem_event' \in Nat /\ get_nmessage \in Nat
      BY CountBounds DEF PopMessage, TypeOK
    <3>2. get_nmessage' \in Int
      BY <1>1, Capacity DEF TypeOK, get_nmessage
    <3>3. QED
      BY <3>1, <3>2
  <2>6. Cardinality(Claimants) \in Nat /\ Cardinality(Publishers) \in Nat
    BY FiniteCounts
  <2>7. Cardinality(Publishers') = Cardinality(Publishers)
    BY <2>2
  <2>8. sem_event + Cardinality(Claimants) = get_nmessage + Cardinality(Publishers)
    BY DEF EventAccounting
  <2>9. sem_event' + Cardinality(Claimants') = get_nmessage' + Cardinality(Publishers')
    BY <2>3, <2>4, <2>5, <2>6, <2>7, <2>8
  <2>10. QED
    BY <2>9 DEF EventAccounting
<1>7. QED
  BY <1>1, <1>2, <1>3, <1>4, <1>5, <1>6

LEMMA EditMessagesStep ==
  ASSUME IInv, NEW t \in Threads, EditMessages(t)
  PROVE  IInv'
<1> USE RequestTypes DEF IInv
<1>1. TypeOK'
  <2>1. /\ queue' \in [Slots -> MESSAGE]
        /\ head' \in Slots /\ tail' \in Slots
    BY WrapInRing, EditedType DEF EditMessages, TypeOK, CallShape, At, ring
  <2>2. access' \in {0, 1} /\ sem_system' \in {0, 1} /\ sem_event' \in Nat
    BY DEF EditMessages, TypeOK, AccessMutex, SystemMutex, HoldsAccess, HoldsSystem, semaphores
  <2>3. /\ pc' \in [Threads -> Places]
        /\ req' \in [Threads -> Requests \cup {PopRequest, Idle}]
    BY DEF EditMessages, TypeOK, Goto, Places
  <2>4. /\ return_value' \in [Threads -> {Unknown, 0, 1}]
        /\ out' \in [Threads -> MESSAGE]
    BY DEF EditMessages, TypeOK, Reply, Unknown
  <2>5. QED
    BY <2>1, <2>2, <2>3, <2>4 DEF TypeOK
<1>2. CallShape'
  BY ThreadSets DEF EditMessages, TypeOK, CallShape, At, Goto, Threads, EditOps, QueryOps
<1>3. AccessMutex'
  BY DEF EditMessages, TypeOK, CallShape, AccessMutex, HoldsAccess, At, Goto, semaphores
<1>4. SystemMutex'
  BY DEF EditMessages, TypeOK, CallShape, AccessMutex, SystemMutex, HoldsAccess, HoldsSystem, At, Goto, semaphores
<1>5. RoomToAdvance'
  BY DEF EditMessages, TypeOK, CallShape, AccessMutex, RoomToAdvance, Publishers, HoldsAccess, Full, def, At, Goto, ring
<1>6. EventAccounting'
  <2>1. /\ pc' = [pc EXCEPT ![t] = "leave"] /\ pc[t] = "inside"
        /\ t \notin Schedulers
    BY DEF EditMessages, Goto, At, CallShape, EditOps, QueryOps
  <2>2. QED
    BY <2>1, QuietMove DEF EditMessages, Claimants, Publishers, ring, semaphores, Places
<1>7. QED
  BY <1>1, <1>2, <1>3, <1>4, <1>5, <1>6

LEMMA QueryMessagesStep ==
  ASSUME IInv, NEW t \in Threads, QueryMessages(t)
  PROVE  IInv'
<1> USE RequestTypes DEF IInv
<1>1. TypeOK'
  <2>1. /\ queue' \in [Slots -> MESSAGE]
        /\ head' \in Slots /\ tail' \in Slots
    BY WrapInRing, EditedType DEF QueryMessages, TypeOK, CallShape, At, ring
  <2>2. access' \in {0, 1} /\ sem_system' \in {0, 1} /\ sem_event' \in Nat
    BY DEF QueryMessages, TypeOK, AccessMutex, SystemMutex, HoldsAccess, HoldsSystem, semaphores
  <2>3. /\ pc' \in [Threads -> Places]
        /\ req' \in [Threads -> Requests \cup {PopRequest, Idle}]
    BY DEF QueryMessages, TypeOK, Goto, Places
  <2>4. /\ return_value' \in [Threads -> {Unknown, 0, 1}]
        /\ out' \in [Threads -> MESSAGE]
    BY DEF QueryMessages, TypeOK, Reply, Unknown
  <2>5. QED
    BY <2>1, <2>2, <2>3, <2>4 DEF TypeOK
<1>2. CallShape'
  BY ThreadSets DEF QueryMessages, TypeOK, CallShape, At, Goto, Threads, EditOps, QueryOps
<1>3. AccessMutex'
  BY DEF QueryMessages, TypeOK, CallShape, AccessMutex, HoldsAccess, At, Goto, semaphores
<1>4. SystemMutex'
  BY DEF QueryMessages, TypeOK, CallShape, AccessMutex, SystemMutex, HoldsAccess, HoldsSystem, At, Goto, semaphores
<1>5. RoomToAdvance'
  BY DEF QueryMessages, TypeOK, CallShape, AccessMutex, RoomToAdvance, Publishers, HoldsAccess, Full, def, At, Goto, ring
<1>6. EventAccounting'
  <2>1. /\ pc' = [pc EXCEPT ![t] = "leave"] /\ pc[t] = "inside"
        /\ t \notin Schedulers
    BY DEF QueryMessages, Goto, At, CallShape, EditOps, QueryOps
  <2>2. QED
    BY <2>1, QuietMove DEF QueryMessages, Claimants, Publishers, ring, semaphores, Places
<1>7. QED
  BY <1>1, <1>2, <1>3, <1>4, <1>5, <1>6

LEMMA UnlockAccessStep ==
  ASSUME IInv, NEW t \in Threads, UnlockAccess(t)
  PROVE  IInv'
<1> USE RequestTypes DEF IInv
<1>1. TypeOK'
  <2>1. /\ queue' \in [Slots -> MESSAGE]
        /\ head' \in Slots /\ tail' \in Slots
    BY WrapInRing, EditedType DEF UnlockAccess, TypeOK, CallShape, At, ring
  <2>2. access' \in {0, 1} /\ sem_system' \in {0, 1} /\ sem_event' \in Nat
    BY DEF UnlockAccess, TypeOK, AccessMutex, SystemMutex, HoldsAccess, HoldsSystem, semaphores
  <2>3. /\ pc' \in [Threads -> Places]
        /\ req' \in [Threads -> Requests \cup {PopRequest, Idle}]
    BY DEF UnlockAccess, TypeOK, Goto, Places, Finish
  <2>4. /\ return_value' \in [Threads -> {Unknown, 0, 1}]
        /\ out' \in [Threads -> MESSAGE]
    BY DEF UnlockAccess, TypeOK, Reply, Unknown, Finish
  <2>5. QED
    BY <2>1, <2>2, <2>3, <2>4 DEF TypeOK
<1>2. CallShape'
  BY ThreadSets DEF UnlockAccess, TypeOK, CallShape, At, Goto, Finish, Threads, EditOps, QueryOps
<1>3. AccessMutex'
  BY DEF UnlockAccess, TypeOK, CallShape, AccessMutex, HoldsAccess, At, Goto, Finish, semaphores
<1>4. SystemMutex'
  BY DEF UnlockAccess, TypeOK, CallShape, AccessMutex, SystemMutex, HoldsAccess, HoldsSystem, At, Goto, Finish, semaphores
<1>5. RoomToAdvance'
  BY DEF UnlockAccess, TypeOK, CallShape, AccessMutex, RoomToAdvance, Publishers, HoldsAccess, Full, def, At, Goto, Finish, ring
<1>6. EventAccounting'
  <2>1. PICK place \in {"unlock_system", "idle"} :
          pc' = [pc EXCEPT ![t] = place] /\ pc[t] = "leave"
    BY DEF UnlockAccess, Goto, Finish
  <2>2. QED
    BY <2>1, QuietMove DEF UnlockAccess, Claimants, Publishers, ring, Places
<1>7. QED
  BY <1>1, <1>2, <1>3, <1>4, <1>5, <1>6

LEMMA UnlockSystemStep ==
  ASSUME IInv, NEW t \in Threads, UnlockSystem(t)
  PROVE  IInv'
<1> USE RequestTypes DEF IInv
<1>1. TypeOK'
  <2>1. /\ queue' \in [Slots -> MESSAGE]
        /\ head' \in Slots /\ tail' \in Slots
    BY WrapInRing, EditedType DEF UnlockSystem, TypeOK, CallShape, At, ring
  <2>2. access' \in {0, 1} /\ sem_system' \in {0, 1} /\ sem_event' \in Nat
    BY DEF UnlockSystem, TypeOK, AccessMutex, SystemMutex, HoldsAccess, HoldsSystem, semaphores
  <2>3. /\ pc' \in [Threads -> Places]
        /\ req' \in [Threads -> Requests \cup {PopRequest, Idle}]
    BY DEF UnlockSystem, TypeOK, Goto, Places, Finish
  <2>4. /\ return_value' \in [Threads -> {Unknown, 0, 1}]
        /\ out' \in [Threads -> MESSAGE]
    BY DEF UnlockSystem, TypeOK, Reply, Unknown, Finish
  <2>5. QED
    BY <2>1, <2>2, <2>3, <2>4 DEF TypeOK
<1>2. CallShape'
  BY ThreadSets DEF UnlockSystem, TypeOK, CallShape, At, Goto, Finish, Threads, EditOps, QueryOps
<1>3. AccessMutex'
  BY DEF UnlockSystem, TypeOK, CallShape, AccessMutex, HoldsAccess, At, Goto, Finish, semaphores
<1>4. SystemMutex'
  BY DEF UnlockSystem, TypeOK, CallShape, AccessMutex, SystemMutex, HoldsAccess, HoldsSystem, At, Goto, Finish, semaphores
<1>5. RoomToAdvance'
  BY DEF UnlockSystem, TypeOK, CallShape, AccessMutex, RoomToAdvance, Publishers, HoldsAccess, Full, def, At, Goto, Finish, ring
<1>6. EventAccounting'
  <2>1. pc' = [pc EXCEPT ![t] = "idle"] /\ pc[t] = "unlock_system"
    BY DEF UnlockSystem, Goto, At, Finish
  <2>2. QED
    BY <2>1, QuietMove DEF UnlockSystem, Claimants, Publishers, ring, semaphores, Places
<1>7. QED
  BY <1>1, <1>2, <1>3, <1>4, <1>5, <1>6

LEMMA ReturnUnlockedStep ==
  ASSUME IInv, NEW t \in Threads, ReturnUnlocked(t)
  PROVE  IInv'
<1> USE RequestTypes DEF IInv
<1>1. TypeOK'
  <2>1. /\ queue' \in [Slots -> MESSAGE]
        /\ head' \in Slots /\ tail' \in Slots
    BY WrapInRing, EditedType DEF ReturnUnlocked, TypeOK, CallShape, At, ring
  <2>2. access' \in {0, 1} /\ sem_system' \in {0, 1} /\ sem_event' \in Nat
    BY DEF ReturnUnlocked, TypeOK, AccessMutex, SystemMutex, HoldsAccess, HoldsSystem, semaphores
  <2>3. /\ pc' \in [Threads -> Places]
        /\ req' \in [Threads -> Requests \cup {PopRequest, Idle}]
    BY DEF ReturnUnlocked, TypeOK, Goto, Places, Finish
  <2>4. /\ return_value' \in [Threads -> {Unknown, 0, 1}]
        /\ out' \in [Threads -> MESSAGE]
    BY DEF ReturnUnlocked, TypeOK, Reply, Unknown, Finish
  <2>5. QED
    BY <2>1, <2>2, <2>3, <2>4 DEF TypeOK
<1>2. CallShape'
  BY ThreadSets DEF ReturnUnlocked, TypeOK, CallShape, At, Goto, Finish, Threads, EditOps, QueryOps
<1>3. AccessMutex'
  BY DEF ReturnUnlocked, TypeOK, CallShape, AccessMutex, HoldsAccess, At, Goto, Finish, semaphores
<1>4. SystemMutex'
  BY DEF ReturnUnlocked, TypeOK, CallShape, AccessMutex, SystemMutex, HoldsAccess, HoldsSystem, At, Goto, Finish, semaphores
<1>5. RoomToAdvance'
  BY DEF ReturnUnlocked, TypeOK, CallShape, AccessMutex, RoomToAdvance, Publishers, HoldsAccess, Full, def, At, Goto, Finish, ring
<1>6. EventAccounting'
  <2>1. pc' = [pc EXCEPT ![t] = "idle"] /\ pc[t] = "done"
    BY DEF ReturnUnlocked, Goto, At, Finish
  <2>2. QED
    BY <2>1, QuietMove DEF ReturnUnlocked, Claimants, Publishers, ring, semaphores, Places
<1>7. QED
  BY <1>1, <1>2, <1>3, <1>4, <1>5, <1>6
(***************************************************************************)
(* The theorems.                                                           *)
(***************************************************************************)

(* A step of the queue, or a step of something else, keeps the invariant. *)
LEMMA NextIInv == IInv /\ [Next]_vars => IInv'
<1> SUFFICES ASSUME IInv, [Next]_vars PROVE IInv'
  OBVIOUS
<1>1. ASSUME NEW t \in Clients, NEW r \in Requests, Call(t, r) PROVE IInv'
  BY <1>1, CallStep, RequestTypes DEF Threads
<1>2. ASSUME NEW t \in Schedulers, Call(t, PopRequest) PROVE IInv'
  BY <1>2, CallStep, RequestTypes DEF Threads
<1>3. ASSUME NEW t \in Threads, Acquire(t) PROVE IInv'
  BY <1>3, LockSystemStep, WaitEventStep, LockAccessStep DEF Acquire
<1>4. ASSUME NEW t \in Threads, Run(t) PROVE IInv'
  BY <1>4, NoWindowStep, StoreMessageStep, AdvanceTailStep, PopMessageStep,
     EditMessagesStep, QueryMessagesStep, UnlockAccessStep, UnlockSystemStep,
     ReturnUnlockedStep
  DEF Run
<1>5. CASE UNCHANGED vars
  BY <1>5 DEF vars, IInv, TypeOK, CallShape, AccessMutex, SystemMutex, RoomToAdvance,
     EventAccounting, HoldsAccess, HoldsSystem, Publishers, Claimants, Full, def, get_nmessage
<1>6. QED
  BY <1>1, <1>2, <1>3, <1>4, <1>5 DEF Next

(* IInv is an invariant of the message queue. *)
THEOREM Invariance == Spec => []IInv
<1>1. Init => IInv
  BY InitIInv
<1>2. IInv /\ [Next]_vars => IInv'
  BY NextIInv
<1>3. QED
  BY <1>1, <1>2, PTL DEF Spec

(* The indices of the ring stay in the ring and its mutexes stay binary,   *)
(* for any number of threads and any capacity.                             *)
THEOREM TypeCorrect == Spec => []TypeOK
<1>1. IInv => TypeOK
  BY DEF IInv
<1>2. QED
  BY <1>1, Invariance, PTL

(* The wake-ups that push_message posts and pop_message consumes match the *)
(* messages in the ring at every moment.                                   *)
THEOREM EventsMatchMessages == Spec => []EventAccounting
<1>1. IInv => EventAccounting
  BY DEF IInv
<1>2. QED
  BY <1>1, Invariance, PTL

(* Two threads are never inside the ring together. *)
THEOREM RingMutualExclusion == Spec => []AccessMutex
<1>1. IInv => AccessMutex
  BY DEF IInv
<1>2. QED
  BY <1>1, Invariance, PTL

(* A popper that holds access excludes a publisher, and is one of the      *)
(* claimants, so the count says that there is a message.                   *)
LEMMA ClaimFindsMessage == IInv => PopNeverEmpty
<1> SUFFICES ASSUME IInv, NEW t \in Schedulers, pc[t] = "inside" PROVE head # tail
  BY DEF PopNeverEmpty
<1>1. Publishers = {}
  BY DEF IInv, AccessMutex, HoldsAccess, Publishers, Threads
<1>2. t \in Claimants
  BY DEF Claimants
<1>3. Cardinality(Publishers) = 0
  BY <1>1, FS_EmptySet
<1>4. Cardinality(Claimants) # 0
  BY <1>2, FS_EmptySet, FiniteCounts
<1>5. get_nmessage # 0
  BY <1>3, <1>4, FiniteCounts, CountBounds DEF IInv, EventAccounting, TypeOK
<1>6. QED
  BY <1>5 DEF get_nmessage

(* pop_message never takes its else branch. *)
THEOREM PopFindsMessage == Spec => []PopNeverEmpty
<1>1. IInv => PopNeverEmpty
  BY ClaimFindsMessage
<1>2. QED
  BY <1>1, Invariance, PTL

=============================================================================
