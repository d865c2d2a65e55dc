------------------------------- MODULE SmMsg -------------------------------
(***************************************************************************)
(* The SmallWin message queue (smmsg.c) with the two semaphores of         *)
(* smscheduler.c it is used with, at the granularity of its lock           *)
(* operations: between two steps of a thread, any other thread may move.   *)
(*                                                                         *)
(*   - access (1) protects the ring;                                       *)
(*   - sem_event (0) counts the messages a popper may still claim;         *)
(*   - sem_system (1) is held around every push.                           *)
(*                                                                         *)
(* push_message posts sem_event after it filled the slot and before it     *)
(* moves the tail, so a popper can be awake before its message is in the   *)
(* ring: only access makes it wait.  That order is kept as two steps.      *)
(***************************************************************************)
EXTENDS Integers, Sequences, FiniteSets, Messages

CONSTANTS
  Clients,      (* Threads that call everything but pop_message.           *)
  Schedulers,   (* Threads that call pop_message.                          *)
  Requests,     (* The calls the clients make.                             *)
  nqueue,       (* The argument of init_msgq.                              *)
  Garbage,      (* What the slots that malloc returns may hold.            *)
  Idle          (* No call under way.                                      *)

ASSUME ThreadSets ==
  /\ IsFiniteSet(Clients) /\ IsFiniteSet(Schedulers)
  /\ Clients \cap Schedulers = {}

ASSUME Capacity == nqueue \in Nat \ {0}

ASSUME RequestSet ==
  /\ Requests \subseteq {r \in Request : r.op # "pop_message"}
  /\ Idle \notin Request

ASSUME GarbageSet == Garbage \subseteq MESSAGE

VARIABLES
  queue,         (* message_queue.queue, the slots.                        *)
  head, tail,    (* message_queue.head and .tail.                          *)
  access,        (* The value of the semaphore message_queue.access.       *)
  sem_event,
  sem_system,
  pc,            (* Where each thread is, see Places.                      *)
  req,           (* The call it has under way, or Idle.                    *)
  return_value,  (* The local variable return_value, Unknown before.       *)
  out            (* What pop_message copied to its caller.                 *)

ring == <<queue, head, tail>>
semaphores == <<access, sem_event, sem_system>>
vars == <<queue, head, tail, access, sem_event, sem_system, pc, req, return_value, out>>

Threads == Clients \cup Schedulers

queue_size == nqueue + 1

Slots == 0 .. queue_size - 1

Unknown == -1

(***************************************************************************)
(*   idle           outside the queue                                      *)
(*   called         at the first statement of the function                 *)
(*   push           in send_message, holding sem_system                    *)
(*   woken          in pop_message, past wait_event                        *)
(*   inside         holding access                                         *)
(*   advance        in push_message, slot filled and event posted          *)
(*   leave          at sk_sem_unlock(access)                               *)
(*   unlock_system  in send_message, after push_message                    *)
(*   done           in is_message, returning without having locked         *)
(***************************************************************************)
Places == {"idle", "called", "push", "woken", "inside", "advance", "leave",
           "unlock_system", "done"}

Goto(t, place) == pc' = [pc EXCEPT ![t] = place]

At(t, place, ops) == pc[t] = place /\ req[t].op \in ops

Reply(t, value) == return_value' = [return_value EXCEPT ![t] = value]

(* Variant: the wrap is one place late. *)
WrapLate(i) == IF i > queue_size THEN 0 ELSE i

Wrap(i) == IF i = queue_size THEN 0 ELSE i

def == head - tail

(* Variant: the wrapped form of a full ring is forgotten. *)
FullUnwrapped == def = 1

Full == def = 1 \/ def = -(queue_size - 1)

get_nmessage ==
  IF head = tail THEN 0
  ELSE IF head < tail THEN tail - head
  ELSE (queue_size - head) + tail

(* The slots a scan from head to tail visits. *)
PendingSlots == {i \in Slots : IF head <= tail THEN head <= i /\ i < tail
                               ELSE i >= head \/ i < tail}

Init ==
  /\ queue \in [Slots -> Garbage]
  /\ head = 0 /\ tail = 0
  /\ access = 1 /\ sem_event = 0 /\ sem_system = 1
  /\ pc = [t \in Threads |-> "idle"]
  /\ req = [t \in Threads |-> Idle]
  /\ return_value = [t \in Threads |-> Unknown]
  /\ out = [t \in Threads |-> Erased]

Call(t, r) ==
  /\ pc[t] = "idle"
  /\ Goto(t, "called")
  /\ req' = [req EXCEPT ![t] = r]
  /\ UNCHANGED <<ring, semaphores, return_value, out>>

(* send_message: lock_system() *)
LockSystem(t) ==
  /\ At(t, "called", {"send_message"})
  /\ sem_system > 0
  /\ sem_system' = sem_system - 1
  /\ Goto(t, "push")
  /\ UNCHANGED <<ring, access, sem_event, req, return_value, out>>

(* pop_message: wait_event() *)
WaitEvent(t) ==
  /\ At(t, "called", {"pop_message"})
  /\ sem_event > 0
  /\ sem_event' = sem_event - 1
  /\ Goto(t, "woken")
  /\ UNCHANGED <<ring, access, sem_system, req, return_value, out>>

(* Variant: the early return of push_message leaves send_message as well.  *)
NoWindowKeepsSystem(t) ==
  /\ \/ At(t, "push", {"send_message"})
     \/ At(t, "called", {"is_message"})
  /\ req[t].m.hsm = SK_INVALID_HSM
  /\ Goto(t, "done")
  /\ Reply(t, 0)
  /\ UNCHANGED <<ring, semaphores, req, out>>

(* push_message and is_message leave a call for no window before the lock. *)
NoWindow(t) ==
  /\ \/ At(t, "push", {"send_message"}) /\ Goto(t, "unlock_system")
     \/ At(t, "called", {"is_message"}) /\ Goto(t, "done")
  /\ req[t].m.hsm = SK_INVALID_HSM
  /\ Reply(t, 0)
  /\ UNCHANGED <<ring, semaphores, req, out>>

(* Variant: pop_message takes access for granted once it is awake. *)
LockAccessPopBarges(t) ==
  /\ \/ /\ \/ At(t, "push", {"send_message"}) /\ req[t].m.hsm # SK_INVALID_HSM
           \/ At(t, "called", EditOps \cup {"is_message_param"})
        /\ access > 0
     \/ At(t, "woken", {"pop_message"})
  /\ access' = access - 1
  /\ Goto(t, "inside")
  /\ UNCHANGED <<ring, sem_event, sem_system, req, return_value, out>>

LockAccess(t) ==
  /\ \/ At(t, "push", {"send_message"}) /\ req[t].m.hsm # SK_INVALID_HSM
     \/ At(t, "called", {"is_message"}) /\ req[t].m.hsm # SK_INVALID_HSM
     \/ At(t, "called", EditOps \cup {"is_message_param"})
     \/ At(t, "woken", {"pop_message"})
  /\ access > 0
  /\ access' = access - 1
  /\ Goto(t, "inside")
  /\ UNCHANGED <<ring, sem_event, sem_system, req, return_value, out>>

(* Variant: the event is posted before the ring is known to have room. *)
StoreMessageSignalFirst(t) ==
  /\ At(t, "inside", {"send_message"})
  /\ sem_event' = sem_event + 1
  /\ IF Full
     THEN Reply(t, 0) /\ Goto(t, "leave") /\ UNCHANGED queue
     ELSE /\ queue' = [queue EXCEPT ![tail] = req[t].m]
          /\ Goto(t, "advance")
          /\ UNCHANGED return_value
  /\ UNCHANGED <<head, tail, access, sem_system, req, out>>

(* Variant: the event is posted only when the ring was empty. *)
StoreMessageSignalOnEmpty(t) ==
  /\ At(t, "inside", {"send_message"})
  /\ IF Full
     THEN Reply(t, 0) /\ Goto(t, "leave") /\ UNCHANGED <<queue, sem_event>>
     ELSE /\ queue' = [queue EXCEPT ![tail] = req[t].m]
          /\ sem_event' = IF head = tail THEN sem_event + 1 ELSE sem_event
          /\ Goto(t, "advance")
          /\ UNCHANGED return_value
  /\ UNCHANGED <<head, tail, access, sem_system, req, out>>

(* push_message up to signal_event(), or its refusal *)
StoreMessage(t) ==
  /\ At(t, "inside", {"send_message"})
  /\ IF Full
     THEN /\ Reply(t, 0)
          /\ Goto(t, "leave")
          /\ UNCHANGED <<queue, sem_event>>
     ELSE /\ queue' = [queue EXCEPT ![tail] = req[t].m]
          /\ sem_event' = sem_event + 1
          /\ Goto(t, "advance")
          /\ UNCHANGED return_value
  /\ UNCHANGED <<head, tail, access, sem_system, req, out>>

(* push_message: tail++ *)
AdvanceTail(t) ==
  /\ pc[t] = "advance"
  /\ tail' = Wrap(tail + 1)
  /\ Reply(t, 1)
  /\ Goto(t, "leave")
  /\ UNCHANGED <<queue, head, semaphores, req, out>>

(* pop_message under access *)
PopMessage(t) ==
  /\ At(t, "inside", {"pop_message"})
  /\ IF head # tail
     THEN /\ out' = [out EXCEPT ![t] = queue[head]]
          /\ head' = Wrap(head + 1)
          /\ Reply(t, 1)
          /\ UNCHANGED sem_event
     ELSE /\ Reply(t, 0)
          /\ sem_event' = sem_event + 1
          /\ UNCHANGED <<head, out>>
  /\ Goto(t, "leave")
  /\ UNCHANGED <<queue, tail, access, sem_system, req>>

(* The loops of invalidate_message, erase_message and erase_message_type,  *)
(* which visit every slot, the pending and the free ones.                  *)
EditMessages(t) ==
  /\ At(t, "inside", EditOps)
  /\ queue' = Edited(queue, req[t])
  /\ Reply(t, 1)
  /\ Goto(t, "leave")
  /\ UNCHANGED <<head, tail, semaphores, req, out>>

(* Variant: the scan covers the free slots too. *)
QueryMessagesAllSlots(t) ==
  /\ At(t, "inside", QueryOps)
  /\ Reply(t, IF Found(queue, Slots, req[t]) THEN 1 ELSE 0)
  /\ Goto(t, "leave")
  /\ UNCHANGED <<ring, semaphores, req, out>>

(* The scans of is_message and is_message_param. *)
QueryMessages(t) ==
  /\ At(t, "inside", QueryOps)
  /\ Reply(t, IF Found(queue, PendingSlots, req[t]) THEN 1 ELSE 0)
  /\ Goto(t, "leave")
  /\ UNCHANGED <<ring, semaphores, req, out>>

(* The call is over, and with it the thread's local variables. *)
Finish(t) ==
  /\ Goto(t, "idle")
  /\ req' = [req EXCEPT ![t] = Idle]
  /\ Reply(t, Unknown)
  /\ out' = [out EXCEPT ![t] = Erased]

UnlockAccess(t) ==
  /\ pc[t] = "leave"
  /\ access' = access + 1
  /\ IF req[t].op = "send_message"
     THEN /\ Goto(t, "unlock_system")
          /\ UNCHANGED <<req, return_value, out>>
     ELSE Finish(t)
  /\ UNCHANGED <<ring, sem_event, sem_system>>

(* send_message: unlock_system(), and the pause of sk_task_delay(1) *)
UnlockSystem(t) ==
  /\ pc[t] = "unlock_system"
  /\ sem_system' = sem_system + 1
  /\ Finish(t)
  /\ UNCHANGED <<ring, access, sem_event>>

ReturnUnlocked(t) ==
  /\ pc[t] = "done"
  /\ Finish(t)
  /\ UNCHANGED <<ring, semaphores>>

(* The three waits for a semaphore. *)
Acquire(t) == LockSystem(t) \/ WaitEvent(t) \/ LockAccess(t)

(* A thread inside a call, other than where it waits for a semaphore. *)
Run(t) ==
  \/ NoWindow(t)
  \/ StoreMessage(t)
  \/ AdvanceTail(t)
  \/ PopMessage(t)
  \/ EditMessages(t)
  \/ QueryMessages(t)
  \/ UnlockAccess(t)
  \/ UnlockSystem(t)
  \/ ReturnUnlocked(t)

Next ==
  \/ \E t \in Clients, r \in Requests : Call(t, r)
  \/ \E t \in Schedulers : Call(t, PopRequest)
  \/ \E t \in Threads : Acquire(t) \/ Run(t)

Spec == Init /\ [][Next]_vars

(***************************************************************************)
(* Fairness.  A running thread is scheduled.  A scheduler calls            *)
(* pop_message again and again (the while(1) of smallwin_scheduler), a     *)
(* client need not call.  Nobody is overtaken for ever at a semaphore:     *)
(* threads pause after a call (sk_task_delay in send_message, in           *)
(* smallwin_scheduler and in sm_ticker), which lets the others in.         *)
(***************************************************************************)
Fairness ==
  /\ \A t \in Schedulers : WF_vars(Call(t, PopRequest))
  /\ \A t \in Threads :
       /\ WF_vars(Run(t))
       /\ SF_vars(Acquire(t))

FairSpec == Spec /\ Fairness

-----------------------------------------------------------------------------
(* Properties. *)

(* Every variable has its type: in particular the indices stay in the ring *)
(* and the two mutexes stay binary.                                        *)
TypeOK ==
  /\ queue \in [Slots -> MESSAGE]
  /\ head \in Slots /\ tail \in Slots
  /\ access \in {0, 1} /\ sem_system \in {0, 1}
  /\ sem_event \in Nat
  /\ pc \in [Threads -> Places]
  /\ req \in [Threads -> Requests \cup {PopRequest, Idle}]
  /\ return_value \in [Threads -> {Unknown, 0, 1}]
  /\ out \in [Threads -> MESSAGE]

(* Threads that passed sem_event and have not used up that permission. *)
Claimants == {t \in Schedulers : pc[t] = "woken" \/ pc[t] = "inside"}

(* Threads that posted sem_event for a message the tail does not cover. *)
Publishers == {t \in Threads : pc[t] = "advance"}

(* The event count is exact: permissions to pop, available (sem_event) or  *)
(* taken (Claimants), are as many as the messages in the ring and the one  *)
(* whose tail++ is still to come.  Neither the early signal_event of       *)
(* push_message, nor the erasures, which blank messages without touching   *)
(* sem_event, may lose or invent a wake-up.                                *)
EventAccounting ==
  sem_event + Cardinality(Claimants) = get_nmessage + Cardinality(Publishers)

(* The else branch of pop_message is dead: whoever holds access in         *)
(* pop_message finds a message, so no scheduler spins on a signal without  *)
(* a message.                                                              *)
PopNeverEmpty ==
  \A t \in Schedulers : pc[t] = "inside" => head # tail

(* One thread at a time is between sk_sem_lock(access) and its unlock, and *)
(* access tells whether there is one.                                      *)
HoldsAccess(t) == pc[t] \in {"inside", "advance", "leave"}

AccessMutex ==
  /\ access > 0 => \A t \in Threads : ~ HoldsAccess(t)
  /\ \A t, u \in Threads : HoldsAccess(t) /\ HoldsAccess(u) => t = u

(* The same for lock_system and unlock_system. *)
HoldsSystem(t) ==
  \/ pc[t] \in {"push", "unlock_system"}
  \/ HoldsAccess(t) /\ req[t].op = "send_message"

SystemMutex ==
  /\ sem_system > 0 => \A t \in Threads : ~ HoldsSystem(t)
  /\ \A t, u \in Threads : HoldsSystem(t) /\ HoldsSystem(u) => t = u

(* Which call a thread at a place has under way. *)
CallShape ==
  \A t \in Threads :
    /\ pc[t] = "idle" <=> req[t] = Idle
    /\ t \in Clients => req[t] \in Requests \cup {Idle}
    /\ t \in Schedulers => req[t] \in {PopRequest, Idle}
    /\ pc[t] \in {"push", "advance", "unlock_system"} => req[t].op = "send_message"
    /\ pc[t] = "woken" => req[t].op = "pop_message"

(* The slot a publisher filled is one the ring had room for. *)
RoomToAdvance == \A t \in Publishers : ~ Full

(* The inductive invariant behind TypeOK, EventAccounting, PopNeverEmpty.  *)
IInv ==
  /\ TypeOK
  /\ CallShape
  /\ AccessMutex
  /\ SystemMutex
  /\ RoomToAdvance
  /\ EventAccounting

(* The messages in the ring, oldest first. *)
Pending == [k \in 1 .. get_nmessage |-> queue[(head + k - 1) % queue_size]]

Fifo == INSTANCE MessageFifo WITH fifo <- Pending, call <- req

(* The ring implements the bounded FIFO: every call takes effect in one    *)
(* step, nothing is lost, duplicated or reordered, a slot is not reused    *)
(* before its message was taken, and garbage is never handed out.          *)
ImplementsFifo == Fifo!Spec

(* Every message in the ring is taken: a pending slot is reached by head   *)
(* and freed, however the clients go on sending and erasing.               *)
EveryMessageTaken ==
  \A i \in Slots : i \in PendingSlots ~> i \notin PendingSlots

(* Every call other than a pop ends: the two semaphores taken in the order *)
(* sem_system, access never block each other.                              *)
EveryCallReturns ==
  \A t \in Clients : pc[t] = "called" ~> pc[t] = "idle"

=============================================================================
