------------------------------ MODULE SkQueue ------------------------------
(***************************************************************************)
(* The OS message queue (skyapi_que.c): a ring under a pthread mutex with  *)
(* two condition variables, calls with timeouts, and a destroy that turns  *)
(* the blocked callers out.                                                *)
(*                                                                         *)
(* What a reader may take for granted and the code does not do:            *)
(*   - a caller that was blocked does not look again whether there is room *)
(*     or a message when it wakes up (an `if`, not a `while`);             *)
(*   - magicnum and refcnt are read by sk_queue_destroy_ex without the     *)
(*     mutex, and magicnum by the callers before they lock;                *)
(*   - refcnt is given back before the mutex is unlocked.                  *)
(* pthread_cond_wait returns only when signalled or timed out.             *)
(*                                                                         *)
(* Messages have the size the queue was created for.  Once the memory is   *)
(* freed, calls still inside stand still: what they do is undefined.       *)
(***************************************************************************)
EXTENDS Integers, Sequences, FiniteSets

CONSTANTS
  Users,           (* Threads that send and receive.                       *)
  Usages,          (* The ways to use the queue: who makes which calls.    *)
  Destroyers,      (* Threads that destroy the queue.                      *)
  Msgs,            (* Messages.                                            *)
  max_msg_count,
  Idle,            (* No call under way.                                   *)
  Blank,           (* What the zeroed buffer holds.                        *)
  Nobody           (* The owner of the free mutex.                         *)

Request == [op : {"send"}, msg : Msgs, timeout : {"immediate", "delay", "infinity"}]
           \cup [op : {"receive"}, msg : {Blank}, timeout : {"immediate", "delay", "infinity"}]

ASSUME Sets ==
  /\ IsFiniteSet(Users) /\ Users \cap Destroyers = {}
  /\ Nobody \notin Users \cup Destroyers
  /\ Blank \notin Msgs /\ Idle \notin Request

ASSUME CallsOfUsers == Usages \subseteq [Users -> SUBSET Request]

ASSUME Capacity == max_msg_count \in Nat

VARIABLES
  msgbuffer, read, write,  (* The ring.                                    *)
  magicnum,                (* Does it hold MQ_MAGICNUM?                    *)
  refcnt,
  mutex,                   (* The thread that holds it, or Nobody.         *)
  freed,                   (* Has sk_mem_free been called?                 *)
  usage,                   (* The calls each user makes: never changes.    *)
  pc, req,                 (* Where each thread is, and its call.          *)
  status, got              (* What the call returns, and hands over.       *)

ring == <<msgbuffer, read, write>>
life == <<magicnum, freed, usage>>
results == <<status, got>>
vars == <<msgbuffer, read, write, magicnum, refcnt, mutex, freed, usage, pc, req, status, got>>

Threads == Users \cup Destroyers

(* One slot more than messages, to tell a full ring from an empty one. *)
mq_maxmsg == max_msg_count + 1

Slots == 0 .. mq_maxmsg - 1

(***************************************************************************)
(*   idle      outside the queue                                           *)
(*   called    at the test of magicnum                                     *)
(*   checked   at pthread_mutex_lock                                       *)
(*   inside    holding the mutex, refcnt taken                             *)
(*   wait      in pthread_cond_wait, on the condition of its operation     *)
(*   woken     signalled, at the lock inside pthread_cond_wait             *)
(*   timedout  out of time, at the same lock                               *)
(*   resumed   past pthread_cond_wait, holding the mutex                   *)
(*   late      the same, with ETIMEDOUT                                    *)
(*   commit    past the test, at the memcpy                                *)
(*   unlock    at pthread_mutex_unlock, refcnt given back                  *)
(*   refused   returning SK_ERROR_BAD_PARAMETER                            *)
(*   mark, drain, free   in sk_queue_destroy_ex                            *)
(***************************************************************************)
Places == {"idle", "called", "checked", "inside", "wait", "woken", "timedout", "resumed",
           "late", "commit", "unlock", "refused", "mark", "drain", "free"}

Goto(t, place) == pc' = [pc EXCEPT ![t] = place]

Ends(t, s) == status' = [status EXCEPT ![t] = s]

(* Variant: the wrap is one place late. *)
WrapLate(k) == IF k > mq_maxmsg THEN 0 ELSE k

Wrap(k) == IF k = mq_maxmsg THEN 0 ELSE k

IsFull == (read + mq_maxmsg - write) % mq_maxmsg = 1

IsEmpty == read = write

Init ==
  /\ msgbuffer = [k \in Slots |-> Blank] /\ read = 0 /\ write = 0
  /\ magicnum = TRUE /\ refcnt = 0 /\ mutex = Nobody /\ freed = FALSE
  /\ usage \in Usages
  /\ pc = [t \in Threads |-> "idle"]
  /\ req = [t \in Users |-> Idle]
  /\ status = [t \in Users |-> "unknown"]
  /\ got = [t \in Users |-> Blank]

-----------------------------------------------------------------------------
(* sk_queue_send_ex and sk_queue_receive_ex *)

Call(t, r) ==
  /\ ~ freed
  /\ pc[t] = "idle"
  /\ Goto(t, "called")
  /\ req' = [req EXCEPT ![t] = r]
  /\ UNCHANGED <<ring, life, refcnt, mutex, results>>

CheckQueue(t) ==
  /\ pc[t] = "called"
  /\ IF magicnum
     THEN Goto(t, "checked") /\ UNCHANGED status
     ELSE Goto(t, "refused") /\ Ends(t, "bad_parameter")
  /\ UNCHANGED <<ring, life, refcnt, mutex, req, got>>

(* Variant: the ring is entered without the mutex. *)
EnterUnlocked(t) ==
  /\ pc[t] = "checked"
  /\ mutex' = t
  /\ refcnt' = refcnt + 1
  /\ Goto(t, "inside")
  /\ UNCHANGED <<ring, life, req, results>>

(* pthread_mutex_lock and refcnt++ *)
Enter(t) ==
  /\ pc[t] = "checked"
  /\ mutex = Nobody
  /\ mutex' = t
  /\ refcnt' = refcnt + 1
  /\ Goto(t, "inside")
  /\ UNCHANGED <<ring, life, req, results>>

(* The test of the one `if` in each function. *)
Blocked(t) == IF req[t].op = "send" THEN IsFull ELSE IsEmpty

(* pthread_cond_wait and pthread_cond_timedwait, up to the unlock in them *)
Wait(t) ==
  /\ pc[t] = "inside"
  /\ Blocked(t)
  /\ req[t].timeout # "immediate"
  /\ mutex' = Nobody
  /\ Goto(t, "wait")
  /\ UNCHANGED <<ring, life, refcnt, req, results>>

TimeOut(t) ==
  /\ ~ freed
  /\ pc[t] = "wait"
  /\ req[t].timeout = "delay"
  /\ Goto(t, "timedout")
  /\ UNCHANGED <<ring, life, refcnt, mutex, req, results>>

Relock(t) ==
  /\ pc[t] \in {"woken", "timedout"}
  /\ mutex = Nobody
  /\ mutex' = t
  /\ Goto(t, IF pc[t] = "woken" THEN "resumed" ELSE "late")
  /\ UNCHANGED <<ring, life, refcnt, req, results>>

(* Variant: the reference is given back on the way out of success only. *)
FailKeepsReference(t) ==
  /\ \/ pc[t] = "inside" /\ Blocked(t) /\ req[t].timeout = "immediate"
     \/ pc[t] = "late"
     \/ pc[t] = "resumed" /\ ~ magicnum
  /\ Ends(t, "timeout")
  /\ Goto(t, "unlock")
  /\ UNCHANGED <<ring, life, refcnt, mutex, req, got>>

(* SK_ERROR_TIMEOUT: an immediate call that is blocked, ETIMEDOUT, or a    *)
(* queue that was destroyed meanwhile                                      *)
Fail(t) ==
  /\ \/ pc[t] = "inside" /\ Blocked(t) /\ req[t].timeout = "immediate"
     \/ pc[t] = "late"
     \/ pc[t] = "resumed" /\ ~ magicnum
  /\ refcnt' = refcnt - 1
  /\ Ends(t, "timeout")
  /\ Goto(t, "unlock")
  /\ UNCHANGED <<ring, life, mutex, req, got>>

(* Who sleeps on read_cond (receivers) or write_cond (senders). *)
Sleepers(op) == {u \in Users : pc[u] = "wait" /\ req[u].op = op}

(* pthread_cond_signal by t, which goes on to its unlock: it wakes one of  *)
(* the sleepers, if there is one.                                          *)
Signal(t, op) ==
  IF Sleepers(op) = {}
  THEN Goto(t, "unlock")
  ELSE \E u \in Sleepers(op) : pc' = [pc EXCEPT ![t] = "unlock", ![u] = "woken"]

(* Past the one `if`: a caller that slept takes room, or a message, for    *)
(* granted.                                                                *)
Admit(t) ==
  /\ \/ pc[t] = "inside" /\ ~ Blocked(t)
     \/ pc[t] = "resumed" /\ magicnum
  /\ Goto(t, "commit")
  /\ UNCHANGED <<ring, life, refcnt, mutex, req, results>>

Commits(t, op) ==
  /\ pc[t] = "commit"
  /\ req[t].op = op
  /\ refcnt' = refcnt - 1
  /\ Ends(t, "success")

(* Variant: the test before the signal is turned round. *)
StoreMsgNoSignal(t) ==
  /\ Commits(t, "send")
  /\ msgbuffer' = [msgbuffer EXCEPT ![write] = req[t].msg]
  /\ write' = Wrap(write + 1)
  /\ IF read = write' THEN Signal(t, "receive") ELSE Goto(t, "unlock")
  /\ UNCHANGED <<read, life, mutex, req, got>>

(* sk_queue_send_ex: memcpy, write++, and a signal unless write met read *)
StoreMsg(t) ==
  /\ Commits(t, "send")
  /\ msgbuffer' = [msgbuffer EXCEPT ![write] = req[t].msg]
  /\ write' = Wrap(write + 1)
  /\ IF read # write' THEN Signal(t, "receive") ELSE Goto(t, "unlock")
  /\ UNCHANGED <<read, life, mutex, req, got>>

(* sk_queue_receive_ex: memcpy, read++, and a signal unless still full *)
FetchMsg(t) ==
  /\ Commits(t, "receive")
  /\ got' = [got EXCEPT ![t] = msgbuffer[read]]
  /\ read' = Wrap(read + 1)
  /\ IF (read' + mq_maxmsg - write) % mq_maxmsg = 1 THEN Goto(t, "unlock") ELSE Signal(t, "send")
  /\ UNCHANGED <<msgbuffer, write, life, mutex, req>>

(* pthread_mutex_unlock, unless it was never locked, and the end of the    *)
(* call                                                                    *)
Return(t) ==
  /\ pc[t] \in {"unlock", "refused"}
  /\ mutex' = IF pc[t] = "unlock" THEN Nobody ELSE mutex
  /\ Goto(t, "idle")
  /\ req' = [req EXCEPT ![t] = Idle]
  /\ Ends(t, "unknown")
  /\ got' = [got EXCEPT ![t] = Blank]
  /\ UNCHANGED <<ring, life, refcnt>>

-----------------------------------------------------------------------------
(* sk_queue_destroy_ex *)

CallDestroy(d) ==
  /\ ~ freed
  /\ pc[d] = "idle"
  /\ magicnum
  /\ Goto(d, "mark")
  /\ UNCHANGED <<ring, life, refcnt, mutex, req, results>>

MarkDestroyed(d) ==
  /\ pc[d] = "mark"
  /\ magicnum' = FALSE
  /\ Goto(d, "drain")
  /\ UNCHANGED <<ring, refcnt, mutex, freed, usage, req, results>>

(* Variant: only the senders are turned out. *)
DrainSendersOnly(d) ==
  /\ pc[d] = "drain"
  /\ pc' = IF refcnt = 0 THEN [pc EXCEPT ![d] = "free"]
           ELSE [t \in Threads |-> IF t \in Sleepers("send") THEN "woken" ELSE pc[t]]
  /\ UNCHANGED <<ring, life, refcnt, mutex, req, results>>

(* One round of while (mq->refcnt != 0): everybody is woken, or it ends. *)
Drain(d) ==
  /\ pc[d] = "drain"
  /\ pc' = IF refcnt = 0 THEN [pc EXCEPT ![d] = "free"]
           ELSE [t \in Threads |-> IF pc[t] = "wait" THEN "woken" ELSE pc[t]]
  /\ UNCHANGED <<ring, life, refcnt, mutex, req, results>>

FreeQueue(d) ==
  /\ pc[d] = "free"
  /\ freed' = TRUE
  /\ Goto(d, "idle")
  /\ UNCHANGED <<ring, magicnum, usage, refcnt, mutex, req, results>>

-----------------------------------------------------------------------------
Step(t) ==
  /\ ~ freed
  /\ \/ CheckQueue(t) \/ Enter(t) \/ Wait(t) \/ Relock(t)
     \/ Fail(t) \/ Admit(t) \/ StoreMsg(t) \/ FetchMsg(t) \/ Return(t)

Destroy(d) == ~ freed /\ (MarkDestroyed(d) \/ Drain(d) \/ FreeQueue(d))

Next ==
  \/ \E t \in Users : Step(t) \/ TimeOut(t) \/ \E r \in usage[t] : Call(t, r)
  \/ \E d \in Destroyers : Destroy(d) \/ CallDestroy(d)

Spec == Init /\ [][Next]_vars

(* Threads run.  Nothing more is needed: once the queue is marked, the     *)
(* mutex is taken only finitely often.                                     *)
Fairness ==
  /\ \A t \in Users : WF_vars(Step(t))
  /\ \A d \in Destroyers : WF_vars(Destroy(d))

FairSpec == Spec /\ Fairness

-----------------------------------------------------------------------------
(* Properties. *)

(* Every variable has its type. *)
TypeOK ==
  /\ msgbuffer \in [Slots -> Msgs \cup {Blank}] /\ read \in Slots /\ write \in Slots
  /\ magicnum \in BOOLEAN /\ freed \in BOOLEAN /\ usage \in Usages
  /\ refcnt \in 0 .. Cardinality(Users)
  /\ mutex \in Users \cup {Nobody}
  /\ pc \in [Threads -> Places]
  /\ req \in [Users -> Request \cup {Idle}]
  /\ status \in [Users -> {"unknown", "success", "timeout", "bad_parameter"}]
  /\ got \in [Users -> Msgs \cup {Blank}]

(* refcnt, by which sk_queue_destroy_ex decides when to free, counts the   *)
(* calls that have taken it and not given it back, blocked ones included,  *)
(* whichever way they leave.                                               *)
RefcntExact ==
  refcnt = Cardinality({t \in Users :
             pc[t] \in {"inside", "wait", "woken", "timedout", "resumed", "late", "commit"}})

(* No sleeper is forgotten: a receiver sleeps only at an empty ring and a  *)
(* sender only at a full one, although each operation sends one signal at  *)
(* most.                                                                   *)
NoForgottenSleeper ==
  /\ Sleepers("receive") # {} => IsEmpty
  /\ Sleepers("send") # {} => IsFull

Items == [k \in 1 .. (write + mq_maxmsg - read) % mq_maxmsg |->
            msgbuffer[(read + k - 1) % mq_maxmsg]]

Queue == INSTANCE BoundedQueue WITH items <- Items, call <- req, open <- magicnum

(* Whoever may wait on a side of the queue is the only caller on that side. *)
WaitersAlone ==
  \A w \in Usages : \A s, t \in Users : \A r \in w[s], q \in w[t] :
    s # t /\ r.op = q.op => r.timeout = "immediate"

(* The ring implements the bounded queue, if waiters are alone on their    *)
(* side, as in every usage of the small instance.                          *)
ImplementsQueue == Queue!Spec

(* A ring that a message was put in is not empty: the spare slot keeps     *)
(* "full" apart from "empty" (comment in sk_queue_create_ex).              *)
StoredIsSeen == [][write' # write => read' # write']_vars

(* sk_queue_destroy_ex ends: its broadcasts get every blocked caller out   *)
(* of the queue and every reference back.                                  *)
DestroyEnds == \A d \in Destroyers : pc[d] = "drain" ~> pc[d] = "idle"

=============================================================================
