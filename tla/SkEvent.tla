------------------------------ MODULE SkEvent ------------------------------
(***************************************************************************)
(* Events (skyapi_event.c): a state under a pthread mutex and a condition  *)
(* variable.  sk_event_set signals, it does not broadcast.                 *)
(*                                                                         *)
(* The functions with a deadline are modelled by a wait that may time out  *)
(* at any moment, which includes SK_TIMEOUT_IMMEDIATE.  Once the event is  *)
(* freed, calls still inside stand still: what they do is undefined.       *)
(***************************************************************************)
EXTENDS Integers, FiniteSets

CONSTANTS
  Users,        (* Threads.                                                *)
  Calls,        (* The calls they make.                                    *)
  Destroyers,   (* Threads that destroy the event.                         *)
  Idle,         (* No call under way.                                      *)
  Nobody        (* The owner of the free mutex.                            *)

Request == [op : {"wait", "set", "reset"}, is_not_auto_reset : BOOLEAN, infinity : BOOLEAN]

ASSUME Sets ==
  /\ IsFiniteSet(Users) /\ Users \cap Destroyers = {}
  /\ Nobody \notin Users \cup Destroyers
  /\ Calls \subseteq Request /\ Idle \notin Request

VARIABLES
  state,
  mutex,        (* The thread that holds it, or Nobody.                    *)
  freed,        (* Has free been called?                                   *)
  pc, req,      (* Where each thread is, and its call.                     *)
  status        (* What the call returns.                                  *)

vars == <<state, mutex, freed, pc, req, status>>

Threads == Users \cup Destroyers

(***************************************************************************)
(*   idle       outside                                                    *)
(*   called     at pthread_mutex_lock                                      *)
(*   destroy    at the lock of sk_event_destroy                            *)
(*   inside     holding the mutex                                          *)
(*   wait       in pthread_cond_wait                                       *)
(*   woken      signalled, at the lock inside pthread_cond_wait            *)
(*   timedout   out of time, at the same lock                              *)
(*   late       holding the mutex, with ETIMEDOUT                          *)
(*   unlock     at pthread_mutex_unlock                                    *)
(*   cond       in sk_event_destroy, at pthread_cond_destroy               *)
(*   free       in sk_event_destroy, unlocked, at free                     *)
(***************************************************************************)
Places == {"idle", "called", "inside", "wait", "woken", "timedout", "late", "unlock",
           "destroy", "cond", "free"}

Goto(t, place) == pc' = [pc EXCEPT ![t] = place]

Ends(t, s) == status' = [status EXCEPT ![t] = s]

At(t, place, op) == pc[t] = place /\ req[t].op = op

(* sk_event_create, with either value of init_is_set *)
Init ==
  /\ state \in {0, 1}
  /\ mutex = Nobody /\ freed = FALSE
  /\ pc = [t \in Threads |-> "idle"]
  /\ req = [t \in Users |-> Idle]
  /\ status = [t \in Users |-> "unknown"]

-----------------------------------------------------------------------------
Call(t, r) ==
  /\ ~ freed
  /\ pc[t] = "idle"
  /\ Goto(t, "called")
  /\ req' = [req EXCEPT ![t] = r]
  /\ UNCHANGED <<state, mutex, freed, status>>

(* pthread_mutex_lock, in the functions and inside pthread_cond_wait *)
Lock(t) ==
  /\ pc[t] \in {"called", "woken", "timedout"}
  /\ mutex = Nobody
  /\ mutex' = t
  /\ Goto(t, IF pc[t] = "timedout" THEN "late" ELSE "inside")
  /\ UNCHANGED <<state, freed, req, status>>

Wait(t) ==
  /\ At(t, "inside", "wait")
  /\ state # 1
  /\ mutex' = Nobody
  /\ Goto(t, "wait")
  /\ UNCHANGED <<state, freed, req, status>>

WakeSpuriously(t) ==
  /\ pc[t] = "wait"
  /\ Goto(t, "woken")
  /\ UNCHANGED <<state, mutex, freed, req, status>>

TimeOut(t) ==
  /\ pc[t] = "wait"
  /\ ~ req[t].infinity
  /\ Goto(t, "timedout")
  /\ UNCHANGED <<state, mutex, freed, req, status>>

(* Variant: the flag means what its name in the source says. *)
GetInverted(t) ==
  /\ At(t, "inside", "wait")
  /\ state = 1
  /\ state' = IF req[t].is_not_auto_reset THEN 0 ELSE 1
  /\ Ends(t, "success")
  /\ Goto(t, "unlock")
  /\ UNCHANGED <<mutex, freed, req>>

(* Out of the `while (e->state != 1)`: the event is reset, unless the      *)
(* caller asked not to.                                                    *)
Get(t) ==
  /\ At(t, "inside", "wait")
  /\ state = 1
  /\ state' = IF req[t].is_not_auto_reset THEN 1 ELSE 0
  /\ Ends(t, "success")
  /\ Goto(t, "unlock")
  /\ UNCHANGED <<mutex, freed, req>>

GiveUp(t) ==
  /\ pc[t] = "late"
  /\ Ends(t, "timeout")
  /\ Goto(t, "unlock")
  /\ UNCHANGED <<state, mutex, freed, req>>

Sleepers == {u \in Users : pc[u] = "wait"}

(* pthread_cond_signal by t, which goes on to place. *)
Signal(t, place) ==
  IF Sleepers = {}
  THEN Goto(t, place)
  ELSE \E u \in Sleepers : pc' = [pc EXCEPT ![t] = place, ![u] = "woken"]

(* Variant: the state counts, like a semaphore. *)
SetCounts(t) ==
  /\ At(t, "inside", "set")
  /\ state' = state + 1
  /\ Signal(t, "unlock")
  /\ Ends(t, "success")
  /\ UNCHANGED <<mutex, freed, req>>

(* Variant: the state is set and nobody is told. *)
SetSilent(t) ==
  /\ At(t, "inside", "set")
  /\ state' = 1
  /\ Goto(t, "unlock")
  /\ Ends(t, "success")
  /\ UNCHANGED <<mutex, freed, req>>

Set(t) ==
  /\ At(t, "inside", "set")
  /\ state' = 1
  /\ Signal(t, "unlock")
  /\ Ends(t, "success")
  /\ UNCHANGED <<mutex, freed, req>>

Reset(t) ==
  /\ At(t, "inside", "reset")
  /\ state' = 0
  /\ Goto(t, "unlock")
  /\ Ends(t, "success")
  /\ UNCHANGED <<mutex, freed, req>>

Unlock(t) ==
  /\ pc[t] = "unlock"
  /\ mutex' = Nobody
  /\ Goto(t, "idle")
  /\ req' = [req EXCEPT ![t] = Idle]
  /\ Ends(t, "unknown")
  /\ UNCHANGED <<state, freed>>

-----------------------------------------------------------------------------
(* sk_event_destroy *)

CallDestroy(d) ==
  /\ ~ freed
  /\ pc[d] = "idle"
  /\ Goto(d, "destroy")
  /\ UNCHANGED <<state, mutex, freed, req, status>>

(* Lock, and a signal for one of those that wait. *)
LockDestroy(d) ==
  /\ pc[d] = "destroy"
  /\ mutex = Nobody
  /\ mutex' = d
  /\ Signal(d, "cond")
  /\ UNCHANGED <<state, freed, req, status>>

(* pthread_cond_destroy waits (in glibc) for those that still sleep, and   *)
(* nobody wakes them any more.  Then the mutex is unlocked.                *)
DestroyCond(d) ==
  /\ pc[d] = "cond"
  /\ Sleepers = {}
  /\ mutex' = Nobody
  /\ Goto(d, "free")
  /\ UNCHANGED <<state, freed, req, status>>

FreeEvent(d) ==
  /\ pc[d] = "free"
  /\ freed' = TRUE
  /\ Goto(d, "idle")
  /\ UNCHANGED <<state, mutex, req, status>>

-----------------------------------------------------------------------------
Step(t) ==
  /\ ~ freed
  /\ \/ Lock(t) \/ Wait(t) \/ Get(t) \/ GiveUp(t) \/ Set(t) \/ Reset(t) \/ Unlock(t)

Wakes(t) == ~ freed /\ (TimeOut(t) \/ WakeSpuriously(t))

Destroy(d) == ~ freed /\ (LockDestroy(d) \/ DestroyCond(d) \/ FreeEvent(d))

Next ==
  \/ \E t \in Users : Step(t) \/ Wakes(t) \/ \E r \in Calls : Call(t, r)
  \/ \E d \in Destroyers : CallDestroy(d) \/ Destroy(d)

Spec == Init /\ [][Next]_vars

(* Threads run. *)
Fairness ==
  /\ \A t \in Users : WF_vars(Step(t))
  /\ \A d \in Destroyers : WF_vars(Destroy(d))

FairSpec == Spec /\ Fairness

-----------------------------------------------------------------------------
(* Properties. *)

(* Every variable has its type. *)
TypeOK ==
  /\ state \in {0, 1}
  /\ mutex \in Threads \cup {Nobody}
  /\ freed \in BOOLEAN
  /\ pc \in [Threads -> Places]
  /\ req \in [Users -> Calls \cup {Idle}]
  /\ status \in [Users -> {"unknown", "success", "timeout"}]

(* If every waiter resets the event, one signal per set is enough: while   *)
(* the event is set and somebody sleeps, somebody else is awake in         *)
(* sk_event_wait to take it, though set, reset and expired waits cross.    *)
NoForgottenWaiter ==
  state = 1 /\ Sleepers # {} =>
    \E t \in Users : pc[t] = "woken" \/ At(t, "inside", "wait")

Event == INSTANCE SyncEvent WITH call <- req

(* Every call takes effect in one step: of several waiters that are woken  *)
(* for one set, those that reset it share it with nobody.                  *)
ImplementsEvent == Event!Spec

(* Several threads may wait for an event at once (sk_os.h): if they ask    *)
(* for it not to be reset and it stays set, none of them goes on sleeping. *)
AllWaitersReleased ==
  \A t \in Users : [](pc[t] = "wait" /\ [](state = 1) => <>(pc[t] # "wait"))

=============================================================================
