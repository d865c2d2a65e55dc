---------------------------- MODULE SkEventProof ----------------------------
(***************************************************************************)
(* Proofs about SkEvent, for any threads and calls: it implements the      *)
(* atomic event of SyncEvent, and if all waiters reset the event, one      *)
(* signal per set forgets none of them.                                    *)
(***************************************************************************)
EXTENDS SkEvent, TLAPS

(* Where users with a call of each kind may be. *)
Waiting(t) == pc[t] \in {"wait", "woken", "timedout", "late"}

Shape ==
  /\ \A t \in Users :
       /\ pc[t] \in {"idle", "called", "inside", "wait", "woken", "timedout", "late", "unlock"}
       /\ pc[t] = "idle" <=> req[t] = Idle
       /\ Waiting(t) => req[t].op = "wait"
       /\ pc[t] \in {"timedout", "late"} => ~ req[t].infinity
       /\ pc[t] = "unlock" <=> status[t] # "unknown"
  /\ \A d \in Destroyers : pc[d] \in {"idle", "destroy", "cond", "free"}

IInv == TypeOK /\ Shape

LEMMA Kinds ==
  /\ \A t \in Users : t \in Threads /\ t \notin Destroyers
  /\ \A d \in Destroyers : d \in Threads /\ d \notin Users
  BY Sets DEF Threads

LEMMA InitInv == Init => IInv
<1> SUFFICES ASSUME Init PROVE IInv
  OBVIOUS
<1>1. TypeOK
  BY DEF Init, TypeOK, Places
<1>2. Shape
  BY Kinds DEF Init, Shape, Waiting
<1> QED
  BY <1>1, <1>2 DEF IInv

(* A user moves, and perhaps wakes a sleeper.                              *)
LEMMA UserMoves ==
  ASSUME IInv, NEW t \in Users, NEW b, pc' = [pc EXCEPT ![t] = b], req' = req, status' = status,
         pc[t] \notin {"idle", "unlock"},
         b \in {"called", "inside", "wait", "woken", "timedout", "late"},
         b \in {"wait", "woken", "timedout", "late"} => req[t].op = "wait",
         b \in {"timedout", "late"} => ~ req[t].infinity
  PROVE  pc' \in [Threads -> Places] /\ Shape'
<1>1. pc'[t] = b /\ \A s \in Threads : s # t => pc'[s] = pc[s]
  BY Kinds DEF IInv, TypeOK
<1>2. pc' \in [Threads -> Places]
  BY DEF IInv, TypeOK, Places
<1>3. Shape'
  BY <1>1, Kinds DEF IInv, Shape, Waiting
<1> QED
  BY <1>2, <1>3

(* A user that decides its call goes to the unlock. *)
LEMMA UserDecides ==
  ASSUME IInv, NEW t \in Users, NEW s \in {"success", "timeout"}, req' = req,
         pc[t] \notin {"idle", "unlock", "wait"}, Ends(t, s), Signal(t, "unlock") \/ Goto(t, "unlock")
  PROVE  pc' \in [Threads -> Places] /\ Shape' /\ status' \in [Users -> {"unknown", "success", "timeout"}]
<1>1. status'[t] = s /\ \A u \in Users : u # t => status'[u] = status[u]
  BY DEF Ends, IInv, TypeOK
<1>2. status' \in [Users -> {"unknown", "success", "timeout"}]
  BY DEF Ends, IInv, TypeOK
<1>3. /\ pc' \in [Threads -> Places] /\ pc'[t] = "unlock"
      /\ \A u \in Threads : u # t => pc'[u] = pc[u] \/ (u \in Users /\ pc[u] = "wait" /\ pc'[u] = "woken")
  <2>1. CASE Goto(t, "unlock")
    BY <2>1, Kinds DEF Goto, IInv, TypeOK, Places
  <2>2. CASE Signal(t, "unlock")
    <3>1. CASE Sleepers = {}
      BY <2>2, <3>1, Kinds DEF Signal, Goto, IInv, TypeOK, Places
    <3>2. CASE Sleepers # {}
      <4>1. PICK u \in Users : pc[u] = "wait" /\ pc' = [pc EXCEPT ![t] = "unlock", ![u] = "woken"]
        BY <2>2, <3>2 DEF Signal, Sleepers
      <4>2. u # t
        BY <4>1
      <4> QED
        BY <4>1, <4>2, Kinds DEF IInv, TypeOK, Places
    <3> QED
      BY <3>1, <3>2
  <2> QED
    BY <2>1, <2>2
<1>4. Shape'
  BY <1>1, <1>3, Kinds DEF IInv, Shape, Waiting
<1> QED
  BY <1>2, <1>3, <1>4

USE DEF Step, Wakes, Destroy

LEMMA StepInv ==
  ASSUME IInv, NEW t \in Users, Step(t) \/ Wakes(t)
  PROVE  IInv'
<1>1. CASE Lock(t)
  <2>1. PICK b : /\ pc' = [pc EXCEPT ![t] = b]
                 /\ b = IF pc[t] = "timedout" THEN "late" ELSE "inside"
    BY <1>1 DEF Lock, Goto
  <2>2. pc[t] \in {"called", "woken", "timedout"} /\ mutex' = t /\ UNCHANGED <<state, freed, req, status>>
    BY <1>1 DEF Lock
  <2>3. b \in {"late", "inside"} /\ b = "late" => req[t].op = "wait" /\ ~ req[t].infinity
    BY <2>1, <2>2 DEF IInv, Shape, Waiting
  <2>4. pc' \in [Threads -> Places] /\ Shape'
    BY <2>1, <2>2, <2>3, UserMoves
  <2> QED
    BY <2>2, <2>4, Kinds DEF IInv, TypeOK
<1>2. CASE Wait(t)
  BY <1>2, UserMoves DEF Wait, Goto, At, IInv, TypeOK
<1>3. CASE WakeSpuriously(t)
  BY <1>3, UserMoves DEF WakeSpuriously, Goto, IInv, TypeOK, Shape, Waiting
<1>4. CASE TimeOut(t)
  BY <1>4, UserMoves DEF TimeOut, Goto, IInv, TypeOK, Shape, Waiting
<1>5. CASE Get(t)
  BY <1>5, UserDecides DEF Get, At, IInv, TypeOK
<1>6. CASE GiveUp(t)
  BY <1>6, UserDecides DEF GiveUp, IInv, TypeOK
<1>7. CASE Set(t)
  BY <1>7, UserDecides DEF Set, At, IInv, TypeOK
<1>8. CASE Reset(t)
  BY <1>8, UserDecides DEF Reset, At, IInv, TypeOK
<1>9. CASE Unlock(t)
  <2>1. TypeOK'
    BY <1>9, Kinds DEF Unlock, Goto, Ends, IInv, TypeOK, Places
  <2>2. /\ pc'[t] = "idle" /\ req'[t] = Idle /\ status'[t] = "unknown"
        /\ \A s \in Threads : s # t => pc'[s] = pc[s]
        /\ \A s \in Users : s # t => req'[s] = req[s] /\ status'[s] = status[s]
    BY <1>9, Kinds DEF Unlock, Goto, Ends, IInv, TypeOK
  <2>3. Shape'
    BY <2>2, Kinds DEF IInv, Shape, Waiting
  <2> QED
    BY <2>1, <2>3 DEF IInv
<1> QED
  BY <1>1, <1>2, <1>3, <1>4, <1>5, <1>6, <1>7, <1>8, <1>9

LEMMA CallInv ==
  ASSUME IInv, NEW t \in Users, NEW r \in Calls, Call(t, r)
  PROVE  IInv'
<1>1. TypeOK'
  BY Kinds DEF Call, Goto, IInv, TypeOK, Places
<1>2. /\ pc[t] = "idle" /\ pc'[t] = "called" /\ req'[t] = r /\ r # Idle /\ status' = status
      /\ \A s \in Threads : s # t => pc'[s] = pc[s]
      /\ \A s \in Users : s # t => req'[s] = req[s]
  BY Kinds, Sets DEF Call, Goto, IInv, TypeOK
<1>3. Shape'
  BY <1>2, Kinds DEF IInv, Shape, Waiting
<1> QED
  BY <1>1, <1>3 DEF IInv

LEMMA DestroyInv ==
  ASSUME IInv, NEW d \in Destroyers, CallDestroy(d) \/ Destroy(d)
  PROVE  IInv'
<1>1. /\ pc' \in [Threads -> Places] /\ pc'[d] \in {"idle", "destroy", "cond", "free"}
      /\ \A u \in Threads : u # d => pc'[u] = pc[u] \/ (u \in Users /\ pc[u] = "wait" /\ pc'[u] = "woken")
      /\ UNCHANGED <<state, req, status>>
  <2>1. CASE LockDestroy(d)
    <3>1. CASE Sleepers = {}
      BY <2>1, <3>1, Kinds DEF LockDestroy, Signal, Goto, IInv, TypeOK, Places
    <3>2. CASE Sleepers # {}
      <4>1. PICK u \in Users : pc[u] = "wait" /\ pc' = [pc EXCEPT ![d] = "cond", ![u] = "woken"]
        BY <2>1, <3>2 DEF LockDestroy, Signal, Sleepers
      <4>2. u # d
        BY Kinds
      <4> QED
        BY <2>1, <4>1, <4>2, Kinds DEF LockDestroy, IInv, TypeOK, Places
    <3> QED
      BY <3>1, <3>2
  <2>2. CASE CallDestroy(d) \/ DestroyCond(d) \/ FreeEvent(d)
    BY <2>2, Kinds DEF CallDestroy, DestroyCond, FreeEvent, Goto, IInv, TypeOK, Places
  <2> QED
    BY <2>1, <2>2
<1>2. mutex' \in Threads \cup {Nobody} /\ freed' \in BOOLEAN
  BY Kinds DEF CallDestroy, LockDestroy, DestroyCond, FreeEvent, IInv, TypeOK
<1>3. Shape'
  BY <1>1, Kinds DEF IInv, Shape, Waiting
<1> QED
  BY <1>1, <1>2, <1>3 DEF IInv, TypeOK

LEMMA NextInv == IInv /\ [Next]_vars => IInv'
<1> SUFFICES ASSUME IInv, [Next]_vars PROVE IInv'
  OBVIOUS
<1>1. CASE UNCHANGED vars
  BY <1>1 DEF vars, IInv, TypeOK, Shape, Waiting
<1>2. CASE Next
  BY <1>2, StepInv, CallInv, DestroyInv DEF Next
<1> QED
  BY <1>1, <1>2

LEMMA Invariance == Spec => []IInv
  BY InitInv, NextInv, PTL DEF Spec

(* Every variable keeps its type. *)
THEOREM TypeCorrect == Spec => []TypeOK
<1>1. IInv => TypeOK
  BY DEF IInv
<1> QED
  BY <1>1, Invariance, PTL

-----------------------------------------------------------------------------
(* The refinement. *)

LEMMA StepImplements ==
  ASSUME IInv, NEW t \in Users, Step(t) \/ Wakes(t)
  PROVE  Event!Next \/ UNCHANGED Event!vars
<1>1. CASE Lock(t) \/ Wait(t) \/ WakeSpuriously(t) \/ TimeOut(t)
  BY <1>1 DEF Lock, Wait, WakeSpuriously, TimeOut, Event!vars
<1>2. ASSUME pc[t] \in {"inside", "late"}
      PROVE  req[t] # Idle /\ status[t] = "unknown"
  BY <1>2 DEF IInv, Shape
<1>3. CASE Get(t)
  <2>1. Event!Get(t)
    BY <1>2, <1>3 DEF Get, At, Ends, Event!Get, Event!Running, Event!Ends
  <2> QED
    BY <2>1 DEF Event!Next
<1>4. CASE GiveUp(t)
  <2>1. req[t].op = "wait" /\ ~ req[t].infinity
    BY <1>4 DEF GiveUp, IInv, Shape, Waiting
  <2>2. Event!GiveUp(t)
    BY <1>2, <1>4, <2>1 DEF GiveUp, Ends, Event!GiveUp, Event!Running, Event!Ends
  <2> QED
    BY <2>2 DEF Event!Next
<1>5. CASE Set(t)
  <2>1. Event!Set(t)
    BY <1>2, <1>5 DEF Set, At, Ends, Event!Set, Event!Running, Event!Ends
  <2> QED
    BY <2>1 DEF Event!Next
<1>6. CASE Reset(t)
  <2>1. Event!Reset(t)
    BY <1>2, <1>6 DEF Reset, At, Ends, Event!Reset, Event!Running, Event!Ends
  <2> QED
    BY <2>1 DEF Event!Next
<1>7. CASE Unlock(t)
  <2>1. status[t] # "unknown"
    BY <1>7 DEF Unlock, IInv, Shape
  <2>2. Event!Return(t)
    BY <1>7, <2>1 DEF Unlock, Ends, Event!Return
  <2> QED
    BY <2>2 DEF Event!Next
<1> QED
  BY <1>1, <1>3, <1>4, <1>5, <1>6, <1>7

LEMMA NextImplements == IInv /\ [Next]_vars => [Event!Next]_(Event!vars)
<1> SUFFICES ASSUME IInv, [Next]_vars PROVE Event!Next \/ UNCHANGED Event!vars
  OBVIOUS
<1>1. CASE UNCHANGED vars
  BY <1>1 DEF vars, Event!vars
<1>2. ASSUME NEW t \in Users, NEW r \in Calls, Call(t, r)
      PROVE  Event!Next
  <2>1. Event!Invoke(t, r)
    BY <1>2 DEF Call, Event!Invoke, IInv, Shape
  <2> QED
    BY <2>1 DEF Event!Next
<1>3. ASSUME NEW d \in Destroyers, CallDestroy(d) \/ Destroy(d)
      PROVE  UNCHANGED Event!vars
  BY <1>3 DEF CallDestroy, LockDestroy, DestroyCond, FreeEvent, Event!vars
<1> QED
  BY <1>1, <1>2, <1>3, StepImplements DEF Next

(* Each call of the code takes effect as one step of the atomic event.     *)
THEOREM Implements == Spec => ImplementsEvent
<1>1. Init => Event!Init
  BY DEF Init, Event!Init
<1> QED
  BY <1>1, NextImplements, Invariance, PTL DEF Spec, ImplementsEvent, Event!Spec

-----------------------------------------------------------------------------
(* Waiters. *)

WaitersReset == \A r \in Calls : r.op = "wait" => ~ r.is_not_auto_reset

(* Somebody is awake in sk_event_wait. *)
Awake == \E t \in Users : pc[t] = "woken" \/ At(t, "inside", "wait")

LEMMA SignalWakes ==
  ASSUME IInv, NEW t \in Threads, NEW b, b # "wait", pc[t] # "wait", Signal(t, b)
  PROVE  Sleepers' = {} \/ \E u \in Users : pc'[u] = "woken"
<1>1. CASE Sleepers = {}
  <2>1. \A u \in Users : pc'[u] # "wait"
    BY <1>1, Kinds DEF Signal, Sleepers, Goto, IInv, TypeOK
  <2> QED
    BY <2>1 DEF Sleepers
<1>2. CASE Sleepers # {}
  <2>1. PICK u \in Users : pc[u] = "wait" /\ pc' = [pc EXCEPT ![t] = b, ![u] = "woken"]
    BY <1>2 DEF Signal, Sleepers
  <2>2. u # t
    BY <2>1
  <2> QED
    BY <2>1, <2>2, Kinds DEF IInv, TypeOK
<1> QED
  BY <1>1, <1>2

(* A step of t that adds no sleeper and leaves the others awake.           *)
LEMMA StaysAwake ==
  ASSUME IInv, NoForgottenWaiter, NEW t \in Threads, NEW b, pc' = [pc EXCEPT ![t] = b], b # "wait",
         state' = 1 => state = 1,
         \A u \in Users : u # t => req'[u] = req[u],
         (t \in Users /\ (pc[t] = "woken" \/ At(t, "inside", "wait"))) => b = "woken" \/ At(t, "inside", "wait")'
  PROVE  NoForgottenWaiter'
<1> SUFFICES ASSUME state' = 1, Sleepers' # {} PROVE Awake'
  BY DEF NoForgottenWaiter, Awake
<1>1. PICK s \in Users : pc'[s] = "wait"
  BY DEF Sleepers
<1>2. pc'[t] = b /\ \A u \in Users : u # t => pc'[u] = pc[u]
  BY Kinds DEF IInv, TypeOK
<1>3. s \in Sleepers
  BY <1>1, <1>2 DEF Sleepers
<1>4. PICK u \in Users : pc[u] = "woken" \/ At(u, "inside", "wait")
  BY <1>3 DEF NoForgottenWaiter
<1>5. CASE u = t
  BY <1>2, <1>4, <1>5 DEF Awake
<1>6. CASE u # t
  BY <1>2, <1>4, <1>6 DEF Awake, At
<1> QED
  BY <1>5, <1>6

LEMMA WaitersStep ==
  ASSUME WaitersReset, IInv, NoForgottenWaiter, NEW t \in Users, Step(t) \/ Wakes(t)
  PROVE  NoForgottenWaiter'
<1>0. t \in Threads
  BY Kinds
<1>1. CASE Lock(t)
  <2>1. pc[t] = "woken" => At(t, "inside", "wait")'
    BY <1>0, <1>1 DEF Lock, Goto, At, IInv, TypeOK, Shape, Waiting
  <2>2. PICK b : pc' = [pc EXCEPT ![t] = b] /\ b \in {"late", "inside"}
    BY <1>1 DEF Lock, Goto
  <2>3. pc[t] # "inside" /\ state' = state /\ req' = req
    BY <1>1 DEF Lock
  <2> QED
    BY <1>0, <2>1, <2>2, <2>3, StaysAwake DEF At
<1>2. CASE Wait(t)
  BY <1>2 DEF Wait, NoForgottenWaiter
<1>3. CASE WakeSpuriously(t)
  BY <1>0, <1>3, StaysAwake DEF WakeSpuriously, Goto
<1>4. CASE TimeOut(t)
  BY <1>0, <1>4, StaysAwake DEF TimeOut, Goto, At
<1>5. CASE Get(t)
  <2>1. ~ req[t].is_not_auto_reset
    BY <1>5 DEF WaitersReset, Get, At, IInv, TypeOK, Shape
  <2>2. state' = 0
    BY <1>5, <2>1 DEF Get
  <2> QED
    BY <2>2 DEF NoForgottenWaiter
<1>6. CASE GiveUp(t)
  BY <1>0, <1>6, StaysAwake DEF GiveUp, Goto, At
<1>7. CASE Set(t)
  BY <1>0, <1>7, SignalWakes DEF Set, At, NoForgottenWaiter
<1>8. CASE Reset(t)
  BY <1>8 DEF Reset, NoForgottenWaiter
<1>9. CASE Unlock(t)
  BY <1>0, <1>9, StaysAwake DEF Unlock, Goto, At, IInv, TypeOK
<1> QED
  BY <1>1, <1>2, <1>3, <1>4, <1>5, <1>6, <1>7, <1>8, <1>9

(* While the event is set and somebody sleeps, somebody else is awake to   *)
(* take it, if every wait resets the event.                                *)
THEOREM NobodyForgotten == ASSUME WaitersReset PROVE Spec => []NoForgottenWaiter
<1>1. Init => NoForgottenWaiter
  BY Kinds DEF Init, NoForgottenWaiter, Sleepers
<1>2. IInv /\ NoForgottenWaiter /\ [Next]_vars => NoForgottenWaiter'
  <2> SUFFICES ASSUME IInv, NoForgottenWaiter, [Next]_vars PROVE NoForgottenWaiter'
    OBVIOUS
  <2>1. CASE UNCHANGED vars
    BY <2>1 DEF vars, NoForgottenWaiter, Sleepers, At
  <2>2. ASSUME NEW t \in Users, NEW r \in Calls, Call(t, r) PROVE NoForgottenWaiter'
    BY <2>2, Kinds, StaysAwake DEF Call, Goto, At, IInv, TypeOK
  <2>3. ASSUME NEW d \in Destroyers, CallDestroy(d) \/ Destroy(d) PROVE NoForgottenWaiter'
    <3>1. CASE LockDestroy(d)
      BY <3>1, Kinds, SignalWakes DEF LockDestroy, NoForgottenWaiter
    <3>2. CASE CallDestroy(d) \/ DestroyCond(d) \/ FreeEvent(d)
      BY <3>2, Kinds, StaysAwake DEF CallDestroy, DestroyCond, FreeEvent, Goto
    <3> QED
      BY <2>3, <3>1, <3>2
  <2> QED
    BY <2>1, <2>2, <2>3, WaitersStep DEF Next
<1> QED
  BY <1>1, <1>2, Invariance, PTL DEF Spec

=============================================================================
