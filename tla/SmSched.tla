------------------------------ MODULE SmSched ------------------------------
(***************************************************************************)
(* Windows and their dispatcher (smscheduler.c): the doubly linked list of *)
(* windows, the threads that create windows and send to them, and the      *)
(* scheduler thread that pops messages and runs window procedures, which   *)
(* may themselves create, send and express.                                *)
(*                                                                         *)
(* The message queue is the bounded FIFO that SmMsg implements, so a call  *)
(* on it is one step.  sm_is_smallwin walks the list without a lock: each  *)
(* pointer it reads is a step.  The critical sections of sem_system are    *)
(* cut where another thread can see the difference: a new window is linked *)
(* before its SMM_CREATE is pushed, and a closed one is unlinked, freed,   *)
(* and only after the unlock are its messages erased.                      *)
(*                                                                         *)
(* A thread is a stack of frames, for express_message runs a procedure in  *)
(* the thread of its caller, from inside another procedure too.            *)
(*                                                                         *)
(* History, which the code does not have: born[n] is the address of the    *)
(* n-th window, owner tells which window lives at an address, and the      *)
(* param of a message is the number of the window it is meant for.         *)
(***************************************************************************)
EXTENDS Integers, Sequences, Functions, Messages

CONSTANTS
  Clients,     (* Application threads.                                     *)
  sched,       (* The thread of smallwin_scheduler.                        *)
  nqueue,      (* Messages the queue holds.                                *)
  SMM_CREATE, SMM_CLOSE, SMM_USER,
  Usages,      (* The calls each thread makes (the scheduler's thread in   *)
               (* procedures), whether malloc returns an address that was  *)
               (* freed, and whether a thread that is closing a window may *)
               (* express SMM_CLOSE to it again.                           *)
  MaxWindows,  (* Bound: windows ever created.                             *)
  MaxDepth     (* Bound: frames of a thread.                               *)

ASSUME Sizes == nqueue \in Nat \ {0} /\ MaxWindows \in Nat /\ MaxDepth \in Nat \ {0}

Threads == Clients \cup {sched}

AppCall == [op : {"create"}, message : {SMM_CREATE}]
             \cup [op : {"send", "express"}, message : {SMM_CLOSE, SMM_USER}]

ASSUME UsageSet ==
  /\ sched \notin Clients
  /\ Usages \subseteq [calls : [Threads -> SUBSET AppCall], reuse : BOOLEAN, recloses : BOOLEAN]

ASSUME MessageCodes ==
  /\ Msgs = {SMM_CREATE, SMM_CLOSE, SMM_USER}
  /\ SMM_CREATE # SMM_CLOSE /\ SMM_CREATE # SMM_USER /\ SMM_CLOSE # SMM_USER

ASSUME WindowNumbers == Params = 0 .. MaxWindows /\ NoParam = 0

NULL == SK_INVALID_HSM

VARIABLES
  fifo,           (* The pending messages.                                 *)
  smallwin_list,  (* The first window, or NULL.                            *)
  next, prev,     (* The fields of COMMON_SM, at each address.             *)
  owner,          (* History: the window at an address, 0 if it is free.   *)
  born,           (* History: where each window was created.               *)
  sem_system,
  usage,          (* The calls threads make: never changes.                *)
  stack           (* The frames of each thread, innermost first.           *)

memory == <<smallwin_list, next, prev, owner, born>>
vars == <<fifo, smallwin_list, next, prev, owner, born, sem_system, usage, stack>>

(***************************************************************************)
(* Where a frame is:                                                       *)
(*   find     at the call of sm_is_smallwin                                *)
(*   walk     in its loop, at cur                                          *)
(*   run      in run_sm, before it reads the window                        *)
(*   proc     in the window procedure                                      *)
(*   default  at default_sm                                                *)
(*   free     in sm_destroy_smallwin, unlinked, holding sem_system         *)
(*   erase    between sm_destroy_smallwin and erase_message                *)
(*   create   at the entry of sm_create_smallwin                           *)
(*   push     in it, linked, holding sem_system                            *)
(***************************************************************************)
Frame == [at  : {"find", "walk", "run", "proc", "default", "free", "erase", "create", "push"},
          msg : MESSAGE,
          cur : HSM \cup {NULL}]

Entering(at, m) == [at |-> at, msg |-> m, cur |-> NULL]

Top(t) == Head(stack[t])

At(t, at) == stack[t] # <<>> /\ Top(t).at = at

Moves(t, at) == stack' = [stack EXCEPT ![t][1].at = at]

Leaves(t) == stack' = [stack EXCEPT ![t] = Tail(@)]

Live == {a \in HSM : owner[a] # 0}

(* Variant: a full queue takes one more. *)
PushedUnchecked(m) == Append(fifo, m)

(* push_message: a full queue refuses, and neither caller looks. *)
Pushed(m) == IF Len(fifo) < nqueue THEN Append(fifo, m) ELSE fifo

Init ==
  /\ fifo = <<>>
  /\ smallwin_list = NULL
  /\ next = [a \in HSM |-> NULL] /\ prev = [a \in HSM |-> NULL]
  /\ owner = [a \in HSM |-> 0]
  /\ born = <<>>
  /\ sem_system = 1
  /\ usage \in Usages
  /\ stack = [t \in Threads |-> <<>>]

-----------------------------------------------------------------------------
(* What the application does: a client between two calls, or a window      *)
(* procedure, which for the bound makes at most one call and returns.      *)

Calls(t, frames) ==
  \/ stack[t] = <<>> /\ t \in Clients /\ stack' = [stack EXCEPT ![t] = frames]
  \/ /\ At(t, "proc")
     /\ Len(stack[t]) + Len(frames) <= MaxDepth
     /\ stack' = [stack EXCEPT ![t] = frames \o <<[Top(t) EXCEPT !.at = "default"]>> \o Tail(@)]

(* The messages an application sends: to any window created so far, found  *)
(* in the list (sm_get_smallwin_list) or held since its creation, closed   *)
(* windows among them.                                                     *)
Sendable ==
  {[hsm |-> born[n], message |-> m, param |-> n] :
     n \in 1 .. Len(born), m \in {SMM_CLOSE, SMM_USER}}

Makes(t, op, msg) == [op |-> op, message |-> msg] \in usage.calls[t]

(* send_message: lock_system, push_message, unlock_system *)
SendMessage(t, m) ==
  /\ Makes(t, "send", m.message)
  /\ Calls(t, <<>>)
  /\ sem_system = 1
  /\ fifo' = Pushed(m)
  /\ UNCHANGED <<memory, sem_system, usage>>

CallCreate(t) ==
  /\ Makes(t, "create", SMM_CREATE)
  /\ Calls(t, <<Entering("create", Erased)>>)
  /\ UNCHANGED <<fifo, memory, sem_system, usage>>

(* The thread is inside a run_sm of SMM_CLOSE for this window. *)
Closing(t, h) ==
  \E k \in 1 .. Len(stack[t]) : stack[t][k].msg.hsm = h /\ stack[t][k].msg.message = SMM_CLOSE

(* express_message itself refuses nothing but dead handles: whether a      *)
(* procedure closes a window it is closing is up to the application.       *)
CallExpress(t, m) ==
  /\ Makes(t, "express", m.message)
  /\ usage.recloses \/ ~ (m.message = SMM_CLOSE /\ Closing(t, m.hsm))
  /\ Calls(t, <<Entering("find", m)>>)
  /\ UNCHANGED <<fifo, memory, sem_system, usage>>

ReturnProc(t) ==
  /\ At(t, "proc")
  /\ Moves(t, "default")
  /\ UNCHANGED <<fifo, memory, sem_system, usage>>

-----------------------------------------------------------------------------
(* sm_create_smallwin *)

(* The addresses malloc may return. *)
Allocatable == {a \in HSM : owner[a] = 0 /\ (usage.reuse \/ a \notin Range(born))}

(* The last window of the list. *)
Last == CHOOSE a \in Live : next[a] = NULL

(* Variant: unlock_system before push_message. *)
KeepNothing == sem_system' = 1

(* Between its two critical steps sm_create_smallwin keeps the lock. *)
KeepSystem == sem_system' = 0

(* lock_system, malloc and sm_add_smallwin_list *)
LinkWindow(t) ==
  /\ At(t, "create")
  /\ sem_system = 1
  /\ Len(born) < MaxWindows
  /\ \E a \in Allocatable :
       /\ IF smallwin_list = NULL
          THEN /\ smallwin_list' = a
               /\ next' = [next EXCEPT ![a] = NULL]
               /\ prev' = [prev EXCEPT ![a] = NULL]
          ELSE /\ next' = [next EXCEPT ![Last] = a, ![a] = NULL]
               /\ prev' = [prev EXCEPT ![a] = Last]
               /\ UNCHANGED smallwin_list
       /\ owner' = [owner EXCEPT ![a] = Len(born) + 1]
       /\ born' = Append(born, a)
       /\ stack' = [stack EXCEPT ![t][1] = Entering("push",
                      [hsm |-> a, message |-> SMM_CREATE, param |-> Len(born) + 1])]
  /\ KeepSystem
  /\ UNCHANGED <<fifo, usage>>

(* malloc has nothing left: the call returns the null handle. *)
CreateFails(t) ==
  /\ At(t, "create")
  /\ sem_system = 1
  /\ Allocatable = {} \/ Len(born) = MaxWindows
  /\ Leaves(t)
  /\ UNCHANGED <<fifo, memory, sem_system, usage>>

(* push_message of SMM_CREATE and unlock_system *)
PushCreate(t) ==
  /\ At(t, "push")
  /\ fifo' = Pushed(Top(t).msg)
  /\ sem_system' = 1
  /\ Leaves(t)
  /\ UNCHANGED <<memory, usage>>

-----------------------------------------------------------------------------
(* smallwin_scheduler and run_sm *)

(* pop_message; what was erased is addressed to nobody and dropped. *)
PopMessage ==
  /\ stack[sched] = <<>>
  /\ fifo # <<>>
  /\ fifo' = Tail(fifo)
  /\ stack' = [stack EXCEPT ![sched] =
                 IF Head(fifo).hsm = NULL THEN <<>> ELSE <<Entering("find", Head(fifo))>>]
  /\ UNCHANGED <<memory, sem_system, usage>>

(* Variant: the handle is trusted, not looked up. *)
StartWalkTrusts(t) ==
  /\ At(t, "find")
  /\ Moves(t, "run")
  /\ UNCHANGED <<fifo, memory, sem_system, usage>>

(* sm_is_smallwin: temp = smallwin_list *)
StartWalk(t) ==
  /\ At(t, "find")
  /\ stack' = [stack EXCEPT ![t][1].at = "walk", ![t][1].cur = smallwin_list]
  /\ UNCHANGED <<fifo, memory, sem_system, usage>>

(* Variant: the loop stops at the last window instead of after it. *)
PastLast(temp) == temp = NULL \/ next[temp] = NULL

(* The loop of sm_is_smallwin ends. *)
AtEnd(temp) == temp = NULL

(* sm_is_smallwin: one round of its loop *)
Walk(t) ==
  /\ At(t, "walk")
  /\ LET temp == Top(t).cur
     IN \/ AtEnd(temp) /\ Leaves(t)
        \/ ~ AtEnd(temp) /\ temp = Top(t).msg.hsm /\ Moves(t, "run")
        \/ ~ AtEnd(temp) /\ temp # Top(t).msg.hsm /\ stack' = [stack EXCEPT ![t][1].cur = next[temp]]
  /\ UNCHANGED <<fifo, memory, sem_system, usage>>

(* run_sm reads sm->sm_proc and calls it *)
RunProc(t) ==
  /\ At(t, "run")
  /\ Moves(t, "proc")
  /\ UNCHANGED <<fifo, memory, sem_system, usage>>

(* Variant: default_sm is left to the window procedure. *)
DefaultSkipped(t) ==
  /\ At(t, "default")
  /\ Leaves(t)
  /\ UNCHANGED <<fifo, memory, sem_system, usage>>

(* default_sm: nothing to do but for SMM_CLOSE *)
DefaultNothing(t) ==
  /\ At(t, "default")
  /\ Top(t).msg.message # SMM_CLOSE
  /\ Leaves(t)
  /\ UNCHANGED <<fifo, memory, sem_system, usage>>

(* Variant: the back pointer of the next window is forgotten. *)
ForwardOnly(h) == prev

(* The back pointers without the window h. *)
BackWithout(h) == IF next[h] # NULL THEN [prev EXCEPT ![next[h]] = prev[h]] ELSE prev

(* sm_destroy_smallwin: lock_system and the two pointer updates *)
UnlinkWindow(t) ==
  /\ At(t, "default")
  /\ Top(t).msg.message = SMM_CLOSE
  /\ sem_system = 1
  /\ LET h == Top(t).msg.hsm
     IN /\ IF prev[h] # NULL
           THEN next' = [next EXCEPT ![prev[h]] = next[h]] /\ UNCHANGED smallwin_list
           ELSE smallwin_list' = next[h] /\ UNCHANGED next
        /\ prev' = BackWithout(h)
  /\ sem_system' = 0
  /\ Moves(t, "free")
  /\ UNCHANGED <<fifo, owner, born, usage>>

(* sm_destroy_smallwin: sk_mem_free and unlock_system *)
FreeWindow(t) ==
  /\ At(t, "free")
  /\ owner' = [owner EXCEPT ![Top(t).msg.hsm] = 0]
  /\ sem_system' = 1
  /\ Moves(t, "erase")
  /\ UNCHANGED <<fifo, smallwin_list, next, prev, born, usage>>

(* default_sm: erase_message(hsm) *)
EraseWindow(t) ==
  /\ At(t, "erase")
  /\ fifo' = EraseMessage(fifo, Top(t).msg.hsm)
  /\ Leaves(t)
  /\ UNCHANGED <<memory, sem_system, usage>>

-----------------------------------------------------------------------------
(* A thread inside one of the functions. *)
Step(t) ==
  \/ ReturnProc(t)
  \/ LinkWindow(t) \/ CreateFails(t) \/ PushCreate(t)
  \/ StartWalk(t) \/ Walk(t) \/ RunProc(t)
  \/ DefaultNothing(t) \/ UnlinkWindow(t) \/ FreeWindow(t) \/ EraseWindow(t)

Next ==
  \/ PopMessage
  \/ \E t \in Threads :
       \/ Step(t)
       \/ CallCreate(t)
       \/ \E m \in Sendable : SendMessage(t, m) \/ CallExpress(t, m)

Spec == Init /\ [][Next]_vars

(* Threads run, the scheduler pops for ever; nobody needs to call.         *)
(* sem_system is contended only while windows are created.                 *)
Fairness == WF_vars(PopMessage) /\ \A t \in Threads : WF_vars(Step(t))

FairSpec == Spec /\ Fairness

-----------------------------------------------------------------------------
(* Properties. *)

(* Every variable has its type. *)
TypeOK ==
  /\ fifo \in Seq(MESSAGE) /\ Len(fifo) <= nqueue
  /\ smallwin_list \in HSM \cup {NULL}
  /\ next \in [HSM -> HSM \cup {NULL}] /\ prev \in [HSM -> HSM \cup {NULL}]
  /\ owner \in [HSM -> 0 .. MaxWindows]
  /\ born \in Seq(HSM) /\ Len(born) <= MaxWindows
  /\ sem_system \in {0, 1}
  /\ usage \in Usages
  /\ stack \in [Threads -> Seq(Frame)]

(* Windows that are allocated and not being destroyed. *)
Linked == {a \in Live : \A t \in Threads : ~ (At(t, "free") /\ Top(t).msg.hsm = a)}

(* At every moment, inside the critical sections too, a reader without the *)
(* lock finds an intact list: it holds the linked windows and no freed     *)
(* one, prev mirrors next, and it goes by age, so that every walk ends.    *)
(* The code leaves two conditions to its users: that no client expresses,  *)
(* and that no procedure recloses.  Without either a window is unlinked    *)
(* and freed twice.                                                        *)
ListSound ==
  /\ smallwin_list = NULL <=> Linked = {}
  /\ smallwin_list # NULL => smallwin_list \in Linked /\ prev[smallwin_list] = NULL
  /\ \A a \in Linked :
       /\ next[a] # NULL => next[a] \in Linked /\ prev[next[a]] = a /\ owner[a] < owner[next[a]]
       /\ prev[a] # NULL => prev[a] \in Linked /\ next[prev[a]] = a
       /\ prev[a] = NULL => a = smallwin_list

(* No thread reads or frees a window that was freed: neither the walk of   *)
(* sm_is_smallwin, which holds no lock, nor run_sm and                     *)
(* sm_destroy_smallwin, which rely on a check made earlier.  It has the    *)
(* two conditions of ListSound: the inner of two nested SMM_CLOSE frees    *)
(* the window that the outer one is about to unlink.                       *)
NoDangling ==
  \A t \in Threads :
    /\ At(t, "walk") => Top(t).cur \in Live \cup {NULL}
    /\ At(t, "run") \/ At(t, "free") => Top(t).msg.hsm \in Live
    /\ At(t, "default") /\ Top(t).msg.message = SMM_CLOSE => Top(t).msg.hsm \in Linked

(* A window hears of its creation before anything else that was sent to    *)
(* it through the queue: though the list gives its handle away as soon as  *)
(* it is linked, no message gets ahead of its SMM_CREATE, because          *)
(* sem_system is held from the one to the other.                           *)
CreateFirst ==
  \A k \in 1 .. Len(fifo) : fifo[k].message = SMM_CREATE =>
    \A j \in 1 .. k - 1 : fifo[j].param # fifo[k].param

(* The window n, still linked, has a message of this kind in the queue. *)
Awaits(n, msg) ==
  /\ \E k \in 1 .. Len(fifo) : fifo[k].message = msg /\ fifo[k].param = n
  /\ \E a \in Linked : owner[a] = n

(* A window with SMM_CLOSE in the queue is destroyed in the end, if        *)
(* addresses are not used again.                                           *)
ClosedInTheEnd ==
  \A n \in 1 .. MaxWindows : (~ usage.reuse /\ Awaits(n, SMM_CLOSE)) ~> (\A a \in HSM : owner[a] # n)

(* A window whose SMM_CREATE was accepted has its procedure called with it *)
(* or is closed before, if addresses are not used again.                   *)
CreatedInTheEnd ==
  \A n \in 1 .. MaxWindows :
    (~ usage.reuse /\ Awaits(n, SMM_CREATE)) ~>
      \/ At(sched, "proc") /\ Top(sched).msg.message = SMM_CREATE /\ Top(sched).msg.param = n
      \/ \A a \in HSM : owner[a] # n

=============================================================================
