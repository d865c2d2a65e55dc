------------------------------- MODULE SmTick -------------------------------
(***************************************************************************)
(* Window timers (smtick.c): the table of ticks, the ticker thread that    *)
(* scans it and sends SMM_TICK, the functions that fill and clear it, and  *)
(* the other users of the message queue that the ticker competes with.     *)
(*                                                                         *)
(* The queue is the bounded FIFO that SmMsg implements.  The ticker holds  *)
(* sem_tick while it sends, and so while it waits for sem_system.          *)
(* sm_destroy_tick locks sem_tick a second time where it should unlock it: *)
(* the model does what the code does.                                      *)
(*                                                                         *)
(* u32 arithmetic is taken modulo Word.                                    *)
(***************************************************************************)
EXTENDS Integers, Sequences, Messages

CONSTANTS
  Clients,            (* Application threads.                              *)
  ticker,             (* The thread of sm_ticker.                          *)
  nqueue,             (* Messages the queue holds.                         *)
  SMM_TICK,
  SMM_USER,
  SMALLWIN_NTICKS,    (* Slots of the table.                               *)
  time_tick,          (* Milliseconds between two scans.                   *)
  Usages,             (* The calls each client makes.                      *)
  Word                (* Values of a u32.                                  *)

U32 == 0 .. Word - 1

ClientCall == [op : {"set"}, n100msec : U32, param2 : U32]
             \cup [op : {"send", "destroy"}, n100msec : {0}, param2 : {0}]

ASSUME Sizes ==
  /\ nqueue \in Nat \ {0} /\ SMALLWIN_NTICKS \in Nat \ {0}
  /\ Word \in Nat \ {0} /\ time_tick \in 1 .. Word - 1

ASSUME Codes == Msgs = {SMM_TICK, SMM_USER} /\ SMM_TICK # SMM_USER

ASSUME Values == ticker \notin Clients /\ Usages \subseteq [Clients -> SUBSET ClientCall]

ASSUME ParamPairs ==
  /\ Params = (0 .. SMALLWIN_NTICKS) \X U32
  /\ NoParam = <<0, 0>>

VARIABLES
  fifo,        (* The pending messages.                                    *)
  tick_list,   (* The table, from handle (index + 1) to TICK_MSG.          *)
  sem_tick, sem_system,
  usage,       (* The calls each client makes: never changes.              *)
  i,           (* The handle of the slot the ticker looks at.              *)
  pc,          (* Where each thread is.                                    *)
  arg          (* The argument of its call.                                *)

vars == <<fifo, tick_list, sem_tick, sem_system, usage, i, pc, arg>>

Threads == Clients \cup {ticker}

Handles == 1 .. SMALLWIN_NTICKS

TICK_MSG == [hsm : HSM \cup {SK_INVALID_HSM}, n100msec : U32, count : U32, param2 : U32]

NoTick == [hsm |-> SK_INVALID_HSM, n100msec |-> 0, count |-> 0, param2 |-> 0]

User(h) == [hsm |-> h, message |-> SMM_USER, param |-> NoParam]

Tick(handle, p) ==
  [hsm |-> tick_list[handle].hsm, message |-> SMM_TICK, param |-> <<handle, p>>]

(* Variant: a full queue takes one more. *)
PushedUnchecked(m) == Append(fifo, m)

Pushed(m) == IF Len(fifo) < nqueue THEN Append(fifo, m) ELSE fifo

Goto(t, place) == pc' = [pc EXCEPT ![t] = place]

Init ==
  /\ fifo = <<>>
  /\ tick_list = [h \in Handles |-> NoTick]
  /\ sem_tick = 1 /\ sem_system = 1
  /\ usage \in Usages
  /\ i = 1
  /\ pc = [t \in Threads |-> IF t = ticker THEN "delay" ELSE "idle"]
  /\ arg = [c \in Clients |-> NoTick]

-----------------------------------------------------------------------------
(* The semaphores. *)

(* Where a sk_sem_lock(sem_tick) leads.  The lock that ends                *)
(* sm_destroy_tick returns to the caller.                                  *)
AfterLockTick == [delay |-> "scan", set |-> "fill", destroy |-> "clear", relock |-> "idle"]

LockTick(t) ==
  /\ pc[t] \in DOMAIN AfterLockTick
  /\ sem_tick > 0
  /\ sem_tick' = sem_tick - 1
  /\ Goto(t, AfterLockTick[pc[t]])
  /\ UNCHANGED <<fifo, tick_list, sem_system, usage, i, arg>>

(* lock_system() in send_message, of the ticker or of a client *)
LockSystem(t) ==
  /\ pc[t] = "send"
  /\ sem_system > 0
  /\ sem_system' = sem_system - 1
  /\ Goto(t, "push")
  /\ UNCHANGED <<fifo, tick_list, sem_tick, i, arg, usage>>

-----------------------------------------------------------------------------
(* The ticker *)

(* The slot is due, in u32 arithmetic. *)
Due(tick) == (tick.count * time_tick) % Word >= tick.n100msec

Counted(tick) == [tick EXCEPT !.count = (@ + 1) % Word]

(* Variant: the count is reset before it is looked for. *)
IsPendingReset(h) ==
  Found(fifo, DOMAIN fifo, [op |-> "is_message_param", m |-> Tick(h, 0)])

(* is_message_param(hsm, SMM_TICK, i + 1, count): the message of the last  *)
(* period is still in the queue, if param2 is 0.                           *)
IsPending(h) ==
  Found(fifo, DOMAIN fifo, [op |-> "is_message_param", m |-> Tick(h, tick_list[h].count)])

(* Variant: the count is reset only when a message is sent. *)
ScannedKeepsCount(tick) == Counted(tick)

(* Variant: count++ for due slots only. *)
ScannedUncounted(tick) == IF Due(tick) THEN Counted([tick EXCEPT !.count = 0]) ELSE tick

(* A slot in use, after the loop was at it: count = 0 if due, and count++ *)
Scanned(tick) == Counted(IF Due(tick) THEN [tick EXCEPT !.count = 0] ELSE tick)

(* A slot that needs no message: free, not due, or due with its last one   *)
(* pending.                                                                *)
SkipSlot ==
  /\ pc[ticker] = "scan" /\ i \in Handles
  /\ \/ tick_list[i].hsm = SK_INVALID_HSM /\ UNCHANGED tick_list
     \/ /\ tick_list[i].hsm # SK_INVALID_HSM
        /\ Due(tick_list[i]) => IsPending(i)
        /\ tick_list' = [tick_list EXCEPT ![i] = Scanned(@)]
  /\ i' = i + 1
  /\ UNCHANGED <<fifo, sem_tick, sem_system, usage, pc, arg>>

(* A due slot whose message is not pending: on to send_message. *)
DecideSend ==
  /\ pc[ticker] = "scan" /\ i \in Handles
  /\ tick_list[i].hsm # SK_INVALID_HSM
  /\ Due(tick_list[i])
  /\ ~ IsPending(i)
  /\ Goto(ticker, "send")
  /\ UNCHANGED <<fifo, tick_list, sem_tick, sem_system, usage, i, arg>>

(* push_message, unlock_system, and count = 0; count++ for the slot *)
SendTick ==
  /\ pc[ticker] = "push"
  /\ LET tick == tick_list[i]
     IN /\ fifo' = Pushed(Tick(i, IF tick.param2 # 0 THEN tick.param2 ELSE tick.count))
        /\ tick_list' = [tick_list EXCEPT ![i] = Scanned(tick)]
  /\ sem_system' = sem_system + 1
  /\ i' = i + 1
  /\ Goto(ticker, "scan")
  /\ UNCHANGED <<sem_tick, usage, arg>>

(* The end of a scan: sk_sem_unlock, and the pause of sk_task_delay. *)
EndScan ==
  /\ pc[ticker] = "scan" /\ i > SMALLWIN_NTICKS
  /\ sem_tick' = sem_tick + 1
  /\ i' = 1
  /\ Goto(ticker, "delay")
  /\ UNCHANGED <<fifo, tick_list, sem_system, arg, usage>>

-----------------------------------------------------------------------------
(* The application *)

Calls(c, op) == {r \in usage[c] : r.op = op}

(* A client calls sm_set_xtick, of which sm_create_tick and                *)
(* sm_create_systick are the cases with param2 = 0.                        *)
CallSet(c, h) ==
  /\ pc[c] = "idle"
  /\ Goto(c, "set")
  /\ \E r \in Calls(c, "set") :
       arg' = [arg EXCEPT ![c] = [hsm |-> h, n100msec |-> r.n100msec, count |-> 0, param2 |-> r.param2]]
  /\ UNCHANGED <<fifo, tick_list, sem_tick, sem_system, usage, i>>

FreeHandles == {h \in Handles : tick_list[h].hsm = SK_INVALID_HSM}

(* Variant: a full table is left without the unlock. *)
UnlockUnlessFull == IF FreeHandles = {} THEN sem_tick ELSE sem_tick + 1

(* sm_set_xtick unlocks, whether it found a slot or not. *)
UnlockTick == sem_tick + 1

(* sm_set_xtick takes the first free slot, if there is one. *)
SetTick(c) ==
  /\ pc[c] = "fill"
  /\ IF FreeHandles = {}
     THEN UNCHANGED tick_list
     ELSE \E h \in FreeHandles :
            /\ \A g \in FreeHandles : h <= g
            /\ tick_list' = [tick_list EXCEPT ![h] = arg[c]]
  /\ sem_tick' = UnlockTick
  /\ Goto(c, "idle")
  /\ arg' = [arg EXCEPT ![c] = NoTick]
  /\ UNCHANGED <<fifo, sem_system, usage, i>>

CallDestroy(c) ==
  /\ pc[c] = "idle"
  /\ Calls(c, "destroy") # {}
  /\ Goto(c, "destroy")
  /\ UNCHANGED <<fifo, tick_list, sem_tick, sem_system, usage, i, arg>>

(* Variant: the unlock is there, and the second lock as well. *)
AfterClearUnlocked == sem_tick + 1

(* What sm_destroy_tick leaves of the lock it took: all of it. *)
AfterClear == sem_tick

(* sm_destroy_tick clears the slot and goes on to lock, not to unlock. *)
ClearTick(c, htick) ==
  /\ pc[c] = "clear"
  /\ tick_list' = IF htick \in Handles
                  THEN [tick_list EXCEPT ![htick].hsm = SK_INVALID_HSM]
                  ELSE tick_list
  /\ sem_tick' = AfterClear
  /\ Goto(c, "relock")
  /\ UNCHANGED <<fifo, sem_system, usage, i, arg>>

CallSend(c, h) ==
  /\ pc[c] = "idle"
  /\ Calls(c, "send") # {}
  /\ Goto(c, "send")
  /\ arg' = [arg EXCEPT ![c].hsm = h]
  /\ UNCHANGED <<fifo, tick_list, sem_tick, sem_system, usage, i>>

(* push_message and unlock_system of a client *)
SendUser(c) ==
  /\ pc[c] = "push"
  /\ fifo' = Pushed(User(arg[c].hsm))
  /\ sem_system' = sem_system + 1
  /\ Goto(c, "idle")
  /\ arg' = [arg EXCEPT ![c] = NoTick]
  /\ UNCHANGED <<tick_list, sem_tick, usage, i>>

-----------------------------------------------------------------------------
(* The scheduler's two accesses to the queue: it takes the oldest message, *)
(* and it erases those of a window that was closed.                        *)
Dispatch ==
  /\ fifo # <<>>
  /\ fifo' = Tail(fifo)
  /\ UNCHANGED <<tick_list, sem_tick, sem_system, usage, i, pc, arg>>

CloseWindow(h) ==
  /\ fifo' = EraseMessage(fifo, h)
  /\ UNCHANGED <<tick_list, sem_tick, sem_system, usage, i, pc, arg>>

-----------------------------------------------------------------------------
Acquire(t) == LockTick(t) \/ LockSystem(t)

Scan == SkipSlot \/ DecideSend \/ SendTick \/ EndScan

Inside(c) == SetTick(c) \/ SendUser(c) \/ \E htick \in 0 .. SMALLWIN_NTICKS : ClearTick(c, htick)

Next ==
  \/ \E t \in Threads : Acquire(t)
  \/ Scan
  \/ \E c \in Clients :
       \/ Inside(c)
       \/ CallDestroy(c)
       \/ \E h \in HSM : CallSet(c, h) \/ CallSend(c, h)
  \/ Dispatch
  \/ \E h \in HSM : CloseWindow(h)

Spec == Init /\ [][Next]_vars

(* Threads run and the scheduler dispatches; nobody is overtaken for ever  *)
(* at a semaphore, since the threads sleep between two calls               *)
(* (sk_task_delay in sm_ticker and in send_message).                       *)
Fairness ==
  /\ \A t \in Threads : SF_vars(Acquire(t))
  /\ WF_vars(Scan) /\ WF_vars(Dispatch)
  /\ \A c \in Clients : WF_vars(Inside(c))

FairSpec == Spec /\ Fairness

-----------------------------------------------------------------------------
(* Properties. *)

Places == DOMAIN AfterLockTick \cup {"idle", "scan", "send", "push", "fill", "clear"}

(* Every variable has its type; the semaphores stay binary. *)
TypeOK ==
  /\ fifo \in Seq(MESSAGE) /\ Len(fifo) <= nqueue
  /\ tick_list \in [Handles -> TICK_MSG]
  /\ sem_tick \in {0, 1} /\ sem_system \in {0, 1}
  /\ usage \in Usages
  /\ i \in 1 .. SMALLWIN_NTICKS + 1
  /\ pc \in [Threads -> Places]
  /\ arg \in [Clients -> TICK_MSG]

IsTick(m, handle) == m.message = SMM_TICK /\ m.param[1] = handle

(* A timer does not flood a slow window: at most one of its ticks is in    *)
(* the queue, though the ticker looks and sends in two critical sections.  *)
(* Two cases escape the comparison with count in sm_ticker, and only they: *)
(* a tick with a param2 of its own, and a period of zero, whose first      *)
(* message carries another count than the later ones.                      *)
OnePendingTick ==
  \A h \in Handles :
    tick_list[h].param2 = 0 /\ tick_list[h].n100msec > 0 =>
      \A j, k \in 1 .. Len(fifo) :
        IsTick(fifo[j], h) /\ IsTick(fifo[k], h) => j = k

(* The product count * time_tick overshoots the period by less than one    *)
(* scan, whether the tick was sent, refused by a full queue or still       *)
(* pending; so it never wraps around a u32 unless the period is within one *)
(* scan of 2^32.                                                           *)
NoOverflow ==
  \A h \in Handles :
    LET tick == tick_list[h]
    IN tick.hsm # SK_INVALID_HSM /\ tick.n100msec + time_tick <= Word
         => \/ tick.count <= 1
            \/ (tick.count - 1) * time_tick < tick.n100msec

(* Once a thread is past its clearing of a slot in sm_destroy_tick, nobody *)
(* holds sem_tick to release it: neither that thread, nor the ticker, nor  *)
(* any later call on the table ever goes on.                               *)
DestroyStopsTicks ==
  (\E c \in Clients : pc[c] = "relock") =>
    sem_tick = 0 /\ pc[ticker] = "delay" /\ \A c \in Clients : pc[c] \notin {"fill", "clear"}

TimersAreKept == \A c \in Clients : Calls(c, "destroy") = {}

(* If no timer is destroyed the ticker goes round for ever: it waits for   *)
(* sem_system with sem_tick in hand, but nobody does the opposite.         *)
TickerGoesOn == TimersAreKept => []<>(pc[ticker] = "delay") /\ []<>(pc[ticker] = "scan")

(* And every timer whose period a u32 product can reach sends its tick,    *)
(* unless the queue is full.                                               *)
TickComes ==
  \A h \in Handles :
    (TimersAreKept /\ tick_list[h].hsm # SK_INVALID_HSM /\ tick_list[h].n100msec + time_tick <= Word)
      ~> \/ \E k \in 1 .. Len(fifo) : IsTick(fifo[k], h)
         \/ Len(fifo) = nqueue

=============================================================================
