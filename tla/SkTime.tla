------------------------------- MODULE SkTime -------------------------------
(***************************************************************************)
(* OS timers (skyapi_time.c): the table of timers, the functions that      *)
(* create, set, start, stop and destroy them, and tick_task, which waits   *)
(* on gfTickCallbackSem and then scans the table.                          *)
(*                                                                         *)
(* Every access to the table is a critical section of gfTickTableSem, so   *)
(* each section is one step; sk_tick_set of a running timer is four.  A    *)
(* client may use any slot, also one whose creation is not over.  The wait *)
(* of tick_task is sk_sem_lock_timeout, which waits for the semaphore      *)
(* whatever its timeout (skyapi_sem.c).  Callbacks call no sk_tick_*       *)
(* function: the table is locked while they run.  Names are left out: the  *)
(* section of tick_store_name writes what nothing reads.                   *)
(*                                                                         *)
(* There is no clock: a scan finds any time elapsed.                       *)
(***************************************************************************)
EXTENDS Integers

CONSTANTS
  Clients,      (* Threads that use timers.                                *)
  Ids,          (* Slots of KALTickers.                                    *)
  Periods,      (* The values of tick_time_ms in use.                      *)
  MaxElapsed,   (* Bound: milliseconds between two scans.                  *)
  MaxPosts,     (* Bound: starts that tick_task has not noticed.           *)
  Infinity,     (* SK_TIMEOUT_INFINITY.                                    *)
  NoCall        (* Between no sections; no callback.                       *)

ASSUME Numbers ==
  /\ MaxElapsed \in Nat /\ MaxPosts \in Nat \ {0}
  /\ Ids \subseteq Nat
  /\ Periods \subseteq Nat /\ Infinity \notin Nat

VARIABLES
  KALTickers,
  gfTickCallbackSem,
  task,          (* Where tick_task is: at its wait or before its scan.    *)
  uTimeout,      (* The timeout of that wait.                              *)
  pc, arg,       (* Where each client is between two sections: of          *)
                 (* sk_tick_create with its uFreeIndex, of sk_tick_set     *)
                 (* with its parameters.                                   *)
  fresh,         (* History: started since the last scan.                  *)
  fired          (* History: callbacks since the last start.               *)

vars == <<KALTickers, gfTickCallbackSem, task, uTimeout, pc, arg, fresh, fired>>
tickTask == <<task, uTimeout>>
calls == <<pc, arg>>
history == <<fresh, fired>>

Status == {"free", "created", "set", "started"}

Ticker == [TickerState : Status, bOneShot : BOOLEAN,
           uTimeout : Periods \cup {0}, uTimeRemaining : Nat,
           pfnCallback : Clients \cup {NoCall}]

Setting == [id : Ids, bOneShot : BOOLEAN, uTimeout : Periods]

Creation == [id : Ids]

ASSUME CallIsNoSetting == NoCall \notin Setting \cup Creation

Init ==
  /\ KALTickers = [k \in Ids |-> [TickerState |-> "free", bOneShot |-> FALSE,
                                  uTimeout |-> 0, uTimeRemaining |-> 0,
                                  pfnCallback |-> NoCall]]
  /\ gfTickCallbackSem = 0
  /\ task = "wait" /\ uTimeout = Infinity
  /\ pc = [c \in Clients |-> "idle"]
  /\ arg = [c \in Clients |-> NoCall]
  /\ fresh = {}
  /\ fired = [k \in Ids |-> 0]

State(k) == KALTickers[k].TickerState

-----------------------------------------------------------------------------
(* sk_tick_create *)

(* tick_find_free_table_and_lock takes the first free slot.  A full table  *)
(* is left alone.                                                          *)
Create(c) ==
  /\ pc[c] = "idle"
  /\ \E k \in Ids :
       /\ State(k) = "free"
       /\ \A j \in Ids : State(j) = "free" => k <= j
       /\ KALTickers' = [KALTickers EXCEPT ![k].TickerState = "created"]
       /\ arg' = [arg EXCEPT ![c] = [id |-> k]]
  /\ pc' = [pc EXCEPT ![c] = "callback"]
  /\ UNCHANGED <<gfTickCallbackSem, tickTask, history>>

Ends(c) == pc' = [pc EXCEPT ![c] = "idle"] /\ arg' = [arg EXCEPT ![c] = NoCall]

(* The callback follows, whatever became of the slot. *)
StoreCallback(c) ==
  /\ pc[c] = "callback"
  /\ KALTickers' = [KALTickers EXCEPT ![arg[c].id].pfnCallback = c]
  /\ Ends(c)
  /\ UNCHANGED <<gfTickCallbackSem, tickTask, history>>

-----------------------------------------------------------------------------
(* The functions of one section *)

Destroy(c, k) ==
  /\ pc[c] = "idle"
  /\ State(k) # "free"
  /\ KALTickers' = [KALTickers EXCEPT ![k].TickerState = "free"]
  /\ UNCHANGED <<gfTickCallbackSem, tickTask, calls, history>>

(* Variant: a timer that runs already is not announced. *)
StartedOnce(k) ==
  /\ State(k) \in {"set", "started"}
  /\ gfTickCallbackSem < MaxPosts
  /\ KALTickers' = [KALTickers EXCEPT ![k].TickerState = "started",
                                      ![k].uTimeRemaining = KALTickers[k].uTimeout]
  /\ gfTickCallbackSem' = IF State(k) = "set" THEN gfTickCallbackSem + 1 ELSE gfTickCallbackSem
  /\ fresh' = fresh \cup {k}
  /\ fired' = [fired EXCEPT ![k] = 0]

(* sk_tick_start of a timer that was set *)
Started(k) ==
  /\ State(k) \in {"set", "started"}
  /\ gfTickCallbackSem < MaxPosts
  /\ KALTickers' = [KALTickers EXCEPT ![k].TickerState = "started",
                                      ![k].uTimeRemaining = KALTickers[k].uTimeout]
  /\ gfTickCallbackSem' = gfTickCallbackSem + 1
  /\ fresh' = fresh \cup {k}
  /\ fired' = [fired EXCEPT ![k] = 0]

Start(c, k) ==
  /\ pc[c] = "idle"
  /\ Started(k)
  /\ UNCHANGED <<tickTask, calls>>

(* sk_tick_stop: only a running timer is touched. *)
Stopped(k) ==
  KALTickers' = IF State(k) = "started"
                THEN [KALTickers EXCEPT ![k].TickerState = "set",
                                        ![k].uTimeRemaining = KALTickers[k].uTimeout]
                ELSE KALTickers

Stop(c, k) ==
  /\ pc[c] = "idle"
  /\ State(k) = "started"
  /\ Stopped(k)
  /\ UNCHANGED <<gfTickCallbackSem, tickTask, calls, history>>

-----------------------------------------------------------------------------
(* sk_tick_set *)

(* Variant: the remaining time is left to sk_tick_start. *)
NewSettingKeepsRemaining(s) ==
  KALTickers' = IF State(s.id) = "free"
                THEN KALTickers
                ELSE [KALTickers EXCEPT ![s.id].TickerState = "set",
                                        ![s.id].bOneShot = s.bOneShot,
                                        ![s.id].uTimeout = s.uTimeout]

(* The values it writes, unless the timer is free. *)
NewSetting(s) ==
  KALTickers' = IF State(s.id) = "free"
                THEN KALTickers
                ELSE [KALTickers EXCEPT ![s.id].TickerState = "set",
                                        ![s.id].bOneShot = s.bOneShot,
                                        ![s.id].uTimeout = s.uTimeout,
                                        ![s.id].uTimeRemaining = s.uTimeout]

(* Its first section: a timer that runs is to be stopped, ... *)
CallSet(c, s) ==
  /\ pc[c] = "idle"
  /\ IF State(s.id) = "started"
     THEN /\ pc' = [pc EXCEPT ![c] = "stop"]
          /\ arg' = [arg EXCEPT ![c] = s]
          /\ UNCHANGED KALTickers
     ELSE NewSetting(s) /\ UNCHANGED calls
  /\ UNCHANGED <<gfTickCallbackSem, tickTask, history>>

SetStops(c) ==
  /\ pc[c] = "stop"
  /\ Stopped(arg[c].id)
  /\ pc' = [pc EXCEPT ![c] = "set"]
  /\ UNCHANGED <<gfTickCallbackSem, tickTask, arg, history>>

(* ... set, whatever happened to it since the first section, ... *)
SetTicker(c) ==
  /\ pc[c] = "set"
  /\ NewSetting(arg[c])
  /\ pc' = [pc EXCEPT ![c] = "restart"]
  /\ UNCHANGED <<gfTickCallbackSem, tickTask, arg, history>>

(* ... and started again. *)
SetRestarts(c) ==
  /\ pc[c] = "restart"
  /\ \/ Started(arg[c].id)
     \/ /\ State(arg[c].id) \in {"free", "created"}
        /\ UNCHANGED <<KALTickers, gfTickCallbackSem, history>>
  /\ Ends(c)
  /\ UNCHANGED tickTask

-----------------------------------------------------------------------------
(* tick_task *)

(* sk_sem_lock_timeout(gfTickCallbackSem, uTimeout) *)
TaskWakes ==
  /\ task = "wait"
  /\ gfTickCallbackSem > 0
  /\ gfTickCallbackSem' = gfTickCallbackSem - 1
  /\ task' = "scan"
  /\ UNCHANGED <<KALTickers, uTimeout, calls, history>>

(* Variant: the whole period is compared, not what is left of it. *)
ExpiredByPeriod(k, elapsed) == State(k) = "started" /\ KALTickers[k].uTimeout <= elapsed

Expired(k, elapsed) == State(k) = "started" /\ KALTickers[k].uTimeRemaining <= elapsed

(* Variant: a single-shot timer goes on. *)
AfterCallbackPeriodic(ticker) == [ticker EXCEPT !.uTimeRemaining = ticker.uTimeout]

(* What a callback leaves behind: a single-shot timer is set, not started. *)
AfterCallback(ticker) ==
  [ticker EXCEPT !.TickerState = IF ticker.bOneShot THEN "set" ELSE "started",
                 !.uTimeRemaining = ticker.uTimeout]

(* kal_handle_time_timeouts: callbacks for the timers whose time is up,    *)
(* the rest of the time for the others, and the least of it for the wait.  *)
TaskScans ==
  /\ task = "scan"
  /\ \E elapsed \in 0 .. MaxElapsed :
       /\ KALTickers' = [k \in Ids |->
            IF Expired(k, elapsed) THEN AfterCallback(KALTickers[k])
            ELSE IF State(k) = "started"
                 THEN [KALTickers[k] EXCEPT !.uTimeRemaining = @ - elapsed]
                 ELSE KALTickers[k]]
       /\ fired' = [k \in Ids |-> IF Expired(k, elapsed) /\ fired[k] < 2 THEN fired[k] + 1
                                  ELSE fired[k]]
  /\ LET running == {k \in Ids : KALTickers'[k].TickerState = "started"}
     IN \/ running = {} /\ uTimeout' = Infinity
        \/ \E k \in running :
             /\ uTimeout' = KALTickers'[k].uTimeRemaining
             /\ \A j \in running : uTimeout' <= KALTickers'[j].uTimeRemaining
  /\ task' = "wait"
  /\ fresh' = {}
  /\ UNCHANGED <<gfTickCallbackSem, calls>>

-----------------------------------------------------------------------------
Tick_task == TaskWakes \/ TaskScans

Inside(c) == StoreCallback(c) \/ SetStops(c) \/ SetTicker(c) \/ SetRestarts(c)

Next ==
  \/ Tick_task
  \/ \E c \in Clients :
       \/ Create(c) \/ Inside(c)
       \/ \E k \in Ids : Destroy(c, k) \/ Start(c, k) \/ Stop(c, k)
       \/ \E s \in Setting : CallSet(c, s)

Spec == Init /\ [][Next]_vars

(* Threads run. *)
Fairness == WF_vars(Tick_task) /\ \A c \in Clients : WF_vars(Inside(c))

FairSpec == Spec /\ Fairness

-----------------------------------------------------------------------------
(* Properties. *)

(* Every variable has its type: in particular no remaining time is less    *)
(* than zero, where a u32 would wrap around.                               *)
TypeOK ==
  /\ KALTickers \in [Ids -> Ticker]
  /\ gfTickCallbackSem \in 0 .. MaxPosts
  /\ task \in {"wait", "scan"}
  /\ uTimeout \in Nat \cup {Infinity}
  /\ pc \in [Clients -> {"idle", "callback", "stop", "set", "restart"}]
  /\ arg \in [Clients -> Setting \cup Creation \cup {NoCall}]
  /\ fresh \subseteq Ids
  /\ fired \in [Ids -> 0 .. 2]

(* Whatever sets, stops and scans cross, a timer that waits for its start  *)
(* has its whole period before it, and one that runs at most that.  The    *)
(* comment in sk_tick_stop wants it so; the NOTES of sk_tick_start promise *)
(* the opposite of a timer that was stopped: that it keeps the remainder   *)
(* of its timeout.                                                         *)
WholePeriod ==
  \A k \in Ids :
    /\ State(k) = "set" => KALTickers[k].uTimeRemaining = KALTickers[k].uTimeout
    /\ State(k) = "started" => KALTickers[k].uTimeRemaining <= KALTickers[k].uTimeout

(* A single-shot timer calls back once for a start, though sk_tick_set     *)
(* lets the table go while it restarts it.                                 *)
OneShotOnce ==
  \A k \in Ids : State(k) = "started" /\ KALTickers[k].bOneShot => fired[k] = 0

(* No start is overlooked: until tick_task has scanned a timer that was    *)
(* started, it has a permission to wake up, or is awake.                   *)
StartIsSeen == fresh # {} => gfTickCallbackSem > 0 \/ task = "scan"

(* A client between the sections of a call has what it needs at hand. *)
CallShape ==
  \A c \in Clients : /\ pc[c] = "callback" => arg[c] \in Creation
                     /\ pc[c] \in {"stop", "set", "restart"} => arg[c] \in Setting

(* The inductive invariant of SkTimeProof. *)
IInv == TypeOK /\ CallShape /\ WholePeriod /\ OneShotOnce /\ StartIsSeen

(* The wait of tick_task returns when a timer is started or its timeout    *)
(* occurs (comment in tick_task).                                          *)
TimeoutOccurs == (task = "wait" /\ uTimeout # Infinity) ~> task = "scan"

=============================================================================
