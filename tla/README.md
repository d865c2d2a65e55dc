# A TLA+ model of sm_ipc

sm_ipc is a small message-passing runtime in C. *SmallWin* gives application code windows
with procedures, a message queue, a scheduler that dispatches the messages and timers that
send `SMM_TICK`; below it *sk_os* wraps pthreads into semaphores, mutexes, tasks, message
queues, events, timers and a clock. Everything lives in one process and nothing is
persistent, so the hazards are those of threads: lock order, lost wake-ups, values read
outside a lock, handles that outlive what they name, limits of rings and of u32.

The project has TLA+ modules for the components with such hazards, TLC configurations that
check them on small instances, and TLAPS proofs: that the message queue at the centre is an
atomic FIFO, the OS queue a closable bounded queue and the OS event an atomic event, and the
safety properties of windows, window timers, OS timers and tasks. Of the properties that hold,
only the liveness ones are without a proof.
`PROJECT.json` lists every run, every modelled line and every hazard.

## The system

| component | source | state | operations | who calls it | hard behaviour | correct when |
|---|---|---|---|---|---|---|
| message queue | `smmsg.c`, `smmsg.h` | ring, `head`, `tail`, `access`, `sem_event` | send, pop, erase ×2, invalidate, query ×2 | everybody | posts before it publishes; erasures between a post and its pop | atomic bounded FIFO, exact wake-ups |
| windows, scheduler | `smscheduler.c` | list of windows, `sem_system` | create, express, dispatch, destroy | clients, the scheduler, procedures | list walked without lock; handle checked, then used; malloc reuses addresses | list sound, no freed window read, SMM_CREATE first, close ends |
| window timers | `smtick.c` | `tick_list`, `sem_tick` | ticker scan, set, destroy | clients, ticker | two locks nested; look and send in two sections; u32 product | one pending tick, no wrap, ticker goes on |
| OS message queues | `skyapi_que.c` | ring, `refcnt`, `magicnum`, mutex, two conditions | send, receive, destroy, with timeouts | (library) | `if` around the wait; destroy against blocked calls | closable bounded queue, nobody forgotten |
| events | `skyapi_event.c` | `state`, mutex, condition | wait, set, reset, destroy | (library) | signal where several sleep | atomic event, waiters released |
| OS timers | `skyapi_time.c` | `KALTickers`, two semaphores | create, set, start, stop, destroy, scan | (library, `TickCB` thread) | a set gives the lock away; u32 countdown | periods whole, a start is seen, a time that is up fires |
| semaphores | `skyapi_sem.c` | a `sem_t` | lock, lock_timeout, unlock, ... | all of the above | timeout ignored | — (see the timers) |
| tasks | `skyapi_task.c`, `priv_mac.h` | table of threads, its lock | create, wait, destroy, term, wrapper | start-up, all services | slots freed by two threads, names checked without the lock, cancellation | names unique, a wrapper finds, runs and frees what is its own |
| start-up | `skyapi_os.c`, `main.cpp` | none | a fixed order of inits | the process | | not modelled |
| clock, mutexes, memory, logging | `skyapi_time.c`, `skyapi_mutex.c`, `skyapi_mem.c`, `sk_tbx.c` | little or none | | | u32 differences | not modelled |

How they interact: clients and window procedures call `send_message`, which takes
`sem_system` and then `access`; the scheduler thread sleeps on `sem_event`, pops, checks the
handle and runs the window's procedure in its own thread. The ticker takes `sem_tick`, and
`sem_system` inside it to send. `sm_create_smallwin` pushes `SMM_CREATE` with `sem_system`
in hand; `default_sm` unlinks and frees a window under `sem_system` and erases its messages
afterwards. `express_message` runs a procedure in the thread of its caller.

## The modules

| module | is | of |
|---|---|---|
| `Messages` | the `MESSAGE` record and the edits that blank messages | `smmsg.h`, `smmsg.c` |
| `MessageFifo` | specification: atomic bounded FIFO with blanking | the contract of the message queue |
| `SmMsg` | the ring at the granularity of its lock operations | `smmsg.c` with `wait_event`, `signal_event`, `lock_system` |
| `SmMsgProof`, `SmMsgRefines` | TLAPS proofs: invariants of `SmMsg`, and that it implements `MessageFifo` | |
| `SmSched` | windows, list, walk, dispatch, nested procedures | `smscheduler.c` |
| `SmSchedProof` | TLAPS proofs about `SmSched` | |
| `SmTick` | table of ticks, ticker, set, destroy, competing senders | `smtick.c` |
| `SmTickProof` | TLAPS proofs about `SmTick` | |
| `BoundedQueue` | specification: bounded queue that can be closed | what `sk_os.h` promises of queues |
| `SkQueue` | ring, mutex, conditions, destroy | `skyapi_que.c` |
| `SkQueueProof` | TLAPS proofs about `SkQueue` and its refinement | |
| `SyncEvent` | specification: atomic event | what `sk_os.h` promises of events |
| `SkEvent` | state, mutex, condition, destroy | `skyapi_event.c` |
| `SkEventProof` | TLAPS proofs about `SkEvent` and its refinement | |
| `SkTime` | table of timers, client calls, `tick_task` | `skyapi_time.c`, `sk_sem_lock_timeout` |
| `SkTimeProof` | TLAPS proofs about `SkTime` | |
| `SkTask` | table of threads, creators, destroyers, wrappers | `skyapi_task.c`, the slot macros of `priv_mac.h` |
| `SkTaskProof` | TLAPS proofs about `SkTask` | |

Every `MC*` module instantiates the module of its name; each has one or two `.cfg` files.

**State and steps.** C variables keep their names. Each thread has a `pc` whose values are
listed at the head of the module; a step runs from one lock operation to the next, since
between them no other thread can look. Where the code touches shared data without a lock,
each access is a step of its own: the walk of `sm_is_smallwin`, `magicnum` and `refcnt` in
the OS queue, the tests of `is_use` in the table of tasks. In `SmSched` a thread is a stack of frames, because procedures nest.
`SmSched` and `SmTick` use the message queue as the atomic FIFO that `SmMsg` is shown to
implement, so a push is one step there.

**Abstractions.** Messages, handles and addresses are model values; a param is data only
where the code compares it. A handle (`HSM`) is a u32 (`smmsg.h:53`, `82`) into and out of which the
scheduler casts pointers (`smscheduler.c:62`, `141`, `144`); handles and addresses are one set in
the model, and the casts the identity, so a pointer that does not fit into 32 bits is outside of it. History variables (`owner`, `born` in `SmSched`, `fresh`,
`fired` in `SkTime`, `asked`, `mistaken` in `SkTask`) are marked; properties read them, and in `SmSched` also the
environment, to tell free addresses and the handles a caller may hold. A definition commented
*Variant* is a plausible slip in the definition that follows; no specification uses it.

## The runs

| run | instance | shows |
|---|---|---|
| `msgq` | 2 clients, 2 poppers, ring of 3 slots | `EventAccounting`: permissions to pop equal messages, through the early post and all erasures; `PopNeverEmpty`: the else branch of `pop_message` is dead; `ImplementsFifo`: refinement of `MessageFifo` |
| `msgq_live` | 2 clients, 1 popper | `EveryMessageTaken`, `EveryCallReturns`, with the sends to no window and the queries that return early |
| `sched` | 2 clients, queue of 2; 3 windows on 2 addresses, or addresses not used again | `ListSound` for readers without a lock at every step; `NoDangling`; `CreateFirst`; `ClosedInTheEnd` and `CreatedInTheEnd` where addresses are not used again |
| `tick` | 2 clients, 2 slots, u32 of 8 values | `OnePendingTick`, `NoOverflow`, and `DestroyStopsTicks`: what `sm_destroy_tick` does to everybody; `TickerGoesOn`, `TickComes` where no timer is destroyed |
| `queue` | 3 users in three usages, 1 destroyer, 2 messages | `ImplementsQueue`: refinement of `BoundedQueue` with one waiter a side; `NoForgottenSleeper`; `RefcntExact`; `DestroyEnds` |
| `queue_overrun` | 2 waiting senders, queue of 1 | *violated*: `StoredIsSeen` |
| `event` | 4 threads that reset, 1 destroyer | `ImplementsEvent`: refinement of `SyncEvent`; `NoForgottenWaiter` |
| `event_manual` | 3 threads that do not reset | *violated*: `AllWaitersReleased` |
| `time` | 2 clients, 2 timers | `WholePeriod` (against the NOTES of `sk_tick_start`) and no u32 wrap (`TypeOK`), `OneShotOnce`, `StartIsSeen` |
| `time_timeout` | 1 client, 2 timers | *violated*: `TimeoutOccurs` |
| `task` | 1 client that creates and destroys, 1 that waits, 2 pthreads, table of 2, 3 creations | `UniqueNames`, `LookupFindsTask`, `OwnThread`, `FreesOwnSlot`, `RunsOwnFunction` between the wrapper, the destroyer and the canceller, with `pthread_t`s given out again; `TasksStart`, `DestroyReturns` |
| `task_destroy` | the same | *violated*: `DestroyEndsTask` |

In `SmSched`, `SmTick`, `SkQueue` and `SkTask` who makes which calls is a variable, `usage`,
that `Init` chooses from a set (`MCUsages` in the `MC` modules) and no step changes: one run
covers several kinds of use.

**Bounds and why they are enough.** A ring of three slots is full, empty and wrapped within
a few steps, and holds an erased message beside a live one. Two clients and two
poppers are the least with which pushes, edits and pops overtake each other on both sides.
Three windows on two addresses make malloc hand an address out a second time while old
handles are about; two frames let a procedure send, create or express from inside another
(`MaxWindows`, `MaxDepth`). A u32 of eight values with scans of two wraps after four scans.
`Periods` of the timers are met exactly, early or late by a scan (`MaxElapsed`); `MaxPosts`
bounds the starts that `tick_task` has not yet noticed. Three tasks (`MaxTasks`) in two
slots, with two names and two pthreads, take a slot, a name and a pthread again while another
wrapper still runs. Symmetry (`Symmetric`) permutes
threads of one kind, and is used by runs of safety properties only.

**Fairness and why the code justifies it.** A running thread goes on (weak fairness of the
steps inside a call). Nobody need call anything, except that `smallwin_scheduler` and
`sm_ticker` loop for ever. A semaphore does not starve a waiter for ever (strong fairness
of the acquisitions in `SmMsg` and `SmTick`): the loops that could overtake sleep between
two rounds (`sk_task_delay` in `send_message`, in the scheduler and in the ticker).
`SkQueue`, `SkEvent`, `SkTime`, `SkTask` and `SmSched` need no more than weak fairness.

In `SkTask` no function of a task has to return or to call `sk_task_term`: `Return` and `CurId`
have no fairness, because the functions of the repository, the scheduler's loop
(`smscheduler.c:194`), the ticker's and that of `tick_task` (`skyapi_time.c:534`-`571`), never end.
What is fair is the wrapper around them, and a cancellation once it is on its way, which
`wrap_task_fun` makes asynchronous before it calls the function. So `DestroyReturns` says nothing
of a task that runs for ever: `sk_task_destroy` only joins, and waits for it as long. It says
that the join ends once the thread is cancelled or is past its function.

**Deadlock** is checked except in `queue` and `event`, where after a destroy the object is
freed and the model stands still, because what a call on freed memory does is undefined, and
in `task`, where a thread that is cancelled inside the table lock keeps it.

## What the runs say about the code

Four runs that TLC finds violated, and one that passes, show the code doing otherwise than its
documentation says:

1. `queue_overrun`: `sk_queue_send_ex` tests for a full ring with `if` (line 330), not
   `while`. A sender is woken for a free slot; another one takes the slot before it has the
   mutex; it stores all the same, `write` meets `read`, and a full ring reads as empty. The
   receiver has the same test at line 410.
2. `event_manual`: `sk_event_set` signals one waiter. With `is_not_auto_reset` the event
   stays set and the other waiters sleep on, though `sk_os.h` lets several threads wait.
3. `time_timeout`: `sk_sem_lock_timeout` calls `sem_wait` whatever its timeout
   (`skyapi_sem.c:121`), so `tick_task` scans only when another timer is started.
4. `task_destroy`: `sk_task_destroy` frees the slot before it joins (`skyapi_task.c:486`). A
   thread that has not yet looked for its slot never finds it: `wrap_task_fun` loops over the
   table for ever (line 88), and so `pthread_join` waits for ever.
5. `time`: the NOTES of `sk_tick_start` (`skyapi_time.c:321`-`327`) promise that a timer started
   after a stop keeps "the remainder of the timeout". Both `sk_tick_stop` (line 391) and
   `sk_tick_start` (line 360) give it the whole one, as the comment in `sk_tick_stop` (line 387)
   wants it. `WholePeriod` says what the code does, and holds.

Limits of what holds, found with other values of the constants:

- `ListSound` and `NoDangling` need two things of the application that the code does not enforce.
  No client makes an `express` call: one that expresses `SMM_CLOSE` frees a window between the
  scheduler's check of the handle and its use. And no procedure that handles `SMM_CLOSE` expresses
  `SMM_CLOSE` to its own window: `express_message` (lines 67-74) lets it, the inner `run_sm` frees
  the window, and the outer `default_sm` unlinks and frees it again. The usages say so: `recloses`
  is `FALSE` in both of the run; with `TRUE` the model makes the second destroy.
- `sm_destroy_tick` ends with a second lock where the unlock is meant (`smtick.c:133`).
  `DestroyStopsTicks` says what follows; the liveness of the ticker is claimed without it.
- `ClosedInTheEnd` and `CreatedInTheEnd` need a usage without `reuse`: `default_sm` erases the
  messages of a window after it freed it, so a new window at that address loses its own.
- The OS queue can be freed under a caller that has passed the test of `magicnum` and has
  not counted itself in `refcnt` yet. No document says who has to prevent that, so it is
  listed as a hazard and calls stand still after the free.
- `ImplementsQueue` and `NoForgottenSleeper` need `WaitersAlone`, that whoever may wait on a side is the
  only caller there, and no return of `pthread_cond_wait` without a signal (`SkQueue` has
  none; `SkEvent`, whose wait is a loop, has them).
- `sk_queue_create_ex` accepts `max_msg_count = 0`. Such a ring has one slot, is never full and
  always empty: it accepts every message and holds none. `ImplementsQueue` needs more than zero.
- `UniqueNames` needs one creator: `sk_check_task_name` reads the table without the lock, and
  with two creators both may find a name free. (Its loop is one step of the model.)
- `FreesOwnSlot`, `OwnThread` and `RunsOwnFunction` need one thread that creates and destroys: a
  destroyer that has not joined yet would otherwise join a later task that was given the same
  `pthread_t`, and a late wrapper free a slot that was taken during the join.
- A slot that is freed keeps its `pthread_t`, and pthreads give the value out again. Task A
  returns in slot 0 while B is being created in slot 1; B's thread gets A's `pthread_t`; the creation
  of C takes slot 0, which still holds it; B's wrapper looks for itself, finds slot 0 and runs the
  function it finds there, A's. TLC finds this if `mistaken` is left out of the properties. `mistaken` is set when a
  creator takes a slot that holds the `pthread_t` of a thread that may still search (`HeldBySeeker`),
  and the three properties say what is true until then. So they show that it takes such an
  order for a thread to mistake its slot, and that giving `pthread_t`s out again does no harm before.
- `sk_task_wait` cancels the thread it is said to wait for, asynchronously, so the table lock can be
  lost; `TasksStart` and `DestroyReturns` except that.
- `sk_os.h` requires `sk_os_init` before any call; `main.cpp` does not make it.

## What is proved

`SmMsgProof` proves for every finite set of threads, every set of calls and every capacity
(`ThreadSets`, `Capacity`, `RequestSet`, `NullValues` are the assumptions):

| theorem | says |
|---|---|
| `TypeCorrect` | `Spec => []TypeOK`: indices in the ring, binary mutexes |
| `EventsMatchMessages` | `Spec => []EventAccounting` |
| `PopFindsMessage` | `Spec => []PopNeverEmpty` |
| `RingMutualExclusion` | `Spec => []AccessMutex` |
| `Invariance` | `Spec => []IInv`, from which the others follow |

**The argument.** `EventAccounting` is not inductive alone. A post happens in the step that
makes its thread a *publisher* (slot filled, tail not moved), the tail moves in the step
that ends that, and passing `sem_event` makes a thread a *claimant* until it moves the head:
the sum stays balanced if each of those steps changes the number of messages by exactly
one. That needs the ring to have room still when the tail moves (`RoomToAdvance`), which
needs that nobody else changed the ring since the test (`AccessMutex`, `SystemMutex`),
which needs to know which call a thread at a given place is in (`CallShape`). `IInv` is
their conjunction with `TypeOK`; there is one lemma per action. Lemmas on the ring
(`WrapInRing`, `CountBounds`, `AdvanceTailCounts`, `AdvanceHeadCounts`) and on the counted
sets (`MoveOne`, `FiniteCounts`) carry the arithmetic. `PopNeverEmpty` then follows: a
popper with `access` is a claimant and excludes publishers, so there is a message.

`SkTimeProof` proves for any clients, timers, periods and bounds (`Numbers`,
`CallIsNoSetting`):

| theorem | says |
|---|---|
| `TypeCorrect` | `Spec => []TypeOK`: no countdown passes below zero, where a u32 would wrap |
| `PeriodStaysWhole` | `Spec => []WholePeriod` |
| `FiresOnce` | `Spec => []OneShotOnce` |
| `NoStartOverlooked` | `Spec => []StartIsSeen` |

The invariants support each other there (a callback may set a timer back because its period
is a natural; a countdown stops at zero because a timer with less left is expired), so
`IInv` is their conjunction with `CallShape`, the call of a client inside `sk_tick_create` or
`sk_tick_set`. A
step of a client changes one timer: `Changed` and `ResetSound` do the work once for all of
them. The scan changes every timer, by the lemma `ScannedTicker`.

`SmMsgRefines` adds `Implements`: `Spec => ImplementsFifo`, that the ring refines
`MessageFifo`, for any threads, calls and capacity. A call takes effect where its result is
decided. The proof needs two facts beyond `IInv` (`Answers`): a call has no result before
that step, and the slot that a sender filled keeps its message until the tail covers it.
`PendingIs`, `AppendsMessage`, `TakesMessage`, `EditsMessages` and `FindsMessages` say what the
arithmetic of the ring does to the sequence of pending messages.

`SmSchedProof`:

| theorem | says |
|---|---|
| `CreateAlwaysFirst` | `Spec => []CreateFirst`, for all usages |
| `TypeCorrect` | `Spec => []TypeOK` |
| `ListAlwaysSound` | `Spec => []ListSound` |
| `NothingDangles` | `Spec => []NoDangling` |

The last three assume `OneDestroyer`, that no client expresses, and `NobodyRecloses`, that no
procedure expresses `SMM_CLOSE` to a window it is closing; the code refuses neither. `CreateFirst` rests on
`Excludes` (`sem_system` has one holder) and `Newest` (a window that is linked and not
announced is in no message, since a send to it would need `sem_system`). For the list,
`LInv` says that there *is* a sequence of windows, by age, whose neighbours `next` and `prev`
give (`IsList`), that the linked windows are its elements, and that every frame of the
scheduler's thread relies only on what is linked, no window being closed by two of them
(`Behaved`). A creation appends to the sequence, a destroy removes one element.

`SmTickProof` (any clients, windows, sizes of the table, the queue and u32):

| theorem | says |
|---|---|
| `TypeCorrect` | `Spec => []TypeOK` |
| `ProductsDoNotWrap` | `Spec => []NoOverflow` |
| `DestroyStops` | `Spec => []DestroyStopsTicks` |
| `TicksDoNotPileUp` | `Spec => []OnePendingTick` |

For the first three, `IInv` is `TypeOK` with the exclusion of both semaphores (`TickExcludes`,
`SystemExcludes`), the call a thread is in (`Roles`) and `NoOverflow`. `OnePendingTick` is harder:
the ticker searches the queue for a tick *with the count it would send* and sends in a later
section, where the queue is another. `Pending` makes it inductive. A slot that is due keeps its
count, and no smaller count was due (`NotDueBefore`): so there is one count with which a slot
can be due at all, every pending tick of the slot carries that one (`CarriesFirstDue`), and the
search finds it (`SearchFindsAny`). Between search and send the slot stays as it was, because
the ticker keeps `sem_tick`, and nobody else sends ticks (`SeenStillHolds`). A slot taken anew
must not meet ticks of its last use, which `sm_destroy_tick` leaves in the queue: what keeps
`sm_set_tick` from taking it is the semaphore that it never gives back (`FreshSlots`). The
theorem so rests on the slip at `smtick.c:133`: with an unlock there instead, TLC finds a slot
that is taken again with the ticks of its last timer pending.

`SkEventProof` (any threads): `TypeCorrect`; `Implements`, `Spec => ImplementsEvent`, the
refinement of `SyncEvent`; `NobodyForgotten`, under the assumption `WaitersReset` that waiters
reset the event. `IInv` is `TypeOK` and `Shape`, which ties the mutex to the place of its holder.

`SkQueueProof` (any users, usages, sizes):

| theorem | says | if |
|---|---|---|
| `TypeCorrect` | `Spec => []TypeOK` | |
| `RefcntCounts` | `Spec => []RefcntExact` | |
| `SleepersAreWoken` | `Spec => []NoForgottenSleeper` | `WaitersAlone` |
| `Implements` | `Spec => ImplementsQueue` | `WaitersAlone`, `max_msg_count > 0` |
| `StoredAreSeen` | `Spec => StoredIsSeen` | the same |

The first two rest on `Shape` and the count of the threads between `Enter` and their return
(`Holders`). For the others the question is why an `if` around the wait is enough. `Waits` says
it: a sleeper is blocked, and a caller that was signalled, or has passed its test, is *not*
blocked any more until it acts (`Room`). Another caller could spoil that only by taking the
slot, or the message, on the same side; but who waits is alone on its side (`Alone`), and the
other side only makes room. `Mutexed`, `CallsKept`, `Timeouts`, `Told` and `Marked` say who holds the
mutex, which call a thread is in and what it may answer. With `Room`, each `StoreMsg` appends to `Items` and each `FetchMsg` takes
its head (`StoreAppends`, `FetchTakes`, from the arithmetic of the ring in `OccupiedIs`), a
refused or late call gives up as the specification lets it, and a destroy closes.
`StoredIsSeen` is the property that `queue_overrun` shows violated: the theorem says that two
waiters on a side are what it takes.

`SkTaskProof` (any clients, threads, calls, sizes):

| theorem | says | if |
|---|---|---|
| `TypeCorrect` | `Spec => []TypeOK` | |
| `NamesUnique`, `LookupRight` | `[]UniqueNames`, `[]LookupFindsTask` | `OneNamer`: one thread creates |
| `ThreadOwned`, `FreesOwn`, `FunctionRight` | `[]OwnThread`, `[]FreesOwnSlot`, `[]RunsOwnFunction` | `OneManager`: it also destroys, alone |

For the names, `NamesKept(m)` follows a creation of the creator `m` from the check without the
lock to its last section (`Entering`): no task, and no slot before its own, has the name it is
about to enter. What others do meanwhile only frees slots, even that of `m`, and a freed slot
stays free until `m` takes it (`FreesOnly`). So it needs nothing of destroyers, wrappers and
`pthread_t`s, and is proved in this generality, while the run has one usage.

The other three hold until a creator is `mistaken`, and `IInv` is `TypeOK` and, before that, `Managed(m)`:
nobody but `m` creates or destroys, no two slots hold one task's thread or one id (`Unshared`), the
slot that `m` fills stays in use (`Filling`), a task has a thread that exists and that `m` is not
joining (`Owned`), and a wrapper that lives has a slot of its own, in use or with `m` waiting to join
it (`Living`), while every used slot that holds the `pthread_t` of a searching thread is a task's
(`Findable`), and so its own. Only
`GetFree` can put such a slot into the way of a thread that searches (`FindableStays`), and that is
when it sets `mistaken`, which stays (`MistakenStays`).

**Only model-checked** is liveness, which is out of the prover's reach: `EveryMessageTaken`,
`EveryCallReturns`, `ClosedInTheEnd`, `CreatedInTheEnd`, `TickerGoesOn`, `TickComes`, `DestroyEnds`,
`TasksStart` and `DestroyReturns`. Every safety property of a run that passes is stated by a
theorem, under the assumptions given here and with no bound on threads, calls or sizes.

## Not modelled

- Tasks: priorities, status, `sk_task_delay`, `sk_task_kill` (does nothing), suspend and resume
  (a `SIGSTOP`, which stops the whole process).
- Start-up, the clock and its differences, `sk_tick_get_info`, `sk_mutex_*`, logging.
- Message sizes in the OS queue; failures of malloc and of pthread calls in constructors,
  except that `pthread_create` may fail. Names of timers, which nothing reads: of the three sections
  of `sk_tick_create` the second only stores the name, and `SkTime` has the other two.

Memory appears as the reuse of addresses (`reuse` of a usage). `SkTime`
has no clock, so it does not tell *when* a timer fires, only how often and after which events.

## Plan

1. The u32 clock difference across its wrap, against the modular difference; a clock in
   `SkTime`, to tell early firings.
2. `SmTick` composed with the list of windows: ticks for freed handles.
3. Message sizes in `SkQueue`.
4. A run of `SkTask` in which creator and destroyer are two, for the properties that the
   theorems give under `OneNamer`.
