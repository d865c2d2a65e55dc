------------------------------- MODULE SkTask -------------------------------
(***************************************************************************)
(* OS tasks (skyapi_task.c): the table of threads, with the macros of      *)
(* priv_mac.h that allot and free its slots, the calls that create, wait   *)
(* for, destroy and end tasks, and the wrapper every task starts in.       *)
(*                                                                         *)
(* What is between LOCK_SOURCE and UNLOCK_SOURCE is one step.  The look at *)
(* the table in sk_check_task_name and the tests of is_use in              *)
(* set_name_thread_info and set_free_thread_info take no lock: they are    *)
(* steps of their own, and others come between them and what they decide.  *)
(*                                                                         *)
(* A task has the function of its name, which calls nothing but            *)
(* sk_task_term and may run for ever.  pthread_create gives out any        *)
(* pthread_t that no thread has.  Priorities and suspension are left out.  *)
(***************************************************************************)
EXTENDS Integers

CONSTANTS
  Clients,            (* Threads that call, made by others.                *)
  Pthreads,           (* The values of pthread_t for tasks.                *)
  Names,
  Usages,             (* The calls each client makes.                      *)
  MAX_THREAD_COUNT,
  MaxTasks,           (* Bound: tasks ever created.                        *)
  Nothing             (* The zero of names and pthread_t's.                *)

Request == [op : {"create"}, name : Names] \cup [op : {"wait", "destroy"}, name : {Nothing}]

ASSUME Sets ==
  /\ Clients \cap Pthreads = {}
  /\ Nothing \notin Names \cup Clients \cup Pthreads
  /\ Usages \subseteq [Clients -> SUBSET Request]

ASSUME Sizes == MAX_THREAD_COUNT \in Nat \ {0} /\ MaxTasks \in Nat

VARIABLES
  os_thread_info,
  sem_thread_id,      (* The lock of the table.                            *)
  pid,                (* The last id given to a task.                      *)
  usage,              (* The calls each client makes: never changes.       *)
  pc,                 (* Where each thread is; "none" is no thread.        *)
  slot,               (* pInfo of a creator, i of a wrapper.               *)
  name,               (* p_task_name of a creator.                         *)
  peer,               (* pth_t of sk_task_wait and sk_task_destroy.        *)
  cur_task_id,        (* Of sk_task_term.                                  *)
  cancelled,          (* Threads with a cancellation on its way.           *)
  asked,              (* History: the function a thread was created for.   *)
  runs,               (* The function it has called.                       *)
  mistaken            (* Has a creator taken a slot with the pthread_t of *)
                      (* a thread that may still search for its own?      *)

table == <<os_thread_info, sem_thread_id, pid>>
locals == <<slot, name, peer, cur_task_id>>
tasks == <<cancelled, asked, runs, mistaken>>
vars == <<os_thread_info, sem_thread_id, pid, usage, pc, slot, name, peer, cur_task_id,
          cancelled, asked, runs, mistaken>>

Threads == Clients \cup Pthreads

Slots == 0 .. MAX_THREAD_COUNT - 1

(***************************************************************************)
(* Where a thread is:                                                      *)
(*   idle               (client) in none of the functions                  *)
(*   get, name, named,  in sk_task_create: at get_free_thread_info, at the *)
(*   create             test and the lock of set_name_thread_info, at the  *)
(*                      last section                                       *)
(*   cancel             in sk_task_wait, at pthread_cancel                 *)
(*   join, joining      in sk_task_destroy, at and in pthread_join         *)
(*   free, freeing      at the test and the lock of set_free_thread_info   *)
(*   look, found, run   (task) in wrap_task_fun, before its slot is found, *)
(*                      before and in the function                         *)
(*   term               in sk_task_term, between its two sections          *)
(*   detach             at pthread_detach                                  *)
(*   ended              to be joined                                       *)
(*   none               no such thread                                     *)
(***************************************************************************)
Goto(t, place) == pc' = [pc EXCEPT ![t] = place]

IsUse(i) == os_thread_info[i].is_use

First(i, S) == i \in S /\ \A j \in S : i <= j

Unlocked == sem_thread_id = 1

Init ==
  /\ os_thread_info = [i \in Slots |-> [is_use |-> FALSE, str_name |-> Nothing, thread_id |-> Nothing,
                                        task_fun |-> Nothing, task_sk_id |-> 0]]
  /\ sem_thread_id = 1
  /\ pid = 0
  /\ usage \in Usages
  /\ pc = [t \in Threads |-> IF t \in Clients THEN "idle" ELSE "none"]
  /\ slot = [t \in Threads |-> 0]
  /\ name = [c \in Clients |-> Nothing]
  /\ peer = [c \in Clients |-> Nothing]
  /\ cur_task_id = [p \in Pthreads |-> 0]
  /\ cancelled = {}
  /\ asked = [p \in Pthreads |-> Nothing]
  /\ runs = [p \in Pthreads |-> Nothing]
  /\ mistaken = FALSE

-----------------------------------------------------------------------------
(* sk_task_create *)

(* Variant: names are not compared. *)
IsTakenNever(n) == FALSE

IsTaken(n) == \E i \in Slots : IsUse(i) /\ os_thread_info[i].str_name = n

(* sk_check_task_name, without the lock; a name that is taken is refused. *)
CheckName(c, n) ==
  /\ pc[c] = "idle"
  /\ ~ IsTaken(n)
  /\ Goto(c, "get")
  /\ name' = [name EXCEPT ![c] = n]
  /\ UNCHANGED <<table, usage, slot, peer, cur_task_id, tasks>>

FreeSlots == {i \in Slots : ~ IsUse(i)}

(* Variant: the search goes down from the last slot. *)
LastFree(i) == i \in FreeSlots /\ \A j \in FreeSlots : j <= i

FirstFree(i) == First(i, FreeSlots)

(* Slots keep their pthread_t as they are freed, and pthread_create may    *)
(* give it to another thread, which looks for itself in the whole table.   *)
HeldBySeeker(i) ==
  \E p \in Pthreads : os_thread_info[i].thread_id = p /\ pc[p] \in {"look", "found", "run"}

(* get_free_thread_info: the first free slot; a full table ends the call. *)
GetFree(c) ==
  /\ pc[c] = "get"
  /\ Unlocked
  /\ \/ \E i \in Slots :
          /\ FirstFree(i)
          /\ os_thread_info' = [os_thread_info EXCEPT ![i].is_use = TRUE]
          /\ slot' = [slot EXCEPT ![c] = i]
          /\ mistaken' = (mistaken \/ HeldBySeeker(i))
          /\ Goto(c, "name")
          /\ UNCHANGED name
     \/ /\ FreeSlots = {}
        /\ Goto(c, "idle")
        /\ name' = [name EXCEPT ![c] = Nothing]
        /\ UNCHANGED <<os_thread_info, slot, mistaken>>
  /\ UNCHANGED <<sem_thread_id, pid, usage, peer, cur_task_id, cancelled, asked, runs>>

(* set_name_thread_info: its test, whose failure nobody looks at, ... *)
TestName(c) ==
  /\ pc[c] = "name"
  /\ Goto(c, IF IsUse(slot[c]) THEN "named" ELSE "create")
  /\ UNCHANGED <<table, usage, locals, tasks>>

(* ... and its section *)
SetName(c) ==
  /\ pc[c] = "named"
  /\ Unlocked
  /\ os_thread_info' = [os_thread_info EXCEPT ![slot[c]].str_name = name[c]]
  /\ Goto(c, "create")
  /\ UNCHANGED <<sem_thread_id, pid, usage, locals, tasks>>

(* Variant: a slot keeps the function of its first task. *)
FunKept(c) == IF os_thread_info[slot[c]].task_fun = Nothing THEN name[c] ELSE os_thread_info[slot[c]].task_fun

(* The function of the task a client creates. *)
Fun(c) == name[c]

(* pthread_create gives a thread that waits for the lock in wrap_task_fun. *)
CreateThread(c, p) ==
  /\ pc[c] = "create"
  /\ Unlocked
  /\ pid < MaxTasks
  /\ pc[p] = "none"
  /\ os_thread_info' = [os_thread_info EXCEPT ![slot[c]].task_fun = Fun(c),
                                              ![slot[c]].thread_id = p,
                                              ![slot[c]].task_sk_id = pid + 1]
  /\ pid' = pid + 1
  /\ pc' = [pc EXCEPT ![c] = "idle", ![p] = "look"]
  /\ slot' = [slot EXCEPT ![c] = 0]
  /\ name' = [name EXCEPT ![c] = Nothing]
  /\ asked' = [asked EXCEPT ![p] = name[c]]
  /\ UNCHANGED <<sem_thread_id, usage, peer, cur_task_id, cancelled, runs, mistaken>>

(* pthread_create fails *)
CreateFails(c) ==
  /\ pc[c] = "create"
  /\ Unlocked
  /\ os_thread_info' = [os_thread_info EXCEPT ![slot[c]].task_fun = Fun(c)]
  /\ Goto(c, "free")
  /\ UNCHANGED <<sem_thread_id, pid, usage, locals, tasks>>

-----------------------------------------------------------------------------
(* set_free_thread_info, of a creator that failed or of a wrapper *)

(* Variant: the wrapper goes round its loop again. *)
AfterFreeLoops(t) == IF t \in Clients THEN "idle" ELSE "look"

AfterFree(t) == IF t \in Clients THEN "idle" ELSE "detach"

Forgets(t) ==
  /\ slot' = [slot EXCEPT ![t] = 0]
  /\ name' = [c \in Clients |-> IF c = t THEN Nothing ELSE name[c]]

(* Its test, without the lock, ... *)
TestFree(t) ==
  /\ pc[t] = "free"
  /\ IF IsUse(slot[t])
     THEN Goto(t, "freeing") /\ UNCHANGED <<slot, name>>
     ELSE Goto(t, AfterFree(t)) /\ Forgets(t)
  /\ UNCHANGED <<table, usage, peer, cur_task_id, tasks>>

(* ... and its section *)
SetFree(t) ==
  /\ pc[t] = "freeing"
  /\ Unlocked
  /\ os_thread_info' = [os_thread_info EXCEPT ![slot[t]].is_use = FALSE]
  /\ Goto(t, AfterFree(t))
  /\ Forgets(t)
  /\ UNCHANGED <<sem_thread_id, pid, usage, peer, cur_task_id, tasks>>

-----------------------------------------------------------------------------
(* wrap_task_fun and sk_task_term *)

(* Variant: the search stops one slot too early. *)
OwnButLast(p) == {i \in Slots : i < MAX_THREAD_COUNT - 1 /\ os_thread_info[i].thread_id = p /\ IsUse(i)}

Own(p) == {i \in Slots : os_thread_info[i].thread_id = p /\ IsUse(i)}

(* The wrapper looks for its slot; it tries again for ever, with a delay,  *)
(* if there is none.                                                       *)
Look(p) ==
  /\ pc[p] = "look"
  /\ Unlocked
  /\ \/ \E i \in Slots : First(i, Own(p)) /\ slot' = [slot EXCEPT ![p] = i] /\ Goto(p, "found")
     \/ Own(p) = {} /\ UNCHANGED <<slot, pc>>
  /\ UNCHANGED <<table, usage, name, peer, cur_task_id, tasks>>

(* It reads the function without the lock. *)
Start(p) ==
  /\ pc[p] = "found"
  /\ runs' = [runs EXCEPT ![p] = os_thread_info[slot[p]].task_fun]
  /\ Goto(p, "run")
  /\ UNCHANGED <<table, usage, locals, cancelled, asked, mistaken>>

(* Variant: the slot is left to whoever destroys the task. *)
ReturnUnfreed(p) ==
  /\ pc[p] = "run"
  /\ Goto(p, "detach")
  /\ UNCHANGED <<table, usage, locals, tasks>>

Return(p) ==
  /\ pc[p] = "run"
  /\ Goto(p, "free")
  /\ UNCHANGED <<table, usage, locals, tasks>>

(* sk_task_term: sk_task_cur_id; no slot, and the function goes on. *)
CurId(p) ==
  /\ pc[p] = "run"
  /\ Unlocked
  /\ \E i \in Slots :
       /\ First(i, Own(p))
       /\ cur_task_id' = [cur_task_id EXCEPT ![p] = os_thread_info[i].task_sk_id]
  /\ Goto(p, "term")
  /\ UNCHANGED <<table, usage, slot, name, peer, tasks>>

(* get_task_info: the first slot with the id, used or not *)
HasId(i, id) == First(i, {j \in Slots : os_thread_info[j].task_sk_id = id})

(* sk_task_term: its second section *)
Terminate(p) ==
  /\ pc[p] = "term"
  /\ Unlocked
  /\ IF \E i \in Slots : HasId(i, cur_task_id[p])
     THEN /\ \E i \in Slots :
               /\ HasId(i, cur_task_id[p])
               /\ os_thread_info' = [os_thread_info EXCEPT ![i].is_use = FALSE]
          /\ Goto(p, "detach")
     ELSE Goto(p, "run") /\ UNCHANGED os_thread_info
  /\ cur_task_id' = [cur_task_id EXCEPT ![p] = 0]
  /\ UNCHANGED <<sem_thread_id, pid, usage, slot, name, peer, tasks>>

Joined(p) == \E c \in Clients : pc[c] = "joining" /\ peer[c] = p

(* Nothing is left of a thread but what pthread_join needs. *)
Ends(p, place) ==
  /\ Goto(p, place)
  /\ slot' = [slot EXCEPT ![p] = 0]
  /\ cur_task_id' = [cur_task_id EXCEPT ![p] = 0]
  /\ cancelled' = cancelled \ {p}
  /\ asked' = [asked EXCEPT ![p] = Nothing]
  /\ runs' = [runs EXCEPT ![p] = Nothing]
  /\ UNCHANGED <<pid, usage, name, peer, mistaken>>

(* pthread_detach, which fails if somebody joins already, and pthread_exit *)
Detach(p) ==
  /\ pc[p] = "detach"
  /\ Ends(p, IF Joined(p) THEN "ended" ELSE "none")
  /\ UNCHANGED <<os_thread_info, sem_thread_id>>

(* The thread is cancelled, at sem_wait or, later on, anywhere: ... *)
CancelTakesEffect(p) ==
  /\ p \in cancelled
  /\ Ends(p, "ended")
  /\ UNCHANGED <<os_thread_info, sem_thread_id>>

(* ... in a section too, and then the lock is never given back. *)
CancelledInside(p) ==
  /\ p \in cancelled
  /\ \/ pc[p] \in {"run", "term", "freeing"}
     \/ pc[p] = "look" /\ Own(p) # {}
  /\ Unlocked
  /\ sem_thread_id' = 0
  /\ Ends(p, "ended")
  /\ \/ UNCHANGED os_thread_info
     \/ pc[p] = "freeing" /\ os_thread_info' = [os_thread_info EXCEPT ![slot[p]].is_use = FALSE]
     \/ /\ pc[p] = "term"
        /\ \E i \in Slots : /\ HasId(i, cur_task_id[p])
                            /\ os_thread_info' = [os_thread_info EXCEPT ![i].is_use = FALSE]

-----------------------------------------------------------------------------
(* sk_task_wait and sk_task_destroy of a task by its id *)

(* The section they start with: the id is known and its slot in use. *)
Finds(c, id, i) == pc[c] = "idle" /\ Unlocked /\ HasId(i, id) /\ IsUse(i)

(* Variant: the id of the task for that of its thread. *)
PeerById(c, i) == peer' = [peer EXCEPT ![c] = os_thread_info[i].task_sk_id]

PeerOf(c, i) == peer' = [peer EXCEPT ![c] = os_thread_info[i].thread_id]

CallWait(c, id) ==
  /\ \E i \in Slots : Finds(c, id, i) /\ PeerOf(c, i)
  /\ Goto(c, "cancel")
  /\ UNCHANGED <<table, usage, slot, name, cur_task_id, tasks>>

(* It does not wait: it cancels the thread and returns. *)
Cancel(c) ==
  /\ pc[c] = "cancel"
  /\ cancelled' = cancelled \cup {p \in Pthreads : p = peer[c] /\ pc[p] \notin {"none", "ended"}}
  /\ peer' = [peer EXCEPT ![c] = Nothing]
  /\ Goto(c, "idle")
  /\ UNCHANGED <<table, usage, slot, name, cur_task_id, asked, runs, mistaken>>

CallDestroy(c, id) ==
  /\ \E i \in Slots :
       /\ Finds(c, id, i)
       /\ PeerOf(c, i)
       /\ os_thread_info' = [os_thread_info EXCEPT ![i].is_use = FALSE]
  /\ Goto(c, "join")
  /\ UNCHANGED <<sem_thread_id, pid, usage, slot, name, cur_task_id, tasks>>

(* Variant: the thread is not joined. *)
JoinSkipped(c) ==
  /\ pc[c] = "join"
  /\ Goto(c, "idle")
  /\ peer' = [peer EXCEPT ![c] = Nothing]
  /\ UNCHANGED <<table, usage, slot, name, cur_task_id, tasks>>

(* pthread_join: an error if the thread is gone, or joined by another *)
Join(c) ==
  /\ pc[c] = "join"
  /\ IF \E p \in Pthreads : p = peer[c] /\ pc[p] # "none" /\ ~ Joined(p)
     THEN Goto(c, "joining") /\ UNCHANGED peer
     ELSE Goto(c, "idle") /\ peer' = [peer EXCEPT ![c] = Nothing]
  /\ UNCHANGED <<table, usage, slot, name, cur_task_id, tasks>>

(* Its pthread_t may be given out again. *)
JoinEnds(c) ==
  /\ pc[c] = "joining"
  /\ pc[peer[c]] = "ended"
  /\ pc' = [pc EXCEPT ![c] = "idle", ![peer[c]] = "none"]
  /\ peer' = [peer EXCEPT ![c] = Nothing]
  /\ UNCHANGED <<table, usage, slot, name, cur_task_id, tasks>>

-----------------------------------------------------------------------------
Calls(c, op) == {r \in usage[c] : r.op = op}

Inside(c) ==
  \/ GetFree(c) \/ TestName(c) \/ SetName(c) \/ TestFree(c) \/ SetFree(c)
  \/ CreateFails(c) \/ \E p \in Pthreads : CreateThread(c, p)
  \/ Cancel(c) \/ Join(c) \/ JoinEnds(c)

(* What a task does outside of its function. *)
Wrapper(p) == Look(p) \/ Start(p) \/ TestFree(p) \/ SetFree(p) \/ Terminate(p) \/ Detach(p)

Next ==
  \/ \E c \in Clients :
       \/ Inside(c)
       \/ \E r \in Calls(c, "create") : CheckName(c, r.name)
       \/ \E id \in 1 .. pid :
            \/ Calls(c, "wait") # {} /\ CallWait(c, id)
            \/ Calls(c, "destroy") # {} /\ CallDestroy(c, id)
  \/ \E p \in Pthreads :
       Wrapper(p) \/ Return(p) \/ CurId(p) \/ CancelTakesEffect(p) \/ CancelledInside(p)

Spec == Init /\ [][Next]_vars

(* Threads run, and a cancellation gets to its thread, since wrap_task_fun *)
(* makes it asynchronous before the function, and waits at sem_wait and    *)
(* sleeps before that.  No function has to return or to call sk_task_term: *)
(* the ones of the repository are loops without an end.                    *)
Fairness == /\ \A c \in Clients : WF_vars(Inside(c))
            /\ \A p \in Pthreads : WF_vars(Wrapper(p) \/ CancelTakesEffect(p))

FairSpec == Spec /\ Fairness

-----------------------------------------------------------------------------
(* Properties. *)

Places == {"idle", "get", "name", "named", "create", "cancel", "join", "joining", "free", "freeing",
           "look", "found", "run", "term", "detach", "ended", "none"}

Info == [is_use : BOOLEAN, str_name : Names \cup {Nothing}, thread_id : Pthreads \cup {Nothing},
         task_fun : Names \cup {Nothing}, task_sk_id : 0 .. MaxTasks]

(* Every variable has its type. *)
TypeOK ==
  /\ os_thread_info \in [Slots -> Info]
  /\ sem_thread_id \in {0, 1}
  /\ pid \in 0 .. MaxTasks
  /\ usage \in Usages
  /\ pc \in [Threads -> Places]
  /\ slot \in [Threads -> Slots]
  /\ name \in [Clients -> Names \cup {Nothing}]
  /\ peer \in [Clients -> Pthreads \cup {Nothing}]
  /\ cur_task_id \in [Pthreads -> 0 .. MaxTasks]
  /\ cancelled \subseteq Pthreads
  /\ asked \in [Pthreads -> Names \cup {Nothing}]
  /\ runs \in [Pthreads -> Names \cup {Nothing}]
  /\ mistaken \in BOOLEAN

(* Slots whose creation is under way. *)
InCreation(i) ==
  \E c \in Clients : pc[c] \in {"name", "named", "create", "free", "freeing"} /\ slot[c] = i

(* The slots of tasks. *)
Tasks == {i \in Slots : IsUse(i) /\ ~ InCreation(i)}

(* The names of tasks are unique, as sk_os.h demands, though they are      *)
(* compared without the lock.                                              *)
UniqueNames ==
  \A i, j \in Tasks : os_thread_info[i].str_name = os_thread_info[j].str_name => i = j

(* A thread runs the function it was created for: in the wrapper it finds  *)
(* the slot its creation filled, though pthread_t's are given out again    *)
(* and free slots keep theirs.  It does not if a creator takes such a slot *)
(* while the thread has yet to find its own: that case alone is excepted.  *)
RunsOwnFunction == ~ mistaken => \A p \in Pthreads : runs[p] \in {asked[p], Nothing}

(* Every task has a thread of its own, running or to be joined: a slot     *)
(* that nobody can end a task in, or that two threads share, is lost.      *)
(* Excepted is what follows a thread's mistake of another slot for its own. *)
OwnThread ==
  ~ mistaken =>
    \A i \in Tasks :
      /\ os_thread_info[i].thread_id # Nothing
      /\ pc[os_thread_info[i].thread_id] # "none"
      /\ \A j \in Tasks : os_thread_info[i].thread_id = os_thread_info[j].thread_id => i = j

(* A wrapper frees no slot but its own: sk_task_destroy may have freed it  *)
(* before, and another creation may have taken it.  Excepted is what       *)
(* follows a thread's mistake of another slot for its own.                 *)
FreesOwnSlot ==
  ~ mistaken =>
    \A p \in Pthreads : pc[p] = "freeing" => os_thread_info[slot[p]].thread_id = p

(* sky_task_Id looks at used and unused slots alike, and yet finds the     *)
(* task of that name if there is one: no slot before it has kept the name. *)
LookupFindsTask ==
  \A i \in Tasks, j \in Slots :
    os_thread_info[j].str_name = os_thread_info[i].str_name => i <= j

(* The thread has yet to get to the function of a task that is its own.   *)
Waits(p) ==
  pc[p] \in {"look", "found"} /\ \E i \in Tasks : os_thread_info[i].thread_id = p

(* A thread that waits for its slot gets to its function, unless its task  *)
(* is destroyed before or it is cancelled, or a cancelled one kept the lock. *)
TasksStart == \A p \in Pthreads : []<>(~ Waits(p) \/ ~ Unlocked)

(* The thread is on its way out: it is cancelled, or has called its        *)
(* function and is not in it any more.                                     *)
Leaves(p) == p \in cancelled \/ pc[p] = "ended" \/ (pc[p] # "run" /\ runs[p] # Nothing)

(* sk_task_destroy waits for such a thread. *)
WaitsForEnd == \E c \in Clients : pc[c] = "joining" /\ Leaves(peer[c])

(* sk_task_destroy, which only joins, does not wait for ever once the      *)
(* thread's function has returned or a cancellation is on its way,         *)
(* wherever the thread was, unless a cancelled one kept the lock.          *)
DestroyReturns == []<>(~ WaitsForEnd \/ ~ Unlocked)

(* sk_task_destroy ends the task whenever it is called, as sk_os.h says,   *)
(* if its function lets it: also before the thread has found its slot.     *)
DestroyEndsTask ==
  \A c \in Clients :
    pc[c] = "joining" ~> (pc[c] = "idle" \/ ~ Unlocked \/ \E p \in Pthreads : p = peer[c] /\ pc[p] = "run")

=============================================================================
