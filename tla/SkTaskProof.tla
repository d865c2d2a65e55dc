---------------------------- MODULE SkTaskProof ----------------------------
(***************************************************************************)
(* Proofs about SkTask, for any clients, threads, calls and sizes: types,  *)
(* then the names of tasks, which need one creator, then who owns a slot   *)
(* and its thread, which needs that the creator also destroys.             *)
(***************************************************************************)
EXTENDS SkTask, TLAPS

LEMMA FirstSlot == 0 \in Slots
  BY Sizes, SMT DEF Slots

(* A step that changes one slot in one field.                              *)
LEMMA InUse ==
  ASSUME NEW i \in Slots, NEW b \in BOOLEAN, os_thread_info \in [Slots -> Info],
         os_thread_info' = [os_thread_info EXCEPT ![i].is_use = b]
  PROVE  os_thread_info' \in [Slots -> Info]
BY DEF Info

LEMMA TypeInit == Init => TypeOK
<1> SUFFICES ASSUME Init PROVE TypeOK
  OBVIOUS
<1>1. 0 \in Slots
  BY FirstSlot
<1>2. 0 \in 0 .. MaxTasks
  BY Sizes
<1>3. os_thread_info \in [Slots -> Info]
  BY <1>2 DEF Init, Info
<1>4. pc \in [Threads -> Places]
  BY DEF Init, Places
<1> QED
  BY <1>1, <1>2, <1>3, <1>4 DEF Init, TypeOK

LEMMA CreatesNames ==
  ASSUME TypeOK, NEW c \in Clients, NEW r \in Calls(c, "create")
  PROVE  r.name \in Names
<1>1. r \in Request
  BY Sets DEF TypeOK, Calls
<1> QED
  BY <1>1 DEF Calls, Request

LEMMA TypeNext == TypeOK /\ [Next]_vars => TypeOK'
<1> SUFFICES ASSUME TypeOK, [Next]_vars PROVE TypeOK'
  OBVIOUS
<1>0. 0 \in Slots /\ 0 \in 0 .. MaxTasks
  BY FirstSlot, Sizes
<1>m. Clients \subseteq Threads /\ Pthreads \subseteq Threads
  BY DEF Threads
<1>1. ASSUME NEW c \in Clients, NEW n \in Names, CheckName(c, n) PROVE TypeOK'
  BY <1>1, <1>m DEF CheckName, TypeOK, Goto, table, tasks, Places
<1>2. ASSUME NEW c \in Clients, GetFree(c) PROVE TypeOK'
  <2>1. os_thread_info' \in [Slots -> Info]
    BY <1>2, InUse DEF GetFree, TypeOK
  <2>2. slot' \in [Threads -> Slots] /\ name' \in [Clients -> Names \cup {Nothing}]
    BY <1>2, <1>m DEF GetFree, TypeOK
  <2>3. pc' \in [Threads -> Places]
    BY <1>2, <1>m DEF GetFree, TypeOK, Goto, Places
  <2> QED
    BY <1>2, <2>1, <2>2, <2>3 DEF GetFree, TypeOK, tasks
<1>3. ASSUME NEW c \in Clients, TestName(c) PROVE TypeOK'
  BY <1>3, <1>m DEF TestName, TypeOK, Goto, table, locals, tasks, Places
<1>4. ASSUME NEW c \in Clients, SetName(c) PROVE TypeOK'
  BY <1>4, <1>m DEF SetName, TypeOK, Info, Goto, locals, tasks, Places
<1>5. ASSUME NEW c \in Clients, NEW p \in Pthreads, CreateThread(c, p) PROVE TypeOK'
  <2>1. pid + 1 \in 0 .. MaxTasks
    BY <1>5, Sizes DEF CreateThread, TypeOK
  <2>2. os_thread_info' \in [Slots -> Info]
    <3>1. name[c] \in Names \cup {Nothing} /\ slot[c] \in Slots
      BY <1>m DEF TypeOK
    <3>2. \A e \in Info : [e EXCEPT !.task_fun = name[c], !.thread_id = p, !.task_sk_id = pid + 1] \in Info
      BY <2>1, <3>1 DEF Info
    <3>3. os_thread_info' = [os_thread_info EXCEPT ![slot[c]] =
            [@ EXCEPT !.task_fun = name[c], !.thread_id = p, !.task_sk_id = pid + 1]]
      BY <1>5, <3>1 DEF CreateThread, Fun, TypeOK
    <3> QED
      BY <3>1, <3>2, <3>3 DEF TypeOK
  <2>3. pc' \in [Threads -> Places]
    BY <1>5, <1>m DEF CreateThread, TypeOK, Places
  <2> QED
    BY <1>5, <1>m, <1>0, <2>1, <2>2, <2>3 DEF CreateThread, TypeOK
<1>6. ASSUME NEW c \in Clients, CreateFails(c) PROVE TypeOK'
  BY <1>6, <1>m DEF CreateFails, TypeOK, Info, Goto, locals, tasks, Places, Fun
<1>7. ASSUME NEW t \in Threads, TestFree(t) PROVE TypeOK'
  BY <1>7, <1>0 DEF TestFree, TypeOK, Goto, table, tasks, Places, Forgets, AfterFree
<1>8. ASSUME NEW t \in Threads, SetFree(t) PROVE TypeOK'
  BY <1>8, <1>0, InUse DEF SetFree, TypeOK, Goto, tasks, Places, Forgets, AfterFree
<1>9. ASSUME NEW p \in Pthreads, Look(p) PROVE TypeOK'
  BY <1>9, <1>m DEF Look, TypeOK, Goto, table, tasks, Places
<1>10. ASSUME NEW p \in Pthreads, Start(p) PROVE TypeOK'
  BY <1>10, <1>m DEF Start, TypeOK, Info, Goto, table, locals, Places
<1>11. ASSUME NEW p \in Pthreads, Return(p) PROVE TypeOK'
  BY <1>11, <1>m DEF Return, TypeOK, Goto, table, locals, tasks, Places
<1>12. ASSUME NEW p \in Pthreads, CurId(p) PROVE TypeOK'
  BY <1>12, <1>m DEF CurId, TypeOK, Info, Goto, table, tasks, Places
<1>13. ASSUME NEW p \in Pthreads, Terminate(p) PROVE TypeOK'
  BY <1>13, <1>m, <1>0, InUse DEF Terminate, TypeOK, Goto, tasks, Places
<1>14. ASSUME NEW p \in Pthreads, Detach(p) PROVE TypeOK'
  BY <1>14, <1>m, <1>0 DEF Detach, Ends, TypeOK, Goto, Places
<1>15. ASSUME NEW p \in Pthreads, CancelTakesEffect(p) PROVE TypeOK'
  BY <1>15, <1>m, <1>0 DEF CancelTakesEffect, Ends, TypeOK, Goto, Places
<1>16. ASSUME NEW p \in Pthreads, CancelledInside(p) PROVE TypeOK'
  BY <1>16, <1>m, <1>0, InUse DEF CancelledInside, Ends, TypeOK, Goto, Places
<1>17. ASSUME NEW c \in Clients, NEW id \in 1 .. pid, CallWait(c, id) PROVE TypeOK'
  BY <1>17, <1>m DEF CallWait, Finds, PeerOf, TypeOK, Info, Goto, table, tasks, Places
<1>18. ASSUME NEW c \in Clients, Cancel(c) PROVE TypeOK'
  BY <1>18, <1>m DEF Cancel, TypeOK, Goto, table, Places
<1>19. ASSUME NEW c \in Clients, NEW id \in 1 .. pid, CallDestroy(c, id) PROVE TypeOK'
  BY <1>19, <1>m, InUse DEF CallDestroy, Finds, PeerOf, TypeOK, Info, Goto, tasks, Places
<1>20. ASSUME NEW c \in Clients, Join(c) PROVE TypeOK'
  BY <1>20, <1>m DEF Join, TypeOK, Goto, table, tasks, Places
<1>21. ASSUME NEW c \in Clients, JoinEnds(c) PROVE TypeOK'
  BY <1>21, <1>m DEF JoinEnds, TypeOK, table, tasks, Places
<1>22. CASE UNCHANGED vars
  BY <1>22 DEF vars, TypeOK
<1>23. ASSUME NEW c \in Clients, NEW r \in Calls(c, "create") PROVE r.name \in Names
  BY <1>23, CreatesNames
<1> QED
  BY <1>1, <1>2, <1>3, <1>4, <1>5, <1>6, <1>7, <1>8, <1>9, <1>10, <1>11, <1>12, <1>13, <1>14, <1>15,
     <1>16, <1>17, <1>18, <1>19, <1>20, <1>21, <1>22, <1>23, <1>m DEF Next, Inside, Wrapper

(* Every variable keeps its type, whatever calls the clients make.         *)
THEOREM TypeCorrect == Spec => []TypeOK
  BY TypeInit, TypeNext, PTL DEF Spec

-----------------------------------------------------------------------------
(* The fields of the slots, and steps of one thread. *)

Str(i) == os_thread_info[i].str_name
Thr(i) == os_thread_info[i].thread_id
Fn(i) == os_thread_info[i].task_fun
Id(i) == os_thread_info[i].task_sk_id

Creating == {"name", "named", "create", "free", "freeing"}

IsTask(m, i) == IsUse(i) /\ ~ (pc[m] \in Creating /\ slot[m] = i)

LEMMA Separate ==
  ASSUME NEW p \in Pthreads
  PROVE  p \in Threads /\ p # Nothing /\ p \notin Clients
BY Sets DEF Threads

(* The fields of the slots in a step that leaves the table alone.          *)
LEMMA SameTable ==
  ASSUME os_thread_info' = os_thread_info
  PROVE  \A i \in Slots : /\ IsUse(i)' = IsUse(i) /\ Str(i)' = Str(i) /\ Thr(i)' = Thr(i)
                          /\ Fn(i)' = Fn(i) /\ Id(i)' = Id(i)
BY DEF IsUse, Str, Thr, Fn, Id

(* And in one that changes is_use of one slot.                             *)
LEMMA SameButUse ==
  ASSUME NEW k \in Slots, NEW b \in BOOLEAN, os_thread_info \in [Slots -> Info],
         os_thread_info' = [os_thread_info EXCEPT ![k].is_use = b]
  PROVE  \A i \in Slots : /\ IsUse(i)' = IF i = k THEN b ELSE IsUse(i)
                          /\ Str(i)' = Str(i) /\ Thr(i)' = Thr(i) /\ Fn(i)' = Fn(i) /\ Id(i)' = Id(i)
BY DEF IsUse, Str, Thr, Fn, Id, Info

LEMMA Moved ==
  ASSUME TypeOK, NEW c \in Clients, NEW b, pc' = [pc EXCEPT ![c] = b]
  PROVE  pc'[c] = b /\ (\A t \in Threads \ {c} : pc'[t] = pc[t]) /\ \A p \in Pthreads : pc'[p] = pc[p]
BY Separate DEF TypeOK, Threads

-----------------------------------------------------------------------------
(***************************************************************************)
(* Names.  One thread, m, creates tasks; anybody destroys them and waits   *)
(* for them, and wrappers free whatever slot they have.  All that freeing  *)
(* does to the names is to make room: what m found out about a name        *)
(* without the lock stays true until it enters it.                         *)
(***************************************************************************)
OneNamer ==
  \A u \in Usages : \E m \in Clients : \A c \in Clients \ {m} : \A r \in u[c] : r.op # "create"

OnlyNamer(m) ==
  \A c \in Clients \ {m} : Calls(c, "create") = {} /\ pc[c] \in {"idle", "cancel", "join", "joining"}

(* No task has the name that m was given, and no slot before the one it    *)
(* took, used or not; when it is done the slot has it, unless it was freed.*)
Entering(m) ==
  /\ pc[m] \in {"get", "name", "named", "create"} => \A i \in Slots : IsTask(m, i) => Str(i) # name[m]
  /\ pc[m] \in {"name", "named", "create"} => \A j \in Slots : j < slot[m] => Str(j) # name[m]
  /\ pc[m] = "create" /\ IsUse(slot[m]) => Str(slot[m]) = name[m]

(* No slot before a task has kept its name. *)
Named(m) == \A i, j \in Slots : IsTask(m, i) /\ j < i => Str(j) # Str(i)

NamesKept(m) == OnlyNamer(m) /\ Entering(m) /\ Named(m)

LEMMA NamesInit ==
  ASSUME OneNamer, Init
  PROVE  \E m \in Clients : NamesKept(m)
<1>1. PICK m \in Clients : \A c \in Clients \ {m} : \A r \in usage[c] : r.op # "create"
  BY DEF Init, OneNamer
<1>2. \A i \in Slots : ~ IsUse(i)
  BY DEF Init, IsUse
<1>3. \A c \in Clients : pc[c] = "idle"
  BY DEF Init, Threads
<1> QED
  BY <1>1, <1>2, <1>3 DEF NamesKept, OnlyNamer, Calls, Entering, Named, IsTask

(* Whoever is in sk_task_create is m. *)
LEMMA IsNamer ==
  ASSUME NEW m \in Clients, OnlyNamer(m), NEW c \in Clients, pc[c] \in Creating \cup {"get"}
  PROVE  c = m
BY DEF OnlyNamer, Creating

(* A step that enters no name and takes no slot, of a thread that m need   *)
(* not know of, or of m outside of sk_task_create.                         *)
LEMMA FreesOnly ==
  ASSUME TypeOK, NEW m \in Clients, NamesKept(m), OnlyNamer(m)',
         \A i \in Slots : Str(i)' = Str(i) /\ (IsUse(i)' => IsUse(i)),
         \/ pc'[m] = pc[m] /\ slot'[m] = slot[m] /\ name'[m] = name[m]
         \/ pc[m] \notin Creating /\ pc'[m] \notin Creating \cup {"get"}
  PROVE  NamesKept(m)'
<1>1. CASE pc'[m] = pc[m] /\ slot'[m] = slot[m] /\ name'[m] = name[m]
  <2>1. slot[m] \in Slots
    BY DEF TypeOK, Threads
  <2>2. \A i \in Slots : IsTask(m, i)' => IsTask(m, i)
    BY <1>1 DEF IsTask
  <2>3. Entering(m)'
    <3>1. Str(slot[m])' = Str(slot[m]) /\ (IsUse(slot[m])' => IsUse(slot[m]))
      BY <1>1, <2>1 DEF Str, IsUse
    <3> QED
      BY <1>1, <2>1, <2>2, <3>1 DEF NamesKept, Entering
  <2>4. Named(m)'
    BY <2>2 DEF NamesKept, Named
  <2> QED
    BY <2>3, <2>4 DEF NamesKept
<1>2. CASE pc[m] \notin Creating /\ pc'[m] \notin Creating \cup {"get"}
  <2>1. \A i \in Slots : IsTask(m, i)' => IsTask(m, i)
    BY <1>2 DEF IsTask
  <2>2. Named(m)'
    BY <2>1 DEF NamesKept, Named
  <2> QED
    BY <1>2, <2>2 DEF NamesKept, Entering, Creating
<1> QED
  BY <1>1, <1>2

(* A step of m leaves the others where they are. *)
LEMMA OthersCreateNone ==
  ASSUME NEW m \in Clients, OnlyNamer(m), usage' = usage, \A c \in Clients \ {m} : pc'[c] = pc[c]
  PROVE  OnlyNamer(m)'
BY DEF OnlyNamer, Calls

(* sk_check_task_name: what it found without the lock. *)
LEMMA CheckNameKeeps ==
  ASSUME TypeOK, NEW m \in Clients, NamesKept(m), NEW n \in Names, CheckName(m, n)
  PROVE  NamesKept(m)'
<1>1. pc[m] = "idle" /\ pc'[m] = "get" /\ name'[m] = n /\ os_thread_info' = os_thread_info
  BY Moved DEF CheckName, Goto, TypeOK, table
<1>2. OnlyNamer(m)'
  BY OthersCreateNone, Moved DEF NamesKept, CheckName, Goto, Threads
<1>3. \A i \in Slots : (IsTask(m, i)' <=> IsTask(m, i)) /\ (IsTask(m, i) => Str(i) # n)
  BY <1>1, SameTable DEF IsTask, Creating, CheckName, IsTaken, Str
<1> QED
  BY <1>1, <1>2, <1>3, SameTable DEF NamesKept, Entering, Named

(* The first free slot: those before it are in use, with other names. *)
LEMMA GetFreeKeeps ==
  ASSUME TypeOK, NEW m \in Clients, NamesKept(m), GetFree(m)
  PROVE  NamesKept(m)'
<1>1. pc[m] = "get" /\ usage' = usage /\ \A c \in Clients \ {m} : pc'[c] = pc[c]
  BY Moved DEF GetFree, Goto, Threads
<1>2. OnlyNamer(m)'
  BY <1>1, OthersCreateNone DEF NamesKept
<1>3. CASE Goto(m, "idle") /\ UNCHANGED <<os_thread_info, slot>>
  <2>1. pc'[m] = "idle"
    BY <1>3, Moved DEF Goto
  <2> QED
    BY <1>1, <1>2, <1>3, <2>1, SameTable, FreesOnly DEF Creating
<1>4. ASSUME NEW k \in Slots, FirstFree(k), Goto(m, "name"), name' = name,
             os_thread_info' = [os_thread_info EXCEPT ![k].is_use = TRUE], slot' = [slot EXCEPT ![m] = k]
      PROVE  NamesKept(m)'
  <2>1. \A i \in Slots : IsUse(i)' = (IF i = k THEN TRUE ELSE IsUse(i)) /\ Str(i)' = Str(i)
    BY <1>4, SameButUse DEF TypeOK
  <2>2. pc'[m] = "name" /\ slot'[m] = k
    BY <1>4, Moved DEF Goto, TypeOK, Threads
  <2>3. ~ IsUse(k) /\ \A i \in Slots : i < k => IsUse(i)
    BY <1>4, Sizes DEF FirstFree, First, FreeSlots, Slots
  <2>4. \A i \in Slots : (IsTask(m, i) <=> IsUse(i)) /\ (IsTask(m, i)' <=> IsUse(i))
    BY <1>1, <2>1, <2>2, <2>3 DEF IsTask, Creating
  <2>5. \A i \in Slots : IsUse(i) => Str(i) # name[m]
    BY <1>1, <2>4 DEF NamesKept, Entering
  <2>6. Entering(m)'
    BY <1>4, <2>1, <2>2, <2>3, <2>4, <2>5 DEF Entering
  <2>7. Named(m)'
    BY <2>1, <2>4 DEF NamesKept, Named
  <2> QED
    BY <1>2, <2>6, <2>7 DEF NamesKept
<1> QED
  BY <1>3, <1>4 DEF GetFree

(* The test of set_name_thread_info: a slot that was freed stays free. *)
LEMMA TestNameKeeps ==
  ASSUME TypeOK, NEW m \in Clients, NamesKept(m), TestName(m)
  PROVE  NamesKept(m)'
<1>1. /\ pc[m] = "name" /\ os_thread_info' = os_thread_info /\ slot' = slot /\ name' = name
      /\ pc'[m] = IF IsUse(slot[m]) THEN "named" ELSE "create"
  BY Moved DEF TestName, Goto, table, locals
<1>2. OnlyNamer(m)'
  BY OthersCreateNone, Moved DEF NamesKept, TestName, Goto, Threads
<1>3. \A i \in Slots : IsTask(m, i)' <=> IsTask(m, i)
  BY <1>1, SameTable DEF IsTask, Creating
<1>4. IsUse(slot[m])' = IsUse(slot[m])
  BY <1>1 DEF IsUse
<1> QED
  BY <1>1, <1>2, <1>3, <1>4, SameTable DEF NamesKept, Entering, Named

(* Its section: the name is entered, into a free slot too. *)
LEMMA SetNameKeeps ==
  ASSUME TypeOK, NEW m \in Clients, NamesKept(m), SetName(m)
  PROVE  NamesKept(m)'
<1>1. pc[m] = "named" /\ pc'[m] = "create" /\ slot' = slot /\ name' = name /\ slot[m] \in Slots
  BY Moved DEF SetName, Goto, locals, TypeOK, Threads
<1>2. OnlyNamer(m)'
  BY OthersCreateNone, Moved DEF NamesKept, SetName, Goto, Threads
<1>3. \A i \in Slots : IsUse(i)' = IsUse(i) /\ Str(i)' = IF i = slot[m] THEN name[m] ELSE Str(i)
  BY <1>1 DEF SetName, TypeOK, Info, IsUse, Str
<1>4. \A i \in Slots : /\ IsTask(m, i)' <=> IsTask(m, i)
                       /\ IsTask(m, i) => i # slot[m] /\ Str(i) # name[m]
  BY <1>1, <1>3 DEF IsTask, Creating, NamesKept, Entering
<1>5. Str(slot[m])' = name[m]
  BY <1>1, <1>3 DEF Str
<1>6. \A j \in Slots : j < slot[m] => Str(j)' # name[m]
  BY <1>1, <1>3, Sizes DEF NamesKept, Entering, Slots
<1>7. Entering(m)'
  BY <1>1, <1>3, <1>4, <1>5, <1>6 DEF Entering
<1>8. Named(m)'
  BY <1>3, <1>4 DEF NamesKept, Named
<1> QED
  BY <1>2, <1>7, <1>8 DEF NamesKept

(* The slot becomes a task, if nobody freed it. *)
LEMMA CreateThreadKeeps ==
  ASSUME TypeOK, NEW m \in Clients, NamesKept(m), NEW q \in Pthreads, CreateThread(m, q)
  PROVE  NamesKept(m)'
<1>k. PICK k \in Slots : k = slot[m]
  BY DEF TypeOK, Threads
<1>1. /\ pc[m] = "create" /\ usage' = usage /\ pc'[m] = "idle"
      /\ \A c \in Clients \ {m} : pc'[c] = pc[c]
  BY Separate DEF CreateThread, TypeOK, Threads
<1>2. OnlyNamer(m)'
  BY <1>1, OthersCreateNone DEF NamesKept
<1>3. \A i \in Slots : IsUse(i)' = IsUse(i) /\ Str(i)' = Str(i)
  BY <1>k DEF CreateThread, Fun, TypeOK, Info, IsUse, Str
<1>4. \A i \in Slots : IsTask(m, i)' => IsTask(m, i) \/ (i = k /\ IsUse(k))
  BY <1>k, <1>3 DEF IsTask
<1>5. IsUse(k) => Str(k) = name[m] /\ \A j \in Slots : j < k => Str(j) # name[m]
  BY <1>k, <1>1 DEF NamesKept, Entering
<1>6. Named(m)'
  BY <1>3, <1>4, <1>5 DEF NamesKept, Named
<1> QED
  BY <1>1, <1>2, <1>6 DEF NamesKept, Entering

(* The creation fails, and m gives back its slot. *)
LEMMA CreateFailsKeeps ==
  ASSUME TypeOK, NEW m \in Clients, NamesKept(m), CreateFails(m)
  PROVE  NamesKept(m)'
<1>1. pc[m] = "create" /\ pc'[m] = "free" /\ slot' = slot /\ slot[m] \in Slots
  BY Moved DEF CreateFails, Goto, locals, TypeOK, Threads
<1>2. OnlyNamer(m)'
  BY OthersCreateNone, Moved DEF NamesKept, CreateFails, Goto, Threads
<1>3. \A i \in Slots : IsUse(i)' = IsUse(i) /\ Str(i)' = Str(i)
  BY <1>1 DEF CreateFails, TypeOK, Info, IsUse, Str
<1>4. \A i \in Slots : IsTask(m, i)' <=> IsTask(m, i)
  BY <1>1, <1>3 DEF IsTask, Creating
<1> QED
  BY <1>1, <1>2, <1>3, <1>4 DEF NamesKept, Entering, Named

LEMMA GivesBackKeeps ==
  ASSUME TypeOK, NEW m \in Clients, NamesKept(m), TestFree(m) \/ SetFree(m)
  PROVE  NamesKept(m)'
<1>1. /\ pc[m] \in {"free", "freeing"} /\ pc'[m] \in {"freeing", "idle"} /\ usage' = usage
      /\ \A c \in Clients \ {m} : pc'[c] = pc[c]
  BY Moved DEF TestFree, SetFree, Goto, AfterFree, Threads
<1>2. OnlyNamer(m)'
  BY <1>1, OthersCreateNone DEF NamesKept
<1>3. slot[m] \in Slots
  BY DEF TypeOK, Threads
<1>4. \A i \in Slots : Str(i)' = Str(i) /\ (IsTask(m, i)' => IsTask(m, i))
  <2>1. CASE TestFree(m)
    <3>1. \/ pc'[m] = "freeing" /\ slot' = slot
          \/ ~ IsUse(slot[m])
      BY <2>1, Moved DEF TestFree, Goto
    <3> QED
      BY <1>1, <2>1, <3>1, SameTable DEF TestFree, table, IsTask, Creating
  <2>2. CASE SetFree(m)
    <3>1. \A i \in Slots : IsUse(i)' = (IF i = slot[m] THEN FALSE ELSE IsUse(i)) /\ Str(i)' = Str(i)
      BY <1>3, <2>2, SameButUse DEF SetFree, TypeOK
    <3> QED
      BY <3>1 DEF IsTask
  <2> QED
    BY <2>1, <2>2
<1>5. Named(m)'
  BY <1>4 DEF NamesKept, Named
<1> QED
  BY <1>1, <1>2, <1>5 DEF NamesKept, Entering

(* Clients that wait and destroy, and wrappers. *)
LEMMA OthersKeep ==
  ASSUME TypeOK, NEW m \in Clients, NamesKept(m), NEW c \in Clients,
         \/ \E id \in 1 .. pid : CallWait(c, id) \/ CallDestroy(c, id)
         \/ Cancel(c) \/ Join(c) \/ JoinEnds(c)
  PROVE  NamesKept(m)'
<1> DEFINE Outside == {"idle", "cancel", "join", "joining"}
<1>1. /\ pc[c] \in Outside /\ pc'[c] \in Outside /\ \A d \in Clients \ {c} : pc'[d] = pc[d]
      /\ usage' = usage /\ slot' = slot /\ name' = name
  <2>1. CASE JoinEnds(c)
    <3>1. peer[c] \notin Clients
      BY Sets DEF TypeOK
    <3> QED
      BY <2>1, <3>1 DEF JoinEnds, TypeOK, Threads
  <2>2. CASE ~ JoinEnds(c)
    BY <2>2, Moved DEF CallWait, CallDestroy, Finds, Cancel, Join, Goto, Threads
  <2> QED
    BY <2>1, <2>2
<1>2. OnlyNamer(m)'
  BY <1>1 DEF NamesKept, OnlyNamer, Calls
<1>3. \A i \in Slots : Str(i)' = Str(i) /\ (IsUse(i)' => IsUse(i))
  <2>1. ASSUME NEW k \in Slots, os_thread_info' = [os_thread_info EXCEPT ![k].is_use = FALSE]
        PROVE  \A i \in Slots : Str(i)' = Str(i) /\ (IsUse(i)' => IsUse(i))
    BY <2>1, SameButUse DEF TypeOK
  <2>2. \/ os_thread_info' = os_thread_info
        \/ \E k \in Slots : os_thread_info' = [os_thread_info EXCEPT ![k].is_use = FALSE]
    BY DEF CallWait, CallDestroy, Cancel, Join, JoinEnds, table
  <2> QED
    BY <2>1, <2>2, SameTable
<1>4. \/ pc'[m] = pc[m] /\ slot'[m] = slot[m] /\ name'[m] = name[m]
      \/ pc[m] \notin Creating /\ pc'[m] \notin Creating \cup {"get"}
  BY <1>1 DEF Creating
<1> QED
  BY <1>2, <1>3, <1>4, FreesOnly

LEMMA ThreadsKeep ==
  ASSUME TypeOK, NEW m \in Clients, NamesKept(m), NEW p \in Pthreads,
         Wrapper(p) \/ Return(p) \/ CurId(p) \/ CancelTakesEffect(p) \/ CancelledInside(p)
  PROVE  NamesKept(m)'
<1>1. p \in Threads /\ \A c \in Clients : c \in Threads /\ c # p
  BY Separate DEF Threads
<1>2. usage' = usage /\ \A c \in Clients : pc'[c] = pc[c] /\ slot'[c] = slot[c] /\ name'[c] = name[c]
  BY <1>1 DEF TypeOK, Wrapper, Look, Start, Return, TestFree, SetFree, Forgets, Terminate, Detach, CurId,
              CancelTakesEffect, CancelledInside, Ends, Goto, locals
<1>3. OnlyNamer(m)'
  BY <1>2 DEF NamesKept, OnlyNamer, Calls
<1>4. \A i \in Slots : Str(i)' = Str(i) /\ (IsUse(i)' => IsUse(i))
  <2>1. ASSUME NEW k \in Slots, os_thread_info' = [os_thread_info EXCEPT ![k].is_use = FALSE]
        PROVE  \A i \in Slots : Str(i)' = Str(i) /\ (IsUse(i)' => IsUse(i))
    BY <2>1, SameButUse DEF TypeOK
  <2>2. \/ os_thread_info' = os_thread_info
        \/ \E k \in Slots : os_thread_info' = [os_thread_info EXCEPT ![k].is_use = FALSE]
    BY <1>1 DEF TypeOK, Wrapper, Look, Start, Return, TestFree, SetFree, Terminate, Detach, CurId,
                CancelTakesEffect, CancelledInside, Ends, table
  <2> QED
    BY <2>1, <2>2, SameTable
<1> QED
  BY <1>2, <1>3, <1>4, FreesOnly

LEMMA NamesNext ==
  ASSUME TypeOK, NEW m \in Clients, NamesKept(m), [Next]_vars
  PROVE  NamesKept(m)'
<1>1. ASSUME NEW c \in Clients, Inside(c) PROVE NamesKept(m)'
  <2>1. CASE Cancel(c) \/ Join(c) \/ JoinEnds(c)
    BY <2>1, OthersKeep
  <2>2. CASE ~ (Cancel(c) \/ Join(c) \/ JoinEnds(c))
    <3>1. pc[c] \in Creating \cup {"get"}
      BY <1>1, <2>2 DEF Inside, GetFree, TestName, SetName, TestFree, SetFree, CreateFails, CreateThread, Creating
    <3>2. c = m
      BY <3>1, IsNamer DEF NamesKept
    <3> QED
      BY <1>1, <2>2, <3>2, GetFreeKeeps, TestNameKeeps, SetNameKeeps, GivesBackKeeps, CreateFailsKeeps,
         CreateThreadKeeps DEF Inside
  <2> QED
    BY <2>1, <2>2
<1>2. ASSUME NEW c \in Clients, NEW r \in Calls(c, "create"), CheckName(c, r.name) PROVE NamesKept(m)'
  <2>1. c = m
    BY <1>2 DEF NamesKept, OnlyNamer
  <2>2. r.name \in Names
    BY <1>2, CreatesNames
  <2> QED
    BY <1>2, <2>1, <2>2, CheckNameKeeps
<1>3. ASSUME NEW c \in Clients, NEW id \in 1 .. pid, CallWait(c, id) \/ CallDestroy(c, id) PROVE NamesKept(m)'
  BY <1>3, OthersKeep
<1>4. CASE UNCHANGED vars
  <2>1. OnlyNamer(m)' /\ pc' = pc /\ slot' = slot /\ name' = name
    BY <1>4 DEF vars, NamesKept, OnlyNamer, Calls
  <2> QED
    BY <1>4, <2>1, SameTable, FreesOnly DEF vars
<1> QED
  BY <1>1, <1>2, <1>3, <1>4, ThreadsKeep DEF Next

LEMMA NamesInvariance == ASSUME OneNamer PROVE Spec => [](\E m \in Clients : NamesKept(m))
<1>1. Init => \E m \in Clients : NamesKept(m)
  BY NamesInit
<1>2. TypeOK /\ (\E m \in Clients : NamesKept(m)) /\ [Next]_vars => (\E m \in Clients : NamesKept(m))'
  <2> SUFFICES ASSUME TypeOK, [Next]_vars, NEW m \in Clients, NamesKept(m) PROVE \E n \in Clients : NamesKept(n)'
    OBVIOUS
  <2> QED
    BY NamesNext
<1> QED
  BY <1>1, <1>2, TypeCorrect, PTL DEF Spec

(* Tasks, as the properties have them, are slots in use that m has not     *)
(* taken for a creation.                                                   *)
LEMMA TasksOfNamer ==
  ASSUME NEW m \in Clients, OnlyNamer(m)
  PROVE  \A i \in Tasks : i \in Slots /\ IsTask(m, i)
BY DEF Tasks, InCreation, IsTask, Creating

(* The names of tasks are unique though sk_check_task_name takes no lock,  *)
(* if one thread creates; destroys and returns of tasks come as they like. *)
THEOREM NamesUnique == ASSUME OneNamer PROVE Spec => []UniqueNames
<1>1. (\E m \in Clients : NamesKept(m)) => UniqueNames
  <2> SUFFICES ASSUME NEW m \in Clients, NamesKept(m), NEW i \in Tasks, NEW j \in Tasks, Str(i) = Str(j)
               PROVE  i = j
    BY DEF UniqueNames, Str
  <2>1. i \in Slots /\ j \in Slots /\ ~ (i < j) /\ ~ (j < i)
    BY TasksOfNamer DEF NamesKept, Named
  <2> QED
    BY <2>1, Sizes DEF Slots
<1> QED
  BY <1>1, NamesInvariance, PTL

(* sky_task_Id finds the task with a name: no slot before it, used or not, *)
(* keeps that name, though slots that are freed are not cleared.           *)
THEOREM LookupRight == ASSUME OneNamer PROVE Spec => []LookupFindsTask
<1>1. (\E m \in Clients : NamesKept(m)) => LookupFindsTask
  <2> SUFFICES ASSUME NEW m \in Clients, NamesKept(m), NEW i \in Tasks, NEW j \in Slots, Str(j) = Str(i)
               PROVE  i <= j
    BY DEF LookupFindsTask, Str
  <2>1. i \in Slots /\ ~ (j < i)
    BY TasksOfNamer DEF NamesKept, Named
  <2> QED
    BY <2>1, Sizes DEF Slots
<1> QED
  BY <1>1, NamesInvariance, PTL

-----------------------------------------------------------------------------
(***************************************************************************)
(* One thread creates and destroys tasks.  pthread_t's are given out       *)
(* again; as long as no creator takes a slot that holds that of a thread   *)
(* that may search for its own, Managed(m) is kept, where m is the thread  *)
(* that creates: a slot in use is either the one that m fills, or it       *)
(* belongs to the thread whose pthread_t it holds and to nobody else.      *)
(***************************************************************************)

(* The calls of this setting. *)
OneManager ==
  \A u \in Usages : \E m \in Clients : \A c \in Clients \ {m} : \A r \in u[c] : r.op = "wait"

Joins(m, p) == pc[m] \in {"join", "joining"} /\ peer[m] = p

OnlyManager(m) ==
  \A c \in Clients \ {m} : (\A r \in usage[c] : r.op = "wait") /\ pc[c] \in {"idle", "cancel"}

(* No two tasks have the same thread, and no two slots the same id. *)
Unshared(m) ==
  /\ \A i, j \in Slots : IsTask(m, i) /\ IsTask(m, j) /\ Thr(i) = Thr(j) => i = j
  /\ \A i, j \in Slots : Id(i) = Id(j) /\ Id(i) # 0 => i = j
  /\ \A i \in Slots : Id(i) <= pid

(* A thread that searches the table finds tasks only. *)
Findable(m) == \A i \in Slots : HeldBySeeker(i) /\ IsUse(i) => IsTask(m, i)

(* The slot the manager fills stays in use, and it joins a thread. *)
Filling(m) ==
  /\ pc[m] \in {"name", "named", "create"} => IsUse(slot[m])
  /\ pc[m] = "joining" => peer[m] \in Pthreads

(* Tasks have a thread that exists; the manager joins none of them. *)
Owned(m) ==
  \A i \in Slots : IsTask(m, i) =>
    /\ Thr(i) \in Pthreads
    /\ pc[Thr(i)] \notin {"none", "detach"}
    /\ ~ Joins(m, Thr(i))

Alive == {"look", "found", "run", "term", "free", "freeing"}

(* The slot of a thread that lives, also after sk_task_destroy freed it. *)
SlotOf(m, p, i) ==
  /\ Thr(i) = p /\ Fn(i) = asked[p] /\ Id(i) # 0
  /\ IsTask(m, i) \/ Joins(m, p)

Living(m) ==
  \A p \in Pthreads :
    /\ pc[p] \in Alive => \E i \in Slots : SlotOf(m, p, i)
    /\ pc[p] \in {"found", "run", "free", "freeing"} => \E i \in Slots : i = slot[p] /\ SlotOf(m, p, i)
    /\ pc[p] = "term" => \E i \in Slots : SlotOf(m, p, i) /\ Id(i) = cur_task_id[p]

(* Threads run their own function, and those that are gone run none. *)
RunsRight ==
  \A p \in Pthreads : /\ runs[p] \in {asked[p], Nothing}
                      /\ pc[p] \in {"none", "ended"} => runs[p] = Nothing

Managed(m) ==
  /\ OnlyManager(m) /\ Unshared(m) /\ Findable(m) /\ Filling(m) /\ Owned(m) /\ Living(m)
  /\ RunsRight

IInv == TypeOK /\ (mistaken \/ \E m \in Clients : Managed(m))

Seekers == {"look", "found", "run"}

(* The thread p goes to b, and may free the slot it has.                   *)
Moves(m, p, b) ==
  /\ pc' = [pc EXCEPT ![p] = b]
  /\ peer' = peer /\ name' = name /\ usage' = usage /\ pid' = pid
  /\ slot' \in [Threads -> Slots] /\ \A t \in Threads \ {p} : slot'[t] = slot[t]
  /\ \A q \in Pthreads \ {p} : cur_task_id'[q] = cur_task_id[q] /\ asked'[q] = asked[q]
  /\ \A i \in Slots : Str(i)' = Str(i) /\ Thr(i)' = Thr(i) /\ Fn(i)' = Fn(i) /\ Id(i)' = Id(i)
  /\ \A i \in Slots : \/ IsUse(i)' = IsUse(i)
                      \/ ~ IsUse(i)' /\ SlotOf(m, p, i) /\ b \notin Alive
  /\ b \in {"none", "detach"} => \A i \in Slots : Thr(i) = p => ~ IsUse(i)' \/ ~ IsTask(m, i)
  /\ b \in Seekers => pc[p] \in Seekers
  /\ b \in Alive => pc[p] \in Alive /\ asked'[p] = asked[p]
  /\ b \in {"found", "run", "free", "freeing"} => \E i \in Slots : i = slot'[p] /\ SlotOf(m, p, i)
  /\ b = "term" => \E i \in Slots : SlotOf(m, p, i) /\ Id(i) = cur_task_id'[p]

LEMMA ThreadStep ==
  ASSUME TypeOK, NEW m \in Clients, Managed(m), NEW p \in Pthreads, NEW b, Moves(m, p, b), RunsRight'
  PROVE  Managed(m)'
<1> USE DEF Moves
<1>1. m \in Threads /\ p \in Threads /\ p # m /\ m \notin Pthreads /\ p \notin Clients /\ p # Nothing
  BY Sets DEF Threads
<1>2. pc'[p] = b /\ \A t \in Threads : t # p => pc'[t] = pc[t]
  BY <1>1 DEF TypeOK
<1>3. pc'[m] = pc[m] /\ slot'[m] = slot[m] /\ slot[m] \in Slots /\ slot'[p] \in Slots
  BY <1>1, <1>2 DEF TypeOK
<1>4. \A i \in Slots : IsTask(m, i)' => IsTask(m, i)
  BY <1>3 DEF IsTask
<1>5. \A q : Joins(m, q)' <=> Joins(m, q)
  BY <1>3 DEF Joins
<1>6. OnlyManager(m)'
  BY <1>1, <1>2 DEF Managed, OnlyManager, Threads
<1>7. Unshared(m)'
  BY <1>4 DEF Managed, Unshared
<1>8. \A i \in Slots : SlotOf(m, p, i) => ~ (pc[m] \in Creating /\ slot[m] = i)
  BY <1>1 DEF SlotOf, IsTask, Joins, Creating
<1>9. Filling(m)'
  <2>1. pc[m] \in {"name", "named", "create"} => IsUse(slot[m])'
    <3>1. pc[m] \in {"name", "named", "create"} => \A i \in Slots : i = slot[m] => IsUse(i)'
      BY <1>8 DEF Managed, Filling, Creating
    <3> QED
      BY <1>3, <3>1 DEF IsUse
  <2> QED
    BY <1>3, <2>1 DEF Managed, Filling
<1>10. Owned(m)'
  BY <1>1, <1>2, <1>4, <1>5, <1>3 DEF Managed, Owned, Threads, IsTask
<1>11. Findable(m)'
  <2> SUFFICES ASSUME NEW i \in Slots, HeldBySeeker(i)', IsUse(i)' PROVE IsTask(m, i)'
    BY DEF Findable
  <2>1. PICK q \in Pthreads : Thr(i)' = q /\ pc'[q] \in Seekers
    BY DEF HeldBySeeker, Thr, Seekers
  <2>2. pc[q] \in Seekers /\ Thr(i) = q
    BY <1>1, <1>2, <2>1, Separate
  <2>3. HeldBySeeker(i) /\ IsUse(i)
    BY <2>2 DEF HeldBySeeker, Thr, Seekers
  <2> QED
    BY <1>3, <2>3 DEF Managed, Findable, IsTask
<1>12. Living(m)'
  <2> SUFFICES ASSUME NEW q \in Pthreads
               PROVE  (/\ pc[q] \in Alive => \E i \in Slots : SlotOf(m, q, i)
                       /\ pc[q] \in {"found", "run", "free", "freeing"} =>
                            \E i \in Slots : i = slot[q] /\ SlotOf(m, q, i)
                       /\ pc[q] = "term" => \E i \in Slots : SlotOf(m, q, i) /\ Id(i) = cur_task_id[q])'
    BY DEF Living
  <2>1. \A i \in Slots : SlotOf(m, q, i) /\ asked'[q] = asked[q]
          /\ (IsUse(i)' = IsUse(i) \/ Joins(m, q)) => SlotOf(m, q, i)'
    BY <1>3, <1>5 DEF SlotOf, IsTask
  <2>2. CASE q # p
    <3>1. pc'[q] = pc[q] /\ slot'[q] = slot[q] /\ asked'[q] = asked[q] /\ cur_task_id'[q] = cur_task_id[q]
      BY <1>2, <2>2 DEF Threads, TypeOK
    <3>2. \A i \in Slots : Thr(i) = q => IsUse(i)' = IsUse(i)
      BY <2>2 DEF SlotOf
    <3>3. \A i \in Slots : SlotOf(m, q, i) => SlotOf(m, q, i)'
      BY <2>1, <3>1, <3>2 DEF SlotOf
    <3> QED
      BY <3>1, <3>3 DEF Managed, Living
  <2>3. CASE q = p
    <3>1. ASSUME pc'[q] \in Alive, NEW i \in Slots, SlotOf(m, q, i) PROVE SlotOf(m, q, i)'
      BY <1>2, <2>1, <2>3, <3>1
    <3> QED
      BY <1>2, <2>3, <3>1 DEF Managed, Living, Alive
  <2> QED
    BY <2>2, <2>3
<1> QED
  BY <1>6, <1>7, <1>9, <1>10, <1>11, <1>12 DEF Managed

(* A step that leaves the threads alone and takes no slot of a seeker.     *)
LEMMA FindableStays ==
  ASSUME NEW m \in Clients, Managed(m), \A p \in Pthreads : pc'[p] = pc[p],
         \A i \in Slots : /\ Thr(i)' = Thr(i)
                          /\ IsUse(i)' => IsUse(i) \/ ~ HeldBySeeker(i)
                          /\ IsUse(i)' /\ IsTask(m, i) => IsTask(m, i)'
  PROVE  Findable(m)'
<1> SUFFICES ASSUME NEW i \in Slots, HeldBySeeker(i)', IsUse(i)' PROVE IsTask(m, i)'
  BY DEF Findable
<1>1. HeldBySeeker(i)
  BY DEF HeldBySeeker, Thr
<1> QED
  BY <1>1 DEF Managed, Findable

(* A step of a client that creates no thread and recycles none.            *)
LEMMA ClientStep ==
  ASSUME TypeOK, NEW m \in Clients, Managed(m),
         \A p \in Pthreads : pc'[p] = pc[p] /\ slot'[p] = slot[p],
         asked' = asked, cur_task_id' = cur_task_id, runs' = runs, pid' = pid,
         \A i \in Slots : Thr(i)' = Thr(i) /\ Id(i)' = Id(i),
         \A i \in Slots : IsTask(m, i)' => IsTask(m, i) /\ ~ (Joins(m, Thr(i))'),
         \A p \in Pthreads, i \in Slots : pc[p] \in Alive /\ SlotOf(m, p, i) => SlotOf(m, p, i)',
         OnlyManager(m)', Filling(m)', Findable(m)'
  PROVE  Managed(m)'
<1>1. Unshared(m)'
  BY DEF Managed, Unshared
<1>2. Owned(m)'
  <2> SUFFICES ASSUME NEW i \in Slots, IsTask(m, i)'
               PROVE  (Thr(i) \in Pthreads /\ pc[Thr(i)] \notin {"none", "detach"} /\ ~ Joins(m, Thr(i)))'
    BY DEF Owned
  <2>1. Thr(i)' = Thr(i) /\ Thr(i) \in Pthreads /\ pc[Thr(i)] \notin {"none", "detach"}
    BY DEF Managed, Owned
  <2>2. pc'[Thr(i)] = pc[Thr(i)]
    BY <2>1
  <2>3. pc'[Thr(i)'] = pc'[Thr(i)]
    BY <2>1
  <2>4. ~ (Joins(m, Thr(i))')
    OBVIOUS
  <2> QED
    BY <2>1, <2>2, <2>3, <2>4
<1>4. Living(m)'
  <2>1. \A q \in Pthreads, i \in Slots : pc'[q] \in Alive /\ SlotOf(m, q, i) => SlotOf(m, q, i)'
    OBVIOUS
  <2> QED
    BY <2>1 DEF Managed, Living, Alive
<1>5. RunsRight'
  BY DEF Managed, RunsRight
<1> QED
  BY <1>1, <1>2, <1>4, <1>5 DEF Managed

LEMMA ManagedInit ==
  ASSUME OneManager, Init
  PROVE  \E m \in Clients : Managed(m)
<1>1. usage \in Usages
  BY DEF Init
<1>2. PICK m \in Clients : \A c \in Clients \ {m} : \A r \in usage[c] : r.op = "wait"
  BY <1>1 DEF OneManager
<1>3. \A i \in Slots : ~ IsUse(i) /\ Thr(i) = Nothing /\ Id(i) = 0
  BY DEF Init, IsUse, Thr, Id
<1>4. \A c \in Clients : pc[c] = "idle"
  BY DEF Init, Threads
<1>5. \A p \in Pthreads : pc[p] = "none" /\ runs[p] = Nothing
  BY Sets DEF Init, Threads
<1>6. OnlyManager(m)
  BY <1>2, <1>4 DEF OnlyManager
<1>7. Unshared(m)
  <2>1. pid = 0 /\ \A i \in Slots : ~ IsTask(m, i)
    BY <1>3 DEF Init, IsTask
  <2> QED
    BY <1>3, <2>1 DEF Unshared
<1>8. Filling(m) /\ Owned(m) /\ Findable(m)
  BY <1>3, <1>4 DEF Filling, Owned, Findable, IsTask
<1>9. Living(m) /\ RunsRight
  BY <1>5 DEF Living, Alive, RunsRight
<1> QED
  BY <1>6, <1>7, <1>8, <1>9 DEF Managed

-----------------------------------------------------------------------------
(* The steps of the manager, and of those who wait.                        *)

(* Only the manager is ever in sk_task_create or sk_task_destroy.          *)
LEMMA IsManager ==
  ASSUME NEW m \in Clients, Managed(m), NEW c \in Clients, pc[c] \notin {"idle", "cancel"}
  PROVE  c = m
BY DEF Managed, OnlyManager

(* A step of the manager leaves the others where they are.                 *)
LEMMA OthersStay ==
  ASSUME NEW m \in Clients, Managed(m), usage' = usage, \A c \in Clients \ {m} : pc'[c] = pc[c]
  PROVE  OnlyManager(m)'
BY DEF Managed, OnlyManager

(* A step of a client that leaves the tasks alone, outside of its joins.   *)
LEMMA QuietStep ==
  ASSUME TypeOK, NEW m \in Clients, Managed(m),
         \A p \in Pthreads : pc'[p] = pc[p] /\ slot'[p] = slot[p],
         asked' = asked, cur_task_id' = cur_task_id, runs' = runs, pid' = pid,
         pc[m] \notin {"join", "joining"}, pc'[m] \notin {"join", "joining"},
         \A i \in Slots : /\ IsTask(m, i)' <=> IsTask(m, i)
                          /\ Thr(i)' = Thr(i) /\ Id(i)' = Id(i)
                          /\ IsTask(m, i) => Fn(i)' = Fn(i)
                          /\ IsUse(i)' => IsUse(i) \/ ~ HeldBySeeker(i),
         OnlyManager(m)', Filling(m)'
  PROVE  Managed(m)'
<1>1. \A p : ~ Joins(m, p)' /\ ~ Joins(m, p)
  BY DEF Joins
<1>3. \A p \in Pthreads, i \in Slots : SlotOf(m, p, i) => SlotOf(m, p, i)'
  BY <1>1 DEF SlotOf
<1>4. \A i \in Slots : ~ (Joins(m, Thr(i))')
  BY DEF Joins
<1>5. Findable(m)'
  BY FindableStays
<1> QED
  BY <1>3, <1>4, <1>5, ClientStep

(* sk_task_create finds no task with the name.                             *)
LEMMA CheckNameStep ==
  ASSUME TypeOK, NEW m \in Clients, Managed(m), NEW n \in Names, CheckName(m, n)
  PROVE  Managed(m)'
<1>1. pc[m] = "idle" /\ pc'[m] = "get" /\ \A p \in Pthreads : pc'[p] = pc[p]
  BY Moved DEF CheckName, Goto
<1>2. os_thread_info' = os_thread_info /\ name'[m] = n
  BY DEF CheckName, TypeOK, table
<1>3. \A i \in Slots : IsTask(m, i)' <=> IsTask(m, i)
  BY <1>1, <1>2, SameTable DEF IsTask, Creating
<1>4. OnlyManager(m)'
  BY OthersStay, Moved DEF CheckName, Goto, Threads
<1>5. \A i \in Slots : IsTask(m, i) => Str(i) # n
  BY DEF CheckName, IsTaken, IsTask, Str
<1>6. Filling(m)'
  BY <1>1, <1>2, <1>3, <1>5, SameTable DEF Filling
<1> QED
  BY <1>1, <1>2, <1>3, <1>4, <1>6, SameTable, QuietStep DEF CheckName, table, tasks

(* get_free_thread_info takes a slot that no task has, and no thread that  *)
(* may search for its own.                                                 *)
LEMMA GetFreeStep ==
  ASSUME TypeOK, NEW m \in Clients, Managed(m), GetFree(m), ~ mistaken'
  PROVE  Managed(m)'
<1>1. pc[m] = "get" /\ pc'[m] \in {"name", "idle"} /\ \A p \in Pthreads : pc'[p] = pc[p]
  BY Moved DEF GetFree, Goto
<1>2. OnlyManager(m)'
  BY OthersStay, Moved DEF GetFree, Goto, Threads
<1>3. CASE FreeSlots = {} /\ pc'[m] = "idle" /\ UNCHANGED <<os_thread_info, slot>>
  <2>1. \A i \in Slots : IsTask(m, i)' <=> IsTask(m, i)
    BY <1>1, <1>3, SameTable DEF IsTask, Creating
  <2>2. Filling(m)'
    BY <1>3 DEF Filling
  <2> QED
    BY <1>1, <1>2, <1>3, <2>1, <2>2, SameTable, QuietStep DEF GetFree
<1>4. ASSUME NEW k \in Slots, FirstFree(k), pc'[m] = "name", name' = name, ~ HeldBySeeker(k),
             os_thread_info' = [os_thread_info EXCEPT ![k].is_use = TRUE], slot' = [slot EXCEPT ![m] = k]
      PROVE  Managed(m)'
  <2>1. \A i \in Slots : /\ IsUse(i)' = IF i = k THEN TRUE ELSE IsUse(i)
                         /\ Str(i)' = Str(i) /\ Thr(i)' = Thr(i) /\ Fn(i)' = Fn(i) /\ Id(i)' = Id(i)
    BY <1>4, SameButUse DEF TypeOK
  <2>2. slot'[m] = k /\ \A p \in Pthreads : slot'[p] = slot[p]
    BY <1>4, Separate DEF TypeOK, Threads
  <2>3. ~ IsUse(k) /\ \A i \in Slots : i < k => IsUse(i)
    BY <1>4, Sizes DEF FirstFree, First, FreeSlots, Slots
  <2>4. \A i \in Slots : IsTask(m, i)' <=> IsTask(m, i)
    BY <1>1, <1>4, <2>1, <2>2, <2>3 DEF IsTask, Creating
  <2>5. Filling(m)'
    <3>1. IsUse(slot[m])'
      BY <2>1, <2>2 DEF IsUse
    <3> QED
      BY <1>4, <2>1, <2>2, <3>1 DEF Filling
  <2> QED
    BY <1>1, <1>2, <1>4, <2>1, <2>2, <2>4, <2>5, QuietStep DEF GetFree
<1>5. pc' = [pc EXCEPT ![m] = "idle"] => pc'[m] = "idle"
  BY DEF TypeOK, Threads
<1>6. pc' = [pc EXCEPT ![m] = "name"] => pc'[m] = "name"
  BY DEF TypeOK, Threads
<1> QED
  BY <1>3, <1>4, <1>5, <1>6 DEF GetFree, Goto

(* set_name_thread_info: the test finds the slot in use.                   *)
LEMMA TestNameStep ==
  ASSUME TypeOK, NEW m \in Clients, Managed(m), TestName(m)
  PROVE  Managed(m)'
<1>1. IsUse(slot[m])
  BY DEF TestName, Managed, Filling
<1>2. pc[m] = "name" /\ pc'[m] = "named" /\ \A p \in Pthreads : pc'[p] = pc[p]
  BY <1>1, Moved DEF TestName, Goto
<1>3. OnlyManager(m)'
  BY OthersStay, Moved DEF TestName, Goto, Threads
<1>4. os_thread_info' = os_thread_info /\ slot' = slot /\ name' = name
  BY DEF TestName, table, locals
<1>5. \A i \in Slots : IsTask(m, i)' <=> IsTask(m, i)
  BY <1>2, <1>4, SameTable DEF IsTask, Creating
<1>6. Filling(m)'
  BY <1>1, <1>2, <1>4, <1>5, SameTable DEF Filling, Managed, IsUse
<1> QED
  BY <1>2, <1>3, <1>4, <1>5, <1>6, SameTable, QuietStep DEF TestName, table, locals, tasks

(* set_name_thread_info: its section. *)
LEMMA SetNameStep ==
  ASSUME TypeOK, NEW m \in Clients, Managed(m), SetName(m)
  PROVE  Managed(m)'
<1>1. pc[m] = "named" /\ pc'[m] = "create" /\ \A p \in Pthreads : pc'[p] = pc[p]
  BY Moved DEF SetName, Goto
<1>2. OnlyManager(m)'
  BY OthersStay, Moved DEF SetName, Goto, Threads
<1>3. slot' = slot /\ name' = name /\ slot[m] \in Slots
  BY Separate DEF SetName, locals, TypeOK, Threads
<1>4. \A i \in Slots : /\ IsUse(i)' = IsUse(i)
                       /\ Str(i)' = IF i = slot[m] THEN name[m] ELSE Str(i)
                       /\ Thr(i)' = Thr(i) /\ Fn(i)' = Fn(i) /\ Id(i)' = Id(i)
  BY <1>3 DEF SetName, TypeOK, Info, IsUse, Str, Thr, Fn, Id
<1>5. \A i \in Slots : (IsTask(m, i)' <=> IsTask(m, i)) /\ (IsTask(m, i) => i # slot[m])
  BY <1>1, <1>3, <1>4 DEF IsTask, Creating
<1>6. \A p : ~ Joins(m, p)' /\ ~ Joins(m, p)
  BY <1>1 DEF Joins
<1>7. \A i \in Slots : ~ (Joins(m, Thr(i))')
  BY <1>1 DEF Joins
<1>9. \A p \in Pthreads, i \in Slots : SlotOf(m, p, i) => SlotOf(m, p, i)'
  BY <1>4, <1>5, <1>6 DEF SlotOf, SetName, tasks
<1>10. Filling(m)'
  <2>1. IsUse(slot[m])' = IsUse(slot[m])
    BY <1>3, <1>4 DEF IsUse
  <2> QED
    BY <1>1, <1>3, <2>1 DEF Managed, Filling
<1>11. Findable(m)'
  BY <1>1, <1>4, <1>5, FindableStays
<1> QED
  BY <1>1, <1>2, <1>3, <1>4, <1>5, <1>7, <1>9, <1>10, <1>11, ClientStep DEF SetName, locals, tasks

(* pthread_create fails. *)
LEMMA CreateFailsStep ==
  ASSUME TypeOK, NEW m \in Clients, Managed(m), CreateFails(m)
  PROVE  Managed(m)'
<1>1. pc[m] = "create" /\ pc'[m] = "free" /\ \A p \in Pthreads : pc'[p] = pc[p]
  BY Moved DEF CreateFails, Goto
<1>2. OnlyManager(m)'
  BY OthersStay, Moved DEF CreateFails, Goto, Threads
<1>3. slot' = slot /\ slot[m] \in Slots
  BY Separate DEF CreateFails, locals, TypeOK, Threads
<1>4. \A i \in Slots : /\ IsUse(i)' = IsUse(i) /\ Str(i)' = Str(i)
                       /\ Thr(i)' = Thr(i) /\ Id(i)' = Id(i)
                       /\ i # slot[m] => Fn(i)' = Fn(i)
  BY <1>3 DEF CreateFails, TypeOK, Info, IsUse, Str, Thr, Fn, Id
<1>5. \A i \in Slots : (IsTask(m, i)' <=> IsTask(m, i)) /\ (IsTask(m, i) => i # slot[m])
  BY <1>1, <1>3, <1>4 DEF IsTask, Creating
<1>6. Filling(m)'
  BY <1>1 DEF Filling
<1> QED
  BY <1>1, <1>2, <1>3, <1>4, <1>5, <1>6, QuietStep DEF CreateFails, locals, tasks

(* The creator that failed gives its slot back. *)
LEMMA TestFreeStep ==
  ASSUME TypeOK, NEW m \in Clients, Managed(m), TestFree(m)
  PROVE  Managed(m)'
<1>1. /\ pc[m] = "free" /\ \A p \in Pthreads : pc'[p] = pc[p]
      /\ \/ pc'[m] = "freeing" /\ slot' = slot
         \/ pc'[m] = "idle" /\ ~ IsUse(slot[m])
  BY Moved DEF TestFree, Goto, AfterFree
<1>2. OnlyManager(m)'
  BY OthersStay, Moved DEF TestFree, Goto, Threads
<1>3. \A p \in Pthreads : slot'[p] = slot[p]
  BY Separate DEF TestFree, Forgets, TypeOK, Threads
<1>4. os_thread_info' = os_thread_info
  BY DEF TestFree, table
<1>5. \A i \in Slots : IsTask(m, i)' <=> IsTask(m, i)
  BY <1>1, <1>4, SameTable DEF IsTask, Creating
<1>6. Filling(m)'
  BY <1>1 DEF Filling
<1> QED
  BY <1>1, <1>2, <1>3, <1>4, <1>5, <1>6, SameTable, QuietStep DEF TestFree, table, tasks

LEMMA SetFreeStep ==
  ASSUME TypeOK, NEW m \in Clients, Managed(m), SetFree(m)
  PROVE  Managed(m)'
<1>1. pc[m] = "freeing" /\ pc'[m] = "idle" /\ \A p \in Pthreads : pc'[p] = pc[p]
  BY Moved DEF SetFree, Goto, AfterFree
<1>2. OnlyManager(m)'
  BY OthersStay, Moved DEF SetFree, Goto, Threads
<1>3. slot[m] \in Slots /\ \A p \in Pthreads : slot'[p] = slot[p]
  BY Separate DEF SetFree, Forgets, TypeOK, Threads
<1>4. \A i \in Slots : /\ IsUse(i)' = IF i = slot[m] THEN FALSE ELSE IsUse(i)
                       /\ Str(i)' = Str(i) /\ Thr(i)' = Thr(i) /\ Fn(i)' = Fn(i) /\ Id(i)' = Id(i)
  BY <1>3, SameButUse DEF SetFree, TypeOK
<1>5. \A i \in Slots : IsTask(m, i)' <=> IsTask(m, i)
  BY <1>1, <1>4 DEF IsTask, Creating
<1>6. Filling(m)'
  BY <1>1 DEF Filling
<1> QED
  BY <1>1, <1>2, <1>3, <1>4, <1>5, <1>6, QuietStep DEF SetFree, tasks

(* sk_task_wait, of the manager or of another client. *)
LEMMA WaitStep ==
  ASSUME TypeOK, NEW m \in Clients, Managed(m), NEW c \in Clients,
         (\E id \in 1 .. pid : CallWait(c, id)) \/ Cancel(c)
  PROVE  Managed(m)'
<1>1. /\ pc[c] \in {"idle", "cancel"} /\ pc'[c] \in {"idle", "cancel"}
      /\ \A t \in Threads \ {c} : pc'[t] = pc[t]
      /\ \A p \in Pthreads : pc'[p] = pc[p]
  BY Moved DEF CallWait, Cancel, Finds, Goto
<1>2. /\ os_thread_info' = os_thread_info /\ slot' = slot /\ usage' = usage /\ name' = name
      /\ asked' = asked /\ cur_task_id' = cur_task_id /\ runs' = runs /\ pid' = pid
  BY DEF CallWait, Cancel, table, tasks
<1>3. \A d \in Clients \ {c} : peer'[d] = peer[d]
  BY DEF CallWait, Cancel, PeerOf, TypeOK
<1>4. OnlyManager(m)'
  BY <1>1, <1>2 DEF Managed, OnlyManager, Threads
<1>5. m # c => pc'[m] = pc[m]
  BY <1>1 DEF Threads
<1>6. \A i \in Slots : (IsTask(m, i)' <=> IsTask(m, i))
  BY <1>1, <1>2, <1>5, SameTable DEF IsTask, Creating
<1>7. \A p : Joins(m, p)' <=> Joins(m, p)
  BY <1>1, <1>3, <1>5 DEF Joins
<1>8. Filling(m)'
  <2>1. pc'[m] = pc[m] \/ pc'[m] \in {"idle", "cancel"}
    BY <1>1, <1>5
  <2>2. IsUse(slot[m])' = IsUse(slot[m]) /\ Str(slot[m])' = Str(slot[m])
    BY <1>2 DEF IsUse, Str
  <2>3. pc'[m] = "joining" => peer'[m] \in Pthreads
    BY <1>1, <1>3, <1>5 DEF Managed, Filling
  <2> QED
    BY <1>2, <1>6, <2>1, <2>2, <2>3, SameTable DEF Managed, Filling
<1>9. \A i \in Slots : IsTask(m, i)' => ~ (Joins(m, Thr(i))')
  <2>1. \A i \in Slots : IsTask(m, i) => ~ Joins(m, Thr(i))
    BY DEF Managed, Owned
  <2>2. \A i \in Slots : Thr(i)' = Thr(i)
    BY <1>2, SameTable
  <2> QED
    BY <1>1, <1>3, <1>5, <1>6, <2>1, <2>2 DEF Joins
<1>11. \A p \in Pthreads, i \in Slots : SlotOf(m, p, i) => SlotOf(m, p, i)'
  BY <1>2, <1>6, <1>7, SameTable DEF SlotOf
<1>12. Findable(m)'
  BY <1>1, <1>2, <1>6, SameTable, FindableStays
<1> QED
  BY <1>1, <1>2, <1>4, <1>6, <1>8, <1>9, <1>11, <1>12, SameTable, ClientStep

(* sk_task_destroy frees the slot of a task; its thread is joined from now *)
(* on.                                                                     *)
LEMMA DestroyStep ==
  ASSUME TypeOK, NEW m \in Clients, Managed(m), NEW id \in 1 .. pid, CallDestroy(m, id)
  PROVE  Managed(m)'
<1>1. pc[m] = "idle" /\ pc'[m] = "join" /\ \A p \in Pthreads : pc'[p] = pc[p]
  BY Moved DEF CallDestroy, Finds, Goto
<1>2. OnlyManager(m)'
  BY OthersStay, Moved DEF CallDestroy, Goto, Threads
<1>3. PICK k \in Slots : /\ IsUse(k) /\ PeerOf(m, k)
                         /\ os_thread_info' = [os_thread_info EXCEPT ![k].is_use = FALSE]
  BY DEF CallDestroy, Finds
<1>4. \A i \in Slots : /\ IsUse(i)' = IF i = k THEN FALSE ELSE IsUse(i)
                       /\ Str(i)' = Str(i) /\ Thr(i)' = Thr(i) /\ Fn(i)' = Fn(i) /\ Id(i)' = Id(i)
  BY <1>3, SameButUse DEF TypeOK
<1>5. \A i \in Slots : (IsTask(m, i) <=> IsUse(i)) /\ (IsTask(m, i)' <=> IsTask(m, i) /\ i # k)
  BY <1>1, <1>4 DEF IsTask, Creating
<1>6. \A q : ~ Joins(m, q) /\ (Joins(m, q)' <=> q = Thr(k))
  BY <1>1, <1>3 DEF Joins, PeerOf, Thr, TypeOK
<1>7. \A i \in Slots : IsTask(m, i)' => ~ (Joins(m, Thr(i))')
  <2>1. \A i \in Slots : IsTask(m, i)' => Thr(i) # Thr(k)
    BY <1>3, <1>5 DEF Managed, Unshared
  <2>2. peer'[m] = Thr(k)
    BY <1>3 DEF PeerOf, Thr, TypeOK
  <2> QED
    BY <1>4, <2>1, <2>2 DEF Joins
<1>9. \A p \in Pthreads, i \in Slots : SlotOf(m, p, i) => SlotOf(m, p, i)'
  BY <1>4, <1>5, <1>6 DEF SlotOf, CallDestroy, tasks
<1>10. Filling(m)'
  BY <1>1 DEF Filling
<1>11. Findable(m)'
  BY <1>1, <1>4, <1>5, FindableStays
<1> QED
  BY <1>1, <1>2, <1>4, <1>5, <1>7, <1>9, <1>10, <1>11, ClientStep DEF CallDestroy, tasks

(* pthread_join: if it fails, the thread is gone. *)
LEMMA JoinStep ==
  ASSUME TypeOK, NEW m \in Clients, Managed(m), Join(m)
  PROVE  Managed(m)'
<1>1. /\ pc[m] = "join" /\ \A p \in Pthreads : pc'[p] = pc[p]
      /\ \/ pc'[m] = "joining" /\ peer' = peer
         \/ pc'[m] = "idle" /\ ~ (\E p \in Pthreads : p = peer[m] /\ pc[p] # "none" /\ ~ Joined(p))
  BY Moved DEF Join, Goto
<1>2. OnlyManager(m)'
  BY OthersStay, Moved DEF Join, Goto, Threads
<1>3. os_thread_info' = os_thread_info /\ slot' = slot
  BY DEF Join, table
<1>4. \A p : ~ Joined(p)
  BY <1>1, IsManager DEF Joined
<1>5. \A i \in Slots : IsTask(m, i)' <=> IsTask(m, i)
  BY <1>1, <1>3, SameTable DEF IsTask, Creating
<1>6. \A p \in Pthreads : Joins(m, p) /\ pc[p] # "none" => Joins(m, p)'
  BY <1>1, <1>4 DEF Joins
<1>7. \A i \in Slots : IsTask(m, i)' => ~ (Joins(m, Thr(i))')
  <2>1. \A i \in Slots : IsTask(m, i) => Thr(i) # peer[m]
    BY <1>1 DEF Managed, Owned, Joins
  <2> QED
    BY <1>1, <1>3, <1>5, <2>1, SameTable DEF Joins
<1>9. \A p \in Pthreads, i \in Slots : pc[p] \in Alive /\ SlotOf(m, p, i) => SlotOf(m, p, i)'
  BY <1>3, <1>5, <1>6, SameTable DEF SlotOf, Join, tasks, Alive
<1>10. Filling(m)'
  <2>1. pc'[m] = "joining" => peer'[m] \in Pthreads
    BY <1>1 DEF Join, Goto, TypeOK, Threads
  <2> QED
    BY <1>1, <2>1 DEF Filling
<1>11. Findable(m)'
  BY <1>1, <1>3, <1>5, SameTable, FindableStays
<1> QED
  BY <1>1, <1>2, <1>3, <1>5, <1>7, <1>9, <1>10, <1>11, SameTable, ClientStep DEF Join, table, tasks

(* The join ends: no task is left with the thread. *)
LEMMA JoinEndsStep ==
  ASSUME TypeOK, NEW m \in Clients, Managed(m), JoinEnds(m)
  PROVE  Managed(m)'
<1> DEFINE q == peer[m]
<1>1. pc[m] = "joining" /\ pc[q] = "ended" /\ q \in Pthreads /\ q \in Threads /\ m \in Threads /\ q # m
  BY Separate DEF JoinEnds, Managed, Filling, Threads
<1>2. /\ pc'[m] = "idle" /\ pc'[q] = "none" /\ \A t \in Threads \ {m, q} : pc'[t] = pc[t]
      /\ os_thread_info' = os_thread_info /\ slot' = slot /\ usage' = usage /\ pid' = pid
      /\ asked' = asked /\ cur_task_id' = cur_task_id /\ runs' = runs
  BY <1>1 DEF JoinEnds, TypeOK, table, tasks
<1> HIDE DEF q
<1>3. \A p \in Pthreads : p # q => pc'[p] = pc[p]
  BY <1>2, Separate
<1>4. OnlyManager(m)'
  BY <1>1, <1>2, OthersStay, Separate DEF Threads
<1>5. \A i \in Slots : IsTask(m, i)' <=> IsTask(m, i)
  BY <1>1, <1>2, SameTable DEF IsTask, Creating
<1>6. Unshared(m)'
  BY <1>2, <1>5, SameTable DEF Managed, Unshared
<1>7. Filling(m)'
  BY <1>2 DEF Filling
<1>8. Owned(m)'
  <2>1. \A i \in Slots : IsTask(m, i) => Thr(i) # q
    BY <1>1 DEF Managed, Owned, Joins, q
  <2>2. \A i \in Slots : Thr(i)' = Thr(i)
    BY <1>2, SameTable
  <2>3. \A p : ~ Joins(m, p)'
    BY <1>2 DEF Joins
  <2> SUFFICES ASSUME NEW i \in Slots, IsTask(m, i)'
               PROVE  (Thr(i) \in Pthreads /\ pc[Thr(i)] \notin {"none", "detach"} /\ ~ Joins(m, Thr(i)))'
    BY DEF Owned
  <2>4. Thr(i) \in Pthreads /\ pc[Thr(i)] \notin {"none", "detach"} /\ Thr(i) # q
    BY <1>5, <2>1 DEF Managed, Owned
  <2>5. pc'[Thr(i)'] = pc[Thr(i)]
    BY <1>3, <2>2, <2>4
  <2>6. ~ (Joins(m, Thr(i))')
    BY <1>2 DEF Joins
  <2> QED
    BY <2>2, <2>4, <2>5, <2>6
<1>9. Findable(m)'
  <2> SUFFICES ASSUME NEW i \in Slots, HeldBySeeker(i)', IsUse(i)' PROVE IsTask(m, i)'
    BY DEF Findable
  <2>1. PICK p \in Pthreads : Thr(i)' = p /\ pc'[p] \in Seekers
    BY DEF HeldBySeeker, Thr, Seekers
  <2>2. pc[p] \in Seekers /\ Thr(i) = p
    BY <1>2, <1>3, <2>1, SameTable DEF Seekers
  <2>3. HeldBySeeker(i) /\ IsUse(i)
    BY <1>2, <2>2, SameTable DEF HeldBySeeker, Thr, Seekers
  <2> QED
    BY <1>5, <2>3 DEF Managed, Findable
<1>10. Living(m)'
  <2>1. \A p \in Pthreads, i \in Slots : p # q /\ SlotOf(m, p, i) => SlotOf(m, p, i)'
    BY <1>1, <1>2, <1>5, SameTable DEF SlotOf, Joins, q
  <2>2. pc'[q] \notin Alive
    BY <1>2 DEF Alive
  <2>3. \A i \in Slots : Id(i)' = Id(i)
    BY <1>2, SameTable
  <2> QED
    BY <1>2, <1>3, <2>1, <2>2, <2>3 DEF Managed, Living, Alive
<1>11. RunsRight'
  BY <1>1, <1>2, <1>3 DEF Managed, RunsRight
<1> QED
  BY <1>4, <1>6, <1>7, <1>8, <1>9, <1>10, <1>11 DEF Managed

(* pthread_create gives a pthread_t that no thread has, and so no task:    *)
(* the slot that the manager filled becomes the task of the new thread.    *)
LEMMA CreateThreadStep ==
  ASSUME TypeOK, NEW m \in Clients, Managed(m), NEW q \in Pthreads, CreateThread(m, q)
  PROVE  Managed(m)'
<1>k. PICK k \in Slots : k = slot[m]
  BY DEF TypeOK, Threads
<1>1. /\ pc[m] = "create" /\ pc[q] = "none" /\ q # m /\ q \in Threads /\ m \in Threads
      /\ pid \in Nat /\ q # Nothing
  BY Sizes, Separate DEF CreateThread, TypeOK, Threads
<1>2. /\ pc'[m] = "idle" /\ pc'[q] = "look" /\ \A t \in Threads \ {m, q} : pc'[t] = pc[t]
      /\ usage' = usage /\ pid' = pid + 1 /\ cur_task_id' = cur_task_id /\ runs' = runs
      /\ asked'[q] = name[m] /\ \A p \in Pthreads : p # q => asked'[p] = asked[p]
  BY <1>1 DEF CreateThread, TypeOK
<1>3. \A p \in Pthreads : slot'[p] = slot[p] /\ slot[p] \in Slots
  BY Separate DEF CreateThread, TypeOK
<1>4. \A i \in Slots : /\ IsUse(i)' = IsUse(i) /\ Str(i)' = Str(i)
                       /\ Thr(i)' = IF i = k THEN q ELSE Thr(i)
                       /\ Fn(i)' = IF i = k THEN name[m] ELSE Fn(i)
                       /\ Id(i)' = IF i = k THEN pid + 1 ELSE Id(i)
  BY <1>k, <1>1 DEF CreateThread, Fun, TypeOK, Info, IsUse, Str, Thr, Fn, Id
<1>6. IsUse(k)
  BY <1>k, <1>1 DEF Managed, Filling
<1>7. \A i \in Slots : (IsTask(m, i) <=> IsUse(i) /\ i # k) /\ (IsTask(m, i)' <=> IsTask(m, i) \/ i = k)
  BY <1>k, <1>1, <1>2, <1>4, <1>6 DEF IsTask, Creating
<1>5. \A i \in Slots : IsTask(m, i) => Thr(i) # q
  BY <1>1 DEF Managed, Owned
<1>8. \A p : ~ Joins(m, p) /\ ~ Joins(m, p)'
  BY <1>1, <1>2 DEF Joins
<1>9. \A p \in Pthreads : p # q => pc'[p] = pc[p]
  BY <1>2, Separate
<1>10. OnlyManager(m)'
  BY <1>1, <1>2, OthersStay, Separate DEF Threads
<1>11. Unshared(m)'
  <2>1. \A i, j \in Slots : IsTask(m, i)' /\ IsTask(m, j)' /\ Thr(i)' = Thr(j)' => i = j
    BY <1>4, <1>5, <1>7 DEF Managed, Unshared
  <2>2. \A i \in Slots : Id(i) \in Nat /\ Id(i) <= pid
    BY Sizes DEF Managed, Unshared, TypeOK, Info, Id
  <2>3. \A i, j \in Slots : Id(i)' = Id(j)' /\ Id(i)' # 0 => i = j
    BY <1>1, <1>4, <2>2 DEF Managed, Unshared
  <2>4. \A i \in Slots : Id(i)' <= pid'
    BY <1>1, <1>2, <1>4, <2>2
  <2> QED
    BY <2>1, <2>3, <2>4 DEF Unshared
<1>12. Filling(m)'
  BY <1>2 DEF Filling
<1>13. Owned(m)'
  <2> SUFFICES ASSUME NEW i \in Slots, IsTask(m, i)'
               PROVE  (Thr(i) \in Pthreads /\ pc[Thr(i)] \notin {"none", "detach"} /\ ~ Joins(m, Thr(i)))'
    BY DEF Owned
  <2>1. ~ (Joins(m, Thr(i))')
    BY <1>2 DEF Joins
  <2>2. CASE i = k
    BY <1>2, <1>4, <2>1, <2>2
  <2>3. CASE i # k
    <3>1. Thr(i)' = Thr(i) /\ Thr(i) \in Pthreads /\ pc[Thr(i)] \notin {"none", "detach"} /\ Thr(i) # q
      BY <1>4, <1>5, <1>7, <2>3 DEF Managed, Owned
    <3>2. pc'[Thr(i)'] = pc[Thr(i)]
      BY <1>9, <3>1
    <3> QED
      BY <2>1, <3>1, <3>2
  <2> QED
    BY <2>2, <2>3
<1>14. Findable(m)'
  <2> SUFFICES ASSUME NEW i \in Slots, i # k, HeldBySeeker(i)', IsUse(i)' PROVE IsTask(m, i)'
    BY <1>7 DEF Findable
  <2> QED
    BY <1>4, <1>7
<1>15. Living(m)'
  <2>1. SlotOf(m, q, k)' /\ pc'[q] = "look"
    BY <1>1, <1>2, <1>4, <1>7, Sizes DEF SlotOf
  <2>2. \A p \in Pthreads, i \in Slots : p # q /\ SlotOf(m, p, i) => SlotOf(m, p, i)' /\ Id(i)' = Id(i)
    BY <1>2, <1>4, <1>7, <1>8 DEF SlotOf
  <2> SUFFICES ASSUME NEW p \in Pthreads
               PROVE  (/\ pc[p] \in Alive => \E i \in Slots : SlotOf(m, p, i)
                       /\ pc[p] \in {"found", "run", "free", "freeing"} =>
                            \E i \in Slots : i = slot[p] /\ SlotOf(m, p, i)
                       /\ pc[p] = "term" => \E i \in Slots : SlotOf(m, p, i) /\ Id(i) = cur_task_id[p])'
    BY DEF Living
  <2>3. CASE p = q
    BY <2>1, <2>3
  <2>4. CASE p # q
    BY <1>2, <1>3, <1>9, <2>2, <2>4 DEF Managed, Living, Alive
  <2> QED
    BY <2>3, <2>4
<1>16. RunsRight'
  <2>1. runs[q] = Nothing
    BY <1>1 DEF Managed, RunsRight
  <2> QED
    BY <1>2, <1>9, <2>1 DEF Managed, RunsRight
<1> QED
  BY <1>10, <1>11, <1>12, <1>13, <1>14, <1>15, <1>16 DEF Managed

-----------------------------------------------------------------------------
(* The steps of the threads of tasks. *)

LEMMA RunsStay ==
  ASSUME TypeOK, RunsRight, NEW p \in Pthreads, NEW b, b \notin {"none", "ended"},
         pc' = [pc EXCEPT ![p] = b], asked' = asked, runs' = runs
  PROVE  RunsRight'
BY Separate DEF RunsRight, TypeOK, Threads

(* The slot of a thread is the only task with it. *)
LEMMA OneTask ==
  ASSUME NEW m \in Clients, Managed(m), NEW p \in Pthreads, NEW i \in Slots, NEW j \in Slots,
         SlotOf(m, p, i), IsTask(m, j), Thr(j) = p
  PROVE  i = j
<1>1. ~ Joins(m, p)
  BY DEF Managed, Owned
<1> QED
  BY <1>1 DEF Managed, Unshared, SlotOf

(* What a thread that searches for itself finds is its own. *)
LEMMA OwnSlot ==
  ASSUME NEW m \in Clients, Managed(m), NEW p \in Pthreads, pc[p] \in Seekers, NEW j \in Own(p)
  PROVE  SlotOf(m, p, j)
<1>1. j \in Slots /\ Thr(j) = p /\ IsUse(j) /\ HeldBySeeker(j)
  BY DEF Own, Thr, HeldBySeeker, Seekers
<1>2. IsTask(m, j)
  BY <1>1 DEF Managed, Findable
<1>3. PICK i \in Slots : SlotOf(m, p, i)
  BY DEF Managed, Living, Alive, Seekers
<1> QED
  BY <1>1, <1>2, <1>3, OneTask

(* What a thread frees is its own. *)
LEMMA SlotThread ==
  ASSUME NEW m \in Clients, Managed(m), NEW p \in Pthreads,
         pc[p] \in {"found", "run", "free", "freeing"}
  PROVE  \E i \in Slots : i = slot[p] /\ SlotOf(m, p, i)
BY DEF Managed, Living

(* The first slot with the id that sk_task_cur_id gave is the thread's.    *)
LEMMA IdThread ==
  ASSUME NEW m \in Clients, Managed(m), NEW p \in Pthreads, pc[p] = "term"
  PROVE  \E k \in Slots : SlotOf(m, p, k) /\ \A i \in Slots : HasId(i, cur_task_id[p]) <=> i = k
<1>1. PICK k \in Slots : SlotOf(m, p, k) /\ Id(k) = cur_task_id[p]
  BY DEF Managed, Living
<1>2. \A j \in Slots : Id(j) = cur_task_id[p] <=> j = k
  BY <1>1 DEF Managed, Unshared, SlotOf
<1>3. {j \in Slots : os_thread_info[j].task_sk_id = cur_task_id[p]} = {k}
  BY <1>2 DEF Id
<1>4. k <= k
  BY Sizes DEF Slots
<1> QED
  BY <1>1, <1>3, <1>4 DEF HasId, First

LEMMA LookStep ==
  ASSUME TypeOK, NEW m \in Clients, Managed(m), NEW p \in Pthreads, Look(p)
  PROVE  Managed(m)'
<1>1. /\ peer' = peer /\ name' = name /\ usage' = usage /\ pid' = pid /\ os_thread_info' = os_thread_info
      /\ asked' = asked /\ runs' = runs /\ cur_task_id' = cur_task_id /\ pc[p] = "look" /\ p \in Threads
  BY Separate DEF Look, table, tasks
<1>2. CASE UNCHANGED <<slot, pc>>
  <2>1. pc' = [pc EXCEPT ![p] = "look"] /\ slot' \in [Threads -> Slots]
    BY <1>1, <1>2 DEF TypeOK
  <2>2. RunsRight'
    BY <1>1, <2>1, RunsStay DEF Managed
  <2>3. Moves(m, p, "look")
    BY <1>1, <1>2, <2>1, SameTable DEF Moves, Alive, Seekers
  <2> QED
    BY <2>2, <2>3, ThreadStep
<1>3. ASSUME NEW i \in Slots, i \in Own(p), slot' = [slot EXCEPT ![p] = i], pc' = [pc EXCEPT ![p] = "found"]
      PROVE  Managed(m)'
  <2>1. slot' \in [Threads -> Slots] /\ slot'[p] = i /\ \A t \in Threads \ {p} : slot'[t] = slot[t]
    BY <1>1, <1>3 DEF TypeOK
  <2>2. SlotOf(m, p, i)
    BY <1>1, <1>3, OwnSlot DEF Seekers
  <2>3. RunsRight'
    BY <1>1, <1>3, RunsStay DEF Managed
  <2>4. Moves(m, p, "found")
    BY <1>1, <1>3, <2>1, <2>2, SameTable DEF Moves, Alive, Seekers
  <2> QED
    BY <2>3, <2>4, ThreadStep
<1> QED
  BY <1>2, <1>3 DEF Look, First, Goto

(* The wrapper reads the function that its creation put into its slot.     *)
LEMMA StartStep ==
  ASSUME TypeOK, NEW m \in Clients, Managed(m), NEW p \in Pthreads, Start(p)
  PROVE  Managed(m)'
<1>1. /\ peer' = peer /\ name' = name /\ usage' = usage /\ pid' = pid /\ os_thread_info' = os_thread_info
      /\ asked' = asked /\ cur_task_id' = cur_task_id /\ slot' = slot
      /\ pc[p] = "found" /\ p \in Threads /\ pc' = [pc EXCEPT ![p] = "run"]
  BY Separate DEF Start, table, locals, Goto
<1>2. PICK i \in Slots : i = slot[p] /\ SlotOf(m, p, i)
  BY <1>1, SlotThread
<1>3. slot' \in [Threads -> Slots]
  BY <1>1 DEF TypeOK
<1>4. runs'[p] = asked[p] /\ \A q \in Pthreads : q # p => runs'[q] = runs[q]
  BY <1>2 DEF Start, SlotOf, Fn, TypeOK
<1>5. RunsRight'
  BY <1>1, <1>4 DEF Managed, RunsRight, TypeOK
<1>6. Moves(m, p, "run")
  BY <1>1, <1>2, <1>3, SameTable DEF Moves, Alive, Seekers
<1> QED
  BY <1>5, <1>6, ThreadStep

LEMMA ReturnStep ==
  ASSUME TypeOK, NEW m \in Clients, Managed(m), NEW p \in Pthreads, Return(p)
  PROVE  Managed(m)'
<1>1. /\ peer' = peer /\ name' = name /\ usage' = usage /\ pid' = pid /\ os_thread_info' = os_thread_info
      /\ asked' = asked /\ runs' = runs /\ cur_task_id' = cur_task_id /\ slot' = slot
      /\ pc[p] = "run" /\ p \in Threads /\ pc' = [pc EXCEPT ![p] = "free"]
  BY Separate DEF Return, table, locals, tasks, Goto
<1>2. (\E i \in Slots : i = slot[p] /\ SlotOf(m, p, i)) /\ slot' \in [Threads -> Slots]
  BY <1>1, SlotThread DEF TypeOK
<1>3. RunsRight'
  BY <1>1, RunsStay DEF Managed
<1>4. Moves(m, p, "free")
  BY <1>1, <1>2, SameTable DEF Moves, Alive, Seekers
<1> QED
  BY <1>3, <1>4, ThreadStep

LEMMA WrapperTestStep ==
  ASSUME TypeOK, NEW m \in Clients, Managed(m), NEW p \in Pthreads, TestFree(p)
  PROVE  Managed(m)'
<1>1. /\ peer' = peer /\ usage' = usage /\ pid' = pid /\ os_thread_info' = os_thread_info
      /\ asked' = asked /\ runs' = runs /\ cur_task_id' = cur_task_id
      /\ pc[p] = "free" /\ p \in Threads /\ p \notin Clients
  BY Separate DEF TestFree, table, tasks
<1>2. PICK i \in Slots : i = slot[p] /\ SlotOf(m, p, i)
  BY <1>1, SlotThread
<1>3. CASE IsUse(slot[p])
  <2>1. pc' = [pc EXCEPT ![p] = "freeing"] /\ slot' = slot /\ name' = name
    BY <1>3 DEF TestFree, Goto
  <2>2. slot' \in [Threads -> Slots]
    BY <2>1 DEF TypeOK
  <2>3. RunsRight'
    BY <1>1, <2>1, RunsStay DEF Managed
  <2>4. Moves(m, p, "freeing")
    BY <1>1, <1>2, <2>1, <2>2, SameTable DEF Moves, Alive, Seekers
  <2> QED
    BY <2>3, <2>4, ThreadStep
<1>4. CASE ~ IsUse(slot[p])
  <2>1. pc' = [pc EXCEPT ![p] = "detach"] /\ slot' = [slot EXCEPT ![p] = 0] /\ name' = name
    BY <1>1, <1>4 DEF TestFree, Goto, AfterFree, Forgets, TypeOK
  <2>2. slot' \in [Threads -> Slots] /\ \A t \in Threads \ {p} : slot'[t] = slot[t]
    BY <2>1, FirstSlot DEF TypeOK
  <2>3. \A j \in Slots : Thr(j) = p => ~ IsTask(m, j)
    BY <1>2, <1>4, OneTask DEF IsTask
  <2>4. RunsRight'
    BY <1>1, <2>1, RunsStay DEF Managed
  <2>5. Moves(m, p, "detach")
    BY <1>1, <2>1, <2>2, <2>3, SameTable DEF Moves, Alive, Seekers
  <2> QED
    BY <2>4, <2>5, ThreadStep
<1> QED
  BY <1>3, <1>4

(* The wrapper frees its slot: the task ends. *)
LEMMA WrapperFreeStep ==
  ASSUME TypeOK, NEW m \in Clients, Managed(m), NEW p \in Pthreads, SetFree(p)
  PROVE  Managed(m)'
<1>1. /\ peer' = peer /\ usage' = usage /\ pid' = pid
      /\ asked' = asked /\ runs' = runs /\ cur_task_id' = cur_task_id
      /\ pc[p] = "freeing" /\ p \in Threads /\ p \notin Clients
  BY Separate DEF SetFree, tasks
<1>2. PICK i \in Slots : i = slot[p] /\ SlotOf(m, p, i)
  BY <1>1, SlotThread
<1>3. pc' = [pc EXCEPT ![p] = "detach"] /\ slot' = [slot EXCEPT ![p] = 0] /\ name' = name
  BY <1>1 DEF SetFree, Goto, AfterFree, Forgets, TypeOK
<1>4. slot' \in [Threads -> Slots] /\ \A t \in Threads \ {p} : slot'[t] = slot[t]
  BY <1>3, FirstSlot DEF TypeOK
<1>5. \A j \in Slots : /\ IsUse(j)' = IF j = i THEN FALSE ELSE IsUse(j)
                       /\ Str(j)' = Str(j) /\ Thr(j)' = Thr(j) /\ Fn(j)' = Fn(j) /\ Id(j)' = Id(j)
  BY <1>2, SameButUse DEF SetFree, TypeOK
<1>6. \A j \in Slots : Thr(j) = p /\ IsTask(m, j) => j = i
  BY <1>2, OneTask
<1>7. RunsRight'
  BY <1>1, <1>3, RunsStay DEF Managed
<1>8. Moves(m, p, "detach")
  BY <1>1, <1>2, <1>3, <1>4, <1>5, <1>6 DEF Moves, Alive, Seekers
<1> QED
  BY <1>7, <1>8, ThreadStep

LEMMA CurIdStep ==
  ASSUME TypeOK, NEW m \in Clients, Managed(m), NEW p \in Pthreads, CurId(p)
  PROVE  Managed(m)'
<1>1. /\ peer' = peer /\ name' = name /\ usage' = usage /\ pid' = pid /\ os_thread_info' = os_thread_info
      /\ asked' = asked /\ runs' = runs /\ slot' = slot
      /\ pc[p] = "run" /\ p \in Threads /\ pc' = [pc EXCEPT ![p] = "term"]
  BY Separate DEF CurId, table, tasks, Goto
<1>2. slot' \in [Threads -> Slots]
  BY <1>1 DEF TypeOK
<1>3. \A q \in Pthreads \ {p} : cur_task_id'[q] = cur_task_id[q]
  BY DEF CurId, TypeOK
<1>4. \E i \in Slots : SlotOf(m, p, i) /\ Id(i) = cur_task_id'[p]
  <2>1. PICK i \in Own(p) : cur_task_id' = [cur_task_id EXCEPT ![p] = os_thread_info[i].task_sk_id]
    BY DEF CurId, First
  <2>2. SlotOf(m, p, i) /\ i \in Slots
    BY <1>1, OwnSlot DEF Own, Seekers
  <2> QED
    BY <2>1, <2>2 DEF Id, TypeOK
<1>5. RunsRight'
  BY <1>1, RunsStay DEF Managed
<1>6. Moves(m, p, "term")
  BY <1>1, <1>2, <1>3, <1>4, SameTable DEF Moves, Alive, Seekers
<1> QED
  BY <1>5, <1>6, ThreadStep

(* sk_task_term frees the slot of the task that calls it.                  *)
LEMMA TerminateStep ==
  ASSUME TypeOK, NEW m \in Clients, Managed(m), NEW p \in Pthreads, Terminate(p)
  PROVE  Managed(m)'
<1>1. /\ peer' = peer /\ name' = name /\ usage' = usage /\ pid' = pid
      /\ asked' = asked /\ runs' = runs /\ slot' = slot
      /\ pc[p] = "term" /\ p \in Threads
  BY Separate DEF Terminate, tasks
<1>2. PICK k \in Slots : SlotOf(m, p, k) /\ \A i \in Slots : HasId(i, cur_task_id[p]) <=> i = k
  BY <1>1, IdThread
<1>3. os_thread_info' = [os_thread_info EXCEPT ![k].is_use = FALSE] /\ pc' = [pc EXCEPT ![p] = "detach"]
  BY <1>2 DEF Terminate, Goto
<1>4. \A j \in Slots : /\ IsUse(j)' = IF j = k THEN FALSE ELSE IsUse(j)
                       /\ Str(j)' = Str(j) /\ Thr(j)' = Thr(j) /\ Fn(j)' = Fn(j) /\ Id(j)' = Id(j)
  BY <1>3, SameButUse DEF TypeOK
<1>5. \A j \in Slots : Thr(j) = p /\ IsTask(m, j) => j = k
  BY <1>2, OneTask
<1>6. slot' \in [Threads -> Slots] /\ \A q \in Pthreads \ {p} : cur_task_id'[q] = cur_task_id[q]
  BY <1>1 DEF TypeOK, Terminate
<1>7. RunsRight'
  BY <1>1, <1>3, RunsStay DEF Managed
<1>8. Moves(m, p, "detach")
  BY <1>1, <1>2, <1>3, <1>4, <1>5, <1>6 DEF Moves, Alive, Seekers
<1> QED
  BY <1>7, <1>8, ThreadStep

(* A thread that ends, by itself or cancelled, with its slot freed or not. *)
LEMMA EndsStep ==
  ASSUME TypeOK, NEW m \in Clients, Managed(m), NEW p \in Pthreads, NEW place \in {"none", "ended"},
         Ends(p, place), usage' = usage,
         \A i \in Slots : Str(i)' = Str(i) /\ Thr(i)' = Thr(i) /\ Fn(i)' = Fn(i) /\ Id(i)' = Id(i),
         \A i \in Slots : IsUse(i)' = IsUse(i) \/ (~ IsUse(i)' /\ SlotOf(m, p, i)),
         place = "none" => pc[p] = "detach"
  PROVE  Managed(m)'
<1>1. /\ peer' = peer /\ name' = name /\ pid' = pid /\ p \in Threads
      /\ pc' = [pc EXCEPT ![p] = place] /\ slot' = [slot EXCEPT ![p] = 0]
  BY Separate DEF Ends, Goto
<1>2. slot' \in [Threads -> Slots] /\ \A t \in Threads \ {p} : slot'[t] = slot[t]
  BY <1>1, FirstSlot DEF TypeOK
<1>3. \A q \in Pthreads \ {p} : /\ cur_task_id'[q] = cur_task_id[q] /\ asked'[q] = asked[q]
                                /\ runs'[q] = runs[q] /\ pc'[q] = pc[q]
  BY <1>1 DEF Ends, TypeOK, Threads
<1>4. runs'[p] = Nothing
  BY DEF Ends, TypeOK
<1>5. RunsRight'
  BY <1>3, <1>4 DEF Managed, RunsRight
<1>6. place \in {"none", "detach"} => \A i \in Slots : Thr(i) = p => ~ IsTask(m, i)
  BY DEF Managed, Owned
<1>7. place \notin Alive \cup Seekers /\ place \notin {"found", "run", "free", "freeing", "term", "detach"}
  BY DEF Alive, Seekers
<1>8. Moves(m, p, place)
  BY <1>1, <1>2, <1>3, <1>6, <1>7 DEF Moves
<1> QED
  BY <1>5, <1>8, ThreadStep

LEMMA DetachStep ==
  ASSUME TypeOK, NEW m \in Clients, Managed(m), NEW p \in Pthreads, Detach(p)
  PROVE  Managed(m)'
<1>1. PICK place \in {"none", "ended"} : Ends(p, place)
  BY DEF Detach
<1>2. os_thread_info' = os_thread_info /\ pc[p] = "detach" /\ usage' = usage
  BY DEF Detach, Ends
<1>3. \A i \in Slots : Str(i)' = Str(i) /\ Thr(i)' = Thr(i) /\ Fn(i)' = Fn(i) /\ Id(i)' = Id(i)
  BY <1>2, SameTable
<1>4. \A i \in Slots : IsUse(i)' = IsUse(i) \/ (~ IsUse(i)' /\ SlotOf(m, p, i))
  BY <1>2, SameTable
<1> QED
  BY <1>1, <1>2, <1>3, <1>4, EndsStep

(* A cancelled thread leaves its slot in use. *)
LEMMA CancelStep ==
  ASSUME TypeOK, NEW m \in Clients, Managed(m), NEW p \in Pthreads, CancelTakesEffect(p)
  PROVE  Managed(m)'
<1>1. Ends(p, "ended")
  BY DEF CancelTakesEffect
<1>2. os_thread_info' = os_thread_info /\ usage' = usage
  BY DEF CancelTakesEffect, Ends
<1>3. \A i \in Slots : Str(i)' = Str(i) /\ Thr(i)' = Thr(i) /\ Fn(i)' = Fn(i) /\ Id(i)' = Id(i)
  BY <1>2, SameTable
<1>4. \A i \in Slots : IsUse(i)' = IsUse(i) \/ (~ IsUse(i)' /\ SlotOf(m, p, i))
  BY <1>2, SameTable
<1> QED
  BY <1>1, <1>2, <1>3, <1>4, EndsStep

(* Cancelled in a section, it frees its own slot or none. *)
LEMMA CancelInsideStep ==
  ASSUME TypeOK, NEW m \in Clients, Managed(m), NEW p \in Pthreads, CancelledInside(p)
  PROVE  Managed(m)'
<1>1. Ends(p, "ended") /\ usage' = usage /\ pc[p] \in {"look", "run", "term", "freeing"}
  BY DEF CancelledInside, Ends
<1>2. CASE os_thread_info' = os_thread_info
  <2>1. \A i \in Slots : Str(i)' = Str(i) /\ Thr(i)' = Thr(i) /\ Fn(i)' = Fn(i) /\ Id(i)' = Id(i)
    BY <1>2, SameTable
  <2>2. \A i \in Slots : IsUse(i)' = IsUse(i) \/ (~ IsUse(i)' /\ SlotOf(m, p, i))
    BY <1>2, SameTable
  <2> QED
    BY <1>1, <2>1, <2>2, EndsStep
<1>3. ASSUME NEW k \in Slots, SlotOf(m, p, k), os_thread_info' = [os_thread_info EXCEPT ![k].is_use = FALSE]
      PROVE  Managed(m)'
  <2>1. \A j \in Slots : /\ IsUse(j)' = IF j = k THEN FALSE ELSE IsUse(j)
                         /\ Str(j)' = Str(j) /\ Thr(j)' = Thr(j) /\ Fn(j)' = Fn(j) /\ Id(j)' = Id(j)
    BY <1>3, SameButUse DEF TypeOK
  <2>2. \A j \in Slots : IsUse(j)' = IsUse(j) \/ (~ IsUse(j)' /\ SlotOf(m, p, j))
    <3> SUFFICES ASSUME NEW j \in Slots
                 PROVE  IsUse(j)' = IsUse(j) \/ (~ IsUse(j)' /\ SlotOf(m, p, j))
      OBVIOUS
    <3>1. CASE j = k
      BY <1>1, <1>3, <2>1, <3>1 DEF Alive
    <3>2. CASE j # k
      BY <2>1, <3>2
    <3> QED
      BY <3>1, <3>2
  <2> QED
    BY <1>1, <2>1, <2>2, EndsStep
<1>4. CASE pc[p] = "freeing" /\ os_thread_info' = [os_thread_info EXCEPT ![slot[p]].is_use = FALSE]
  BY <1>3, <1>4, SlotThread
<1>5. CASE /\ pc[p] = "term"
           /\ \E i \in Slots : /\ HasId(i, cur_task_id[p])
                               /\ os_thread_info' = [os_thread_info EXCEPT ![i].is_use = FALSE]
  BY <1>3, <1>5, IdThread
<1> QED
  BY <1>2, <1>4, <1>5 DEF CancelledInside

-----------------------------------------------------------------------------
(* All steps.  Only the manager creates and destroys. *)
LEMMA ManagedNext ==
  ASSUME TypeOK, NEW m \in Clients, Managed(m), [Next]_vars, ~ mistaken'
  PROVE  Managed(m)'
<1>1. ASSUME NEW c \in Clients, Inside(c) PROVE Managed(m)'
  <2>1. CASE Cancel(c)
    BY <2>1, WaitStep
  <2>2. CASE ~ Cancel(c)
    <3>1. pc[c] \notin {"idle", "cancel"}
      BY <1>1, <2>2 DEF Inside, GetFree, TestName, SetName, TestFree, SetFree, CreateFails,
                        CreateThread, Join, JoinEnds
    <3>2. c = m
      BY <3>1, IsManager
    <3> QED
      BY <1>1, <2>2, <3>2, GetFreeStep, TestNameStep, SetNameStep, TestFreeStep, SetFreeStep,
         CreateFailsStep, CreateThreadStep, JoinStep, JoinEndsStep DEF Inside
  <2> QED
    BY <2>1, <2>2
<1>2. ASSUME NEW c \in Clients, NEW r \in Calls(c, "create"), CheckName(c, r.name) PROVE Managed(m)'
  <2>1. r \in usage[c] /\ r.op = "create" /\ r \in Request
    BY <1>2, Sets DEF TypeOK, Calls
  <2>2. c = m
    BY <2>1 DEF Managed, OnlyManager
  <2>3. r.name \in Names
    BY <2>1 DEF Request
  <2> QED
    BY <1>2, <2>2, <2>3, CheckNameStep
<1>3. ASSUME NEW c \in Clients, NEW id \in 1 .. pid, Calls(c, "destroy") # {}, CallDestroy(c, id)
      PROVE  Managed(m)'
  <2>1. c = m
    BY <1>3 DEF Calls, Managed, OnlyManager
  <2> QED
    BY <1>3, <2>1, DestroyStep
<1>4. ASSUME NEW c \in Clients, NEW id \in 1 .. pid, CallWait(c, id) PROVE Managed(m)'
  BY <1>4, WaitStep
<1>5. ASSUME NEW p \in Pthreads, Wrapper(p) \/ Return(p) \/ CurId(p) \/ CancelTakesEffect(p) \/ CancelledInside(p)
      PROVE  Managed(m)'
  BY <1>5, LookStep, StartStep, ReturnStep, WrapperTestStep, WrapperFreeStep, TerminateStep, DetachStep,
     CurIdStep, CancelStep, CancelInsideStep DEF Wrapper
<1>6. CASE UNCHANGED vars
  <2>1. \A i \in Slots : IsTask(m, i)' <=> IsTask(m, i)
    BY <1>6, SameTable DEF vars, IsTask
  <2>2. \A p, i : SlotOf(m, p, i)' <=> SlotOf(m, p, i)
    BY <1>6 DEF vars, SlotOf, IsTask, IsUse, Thr, Fn, Id, Joins
  <2> QED
    BY <1>6 DEF vars, Managed, OnlyManager, Unshared, Findable, HeldBySeeker, Filling, Owned, Living,
                RunsRight, SlotOf, IsTask, IsUse, Str, Thr, Fn, Id, Joins
<1> QED
  BY <1>1, <1>2, <1>3, <1>4, <1>5, <1>6 DEF Next

(* A mistake is never taken back. *)
LEMMA MistakenStays ==
  ASSUME [Next]_vars, mistaken
  PROVE  mistaken'
<1>1. ASSUME NEW c \in Clients, Inside(c) PROVE mistaken'
  BY <1>1 DEF Inside, GetFree, TestName, SetName, TestFree, SetFree, CreateFails, CreateThread,
              Cancel, Join, JoinEnds, tasks
<1>2. ASSUME NEW c \in Clients, NEW n, CheckName(c, n) PROVE mistaken'
  BY <1>2 DEF CheckName, tasks
<1>3. ASSUME NEW c \in Clients, NEW id, CallWait(c, id) \/ CallDestroy(c, id) PROVE mistaken'
  BY <1>3 DEF CallWait, CallDestroy, tasks
<1>4. ASSUME NEW p \in Pthreads,
             Wrapper(p) \/ Return(p) \/ CurId(p) \/ CancelTakesEffect(p) \/ CancelledInside(p)
      PROVE  mistaken'
  BY <1>4 DEF Wrapper, Look, Start, TestFree, SetFree, Terminate, Detach, Return, CurId,
              CancelTakesEffect, CancelledInside, Ends, tasks
<1>5. CASE UNCHANGED vars
  BY <1>5 DEF vars
<1> QED
  BY <1>1, <1>2, <1>3, <1>4, <1>5 DEF Next

(* Until a creator takes the slot of a seeker, slots and threads belong    *)
(* together.                                                               *)
LEMMA Invariant == ASSUME OneManager PROVE Spec => []IInv
<1>1. Init => IInv
  BY TypeInit, ManagedInit DEF IInv
<1>2. IInv /\ [Next]_vars => IInv'
  <2> SUFFICES ASSUME IInv, [Next]_vars, ~ mistaken' PROVE IInv'
    BY TypeNext DEF IInv
  <2>1. PICK m \in Clients : Managed(m)
    BY MistakenStays DEF IInv
  <2>2. Managed(m)'
    BY <2>1, ManagedNext DEF IInv
  <2>3. TypeOK'
    BY TypeNext DEF IInv
  <2> QED
    BY <2>2, <2>3 DEF IInv
<1> QED
  BY <1>1, <1>2, PTL DEF Spec

(* The slots that properties call tasks are those of IsTask.               *)
LEMMA TasksAre ==
  ASSUME NEW m \in Clients, Managed(m)
  PROVE  \A i \in Slots : i \in Tasks <=> IsTask(m, i)
<1>1. \A i : InCreation(i) <=> pc[m] \in Creating /\ slot[m] = i
  BY IsManager DEF InCreation, Creating
<1> QED
  BY <1>1 DEF Tasks, IsTask

(* Every task has a thread of its own that runs or waits to be joined, as  *)
(* long as no creator has taken a slot that holds the pthread_t of a       *)
(* thread that may still search for its own.                               *)
THEOREM ThreadOwned == ASSUME OneManager PROVE Spec => []OwnThread
<1>1. IInv => OwnThread
  <2> SUFFICES ASSUME IInv, ~ mistaken, NEW i \in Tasks
               PROVE  /\ Thr(i) # Nothing /\ pc[Thr(i)] # "none"
                      /\ \A j \in Tasks : Thr(i) = Thr(j) => i = j
    BY DEF OwnThread, Thr
  <2>1. PICK m \in Clients : Managed(m)
    BY DEF IInv
  <2>2. IsTask(m, i) /\ \A j \in Tasks : j \in Slots /\ IsTask(m, j)
    BY <2>1, TasksAre DEF Tasks
  <2>3. Thr(i) \in Pthreads /\ pc[Thr(i)] # "none"
    BY <2>1, <2>2 DEF Managed, Owned, Tasks
  <2> QED
    BY <2>1, <2>2, <2>3, Separate DEF Managed, Unshared
<1> QED
  BY <1>1, Invariant, PTL

(* A wrapper frees its own slot, also when sk_task_destroy freed it before, *)
(* under the same condition.                                               *)
THEOREM FreesOwn == ASSUME OneManager PROVE Spec => []FreesOwnSlot
<1>1. IInv => FreesOwnSlot
  BY DEF IInv, Managed, Living, SlotOf, FreesOwnSlot, Thr
<1> QED
  BY <1>1, Invariant, PTL

(* A thread runs the function it was created for, though pthread_t's are   *)
(* given out again, under the same condition.                              *)
THEOREM FunctionRight == ASSUME OneManager PROVE Spec => []RunsOwnFunction
<1>1. IInv => RunsOwnFunction
  BY DEF IInv, Managed, RunsRight, RunsOwnFunction
<1> QED
  BY <1>1, Invariant, PTL

=============================================================================
