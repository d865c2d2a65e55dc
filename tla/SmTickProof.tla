---------------------------- MODULE SmTickProof ----------------------------
(***************************************************************************)
(* Proofs about SmTick, for any clients, calls, table, period of the scan  *)
(* and width of u32.  The two semaphores exclude; a thread past its        *)
(* clearing in sm_destroy_tick is the holder of sem_tick that never gives  *)
(* it back.  The counts stay where their product does not wrap.            *)
(*                                                                         *)
(* A timer has at most one tick pending, although the ticker searches the  *)
(* queue in one section and sends in another: a slot is due for the first  *)
(* time with one fixed count, by which the search recognises its tick, and *)
(* between the two sections the ticker holds sem_tick.                     *)
(***************************************************************************)
EXTENDS SmTick, SequenceTheorems, TLAPS

(* A thread that holds sem_tick. *)
InTick(t) == pc[t] \in {"scan", "fill", "clear", "relock"} \/ (t = ticker /\ pc[t] \in {"send", "push"})

(* A thread that holds sem_system. *)
InSystem(t) == pc[t] = "push"

TickExcludes ==
  /\ sem_tick = 0 <=> \E t \in Threads : InTick(t)
  /\ \A s, t \in Threads : InTick(s) /\ InTick(t) => s = t

SystemExcludes ==
  /\ sem_system = 0 <=> \E t \in Threads : InSystem(t)
  /\ \A s, t \in Threads : InSystem(s) /\ InSystem(t) => s = t

(* Where the ticker and the clients may be, and with which arguments.      *)
Roles ==
  /\ pc[ticker] \in {"delay", "scan", "send", "push"}
  /\ pc[ticker] \in {"send", "push"} => i \in Handles
  /\ \A c \in Clients : pc[c] \notin {"delay", "scan"} /\ arg[c].count = 0

IInv == TypeOK /\ TickExcludes /\ SystemExcludes /\ Roles /\ NoOverflow

LEMMA Threads2 == ticker \in Threads /\ ticker \notin Clients /\ \A c \in Clients : c \in Threads /\ c # ticker
  BY Values DEF Threads

-----------------------------------------------------------------------------
(* Types. *)

LEMMA ErasedIs == Erased \in MESSAGE
  BY NullValues DEF Erased, MESSAGE

LEMMA PushedType ==
  ASSUME fifo \in Seq(MESSAGE), Len(fifo) <= nqueue, NEW m \in MESSAGE
  PROVE  Pushed(m) \in Seq(MESSAGE) /\ Len(Pushed(m)) <= nqueue
<1>1. CASE Len(fifo) < nqueue
  <2>1. Append(fifo, m) \in Seq(MESSAGE) /\ Len(Append(fifo, m)) = Len(fifo) + 1
    OBVIOUS
  <2> QED
    BY <1>1, <2>1, Sizes DEF Pushed
<1>2. CASE ~ (Len(fifo) < nqueue)
  BY <1>2 DEF Pushed
<1> QED
  BY <1>1, <1>2

LEMMA EraseType ==
  ASSUME fifo \in Seq(MESSAGE), Len(fifo) <= nqueue, NEW h
  PROVE  EraseMessage(fifo, h) \in Seq(MESSAGE) /\ Len(EraseMessage(fifo, h)) <= nqueue
<1>1. DOMAIN fifo = 1 .. Len(fifo) /\ Len(fifo) \in Nat
  OBVIOUS
<1>2. EraseMessage(fifo, h) = [k \in 1 .. Len(fifo) |-> IF fifo[k].hsm = h THEN Erased ELSE fifo[k]]
  BY <1>1 DEF EraseMessage
<1>3. \A k \in 1 .. Len(fifo) : (IF fifo[k].hsm = h THEN Erased ELSE fifo[k]) \in MESSAGE
  BY ErasedIs
<1>4. EraseMessage(fifo, h) \in [1 .. Len(fifo) -> MESSAGE]
  BY <1>2, <1>3
<1>5. EraseMessage(fifo, h) \in Seq(MESSAGE)
  BY <1>1, <1>4, SeqDef
<1>6. Len(EraseMessage(fifo, h)) = Len(fifo)
  BY <1>1, <1>2, <1>5
<1> QED
  BY <1>5, <1>6

LEMMA Zero == 0 \in U32 /\ 1 \in U32 /\ NoTick \in TICK_MSG
  BY Sizes DEF U32, NoTick, TICK_MSG

LEMMA RestOfTick ==
  ASSUME NEW k \in U32
  PROVE  (k + 1) % Word \in U32
  BY Sizes DEF U32

LEMMA ScannedType ==
  ASSUME NEW tick \in TICK_MSG
  PROVE  /\ Scanned(tick) \in TICK_MSG
         /\ Scanned(tick).hsm = tick.hsm /\ Scanned(tick).n100msec = tick.n100msec
         /\ Scanned(tick).count = ((IF Due(tick) THEN 0 ELSE tick.count) + 1) % Word
<1>1. tick.count \in U32 /\ (tick.count + 1) % Word \in U32 /\ (0 + 1) % Word \in U32
  BY RestOfTick, Zero DEF TICK_MSG
<1> QED
  BY <1>1 DEF Scanned, Counted, TICK_MSG

-----------------------------------------------------------------------------
(* The semaphores. *)

(* A thread that moves takes or gives back sem_tick, or does neither.      *)
LEMMA TickMoves ==
  ASSUME TypeOK, TickExcludes, NEW t \in Threads, NEW b, pc' = [pc EXCEPT ![t] = b],
         \/ (InTick(t)' <=> InTick(t)) /\ sem_tick' = sem_tick
         \/ ~ InTick(t) /\ sem_tick > 0 /\ sem_tick' = sem_tick - 1 /\ InTick(t)'
         \/ InTick(t) /\ sem_tick' = sem_tick + 1 /\ ~ InTick(t)'
  PROVE  TickExcludes' /\ sem_tick' \in {0, 1}
<1>1. \A s \in Threads : s # t => (InTick(s)' <=> InTick(s))
  BY DEF InTick, TypeOK
<1>2. sem_tick \in {0, 1}
  BY DEF TypeOK
<1>3. CASE (InTick(t)' <=> InTick(t)) /\ sem_tick' = sem_tick
  BY <1>1, <1>2, <1>3 DEF TickExcludes
<1>4. CASE ~ InTick(t) /\ sem_tick > 0 /\ sem_tick' = sem_tick - 1 /\ InTick(t)'
  <2>1. sem_tick = 1 /\ sem_tick' = 0
    BY <1>2, <1>4
  <2>2. \A s \in Threads : ~ InTick(s)
    BY <2>1 DEF TickExcludes
  <2> QED
    BY <1>1, <1>4, <2>1, <2>2 DEF TickExcludes
<1>5. CASE InTick(t) /\ sem_tick' = sem_tick + 1 /\ ~ InTick(t)'
  <2>1. sem_tick = 0 /\ \A s \in Threads : InTick(s) => s = t
    BY <1>5 DEF TickExcludes
  <2>2. sem_tick' = 1
    BY <1>5, <2>1
  <2> QED
    BY <1>1, <1>5, <2>1, <2>2 DEF TickExcludes
<1> QED
  BY <1>3, <1>4, <1>5

LEMMA SystemMoves ==
  ASSUME TypeOK, SystemExcludes, NEW t \in Threads, NEW b, pc' = [pc EXCEPT ![t] = b],
         \/ pc[t] # "push" /\ b # "push" /\ sem_system' = sem_system
         \/ pc[t] # "push" /\ b = "push" /\ sem_system > 0 /\ sem_system' = sem_system - 1
         \/ pc[t] = "push" /\ b # "push" /\ sem_system' = sem_system + 1
  PROVE  SystemExcludes' /\ sem_system' \in {0, 1}
<1>1. pc'[t] = b /\ \A s \in Threads : s # t => pc'[s] = pc[s]
  BY DEF TypeOK
<1>2. sem_system \in {0, 1}
  BY DEF TypeOK
<1>3. CASE pc[t] # "push" /\ b # "push" /\ sem_system' = sem_system
  BY <1>1, <1>2, <1>3 DEF SystemExcludes, InSystem
<1>4. CASE pc[t] # "push" /\ b = "push" /\ sem_system > 0 /\ sem_system' = sem_system - 1
  <2>1. sem_system = 1 /\ sem_system' = 0
    BY <1>2, <1>4
  <2>2. \A s \in Threads : pc[s] # "push"
    BY <2>1 DEF SystemExcludes, InSystem
  <2> QED
    BY <1>1, <1>4, <2>1, <2>2 DEF SystemExcludes, InSystem
<1>5. CASE pc[t] = "push" /\ b # "push" /\ sem_system' = sem_system + 1
  <2>1. sem_system = 0 /\ \A s \in Threads : pc[s] = "push" => s = t
    BY <1>5 DEF SystemExcludes, InSystem
  <2>2. sem_system' = 1
    BY <1>5, <2>1
  <2> QED
    BY <1>1, <1>5, <2>1, <2>2 DEF SystemExcludes, InSystem
<1> QED
  BY <1>3, <1>4, <1>5

(* Nobody who waits for sem_tick has it. *)
LEMMA Waiting ==
  ASSUME TypeOK, TickExcludes, sem_tick > 0, NEW t \in Threads
  PROVE  ~ InTick(t) /\ pc[t] # "relock"
<1>1. sem_tick # 0
  BY DEF TypeOK
<1> QED
  BY <1>1 DEF TickExcludes, InTick

-----------------------------------------------------------------------------
(* The counts. *)

(* The product is below the next period that a u32 can tell from it.       *)
InReach(tick) ==
  tick.hsm # SK_INVALID_HSM /\ tick.n100msec + time_tick <= Word
    => tick.count <= 1 \/ (tick.count - 1) * time_tick < tick.n100msec

LEMMA ReachIs == NoOverflow <=> \A h \in Handles : InReach(tick_list[h])
  BY DEF NoOverflow, InReach

LEMMA Reduced ==
  ASSUME NEW x \in Nat, x < Word
  PROVE  x % Word = x
BY Sizes

LEMMA OneMore ==
  ASSUME NEW k \in U32
  PROVE  (k + 1) % Word = k + 1 \/ (k + 1) % Word = 0
<1>1. CASE k + 1 < Word
  BY <1>1, Reduced, Sizes DEF U32
<1>2. CASE k + 1 = Word
  BY <1>2, Sizes
<1> QED
  BY <1>1, <1>2, Sizes DEF U32

(* A slot that is not due has not reached its period, in plain numbers.    *)
LEMMA NotDue ==
  ASSUME NEW tick \in TICK_MSG, tick.n100msec + time_tick <= Word, ~ Due(tick),
         tick.count <= 1 \/ (tick.count - 1) * time_tick < tick.n100msec
  PROVE  tick.count * time_tick < tick.n100msec
<1>1. tick.count \in Nat /\ tick.n100msec \in Nat /\ time_tick \in Nat /\ Word \in Nat /\ time_tick < Word
  BY Sizes DEF TICK_MSG, U32
<1>2. PICK x \in Nat : x = tick.count * time_tick
  BY <1>1
<1>3. x < Word
  <2>1. CASE tick.count = 0
    BY <1>1, <1>2, <2>1
  <2>2. CASE tick.count = 1
    BY <1>1, <1>2, <2>2
  <2>3. CASE (tick.count - 1) * time_tick < tick.n100msec
    <3>1. (tick.count - 1) * time_tick = x - time_tick
      BY <1>1, <1>2
    <3> QED
      BY <1>1, <1>2, <2>3, <3>1
  <2>4. tick.count <= 1 => tick.count = 0 \/ tick.count = 1
    BY <1>1
  <2> QED
    BY <2>1, <2>2, <2>3, <2>4
<1>4. x % Word = x
  BY <1>3, Reduced
<1>5. ~ (x % Word >= tick.n100msec)
  BY <1>2 DEF Due
<1> QED
  BY <1>1, <1>2, <1>4, <1>5

LEMMA ScannedReach ==
  ASSUME NEW tick \in TICK_MSG, InReach(tick)
  PROVE  InReach(Scanned(tick))
<1> SUFFICES ASSUME tick.hsm # SK_INVALID_HSM, tick.n100msec + time_tick <= Word,
                    NEW k, k = Scanned(tick).count
             PROVE  k <= 1 \/ (k - 1) * time_tick < tick.n100msec
  BY ScannedType DEF InReach
<1>1. CASE Due(tick)
  <2>1. k = (0 + 1) % Word
    BY <1>1, ScannedType
  <2>2. k = 1 \/ k = 0
    BY <2>1, Zero, OneMore
  <2> QED
    BY <2>2
<1>2. CASE ~ Due(tick)
  <2>1. tick.count * time_tick < tick.n100msec
    BY <1>2, NotDue DEF InReach
  <2>2. tick.count \in U32 /\ tick.count \in Nat
    BY Sizes DEF TICK_MSG, U32
  <2>3. k = tick.count + 1 \/ k = 0
    BY <1>2, <2>2, ScannedType, OneMore
  <2>4. CASE k = tick.count + 1
    BY <2>1, <2>2, <2>4
  <2>5. CASE k = 0
    BY <2>5
  <2> QED
    BY <2>3, <2>4, <2>5
<1> QED
  BY <1>1, <1>2

-----------------------------------------------------------------------------
(* The steps. *)

USE DEF IInv

(* The move of a thread, and what else every step has to keep.             *)
LEMMA MoveTyped ==
  ASSUME TypeOK, NEW t \in Threads, NEW b \in Places, pc' = [pc EXCEPT ![t] = b]
  PROVE  pc' \in [Threads -> Places] /\ pc'[t] = b /\ \A s \in Threads : s # t => pc'[s] = pc[s]
BY DEF TypeOK

LEMMA LockTickStep ==
  ASSUME IInv, NEW t \in Threads, LockTick(t)
  PROVE  IInv'
<1>1. /\ sem_tick > 0 /\ sem_tick' = sem_tick - 1
      /\ fifo' = fifo /\ tick_list' = tick_list /\ sem_system' = sem_system /\ usage' = usage
      /\ i' = i /\ arg' = arg
  BY DEF LockTick
<1>2. ~ InTick(t) /\ pc[t] # "relock"
  BY <1>1, Waiting
<1>3. PICK b : /\ pc' = [pc EXCEPT ![t] = b]
               /\ <<pc[t], b>> \in {<<"delay", "scan">>, <<"set", "fill">>, <<"destroy", "clear">>}
  <2>1. pc[t] \in {"delay", "set", "destroy"}
    BY <1>2 DEF LockTick, AfterLockTick
  <2>2. pc' = [pc EXCEPT ![t] = AfterLockTick[pc[t]]]
    BY DEF LockTick, Goto
  <2>3. /\ AfterLockTick["delay"] = "scan" /\ AfterLockTick["set"] = "fill"
        /\ AfterLockTick["destroy"] = "clear"
    BY DEF AfterLockTick
  <2> QED
    BY <2>1, <2>2, <2>3
<1>4. b \in Places
  BY <1>3 DEF Places, AfterLockTick
<1>5. pc' \in [Threads -> Places] /\ pc'[t] = b /\ \A s \in Threads : s # t => pc'[s] = pc[s]
  BY <1>3, <1>4, MoveTyped
<1>6. InTick(t)'
  BY <1>3, <1>5 DEF InTick
<1>7. TickExcludes' /\ sem_tick' \in {0, 1}
  BY <1>1, <1>2, <1>3, <1>6, TickMoves
<1>8. SystemExcludes'
  BY <1>1, <1>3, SystemMoves
<1>9. Roles'
  BY <1>1, <1>3, <1>5, Threads2 DEF Roles
<1>10. NoOverflow'
  BY <1>1 DEF NoOverflow
<1> QED
  BY <1>1, <1>5, <1>7, <1>8, <1>9, <1>10 DEF TypeOK

LEMMA LockSystemStep ==
  ASSUME IInv, NEW t \in Threads, LockSystem(t)
  PROVE  IInv'
<1>1. /\ pc[t] = "send" /\ sem_system > 0 /\ sem_system' = sem_system - 1 /\ pc' = [pc EXCEPT ![t] = "push"]
      /\ fifo' = fifo /\ tick_list' = tick_list /\ sem_tick' = sem_tick /\ usage' = usage
      /\ i' = i /\ arg' = arg
  BY DEF LockSystem, Goto
<1>2. pc' \in [Threads -> Places] /\ pc'[t] = "push" /\ \A s \in Threads : s # t => pc'[s] = pc[s]
  BY <1>1, MoveTyped DEF Places
<1>3. InTick(t)' <=> InTick(t)
  BY <1>1, <1>2 DEF InTick
<1>4. TickExcludes' /\ sem_tick' \in {0, 1}
  BY <1>1, <1>3, TickMoves
<1>5. SystemExcludes' /\ sem_system' \in {0, 1}
  BY <1>1, SystemMoves
<1>6. Roles'
  BY <1>1, <1>2, Threads2 DEF Roles
<1>7. NoOverflow'
  BY <1>1 DEF NoOverflow
<1> QED
  BY <1>1, <1>2, <1>4, <1>5, <1>6, <1>7 DEF TypeOK

(* The ticker at a slot counts it; the count stays in reach. *)
LEMMA CountStep ==
  ASSUME IInv, i \in Handles, tick_list' = [tick_list EXCEPT ![i] = Scanned(@)]
  PROVE  tick_list' \in [Handles -> TICK_MSG] /\ NoOverflow' /\ i + 1 \in 1 .. SMALLWIN_NTICKS + 1
<1>1. tick_list[i] \in TICK_MSG /\ InReach(tick_list[i])
  BY ReachIs DEF TypeOK
<1>2. Scanned(tick_list[i]) \in TICK_MSG /\ InReach(Scanned(tick_list[i]))
  BY <1>1, ScannedType, ScannedReach
<1>3. tick_list' \in [Handles -> TICK_MSG]
  BY <1>2 DEF TypeOK
<1>4. \A h \in Handles : InReach(tick_list'[h])
  BY <1>2, ReachIs DEF TypeOK
<1>5. NoOverflow'
  BY <1>4 DEF NoOverflow, InReach
<1>6. i + 1 \in 1 .. SMALLWIN_NTICKS + 1
  BY Sizes DEF Handles
<1> QED
  BY <1>3, <1>5, <1>6

LEMMA SkipSlotStep ==
  ASSUME IInv, SkipSlot
  PROVE  IInv'
<1>1. /\ i \in Handles /\ i' = i + 1 /\ fifo' = fifo /\ sem_tick' = sem_tick /\ sem_system' = sem_system
      /\ usage' = usage /\ pc' = pc /\ arg' = arg /\ pc[ticker] = "scan"
  BY DEF SkipSlot
<1>2. i + 1 \in 1 .. SMALLWIN_NTICKS + 1
  BY <1>1, Sizes DEF Handles
<1>3. tick_list' \in [Handles -> TICK_MSG] /\ NoOverflow'
  <2>1. CASE tick_list' = tick_list
    BY <2>1 DEF TypeOK, NoOverflow
  <2>2. CASE tick_list' = [tick_list EXCEPT ![i] = Scanned(@)]
    BY <1>1, <2>2, CountStep
  <2> QED
    BY <2>1, <2>2 DEF SkipSlot
<1>4. TickExcludes' /\ SystemExcludes' /\ Roles'
  BY <1>1 DEF TickExcludes, InTick, SystemExcludes, InSystem, Roles
<1> QED
  BY <1>1, <1>2, <1>3, <1>4 DEF TypeOK

LEMMA DecideSendStep ==
  ASSUME IInv, DecideSend
  PROVE  IInv'
<1>1. /\ i \in Handles /\ i' = i /\ fifo' = fifo /\ sem_tick' = sem_tick /\ sem_system' = sem_system
      /\ usage' = usage /\ pc' = [pc EXCEPT ![ticker] = "send"] /\ arg' = arg /\ pc[ticker] = "scan"
      /\ tick_list' = tick_list
  BY DEF DecideSend, Goto
<1>2. pc' \in [Threads -> Places] /\ pc'[ticker] = "send" /\ \A s \in Threads : s # ticker => pc'[s] = pc[s]
  BY <1>1, MoveTyped, Threads2 DEF Places
<1>3. InTick(ticker)' /\ InTick(ticker)
  BY <1>1, <1>2 DEF InTick
<1>4. TickExcludes' /\ sem_tick' \in {0, 1}
  BY <1>1, <1>3, TickMoves, Threads2
<1>5. SystemExcludes' /\ sem_system' \in {0, 1}
  BY <1>1, SystemMoves, Threads2
<1>6. Roles'
  BY <1>1, <1>2, Threads2 DEF Roles
<1>7. NoOverflow'
  BY <1>1 DEF NoOverflow
<1> QED
  BY <1>1, <1>2, <1>4, <1>5, <1>6, <1>7 DEF TypeOK

LEMMA SendTickStep ==
  ASSUME IInv, SendTick
  PROVE  IInv'
<1>1. /\ sem_system' = sem_system + 1 /\ i' = i + 1 /\ sem_tick' = sem_tick /\ usage' = usage /\ arg' = arg
      /\ pc[ticker] = "push" /\ pc' = [pc EXCEPT ![ticker] = "scan"]
  BY DEF SendTick, Goto
<1>2. i \in Handles
  BY <1>1 DEF Roles
<1>3. tick_list' = [tick_list EXCEPT ![i] = Scanned(@)]
  BY <1>2 DEF SendTick, TypeOK
<1>4. tick_list' \in [Handles -> TICK_MSG] /\ NoOverflow' /\ i + 1 \in 1 .. SMALLWIN_NTICKS + 1
  BY <1>2, <1>3, CountStep
<1>5. fifo' \in Seq(MESSAGE) /\ Len(fifo') <= nqueue
  <2>1. PICK p \in U32 : fifo' = Pushed(Tick(i, p))
    BY <1>2 DEF SendTick, TypeOK, TICK_MSG
  <2>2. <<i, p>> \in Params
    BY <1>2, Sizes, ParamPairs DEF Handles
  <2>3. tick_list[i].hsm \in HSM \cup {SK_INVALID_HSM}
    BY <1>2 DEF TypeOK, TICK_MSG
  <2>4. Tick(i, p) \in MESSAGE
    BY <2>2, <2>3, Codes DEF Tick, MESSAGE
  <2> QED
    BY <2>1, <2>4, PushedType DEF TypeOK
<1>6. pc' \in [Threads -> Places] /\ pc'[ticker] = "scan" /\ \A s \in Threads : s # ticker => pc'[s] = pc[s]
  BY <1>1, MoveTyped, Threads2 DEF Places
<1>7. InTick(ticker)' /\ InTick(ticker)
  BY <1>1, <1>6 DEF InTick
<1>8. TickExcludes' /\ sem_tick' \in {0, 1}
  BY <1>1, <1>7, TickMoves, Threads2
<1>9. SystemExcludes' /\ sem_system' \in {0, 1}
  BY <1>1, SystemMoves, Threads2
<1>10. Roles'
  BY <1>1, <1>6, Threads2 DEF Roles
<1> QED
  BY <1>1, <1>4, <1>5, <1>6, <1>8, <1>9, <1>10 DEF TypeOK

LEMMA EndScanStep ==
  ASSUME IInv, EndScan
  PROVE  IInv'
<1>1. /\ i' = 1 /\ fifo' = fifo /\ sem_tick' = sem_tick + 1 /\ sem_system' = sem_system
      /\ usage' = usage /\ pc' = [pc EXCEPT ![ticker] = "delay"] /\ arg' = arg /\ pc[ticker] = "scan"
      /\ tick_list' = tick_list
  BY DEF EndScan, Goto
<1>2. pc' \in [Threads -> Places] /\ pc'[ticker] = "delay" /\ \A s \in Threads : s # ticker => pc'[s] = pc[s]
  BY <1>1, MoveTyped, Threads2 DEF Places, AfterLockTick
<1>3. ~ InTick(ticker)' /\ InTick(ticker)
  BY <1>1, <1>2 DEF InTick
<1>4. TickExcludes' /\ sem_tick' \in {0, 1}
  BY <1>1, <1>3, TickMoves, Threads2
<1>5. SystemExcludes' /\ sem_system' \in {0, 1}
  BY <1>1, SystemMoves, Threads2
<1>6. Roles'
  BY <1>1, <1>2, Threads2 DEF Roles
<1>7. NoOverflow'
  BY <1>1 DEF NoOverflow
<1>8. 1 \in 1 .. SMALLWIN_NTICKS + 1
  BY Sizes
<1> QED
  BY <1>1, <1>2, <1>4, <1>5, <1>6, <1>7, <1>8 DEF TypeOK

(* A client that begins a call. *)
LEMMA BeginStep ==
  ASSUME IInv, NEW c \in Clients, NEW b \in {"set", "destroy", "send"}, pc[c] = "idle",
         pc' = [pc EXCEPT ![c] = b], arg' \in [Clients -> TICK_MSG],
         \A d \in Clients : arg'[d].count = 0,
         UNCHANGED <<fifo, tick_list, sem_tick, sem_system, usage, i>>
  PROVE  IInv'
<1>1. c \in Threads /\ c # ticker
  BY Threads2
<1>2. pc' \in [Threads -> Places] /\ pc'[c] = b /\ \A s \in Threads : s # c => pc'[s] = pc[s]
  BY <1>1, MoveTyped DEF Places, AfterLockTick
<1>3. ~ InTick(c)' /\ ~ InTick(c)
  BY <1>1, <1>2 DEF InTick
<1>4. TickExcludes' /\ sem_tick' \in {0, 1}
  BY <1>1, <1>3, TickMoves
<1>5. SystemExcludes' /\ sem_system' \in {0, 1}
  BY <1>1, SystemMoves
<1>6. Roles'
  BY <1>1, <1>2, Threads2 DEF Roles
<1>7. NoOverflow'
  BY DEF NoOverflow
<1> QED
  BY <1>2, <1>4, <1>5, <1>6, <1>7 DEF TypeOK

LEMMA CallSetStep ==
  ASSUME IInv, NEW c \in Clients, NEW h \in HSM, CallSet(c, h)
  PROVE  IInv'
<1>1. PICK r \in Calls(c, "set") :
        arg' = [arg EXCEPT ![c] = [hsm |-> h, n100msec |-> r.n100msec, count |-> 0, param2 |-> r.param2]]
  BY DEF CallSet
<1>2. r \in ClientCall /\ r.op = "set"
  BY <1>1, Values DEF Calls, TypeOK
<1>3. r.n100msec \in U32 /\ r.param2 \in U32
  BY <1>2 DEF ClientCall
<1>4. [hsm |-> h, n100msec |-> r.n100msec, count |-> 0, param2 |-> r.param2] \in TICK_MSG
  BY <1>3, Zero DEF TICK_MSG
<1>5. arg' \in [Clients -> TICK_MSG] /\ \A d \in Clients : arg'[d].count = 0
  BY <1>1, <1>4 DEF TypeOK, Roles
<1> QED
  BY <1>5, BeginStep DEF CallSet, Goto

LEMMA CallSendStep ==
  ASSUME IInv, NEW c \in Clients, NEW h \in HSM, CallSend(c, h)
  PROVE  IInv'
<1>1. arg' = [arg EXCEPT ![c].hsm = h]
  BY DEF CallSend
<1>2. arg' \in [Clients -> TICK_MSG] /\ \A d \in Clients : arg'[d].count = 0
  BY <1>1 DEF TypeOK, Roles, TICK_MSG
<1> QED
  BY <1>2, BeginStep DEF CallSend, Goto

LEMMA CallDestroyStep ==
  ASSUME IInv, NEW c \in Clients, CallDestroy(c)
  PROVE  IInv'
BY BeginStep DEF CallDestroy, Goto, TypeOK, Roles

(* sm_set_xtick: the new entry has not been counted yet. *)
LEMMA SetTickStep ==
  ASSUME IInv, NEW c \in Clients, SetTick(c)
  PROVE  IInv'
<1>1. /\ pc[c] = "fill" /\ pc' = [pc EXCEPT ![c] = "idle"] /\ sem_tick' = sem_tick + 1
      /\ arg' = [arg EXCEPT ![c] = NoTick]
      /\ fifo' = fifo /\ sem_system' = sem_system /\ usage' = usage /\ i' = i
  BY DEF SetTick, Goto, UnlockTick
<1>2. c \in Threads /\ c # ticker
  BY Threads2
<1>3. pc' \in [Threads -> Places] /\ pc'[c] = "idle" /\ \A s \in Threads : s # c => pc'[s] = pc[s]
  BY <1>1, <1>2, MoveTyped DEF Places
<1>4. ~ InTick(c)' /\ InTick(c)
  BY <1>1, <1>2, <1>3 DEF InTick
<1>5. TickExcludes' /\ sem_tick' \in {0, 1}
  BY <1>1, <1>2, <1>4, TickMoves
<1>6. SystemExcludes' /\ sem_system' \in {0, 1}
  BY <1>1, <1>2, SystemMoves
<1>7. arg' \in [Clients -> TICK_MSG] /\ \A d \in Clients : arg'[d].count = 0
  BY <1>1, Zero DEF TypeOK, Roles, NoTick
<1>8. Roles'
  BY <1>1, <1>3, <1>7, Threads2 DEF Roles
<1>9. tick_list' \in [Handles -> TICK_MSG] /\ NoOverflow'
  <2>1. CASE tick_list' = tick_list
    BY <2>1 DEF TypeOK, NoOverflow
  <2>2. ASSUME NEW h \in Handles, tick_list' = [tick_list EXCEPT ![h] = arg[c]]
        PROVE  tick_list' \in [Handles -> TICK_MSG] /\ NoOverflow'
    <3>1. arg[c] \in TICK_MSG /\ InReach(arg[c])
      BY DEF TypeOK, Roles, InReach
    <3>2. \A g \in Handles : InReach(tick_list'[g])
      BY <2>2, <3>1, ReachIs DEF TypeOK
    <3>3. NoOverflow'
      BY <3>2 DEF NoOverflow, InReach
    <3> QED
      BY <2>2, <3>1, <3>3 DEF TypeOK
  <2> QED
    BY <2>1, <2>2 DEF SetTick, FreeHandles
<1> QED
  BY <1>1, <1>3, <1>5, <1>6, <1>7, <1>8, <1>9 DEF TypeOK

(* sm_destroy_tick goes from the lock to the lock. *)
LEMMA ClearTickStep ==
  ASSUME IInv, NEW c \in Clients, NEW htick \in 0 .. SMALLWIN_NTICKS, ClearTick(c, htick)
  PROVE  IInv'
<1>1. /\ pc[c] = "clear" /\ pc' = [pc EXCEPT ![c] = "relock"] /\ sem_tick' = sem_tick
      /\ fifo' = fifo /\ sem_system' = sem_system /\ usage' = usage /\ i' = i /\ arg' = arg
  BY DEF ClearTick, Goto, AfterClear
<1>2. c \in Threads /\ c # ticker
  BY Threads2
<1>3. pc' \in [Threads -> Places] /\ pc'[c] = "relock" /\ \A s \in Threads : s # c => pc'[s] = pc[s]
  BY <1>1, <1>2, MoveTyped DEF Places, AfterLockTick
<1>4. InTick(c)' /\ InTick(c)
  BY <1>1, <1>2, <1>3 DEF InTick
<1>5. TickExcludes' /\ sem_tick' \in {0, 1}
  BY <1>1, <1>2, <1>4, TickMoves
<1>6. SystemExcludes' /\ sem_system' \in {0, 1}
  BY <1>1, <1>2, SystemMoves
<1>7. Roles'
  BY <1>1, <1>3, Threads2 DEF Roles
<1>8. tick_list' \in [Handles -> TICK_MSG] /\ NoOverflow'
  <2>1. CASE tick_list' = tick_list
    BY <2>1 DEF TypeOK, NoOverflow
  <2>2. CASE htick \in Handles /\ tick_list' = [tick_list EXCEPT ![htick].hsm = SK_INVALID_HSM]
    <3>1. [tick_list[htick] EXCEPT !.hsm = SK_INVALID_HSM] \in TICK_MSG
      BY <2>2 DEF TypeOK, TICK_MSG
    <3>2. tick_list' \in [Handles -> TICK_MSG]
      BY <2>2, <3>1 DEF TypeOK
    <3>3. tick_list'[htick].hsm = SK_INVALID_HSM
      BY <2>2 DEF TypeOK, TICK_MSG
    <3>4. \A g \in Handles : InReach(tick_list'[g])
      BY <2>2, <3>3, ReachIs DEF TypeOK, InReach
    <3>5. NoOverflow'
      BY <3>4 DEF NoOverflow, InReach
    <3> QED
      BY <3>2, <3>5
  <2> QED
    BY <2>1, <2>2 DEF ClearTick
<1> QED
  BY <1>1, <1>3, <1>5, <1>6, <1>7, <1>8 DEF TypeOK

LEMMA SendUserStep ==
  ASSUME IInv, NEW c \in Clients, SendUser(c)
  PROVE  IInv'
<1>1. /\ pc[c] = "push" /\ pc' = [pc EXCEPT ![c] = "idle"] /\ sem_system' = sem_system + 1
      /\ arg' = [arg EXCEPT ![c] = NoTick] /\ fifo' = Pushed(User(arg[c].hsm))
      /\ tick_list' = tick_list /\ sem_tick' = sem_tick /\ usage' = usage /\ i' = i
  BY DEF SendUser, Goto
<1>2. c \in Threads /\ c # ticker
  BY Threads2
<1>3. pc' \in [Threads -> Places] /\ pc'[c] = "idle" /\ \A s \in Threads : s # c => pc'[s] = pc[s]
  BY <1>1, <1>2, MoveTyped DEF Places
<1>4. ~ InTick(c)' /\ ~ InTick(c)
  BY <1>1, <1>2, <1>3 DEF InTick
<1>5. TickExcludes' /\ sem_tick' \in {0, 1}
  BY <1>1, <1>2, <1>4, TickMoves
<1>6. SystemExcludes' /\ sem_system' \in {0, 1}
  BY <1>1, <1>2, SystemMoves
<1>7. arg' \in [Clients -> TICK_MSG] /\ \A d \in Clients : arg'[d].count = 0
  BY <1>1, Zero DEF TypeOK, Roles, NoTick
<1>8. Roles'
  BY <1>1, <1>3, <1>7, Threads2 DEF Roles
<1>9. fifo' \in Seq(MESSAGE) /\ Len(fifo') <= nqueue
  <2>1. arg[c].hsm \in HSM \cup {SK_INVALID_HSM}
    BY DEF TypeOK, TICK_MSG
  <2>2. User(arg[c].hsm) \in MESSAGE
    BY <2>1, Codes, NullValues DEF User, MESSAGE
  <2> QED
    BY <1>1, <2>2, PushedType DEF TypeOK
<1>10. NoOverflow'
  BY <1>1 DEF NoOverflow
<1> QED
  BY <1>1, <1>3, <1>5, <1>6, <1>7, <1>8, <1>9, <1>10 DEF TypeOK

(* The scheduler touches the queue only. *)
LEMMA QueueStep ==
  ASSUME IInv, Dispatch \/ \E h \in HSM : CloseWindow(h)
  PROVE  IInv'
<1>1. UNCHANGED <<tick_list, sem_tick, sem_system, usage, i, pc, arg>>
  BY DEF Dispatch, CloseWindow
<1>2. fifo' \in Seq(MESSAGE) /\ Len(fifo') <= nqueue
  <2>1. CASE Dispatch
    <3>1. Tail(fifo) \in Seq(MESSAGE) /\ Len(Tail(fifo)) = Len(fifo) - 1
      BY <2>1 DEF Dispatch, TypeOK
    <3> QED
      BY <2>1, <3>1, Sizes DEF Dispatch, TypeOK
  <2>2. CASE \E h \in HSM : CloseWindow(h)
    BY <2>2, EraseType DEF CloseWindow, TypeOK
  <2> QED
    BY <2>1, <2>2
<1>3. TickExcludes' /\ SystemExcludes' /\ Roles' /\ NoOverflow'
  BY <1>1 DEF TickExcludes, InTick, SystemExcludes, InSystem, Roles, NoOverflow
<1> QED
  BY <1>1, <1>2, <1>3 DEF TypeOK

LEMMA InitInv == Init => IInv
<1> SUFFICES ASSUME Init PROVE IInv
  OBVIOUS
<1>1. TypeOK
  BY Zero, Sizes, Threads2 DEF Init, TypeOK, Places, AfterLockTick, NoTick, TICK_MSG, Threads
<1>2. pc[ticker] = "delay" /\ \A c \in Clients : pc[c] = "idle"
  BY Threads2 DEF Init
<1>3. TickExcludes /\ SystemExcludes
  <2>1. \A t \in Threads : ~ InTick(t) /\ ~ InSystem(t)
    BY <1>2 DEF InTick, InSystem, Threads
  <2>2. sem_tick = 1 /\ sem_system = 1
    BY DEF Init
  <2> QED
    BY <2>1, <2>2 DEF TickExcludes, SystemExcludes
<1>4. Roles
  BY <1>2 DEF Init, Roles, NoTick
<1>5. NoOverflow
  BY DEF Init, NoOverflow, NoTick
<1> QED
  BY <1>1, <1>3, <1>4, <1>5

LEMMA NextInv == IInv /\ [Next]_vars => IInv'
<1> SUFFICES ASSUME IInv, [Next]_vars PROVE IInv'
  OBVIOUS
<1>1. CASE UNCHANGED vars
  BY <1>1 DEF vars, TypeOK, TickExcludes, InTick, SystemExcludes, InSystem, Roles, NoOverflow
<1>2. CASE Next
  BY <1>2, LockTickStep, LockSystemStep, SkipSlotStep, DecideSendStep, SendTickStep, EndScanStep,
     CallSetStep, CallSendStep, CallDestroyStep, SetTickStep, ClearTickStep, SendUserStep, QueueStep
     DEF Next, Acquire, Scan, Inside
<1> QED
  BY <1>1, <1>2

-----------------------------------------------------------------------------
(* The inductive invariant. *)
LEMMA Invariance == Spec => []IInv
  BY InitInv, NextInv, PTL DEF Spec

(* Every variable keeps its type; the two semaphores stay binary although  *)
(* sm_destroy_tick locks where it should unlock.                           *)
THEOREM TypeCorrect == Spec => []TypeOK
<1>1. IInv => TypeOK
  OBVIOUS
<1> QED
  BY <1>1, Invariance, PTL

(* The product of a count never wraps, for any period within one scan of   *)
(* the range of u32.                                                       *)
THEOREM ProductsDoNotWrap == Spec => []NoOverflow
<1>1. IInv => NoOverflow
  OBVIOUS
<1> QED
  BY <1>1, Invariance, PTL

(* A thread that cleared a slot in sm_destroy_tick stops the ticker and    *)
(* all later calls, for any number of clients.                             *)
THEOREM DestroyStops == Spec => []DestroyStopsTicks
<1>1. IInv => DestroyStopsTicks
  <2> SUFFICES ASSUME IInv, NEW c \in Clients, pc[c] = "relock"
               PROVE  sem_tick = 0 /\ pc[ticker] = "delay" /\ \A d \in Clients : pc[d] \notin {"fill", "clear"}
    BY DEF DestroyStopsTicks
  <2>1. c \in Threads /\ InTick(c)
    BY Threads2 DEF InTick
  <2>2. sem_tick = 0 /\ \A t \in Threads : InTick(t) => t = c
    BY <2>1 DEF TickExcludes
  <2>3. ~ InTick(ticker)
    BY <2>2, Threads2
  <2>4. \A d \in Clients : pc[d] \notin {"fill", "clear"}
    BY <2>2, Threads2 DEF InTick
  <2> QED
    BY <2>2, <2>3, <2>4 DEF InTick, Roles
<1> QED
  BY <1>1, Invariance, PTL

-----------------------------------------------------------------------------
(* At most one pending tick for each periodic slot. *)

(* The cases that the comparison with count covers.                        *)
Periodic(tick) == tick.param2 = 0 /\ tick.n100msec > 0

(* Would a slot with this period be due with this count?                   *)
DueAt(tick, k) == (k * time_tick) % Word >= tick.n100msec

(* The one count with which a periodic slot ever is due.                   *)
FirstDue(tick, q) ==
  /\ q \in U32 /\ DueAt(tick, q)
  /\ \A k \in U32 : k < q => ~ DueAt(tick, k)

(* No smaller count than the present one was due.                          *)
NotDueBefore ==
  \A h \in Handles : Periodic(tick_list[h]) =>
    \A k \in U32 : k < tick_list[h].count => ~ DueAt(tick_list[h], k)

(* A pending tick carries that count, and the window of its slot.          *)
CarriesFirstDue ==
  \A h \in Handles, j \in 1 .. Len(fifo) :
    Periodic(tick_list[h]) /\ IsTick(fifo[j], h) =>
      /\ FirstDue(tick_list[h], fifo[j].param[2])
      /\ tick_list[h].hsm # SK_INVALID_HSM => fifo[j].hsm = tick_list[h].hsm

(* A free slot has no pending ticks, but for the one that was cleared, and *)
(* the thread that cleared it keeps everybody from filling it.             *)
FreshSlots ==
  \/ \E c \in Clients : pc[c] = "relock"
  \/ \A h \in Handles, j \in 1 .. Len(fifo) :
       tick_list[h].hsm = SK_INVALID_HSM => ~ IsTick(fifo[j], h)

(* What the ticker saw when it looked still holds when it sends.           *)
SeenStillHolds ==
  pc[ticker] \in {"send", "push"} =>
    /\ tick_list[i].hsm # SK_INVALID_HSM
    /\ Periodic(tick_list[i]) =>
         /\ Due(tick_list[i])
         /\ \A j \in 1 .. Len(fifo) : ~ IsTick(fifo[j], i)

Pending == NotDueBefore /\ CarriesFirstDue /\ FreshSlots /\ SeenStillHolds /\ OnePendingTick

(* A place of the queue that holds a tick. *)
Ticking(m) == \E h \in Handles : IsTick(m, h)

LEMMA SlotTyped ==
  ASSUME TypeOK, NEW h \in Handles
  PROVE  /\ tick_list[h] \in TICK_MSG
         /\ tick_list[h].hsm \in HSM \cup {SK_INVALID_HSM} /\ tick_list[h].n100msec \in U32
         /\ tick_list[h].count \in U32 /\ tick_list[h].param2 \in U32
BY DEF TypeOK, TICK_MSG

(* The ticker and the windows see no tick that was not there before.       *)
LEMMA NoNewTick ==
  ASSUME Pending, UNCHANGED tick_list, NEW d \in {0, 1},
         fifo \in Seq(MESSAGE), fifo' \in Seq(MESSAGE),
         \A j \in 1 .. Len(fifo') : Ticking(fifo'[j]) => j + d \in 1 .. Len(fifo) /\ fifo'[j] = fifo[j + d],
         \A c \in Clients : pc[c] = "relock" => pc'[c] = "relock",
         pc'[ticker] \in {"send", "push"} => pc[ticker] \in {"send", "push"} /\ i' = i /\ i \in Handles
  PROVE  Pending'
<1>0. \A h \in Handles, j \in 1 .. Len(fifo') :
        IsTick(fifo'[j], h) => j + d \in 1 .. Len(fifo) /\ fifo'[j] = fifo[j + d]
  BY DEF Ticking
<1>1. NotDueBefore'
  BY DEF Pending, NotDueBefore, Periodic, DueAt
<1>2. CarriesFirstDue'
  <2> SUFFICES ASSUME NEW h \in Handles, NEW j \in 1 .. Len(fifo'),
                      Periodic(tick_list[h]), IsTick(fifo'[j], h)
               PROVE  /\ FirstDue(tick_list[h], fifo'[j].param[2])
                      /\ tick_list[h].hsm # SK_INVALID_HSM => fifo'[j].hsm = tick_list[h].hsm
    BY DEF CarriesFirstDue, Periodic, FirstDue, DueAt, IsTick
  <2>1. j + d \in 1 .. Len(fifo) /\ fifo'[j] = fifo[j + d]
    BY <1>0
  <2> QED
    BY <2>1 DEF Pending, CarriesFirstDue
<1>3. FreshSlots'
  <2>1. CASE \E c \in Clients : pc[c] = "relock"
    BY <2>1 DEF FreshSlots
  <2>2. CASE \A h \in Handles, j \in 1 .. Len(fifo) : tick_list[h].hsm = SK_INVALID_HSM => ~ IsTick(fifo[j], h)
    <3>1. ASSUME NEW h \in Handles, NEW j \in 1 .. Len(fifo'), tick_list[h].hsm = SK_INVALID_HSM, IsTick(fifo'[j], h)
          PROVE  FALSE
      BY <1>0, <2>2, <3>1
    <3> QED
      BY <3>1 DEF FreshSlots, IsTick
  <2> QED
    BY <2>1, <2>2 DEF Pending, FreshSlots
<1>4. SeenStillHolds'
  <2> SUFFICES ASSUME pc'[ticker] \in {"send", "push"}
               PROVE  /\ tick_list[i].hsm # SK_INVALID_HSM
                      /\ Periodic(tick_list[i]) =>
                           /\ Due(tick_list[i])
                           /\ \A j \in 1 .. Len(fifo') : ~ IsTick(fifo'[j], i)
    BY DEF SeenStillHolds, Periodic, Due, IsTick
  <2>1. /\ tick_list[i].hsm # SK_INVALID_HSM
        /\ Periodic(tick_list[i]) => Due(tick_list[i]) /\ \A j \in 1 .. Len(fifo) : ~ IsTick(fifo[j], i)
    BY DEF Pending, SeenStillHolds
  <2>2. ASSUME NEW j \in 1 .. Len(fifo'), IsTick(fifo'[j], i), Periodic(tick_list[i]) PROVE FALSE
    BY <1>0, <2>1, <2>2
  <2> QED
    BY <2>1, <2>2
<1>5. OnePendingTick'
  <2> SUFFICES ASSUME NEW h \in Handles, tick_list[h].param2 = 0 /\ tick_list[h].n100msec > 0,
                      NEW j \in 1 .. Len(fifo'), NEW k \in 1 .. Len(fifo'),
                      IsTick(fifo'[j], h), IsTick(fifo'[k], h)
               PROVE  j = k
    BY DEF OnePendingTick, IsTick
  <2>1. /\ j + d \in 1 .. Len(fifo) /\ fifo'[j] = fifo[j + d]
        /\ k + d \in 1 .. Len(fifo) /\ fifo'[k] = fifo[k + d]
    BY <1>0
  <2>2. j + d = k + d
    BY <2>1 DEF Pending, OnePendingTick
  <2> QED
    BY <2>2
<1> QED
  BY <1>1, <1>2, <1>3, <1>4, <1>5 DEF Pending

(* The thread that cleared a slot stays where it is.                       *)
LEMMA RelockStays ==
  ASSUME IInv, [Next]_vars, NEW c \in Clients, pc[c] = "relock"
  PROVE  pc'[c] = "relock"
<1>1. c \in Threads /\ c # ticker /\ InTick(c)
  BY Threads2 DEF InTick
<1>2. sem_tick = 0 /\ \A t \in Threads : InTick(t) => t = c
  BY <1>1 DEF TickExcludes
<1>3. \A t \in Threads : t # c => pc[t] \notin {"scan", "fill", "clear"}
  BY <1>2 DEF InTick
<1>4. ASSUME NEW t \in Threads, NEW b, t # c, pc' = [pc EXCEPT ![t] = b] PROVE pc'[c] = "relock"
  BY <1>1, <1>4 DEF TypeOK
<1>5. CASE UNCHANGED pc
  BY <1>5
<1>6. CASE \E t \in Threads : Acquire(t)
  BY <1>1, <1>2, <1>4, <1>6 DEF Acquire, LockTick, LockSystem, Goto
<1>7. CASE Scan
  BY <1>1, <1>4, <1>7, Threads2 DEF Scan, SkipSlot, DecideSend, SendTick, EndScan, Goto
<1>8. CASE \E e \in Clients : \/ Inside(e)
                              \/ CallDestroy(e)
                              \/ \E h \in HSM : CallSet(e, h) \/ CallSend(e, h)
  BY <1>4, <1>8, Threads2 DEF Inside, SetTick, SendUser, ClearTick, CallDestroy, CallSet, CallSend, Goto
<1> QED
  BY <1>5, <1>6, <1>7, <1>8 DEF Next, vars, Dispatch, CloseWindow

(* The next count of a periodic slot is at most one past a count that was  *)
(* not due, or one.                                                        *)
LEMMA CountsOn ==
  ASSUME NEW tick \in TICK_MSG
  PROVE  LET next == Scanned(tick)
         IN  /\ next.hsm = tick.hsm /\ next.n100msec = tick.n100msec /\ next.param2 = tick.param2
             /\ Periodic(tick) /\ (\A k \in U32 : k < tick.count => ~ DueAt(tick, k))
                  => \A k \in U32 : k < next.count => ~ DueAt(tick, k)
<1>1. /\ Scanned(tick).hsm = tick.hsm /\ Scanned(tick).n100msec = tick.n100msec
      /\ Scanned(tick).param2 = tick.param2
      /\ Scanned(tick).count = ((IF Due(tick) THEN 0 ELSE tick.count) + 1) % Word
  BY DEF Scanned, Counted, TICK_MSG
<1>2. tick.count \in U32 /\ tick.n100msec \in U32
  BY DEF TICK_MSG
<1>3. Word \in Nat /\ Word > 1 /\ time_tick \in Nat
  BY Sizes
<1>4. ASSUME Periodic(tick), \A k \in U32 : k < tick.count => ~ DueAt(tick, k),
             NEW k \in U32, k < Scanned(tick).count
      PROVE  ~ DueAt(tick, k)
  <2>1. CASE Due(tick)
    <3>1. Scanned(tick).count = 1
      BY <1>1, <1>3, <2>1
    <3>2. k = 0
      BY <1>4, <3>1 DEF U32
    <3>3. (0 * time_tick) % Word = 0
      BY <1>3
    <3> QED
      BY <1>2, <1>4, <3>2, <3>3 DEF DueAt, Periodic, U32
  <2>2. CASE ~ Due(tick)
    <3>1. ~ DueAt(tick, tick.count)
      BY <2>2 DEF Due, DueAt
    <3>2. Scanned(tick).count = (tick.count + 1) % Word
      BY <1>1, <2>2
    <3>3. tick.count + 1 \in 0 .. Word - 1 \/ tick.count + 1 = Word
      BY <1>2, <1>3 DEF U32
    <3>4. Scanned(tick).count <= tick.count + 1
      BY <1>2, <1>3, <3>2, <3>3 DEF U32
    <3>5. k < tick.count \/ k = tick.count
      BY <1>1, <1>2, <1>3, <1>4, <3>2, <3>3, <3>4 DEF U32
    <3> QED
      BY <1>4, <3>1, <3>5
  <2> QED
    BY <2>1, <2>2
<1> QED
  BY <1>1, <1>4

(* Counting a slot changes nothing but its count.                          *)
LEMMA SlotCounted ==
  ASSUME TypeOK, NotDueBefore, i \in Handles, tick_list' = [tick_list EXCEPT ![i] = Scanned(@)]
  PROVE  /\ NotDueBefore'
         /\ \A h \in Handles : /\ tick_list'[h].hsm = tick_list[h].hsm
                               /\ tick_list'[h].n100msec = tick_list[h].n100msec
                               /\ tick_list'[h].param2 = tick_list[h].param2
<1>1. /\ tick_list'[i] = Scanned(tick_list[i])
      /\ \A h \in Handles : h # i => tick_list'[h] = tick_list[h]
  BY DEF TypeOK
<1>2. tick_list[i] \in TICK_MSG
  BY SlotTyped
<1>3. \A h \in Handles : /\ tick_list'[h].hsm = tick_list[h].hsm
                         /\ tick_list'[h].n100msec = tick_list[h].n100msec
                         /\ tick_list'[h].param2 = tick_list[h].param2
  BY <1>1, <1>2, CountsOn
<1>4. ASSUME NEW h \in Handles, Periodic(tick_list'[h]), NEW k \in U32, k < tick_list'[h].count
      PROVE  ~ DueAt(tick_list'[h], k)
  <2>1. Periodic(tick_list[h]) /\ (DueAt(tick_list'[h], k) <=> DueAt(tick_list[h], k))
    BY <1>3, <1>4 DEF Periodic, DueAt
  <2>2. CASE h = i
    BY <1>1, <1>2, <1>4, <2>1, <2>2, CountsOn DEF NotDueBefore
  <2>3. CASE h # i
    BY <1>1, <1>4, <2>1, <2>3 DEF NotDueBefore
  <2> QED
    BY <2>2, <2>3
<1> QED
  BY <1>3, <1>4 DEF NotDueBefore

LEMMA SkipPending ==
  ASSUME IInv, Pending, SkipSlot
  PROVE  Pending'
<1>1. pc[ticker] = "scan" /\ i \in Handles /\ pc' = pc /\ fifo' = fifo
  BY DEF SkipSlot
<1>2. CASE tick_list' = tick_list
  BY <1>1, <1>2, NoNewTick DEF TypeOK
<1>3. CASE tick_list' = [tick_list EXCEPT ![i] = Scanned(@)]
  <2>1. /\ NotDueBefore'
        /\ \A h \in Handles : /\ tick_list'[h].hsm = tick_list[h].hsm
                              /\ tick_list'[h].n100msec = tick_list[h].n100msec
                              /\ tick_list'[h].param2 = tick_list[h].param2
    BY <1>1, <1>3, SlotCounted DEF Pending
  <2>2. CarriesFirstDue'
    BY <1>1, <2>1 DEF Pending, CarriesFirstDue, Periodic, FirstDue, DueAt, IsTick
  <2>3. FreshSlots'
    BY <1>1, <2>1 DEF Pending, FreshSlots, IsTick
  <2>4. SeenStillHolds'
    BY <1>1 DEF SeenStillHolds
  <2>5. OnePendingTick'
    BY <1>1, <2>1 DEF Pending, OnePendingTick, IsTick
  <2> QED
    BY <2>1, <2>2, <2>3, <2>4, <2>5 DEF Pending
<1> QED
  BY <1>2, <1>3 DEF SkipSlot

(* Of a due slot the search finds every pending tick.                      *)
LEMMA SearchFindsAny ==
  ASSUME IInv, Pending, i \in Handles, tick_list[i].hsm # SK_INVALID_HSM, Periodic(tick_list[i]),
         Due(tick_list[i]), ~ IsPending(i), NEW j \in 1 .. Len(fifo)
  PROVE  ~ IsTick(fifo[j], i)
<1> SUFFICES ASSUME IsTick(fifo[j], i) PROVE FALSE
  OBVIOUS
<1>1. FirstDue(tick_list[i], fifo[j].param[2]) /\ fifo[j].hsm = tick_list[i].hsm
  BY DEF Pending, CarriesFirstDue
<1>2. tick_list[i].count \in U32
  BY SlotTyped
<1>3. FirstDue(tick_list[i], tick_list[i].count)
  BY <1>2 DEF Pending, NotDueBefore, FirstDue, Due, DueAt
<1>4. fifo[j].param[2] = tick_list[i].count
  <2>1. fifo[j].param[2] \in U32
    BY <1>1 DEF FirstDue
  <2>2. ~ (fifo[j].param[2] < tick_list[i].count) /\ ~ (tick_list[i].count < fifo[j].param[2])
    BY <1>1, <1>3 DEF FirstDue
  <2> QED
    BY <1>2, <2>1, <2>2, Sizes DEF U32
<1>5. fifo[j] \in MESSAGE
  BY DEF TypeOK
<1>6. fifo[j].param \in (0 .. SMALLWIN_NTICKS) \X U32
  BY <1>5, ParamPairs DEF MESSAGE
<1>7. fifo[j].param = <<i, tick_list[i].count>>
  BY <1>4, <1>6 DEF IsTick
<1>8. fifo[j] = Tick(i, tick_list[i].count)
  BY <1>1, <1>5, <1>7 DEF MESSAGE, Tick, IsTick
<1>9. j \in DOMAIN fifo
  BY DEF TypeOK
<1> QED
  BY <1>8, <1>9 DEF IsPending, Found

LEMMA DecidePending ==
  ASSUME IInv, Pending, DecideSend
  PROVE  Pending'
<1>1. /\ i \in Handles /\ i' = i /\ fifo' = fifo /\ tick_list' = tick_list
      /\ pc' = [pc EXCEPT ![ticker] = "send"]
      /\ tick_list[i].hsm # SK_INVALID_HSM /\ Due(tick_list[i]) /\ ~ IsPending(i)
  BY DEF DecideSend, Goto
<1>2. \A c \in Clients : pc'[c] = pc[c]
  BY <1>1, Threads2 DEF TypeOK
<1>3. SeenStillHolds'
  BY <1>1, SearchFindsAny DEF SeenStillHolds, Periodic, Due, IsTick
<1>4. NotDueBefore' /\ CarriesFirstDue' /\ FreshSlots' /\ OnePendingTick'
  BY <1>1, <1>2 DEF Pending, NotDueBefore, CarriesFirstDue, FreshSlots, OnePendingTick,
     Periodic, FirstDue, DueAt, IsTick
<1> QED
  BY <1>3, <1>4 DEF Pending

(* A message that is pushed comes last, or does not come.                  *)
LEMMA PushedIs ==
  ASSUME TypeOK, NEW m, fifo' = Pushed(m), NEW j \in 1 .. Len(fifo')
  PROVE  \/ j \in 1 .. Len(fifo) /\ fifo'[j] = fifo[j]
         \/ j = Len(fifo) + 1 /\ Len(fifo') = Len(fifo) + 1 /\ fifo'[j] = m
<1>1. CASE Len(fifo) < nqueue
  <2>1. fifo' = Append(fifo, m) /\ fifo \in Seq(MESSAGE)
    BY <1>1 DEF Pushed, TypeOK
  <2>2. Len(fifo') = Len(fifo) + 1 /\ Len(fifo) \in Nat
    BY <2>1
  <2>3. CASE j = Len(fifo) + 1
    BY <2>1, <2>2, <2>3
  <2>4. CASE j # Len(fifo) + 1
    <3>1. j \in 1 .. Len(fifo)
      BY <2>2, <2>4
    <3> QED
      BY <2>1, <3>1
  <2> QED
    BY <2>3, <2>4
<1>2. CASE ~ (Len(fifo) < nqueue)
  BY <1>2 DEF Pushed
<1> QED
  BY <1>1, <1>2

LEMMA SendPending ==
  ASSUME IInv, Pending, SendTick
  PROVE  Pending'
<1>1. /\ i \in Handles /\ pc[ticker] = "push" /\ pc' = [pc EXCEPT ![ticker] = "scan"]
      /\ tick_list' = [tick_list EXCEPT ![i] = Scanned(tick_list[i])]
  BY DEF SendTick, Goto, Roles
<1>2. PICK p \in U32 : fifo' = Pushed(Tick(i, p)) /\ (Periodic(tick_list[i]) => p = tick_list[i].count)
  BY <1>1, SlotTyped DEF SendTick, Periodic
<1>3. /\ NotDueBefore'
      /\ \A h \in Handles : /\ tick_list'[h].hsm = tick_list[h].hsm
                            /\ tick_list'[h].n100msec = tick_list[h].n100msec
                            /\ tick_list'[h].param2 = tick_list[h].param2
  BY <1>1, SlotCounted DEF Pending
<1>4. \A h \in Handles : /\ Periodic(tick_list'[h]) <=> Periodic(tick_list[h])
                         /\ \A q : FirstDue(tick_list'[h], q) <=> FirstDue(tick_list[h], q)
  BY <1>3 DEF Periodic, FirstDue, DueAt
<1>5. /\ tick_list[i].hsm # SK_INVALID_HSM
      /\ Periodic(tick_list[i]) => Due(tick_list[i]) /\ \A j \in 1 .. Len(fifo) : ~ IsTick(fifo[j], i)
  BY <1>1 DEF Pending, SeenStillHolds
<1>6. Periodic(tick_list[i]) => FirstDue(tick_list[i], p)
  BY <1>1, <1>2, <1>5, SlotTyped DEF Pending, NotDueBefore, FirstDue, Due, DueAt
<1>7. ASSUME NEW h \in Handles, NEW j \in 1 .. Len(fifo'), IsTick(fifo'[j], h)
      PROVE  \/ j \in 1 .. Len(fifo) /\ fifo'[j] = fifo[j]
             \/ j = Len(fifo) + 1 /\ h = i /\ fifo'[j] = Tick(i, p)
  BY <1>2, <1>7, PushedIs DEF IsTick, Tick
<1>8. CarriesFirstDue'
  <2> SUFFICES ASSUME NEW h \in Handles, NEW j \in 1 .. Len(fifo'), Periodic(tick_list[h]), IsTick(fifo'[j], h)
               PROVE  /\ FirstDue(tick_list[h], fifo'[j].param[2])
                      /\ tick_list[h].hsm # SK_INVALID_HSM => fifo'[j].hsm = tick_list[h].hsm
    BY <1>3, <1>4 DEF CarriesFirstDue, IsTick
  <2>1. CASE j \in 1 .. Len(fifo) /\ fifo'[j] = fifo[j]
    BY <2>1 DEF Pending, CarriesFirstDue
  <2>2. CASE h = i /\ fifo'[j] = Tick(i, p)
    BY <1>6, <2>2 DEF Tick
  <2> QED
    BY <1>7, <2>1, <2>2
<1>9. FreshSlots'
  <2>1. \A c \in Clients : pc'[c] = pc[c]
    BY <1>1, Threads2 DEF TypeOK
  <2>2. ASSUME NEW h \in Handles, NEW j \in 1 .. Len(fifo'), tick_list'[h].hsm = SK_INVALID_HSM, IsTick(fifo'[j], h),
               \A g \in Handles, k \in 1 .. Len(fifo) : tick_list[g].hsm = SK_INVALID_HSM => ~ IsTick(fifo[k], g)
        PROVE  FALSE
    BY <1>3, <1>5, <1>7, <2>2
  <2> QED
    BY <2>1, <2>2 DEF Pending, FreshSlots, IsTick
<1>10. SeenStillHolds'
  BY <1>1, Threads2 DEF SeenStillHolds, TypeOK
<1>11. OnePendingTick'
  <2> SUFFICES ASSUME NEW h \in Handles, Periodic(tick_list[h]),
                      NEW j \in 1 .. Len(fifo'), NEW k \in 1 .. Len(fifo'), IsTick(fifo'[j], h), IsTick(fifo'[k], h)
               PROVE  j = k
    BY <1>3 DEF OnePendingTick, IsTick, Periodic
  <2>1. CASE j \in 1 .. Len(fifo) /\ fifo'[j] = fifo[j] /\ k \in 1 .. Len(fifo) /\ fifo'[k] = fifo[k]
    BY <2>1 DEF Pending, OnePendingTick, Periodic
  <2>2. CASE j = Len(fifo) + 1 /\ h = i
    BY <1>5, <1>7, <2>2
  <2>3. CASE k = Len(fifo) + 1 /\ h = i
    BY <1>5, <1>7, <2>3
  <2> QED
    BY <1>7, <2>1, <2>2, <2>3
<1> QED
  BY <1>3, <1>8, <1>9, <1>10, <1>11 DEF Pending

(* sm_set_xtick fills a slot of which no tick is left.                     *)
LEMMA SetPending ==
  ASSUME IInv, Pending, NEW c \in Clients, SetTick(c)
  PROVE  Pending'
<1>1. pc[c] = "fill" /\ pc' = [pc EXCEPT ![c] = "idle"] /\ fifo' = fifo /\ i' = i
  BY DEF SetTick, Goto
<1>2. c \in Threads /\ c # ticker /\ InTick(c) /\ \A e \in Clients : e \in Threads
  BY <1>1, Threads2 DEF InTick
<1>3. \A t \in Threads : InTick(t) => t = c
  BY <1>2 DEF TickExcludes
<1>4. pc[ticker] = "delay" /\ pc'[ticker] = "delay" /\ \A e \in Clients : pc[e] # "relock"
  BY <1>1, <1>2, <1>3, Threads2 DEF InTick, Roles, TypeOK
<1>5. SeenStillHolds'
  BY <1>4 DEF SeenStillHolds
<1>6. CASE tick_list' = tick_list
  BY <1>1, <1>4, <1>5, <1>6 DEF Pending, NotDueBefore, CarriesFirstDue, FreshSlots, OnePendingTick,
     Periodic, FirstDue, DueAt, IsTick
<1>7. ASSUME NEW h \in FreeHandles, tick_list' = [tick_list EXCEPT ![h] = arg[c]] PROVE Pending'
  <2>1. h \in Handles /\ tick_list[h].hsm = SK_INVALID_HSM
    BY DEF FreeHandles
  <2>2. \A j \in 1 .. Len(fifo) : ~ IsTick(fifo[j], h)
    BY <1>4, <2>1 DEF Pending, FreshSlots
  <2>3. tick_list'[h] = arg[c] /\ \A g \in Handles : g # h => tick_list'[g] = tick_list[g]
    BY <1>7, <2>1 DEF TypeOK
  <2>4. NotDueBefore'
    <3>1. \A k \in U32 : ~ (k < arg[c].count)
      BY Sizes DEF Roles, U32
    <3>2. ASSUME NEW g \in Handles, Periodic(tick_list'[g]), NEW k \in U32, k < tick_list'[g].count
          PROVE  ~ DueAt(tick_list'[g], k)
      BY <2>3, <3>1, <3>2 DEF Pending, NotDueBefore
    <3> QED
      BY <3>2 DEF NotDueBefore
  <2>5. CarriesFirstDue'
    <3>1. ASSUME NEW g \in Handles, NEW j \in 1 .. Len(fifo), Periodic(tick_list'[g]), IsTick(fifo[j], g)
          PROVE  /\ FirstDue(tick_list'[g], fifo[j].param[2])
                 /\ tick_list'[g].hsm # SK_INVALID_HSM => fifo[j].hsm = tick_list'[g].hsm
      BY <2>2, <2>3, <3>1 DEF Pending, CarriesFirstDue
    <3> QED
      BY <1>1, <3>1 DEF CarriesFirstDue, IsTick
  <2>6. FreshSlots'
    <3>1. ASSUME NEW g \in Handles, NEW j \in 1 .. Len(fifo), tick_list'[g].hsm = SK_INVALID_HSM, IsTick(fifo[j], g)
          PROVE  FALSE
      BY <1>4, <2>2, <2>3, <3>1 DEF Pending, FreshSlots
    <3> QED
      BY <1>1, <3>1 DEF FreshSlots, IsTick
  <2>7. OnePendingTick'
    <3>1. ASSUME NEW g \in Handles, Periodic(tick_list'[g]), NEW j \in 1 .. Len(fifo), NEW k \in 1 .. Len(fifo),
                 IsTick(fifo[j], g), IsTick(fifo[k], g)
          PROVE  j = k
      BY <2>2, <2>3, <3>1 DEF Pending, OnePendingTick, Periodic
    <3> QED
      BY <1>1, <3>1 DEF OnePendingTick, Periodic, IsTick
  <2> QED
    BY <1>5, <2>4, <2>5, <2>6, <2>7 DEF Pending
<1> QED
  BY <1>6, <1>7 DEF SetTick

(* sm_destroy_tick leaves the ticks of the slot in the queue, and stops.   *)
LEMMA ClearPending ==
  ASSUME IInv, Pending, NEW c \in Clients, NEW htick \in 0 .. SMALLWIN_NTICKS, ClearTick(c, htick)
  PROVE  Pending'
<1>1. pc[c] = "clear" /\ pc' = [pc EXCEPT ![c] = "relock"] /\ fifo' = fifo /\ i' = i
  BY DEF ClearTick, Goto
<1>2. c \in Threads /\ c # ticker /\ InTick(c)
  BY <1>1, Threads2 DEF InTick
<1>3. pc'[ticker] = "delay" /\ pc'[c] = "relock"
  <2>1. ~ InTick(ticker)
    BY <1>2, Threads2 DEF TickExcludes
  <2> QED
    BY <1>1, <1>2, <2>1, Threads2 DEF InTick, Roles, TypeOK
<1>4. \A h \in Handles : /\ tick_list'[h].hsm \in {tick_list[h].hsm, SK_INVALID_HSM}
                         /\ tick_list'[h].n100msec = tick_list[h].n100msec
                         /\ tick_list'[h].count = tick_list[h].count
                         /\ tick_list'[h].param2 = tick_list[h].param2
  BY DEF ClearTick, TypeOK, TICK_MSG
<1>5. SeenStillHolds' /\ FreshSlots'
  BY <1>3 DEF SeenStillHolds, FreshSlots
<1>6. NotDueBefore'
  BY <1>4 DEF Pending, NotDueBefore, Periodic, DueAt
<1>7. CarriesFirstDue'
  <2> SUFFICES ASSUME NEW h \in Handles, NEW j \in 1 .. Len(fifo), Periodic(tick_list'[h]), IsTick(fifo[j], h)
               PROVE  /\ FirstDue(tick_list'[h], fifo[j].param[2])
                      /\ tick_list'[h].hsm # SK_INVALID_HSM => fifo[j].hsm = tick_list'[h].hsm
    BY <1>1 DEF CarriesFirstDue, IsTick
  <2>1. Periodic(tick_list[h]) /\ \A q : FirstDue(tick_list'[h], q) <=> FirstDue(tick_list[h], q)
    BY <1>4 DEF Periodic, FirstDue, DueAt
  <2> QED
    BY <1>4, <2>1 DEF Pending, CarriesFirstDue
<1>8. OnePendingTick'
  BY <1>1, <1>4 DEF Pending, OnePendingTick, IsTick
<1> QED
  BY <1>5, <1>6, <1>7, <1>8 DEF Pending

(* A message that is no tick is pushed, the oldest message is taken, the   *)
(* messages of a window are erased.                                        *)
LEMMA QueuePending ==
  ASSUME IInv, IInv', Pending, [Next]_vars,
         \/ \E c \in Clients : SendUser(c)
         \/ Dispatch
         \/ \E h \in HSM : CloseWindow(h)
  PROVE  Pending'
<1>1. fifo \in Seq(MESSAGE) /\ fifo' \in Seq(MESSAGE)
  BY DEF TypeOK
<1>2. /\ tick_list' = tick_list /\ i' = i /\ pc'[ticker] = pc[ticker]
      /\ pc[ticker] \in {"send", "push"} => i \in Handles
  BY Threads2 DEF SendUser, Goto, Dispatch, CloseWindow, TypeOK, Roles
<1>3. \A c \in Clients : pc[c] = "relock" => pc'[c] = "relock"
  BY RelockStays
<1>4. CASE \E c \in Clients : SendUser(c)
  <2>1. PICK c \in Clients : SendUser(c)
    BY <1>4
  <2>2. ~ Ticking(User(arg[c].hsm))
    BY Codes DEF Ticking, IsTick, User
  <2>3. \A j \in 1 .. Len(fifo') : Ticking(fifo'[j]) => j + 0 \in 1 .. Len(fifo) /\ fifo'[j] = fifo[j + 0]
    BY <2>1, <2>2, PushedIs DEF SendUser
  <2> QED
    BY <1>1, <1>2, <1>3, <2>3, NoNewTick
<1>5. CASE Dispatch
  <2>1. fifo' = Tail(fifo) /\ fifo # <<>>
    BY <1>5 DEF Dispatch
  <2>2. \A j \in 1 .. Len(fifo') : j + 1 \in 1 .. Len(fifo) /\ fifo'[j] = fifo[j + 1]
    BY <1>1, <2>1
  <2> QED
    BY <1>1, <1>2, <1>3, <2>2, NoNewTick
<1>6. CASE \E h \in HSM : CloseWindow(h)
  <2>1. PICK h \in HSM : fifo' = [j \in DOMAIN fifo |-> IF fifo[j].hsm = h THEN Erased ELSE fifo[j]]
    BY <1>6 DEF CloseWindow, EraseMessage
  <2>2. DOMAIN fifo = 1 .. Len(fifo) /\ DOMAIN fifo' = 1 .. Len(fifo')
    BY <1>1
  <2>3. \A j \in 1 .. Len(fifo') : j \in DOMAIN fifo
    BY <2>1, <2>2
  <2>4. ~ Ticking(Erased)
    BY Codes, NullValues DEF Ticking, IsTick, Erased
  <2>5. \A j \in 1 .. Len(fifo') : Ticking(fifo'[j]) => j + 0 \in 1 .. Len(fifo) /\ fifo'[j] = fifo[j + 0]
    BY <2>1, <2>2, <2>3, <2>4
  <2> QED
    BY <1>1, <1>2, <1>3, <2>5, NoNewTick
<1> QED
  BY <1>4, <1>5, <1>6

(* The steps that touch neither the table nor the queue.                   *)
LEMMA OtherPending ==
  ASSUME IInv, Pending, [Next]_vars,
         \/ UNCHANGED vars
         \/ EndScan
         \/ \E t \in Threads : Acquire(t)
         \/ \E c \in Clients : CallDestroy(c) \/ \E h \in HSM : CallSet(c, h) \/ CallSend(c, h)
  PROVE  Pending'
<1>1. fifo \in Seq(MESSAGE) /\ fifo' = fifo /\ tick_list' = tick_list
  BY DEF TypeOK, vars, EndScan, Acquire, LockTick, LockSystem, CallDestroy, CallSet, CallSend
<1>2. \A c \in Clients : pc[c] = "relock" => pc'[c] = "relock"
  BY RelockStays
<1>3. pc'[ticker] \in {"send", "push"} => pc[ticker] \in {"send", "push"} /\ i' = i /\ i \in Handles
  <2>1. CASE UNCHANGED vars
    BY <2>1 DEF vars, Roles
  <2>2. CASE EndScan
    BY <2>2, Threads2 DEF EndScan, Goto, TypeOK
  <2>3. CASE \E t \in Threads : Acquire(t)
    <3>1. PICK t \in Threads : Acquire(t)
      BY <2>3
    <3>2. CASE LockTick(t)
      BY <3>2, Threads2 DEF LockTick, AfterLockTick, Goto, TypeOK, Roles
    <3>3. CASE LockSystem(t)
      BY <3>3, Threads2 DEF LockSystem, Goto, TypeOK, Roles
    <3> QED
      BY <3>1, <3>2, <3>3 DEF Acquire
  <2>4. CASE \E c \in Clients : CallDestroy(c) \/ \E h \in HSM : CallSet(c, h) \/ CallSend(c, h)
    BY <2>4, Threads2 DEF CallDestroy, CallSet, CallSend, Goto, TypeOK, Roles
  <2> QED
    BY <2>1, <2>2, <2>3, <2>4
<1>4. \A j \in 1 .. Len(fifo') : Ticking(fifo'[j]) => j + 0 \in 1 .. Len(fifo) /\ fifo'[j] = fifo[j + 0]
  BY <1>1
<1> QED
  BY <1>1, <1>2, <1>3, <1>4, NoNewTick

LEMMA NextPending == IInv /\ IInv' /\ Pending /\ [Next]_vars => Pending'
<1> SUFFICES ASSUME IInv, IInv', Pending, [Next]_vars PROVE Pending'
  OBVIOUS
<1>1. CASE \/ UNCHANGED vars
           \/ EndScan
           \/ \E t \in Threads : Acquire(t)
           \/ \E c \in Clients : CallDestroy(c) \/ \E h \in HSM : CallSet(c, h) \/ CallSend(c, h)
  BY <1>1, OtherPending
<1>2. CASE \/ \E c \in Clients : SendUser(c)
           \/ Dispatch
           \/ \E h \in HSM : CloseWindow(h)
  BY <1>2, QueuePending
<1>3. CASE SkipSlot
  BY <1>3, SkipPending
<1>4. CASE DecideSend
  BY <1>4, DecidePending
<1>5. CASE SendTick
  BY <1>5, SendPending
<1>6. CASE \E c \in Clients : SetTick(c) \/ \E htick \in 0 .. SMALLWIN_NTICKS : ClearTick(c, htick)
  BY <1>6, SetPending, ClearPending
<1> QED
  BY <1>1, <1>2, <1>3, <1>4, <1>5, <1>6 DEF Next, Scan, Inside

LEMMA InitPending == Init => Pending
<1> SUFFICES ASSUME Init PROVE Pending
  OBVIOUS
<1>1. Len(fifo) = 0 /\ \A j \in 1 .. Len(fifo) : FALSE
  BY DEF Init
<1>2. \A h \in Handles : ~ Periodic(tick_list[h])
  BY DEF Init, NoTick, Periodic
<1>3. pc[ticker] = "delay"
  BY Threads2 DEF Init
<1> QED
  BY <1>1, <1>2, <1>3 DEF Pending, NotDueBefore, CarriesFirstDue, FreshSlots, SeenStillHolds, OnePendingTick, Periodic

(* However long a window leaves its ticks unread, and whoever else uses    *)
(* the queue, a periodic slot has one tick in it at most: for any period,  *)
(* width of u32, table and queue.                                          *)
THEOREM TicksDoNotPileUp == Spec => []OnePendingTick
<1>1. Spec => []Pending
  BY InitPending, NextPending, Invariance, PTL DEF Spec
<1>2. Pending => OnePendingTick
  BY DEF Pending
<1> QED
  BY <1>1, <1>2, PTL

=============================================================================
