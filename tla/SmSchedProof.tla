---------------------------- MODULE SmSchedProof ----------------------------
(***************************************************************************)
(* Proofs about SmSched, for any threads, addresses, queue and depth of    *)
(* calls.                                                                  *)
(*                                                                         *)
(* The first part holds whatever calls the threads make: sem_system has at *)
(* most one holder, and a window that is linked and not announced is in no *)
(* message, so that SMM_CREATE is the first message of its window.         *)
(*                                                                         *)
(* The second part assumes that no client expresses a message, so that the *)
(* scheduler's thread alone destroys windows.  Then the list is always a   *)
(* sequence of windows by age, though it is read without the lock.         *)
(***************************************************************************)
EXTENDS SmSched, SequenceTheorems, TLAPS

(* Every variable but prev has its type.  That prev has its own rests on   *)
(* the list's being sound, which is the second part of this module.        *)
Typed ==
  /\ fifo \in Seq(MESSAGE) /\ Len(fifo) <= nqueue
  /\ smallwin_list \in HSM \cup {NULL}
  /\ next \in [HSM -> HSM \cup {NULL}]
  /\ owner \in [HSM -> 0 .. MaxWindows]
  /\ born \in Seq(HSM) /\ Len(born) <= MaxWindows
  /\ sem_system \in {0, 1}
  /\ usage \in Usages
  /\ stack \in [Threads -> Seq(Frame)]

(* What a step of t does to its stack: a new top, a frame less, or a call  *)
(* from a procedure or from outside every function.                        *)
Keeps(t) == stack' \in [Threads -> Seq(Frame)] /\ \A u \in Threads \ {t} : stack'[u] = stack[u]

Replaced(t, f) ==
  /\ Keeps(t)
  /\ Len(stack'[t]) = Len(stack[t])
  /\ stack'[t][1] = f
  /\ \A k \in 2 .. Len(stack[t]) : stack'[t][k] = stack[t][k]

Left(t) ==
  /\ Keeps(t)
  /\ Len(stack'[t]) = Len(stack[t]) - 1
  /\ \A k \in 1 .. Len(stack[t]) - 1 : stack'[t][k] = stack[t][k + 1]

Places == {"find", "walk", "run", "proc", "default", "free", "erase", "create", "push"}

LEMMA TopIs ==
  ASSUME Typed, NEW t \in Threads, stack[t] # <<>>
  PROVE  /\ Len(stack[t]) \in Nat \ {0} /\ stack[t] \in Seq(Frame)
         /\ Top(t) = stack[t][1] /\ Top(t) \in Frame
BY DEF Typed, Top

LEMMA ReplacesTop ==
  ASSUME Typed, NEW t \in Threads, stack[t] # <<>>, NEW f \in Frame,
         stack' = [stack EXCEPT ![t] = [stack[t] EXCEPT ![1] = f]]
  PROVE  Replaced(t, f)
<1> DEFINE s == [stack[t] EXCEPT ![1] = f]
<1>1. s \in Seq(Frame) /\ Len(s) = Len(stack[t]) /\ \A j \in 1 .. Len(stack[t]) : s[j] = IF j = 1 THEN f ELSE stack[t][j]
  BY TopIs, ExceptSeq, 1 \in 1 .. Len(stack[t])
<1>2. stack'[t] = s /\ \A u \in Threads \ {t} : stack'[u] = stack[u]
  BY DEF Typed
<1> HIDE DEF s
<1>3. stack' \in [Threads -> Seq(Frame)]
  BY <1>1 DEF Typed, s
<1> QED
  BY <1>1, <1>2, <1>3, TopIs DEF Replaced, Keeps

LEMMA MovesTop ==
  ASSUME Typed, NEW t \in Threads, stack[t] # <<>>, NEW at \in Places, Moves(t, at)
  PROVE  Replaced(t, [Top(t) EXCEPT !.at = at])
<1>1. [Top(t) EXCEPT !.at = at] \in Frame
  BY TopIs DEF Frame, Places
<1>2. stack' = [stack EXCEPT ![t] = [stack[t] EXCEPT ![1] = [Top(t) EXCEPT !.at = at]]]
  BY TopIs DEF Moves
<1> QED
  BY <1>1, <1>2, ReplacesTop

LEMMA LeavesTop ==
  ASSUME Typed, NEW t \in Threads, stack[t] # <<>>, Leaves(t)
  PROVE  Left(t)
<1>1. Tail(stack[t]) \in Seq(Frame) /\ Len(Tail(stack[t])) = Len(stack[t]) - 1
      /\ \A k \in 1 .. Len(stack[t]) - 1 : Tail(stack[t])[k] = stack[t][k + 1]
  BY TopIs, HeadTailProperties
<1> QED
  BY <1>1 DEF Leaves, Left, Keeps, Typed

(* A thread that calls with the frames of the call, or without any. *)
Called(t, frames) ==
  /\ Keeps(t)
  /\ \/ /\ stack[t] = <<>> /\ t \in Clients
        /\ stack'[t] = frames
     \/ /\ At(t, "proc")
        /\ Len(stack'[t]) = Len(stack[t]) + Len(frames)
        /\ \A k \in 1 .. Len(frames) : stack'[t][k] = frames[k]
        /\ stack'[t][Len(frames) + 1] = [Top(t) EXCEPT !.at = "default"]
        /\ \A k \in 2 .. Len(stack[t]) : stack'[t][k + Len(frames)] = stack[t][k]

LEMMA Concat ==
  ASSUME NEW S, NEW a \in Seq(S), NEW f \in S, NEW r \in Seq(S), NEW w, w = a \o <<f>> \o r
  PROVE  /\ w \in Seq(S)
         /\ Len(w) = Len(a) + 1 + Len(r)
         /\ \A k \in 1 .. Len(a) : w[k] = a[k]
         /\ w[Len(a) + 1] = f
         /\ \A k \in 1 .. Len(r) : w[k + 1 + Len(a)] = r[k]
OBVIOUS

LEMMA CallFrames ==
  ASSUME NEW S, NEW s \in Seq(S), s # <<>>, NEW f \in S, NEW a \in Seq(S),
         NEW w, w = a \o <<f>> \o Tail(s)
  PROVE  /\ w \in Seq(S) /\ Len(w) = Len(s) + Len(a)
         /\ \A k \in 1 .. Len(a) : w[k] = a[k]
         /\ w[Len(a) + 1] = f
         /\ \A k \in 2 .. Len(s) : w[k + Len(a)] = s[k]
<1>1. PICK r \in Seq(S) : /\ r = Tail(s) /\ Len(r) = Len(s) - 1
                          /\ \A k \in 1 .. Len(r) : r[k] = s[k + 1]
  BY HeadTailProperties
<1>2. /\ w \in Seq(S) /\ Len(w) = Len(a) + 1 + Len(r)
      /\ \A k \in 1 .. Len(a) : w[k] = a[k]
      /\ w[Len(a) + 1] = f
      /\ \A k \in 1 .. Len(r) : w[k + 1 + Len(a)] = r[k]
  BY <1>1, Concat
<1>3. Len(s) \in Nat \ {0} /\ Len(a) \in Nat
  BY LenProperties, EmptySeq
<1>4. ASSUME NEW k \in 2 .. Len(s) PROVE w[k + Len(a)] = s[k]
  <2>1. k - 1 \in 1 .. Len(r) /\ (k - 1) + 1 + Len(a) = k + Len(a) /\ (k - 1) + 1 = k
    BY <1>1, <1>3
  <2> QED
    BY <1>1, <1>2, <2>1
<1> QED
  BY <1>1, <1>2, <1>3, <1>4

LEMMA CallsOf ==
  ASSUME Typed, NEW t \in Threads, NEW frames \in Seq(Frame), Calls(t, frames)
  PROVE  Called(t, frames)
<1>1. CASE stack[t] = <<>> /\ t \in Clients /\ stack' = [stack EXCEPT ![t] = frames]
  BY <1>1 DEF Called, Keeps, Typed
<1>2. CASE At(t, "proc") /\ stack' = [stack EXCEPT ![t] = frames \o <<[Top(t) EXCEPT !.at = "default"]>> \o Tail(@)]
  <2> DEFINE f == [Top(t) EXCEPT !.at = "default"]
  <2>1. stack[t] # <<>> /\ stack[t] \in Seq(Frame) /\ f \in Frame
    BY <1>2, TopIs DEF At, Frame
  <2>2. /\ stack' = [stack EXCEPT ![t] = stack'[t]]
        /\ stack'[t] = frames \o <<f>> \o Tail(stack[t])
    BY <1>2 DEF Typed
  <2> HIDE DEF f
  <2>3. /\ stack'[t] \in Seq(Frame) /\ Len(stack'[t]) = Len(stack[t]) + Len(frames)
        /\ \A k \in 1 .. Len(frames) : stack'[t][k] = frames[k]
        /\ stack'[t][Len(frames) + 1] = f
        /\ \A k \in 2 .. Len(stack[t]) : stack'[t][k + Len(frames)] = stack[t][k]
    <3>1. PICK S : S = Frame
      OBVIOUS
    <3>2. PICK s \in Seq(S) : s = stack[t] /\ s # <<>>
      BY <2>1, <3>1
    <3>3. PICK g \in S : g = f
      BY <2>1, <3>1
    <3>4. PICK a \in Seq(S) : a = frames
      BY <3>1
    <3>5. PICK w : w = stack'[t] /\ w = a \o <<g>> \o Tail(s)
      BY <2>2, <3>2, <3>3, <3>4
    <3>6. /\ w \in Seq(S) /\ Len(w) = Len(s) + Len(a)
          /\ \A k \in 1 .. Len(a) : w[k] = a[k]
          /\ w[Len(a) + 1] = g
          /\ \A k \in 2 .. Len(s) : w[k + Len(a)] = s[k]
      <4>1. s # <<>> /\ w = a \o <<g>> \o Tail(s)
        BY <3>2, <3>5
      <4>2. s \in Seq(S) /\ g \in S /\ a \in Seq(S)
        OBVIOUS
      <4> QED
        BY ONLY <4>1, <4>2, CallFrames
    <3> QED
      BY <3>1, <3>2, <3>3, <3>4, <3>5, <3>6
  <2>4. stack' \in [Threads -> Seq(Frame)] /\ \A u \in Threads \ {t} : stack'[u] = stack[u]
    BY <2>2, <2>3 DEF Typed
  <2> QED
    BY <1>2, <2>3, <2>4 DEF Called, Keeps, f
<1> QED
  BY <1>1, <1>2 DEF Calls

-----------------------------------------------------------------------------
(* What holds of all threads, whatever calls they make.                    *)

(* Only the innermost frame is inside a function; the others wait for a    *)
(* call in a window procedure to return to default_sm.                     *)
Shape ==
  \A t \in Threads : \A k \in 1 .. Len(stack[t]) :
    /\ k >= 2 => stack[t][k].at = "default"
    /\ stack[t][k].at # "create" => stack[t][k].msg.hsm \in HSM

(* t is in a critical section of sem_system.                               *)
Holds(t) == At(t, "push") \/ At(t, "free")

(* sem_system is free, or held by one thread.                              *)
Excludes ==
  /\ sem_system = 1 => \A t \in Threads : ~ Holds(t)
  /\ \A t, u \in Threads : Holds(t) /\ Holds(u) => t = u

(* A message is for a window that was created.                             *)
Numbered ==
  \A k \in 1 .. Len(fifo) : /\ fifo[k].param <= Len(born)
                            /\ fifo[k].message = SMM_CREATE => fifo[k].param >= 1

(* The window that is linked and not announced yet is in no message.       *)
Newest ==
  \A t \in Threads : At(t, "push") =>
    /\ Len(born) >= 1
    /\ Top(t).msg.message = SMM_CREATE /\ Top(t).msg.param = Len(born)
    /\ \A k \in 1 .. Len(fifo) : fifo[k].param # Len(born)

IInv == Typed /\ Shape /\ Excludes /\ Numbered /\ Newest /\ CreateFirst

LEMMA TopIsNext ==
  ASSUME stack' \in [Threads -> Seq(Frame)], NEW t \in Threads
  PROVE  /\ Len(stack'[t]) \in Nat
         /\ stack'[t] # <<>> <=> Len(stack'[t]) >= 1
         /\ stack'[t] # <<>> => Top(t)' = stack'[t][1]
BY DEF Top

LEMMA OthersStay ==
  ASSUME Typed, NEW t \in Threads, Keeps(t), NEW u \in Threads, u # t, NEW at
  PROVE  /\ At(u, at)' <=> At(u, at)
         /\ At(u, at) => Top(u)' = Top(u)
         /\ stack'[u] = stack[u]
BY DEF Keeps, At, Top

LEMMA AfterReplace ==
  ASSUME Typed, Shape, NEW t \in Threads, stack[t] # <<>>, NEW f \in Frame, Replaced(t, f),
         f.at # "create" => f.msg.hsm \in HSM
  PROVE  /\ Shape'
         /\ stack'[t] # <<>> /\ Top(t)' = f
         /\ \A at : At(t, at)' <=> f.at = at
<1>1. Keeps(t) /\ Len(stack[t]) \in Nat \ {0} /\ Len(stack'[t]) = Len(stack[t]) /\ stack'[t][1] = f
  BY TopIs DEF Replaced
<1>2. stack'[t] # <<>> /\ Top(t)' = f
  BY <1>1, TopIsNext DEF Keeps
<1>3. ASSUME NEW u \in Threads, NEW k \in 1 .. Len(stack'[u])
      PROVE  /\ k >= 2 => stack'[u][k].at = "default"
             /\ stack'[u][k].at # "create" => stack'[u][k].msg.hsm \in HSM
  <2>1. CASE u # t
    BY <1>1, <2>1 DEF Keeps, Shape
  <2>2. CASE u = t /\ k = 1
    BY <1>1, <2>2
  <2>3. CASE u = t /\ k # 1
    BY <1>1, <2>3 DEF Replaced, Shape
  <2> QED
    BY <2>1, <2>2, <2>3
<1> QED
  BY <1>2, <1>3 DEF Shape, At

LEMMA AfterLeave ==
  ASSUME Typed, Shape, NEW t \in Threads, stack[t] # <<>>, Left(t)
  PROVE  /\ Shape'
         /\ \A at : At(t, at)' => at = "default"
<1>1. Keeps(t) /\ Len(stack[t]) \in Nat \ {0} /\ Len(stack'[t]) = Len(stack[t]) - 1
  BY TopIs DEF Left
<1>2. ASSUME NEW k \in 1 .. Len(stack'[t])
      PROVE  /\ k \in 1 .. Len(stack[t]) - 1 /\ k + 1 \in 1 .. Len(stack[t]) /\ k + 1 >= 2
             /\ stack'[t][k] = stack[t][k + 1]
             /\ stack'[t][k].at = "default"
  BY <1>1 DEF Left, Shape
<1>3. ASSUME NEW u \in Threads, NEW k \in 1 .. Len(stack'[u])
      PROVE  /\ k >= 2 => stack'[u][k].at = "default"
             /\ stack'[u][k].at # "create" => stack'[u][k].msg.hsm \in HSM
  <2>1. CASE u # t
    BY <1>1, <2>1 DEF Keeps, Shape
  <2>2. CASE u = t
    BY <1>2, <2>2 DEF Shape
  <2> QED
    BY <2>1, <2>2
<1>4. ASSUME NEW at, At(t, at)' PROVE at = "default"
  BY <1>1, <1>2, <1>4, TopIsNext DEF At, Keeps
<1> QED
  BY <1>3, <1>4 DEF Shape

LEMMA AfterCall ==
  ASSUME Typed, Shape, NEW t \in Threads, NEW f \in Frame, Calls(t, <<f>>),
         f.at # "create" => f.msg.hsm \in HSM
  PROVE  /\ Keeps(t) /\ Shape'
         /\ stack'[t] # <<>> /\ Top(t)' = f
         /\ \A at : At(t, at)' <=> f.at = at
<1>0. <<f>> \in Seq(Frame) /\ Len(<<f>>) = 1 /\ <<f>>[1] = f
  OBVIOUS
<1>1. Called(t, <<f>>)
  BY ONLY Typed, t \in Threads, Calls(t, <<f>>), <1>0, CallsOf
<1>2. Keeps(t)
  BY <1>1 DEF Called
<1>3. /\ Len(stack'[t]) >= 1 /\ stack'[t][1] = f
      /\ \A k \in 2 .. Len(stack'[t]) : stack'[t][k].at = "default" /\ stack'[t][k].msg.hsm \in HSM
  <2>1. CASE stack[t] = <<>> /\ stack'[t] = <<f>>
    BY <2>1
  <2>2. CASE At(t, "proc")
    <3>1. stack[t] # <<>> /\ Top(t) = stack[t][1] /\ Len(stack[t]) \in Nat \ {0} /\ Top(t) \in Frame
      BY <2>2, TopIs DEF At
    <3>2. Top(t).msg.hsm \in HSM
      BY <2>2, <3>1 DEF At, Shape
    <3>3. /\ Len(stack'[t]) = Len(stack[t]) + 1
          /\ stack'[t][1] = f
          /\ stack'[t][2] = [Top(t) EXCEPT !.at = "default"]
          /\ \A k \in 2 .. Len(stack[t]) : stack'[t][k + 1] = stack[t][k]
      BY <1>0, <1>1, <2>2, <3>1 DEF Called
    <3>4. stack'[t][2].at = "default" /\ stack'[t][2].msg.hsm \in HSM
      BY <3>1, <3>2, <3>3 DEF Frame
    <3>5. ASSUME NEW k \in 3 .. Len(stack'[t])
          PROVE  stack'[t][k].at = "default" /\ stack'[t][k].msg.hsm \in HSM
      <4>1. k - 1 \in 2 .. Len(stack[t]) /\ (k - 1) + 1 = k /\ k - 1 \in 1 .. Len(stack[t])
        BY <3>1, <3>3
      <4>2. stack'[t][k] = stack[t][k - 1]
        BY <3>3, <4>1
      <4> QED
        BY <4>1, <4>2 DEF Shape
    <3>6. \A k \in 2 .. Len(stack'[t]) : k = 2 \/ k \in 3 .. Len(stack'[t])
      BY <3>1, <3>3
    <3>7. Len(stack'[t]) >= 1
      BY <3>1, <3>3
    <3>8. \A k \in 2 .. Len(stack'[t]) : stack'[t][k].at = "default" /\ stack'[t][k].msg.hsm \in HSM
      BY <3>4, <3>5, <3>6
    <3> QED
      BY <3>3, <3>7, <3>8
  <2> QED
    BY <1>1, <2>1, <2>2 DEF Called
<1>4. ASSUME NEW u \in Threads, NEW k \in 1 .. Len(stack'[u])
      PROVE  /\ k >= 2 => stack'[u][k].at = "default"
             /\ stack'[u][k].at # "create" => stack'[u][k].msg.hsm \in HSM
  <2>1. CASE u # t
    BY <1>2, <2>1 DEF Keeps, Shape
  <2>2. CASE u = t /\ k = 1
    BY <1>3, <2>2
  <2>3. CASE u = t /\ k # 1
    <3>1. k \in 2 .. Len(stack'[t])
      BY <1>2, <2>3, TopIsNext DEF Keeps
    <3> QED
      BY <1>3, <2>3, <3>1
  <2> QED
    BY <2>1, <2>2, <2>3
<1> QED
  BY <1>2, <1>3, <1>4, TopIsNext DEF Keeps, At, Shape

LEMMA AfterSend ==
  ASSUME Typed, Shape, NEW t \in Threads, Calls(t, <<>>)
  PROVE  /\ Keeps(t) /\ Shape'
         /\ \A at : At(t, at)' => at = "default"
<1>0. <<>> \in Seq(Frame) /\ Len(<<>>) = 0
  OBVIOUS
<1>1. Called(t, <<>>)
  BY <1>0, CallsOf
<1>2. Keeps(t)
  BY <1>1 DEF Called
<1>3. \A k \in 1 .. Len(stack'[t]) : stack'[t][k].at = "default" /\ stack'[t][k].msg.hsm \in HSM
  <2>1. CASE stack[t] = <<>> /\ stack'[t] = <<>>
    BY <2>1
  <2>2. CASE At(t, "proc")
    <3>1. stack[t] # <<>> /\ Top(t) = stack[t][1] /\ Len(stack[t]) \in Nat \ {0} /\ Top(t) \in Frame
      BY <2>2, TopIs DEF At
    <3>2. Top(t).msg.hsm \in HSM
      BY <2>2, <3>1 DEF At, Shape
    <3>3. /\ Len(stack'[t]) = Len(stack[t])
          /\ stack'[t][1] = [Top(t) EXCEPT !.at = "default"]
          /\ \A k \in 2 .. Len(stack[t]) : stack'[t][k + 0] = stack[t][k]
      BY <1>0, <1>1, <2>2, <3>1 DEF Called
    <3>4. stack'[t][1].at = "default" /\ stack'[t][1].msg.hsm \in HSM
      BY <3>1, <3>2, <3>3 DEF Frame
    <3>5. ASSUME NEW k \in 2 .. Len(stack'[t])
          PROVE  stack'[t][k].at = "default" /\ stack'[t][k].msg.hsm \in HSM
      <4>1. k \in 2 .. Len(stack[t]) /\ k + 0 = k
        BY <3>1, <3>3
      <4> QED
        BY <3>3, <4>1 DEF Shape
    <3>6. ASSUME NEW k \in 1 .. Len(stack'[t]) PROVE k = 1 \/ k \in 2 .. Len(stack'[t])
      BY <3>1, <3>3
    <3> QED
      BY <3>4, <3>5, <3>6
  <2> QED
    BY <1>1, <2>1, <2>2 DEF Called
<1>4. Shape'
  BY <1>2, <1>3 DEF Keeps, Shape
<1> QED
  BY <1>2, <1>3, <1>4, TopIsNext DEF Keeps, At

(***************************************************************************)
(* The steps.                                                              *)
(***************************************************************************)

LEMMA Codes ==
  /\ Erased \in MESSAGE /\ Erased.message # SMM_CREATE /\ Erased.param = 0
  /\ NULL \notin HSM
  /\ Params = 0 .. MaxWindows /\ MaxWindows \in Nat /\ nqueue \in Nat \ {0}
  /\ {SMM_CREATE, SMM_CLOSE, SMM_USER} \subseteq Msgs
  /\ \A m \in MESSAGE : m.param \in 0 .. MaxWindows
BY NullValues, MessageCodes, WindowNumbers, Sizes DEF Erased, MESSAGE, NULL

(* A step on the stack alone, of a thread that does not hold sem_system.   *)
LEMMA QuietStep ==
  ASSUME IInv, NEW t \in Threads, Keeps(t), Shape', ~ Holds(t)', UNCHANGED <<fifo, memory, sem_system, usage>>
  PROVE  IInv'
<1>1. Typed'
  BY DEF IInv, Typed, Keeps, memory
<1>2. \A u \in Threads : Holds(u)' => Holds(u) /\ u # t
  BY OthersStay DEF Holds, IInv
<1>3. Excludes'
  BY <1>2 DEF IInv, Excludes
<1>4. Numbered' /\ CreateFirst'
  BY DEF IInv, Numbered, CreateFirst, memory
<1>5. ASSUME NEW u \in Threads, At(u, "push")' PROVE At(u, "push") /\ Top(u)' = Top(u)
  <2>1. u # t
    BY <1>5 DEF Holds
  <2> QED
    BY <1>5, <2>1, OthersStay DEF IInv
<1>6. Newest'
  BY <1>5 DEF IInv, Newest, memory
<1> QED
  BY <1>1, <1>3, <1>4, <1>6 DEF IInv

LEMMA CallStep ==
  ASSUME IInv, NEW t \in Threads, NEW f \in Frame, Calls(t, <<f>>),
         f.at # "create" => f.msg.hsm \in HSM, f.at \in {"create", "find"},
         UNCHANGED <<fifo, memory, sem_system, usage>>
  PROVE  IInv'
<1>1. Keeps(t) /\ Shape' /\ ~ Holds(t)'
  BY AfterCall DEF Holds, IInv
<1> QED
  BY <1>1, QuietStep

LEMMA SendableIs ==
  ASSUME Typed, NEW m \in Sendable
  PROVE  /\ m \in MESSAGE /\ m.hsm \in HSM /\ m.message # SMM_CREATE
         /\ m.param <= Len(born) /\ m.param >= 1
<1>1. PICK n \in 1 .. Len(born), c \in {SMM_CLOSE, SMM_USER} : m = [hsm |-> born[n], message |-> c, param |-> n]
  BY DEF Sendable
<1>2. born[n] \in HSM /\ n \in 0 .. MaxWindows /\ Len(born) \in Nat
  BY Codes DEF Typed
<1> QED
  BY <1>1, <1>2, Codes, MessageCodes DEF MESSAGE

-----------------------------------------------------------------------------
(* One lemma per action of the next-state relation. *)

LEMMA ReplaceStep ==
  ASSUME IInv, NEW t \in Threads, stack[t] # <<>>, NEW f \in Frame, Replaced(t, f),
         f.at \notin {"push", "free", "create"}, f.msg.hsm \in HSM,
         UNCHANGED <<fifo, memory, sem_system, usage>>
  PROVE  IInv'
<1>1. Keeps(t) /\ Shape' /\ ~ Holds(t)'
  BY AfterReplace DEF Holds, IInv, Replaced
<1> QED
  BY <1>1, QuietStep

LEMMA LeaveStep ==
  ASSUME IInv, NEW t \in Threads, stack[t] # <<>>, Leaves(t), UNCHANGED <<fifo, memory, sem_system, usage>>
  PROVE  IInv'
<1>1. Keeps(t) /\ Shape' /\ ~ Holds(t)'
  BY LeavesTop, AfterLeave DEF Holds, IInv, Left
<1> QED
  BY <1>1, QuietStep

LEMMA MoveStep ==
  ASSUME IInv, NEW t \in Threads, NEW from \in Places \ {"create"}, At(t, from),
         NEW at \in Places \ {"push", "free", "create"}, Moves(t, at),
         UNCHANGED <<fifo, memory, sem_system, usage>>
  PROVE  IInv'
<1>1. stack[t] # <<>> /\ Top(t) \in Frame /\ Top(t) = stack[t][1] /\ Top(t).msg.hsm \in HSM
  BY TopIs DEF At, IInv, Shape
<1>2. Replaced(t, [Top(t) EXCEPT !.at = at]) /\ [Top(t) EXCEPT !.at = at] \in Frame
  BY <1>1, MovesTop DEF IInv, Frame, Places
<1>3. [Top(t) EXCEPT !.at = at].at = at /\ [Top(t) EXCEPT !.at = at].msg = Top(t).msg
  BY <1>1 DEF Frame
<1> QED
  BY <1>1, <1>2, <1>3, ReplaceStep

LEMMA StartWalkStep ==
  ASSUME IInv, NEW t \in Threads, StartWalk(t)
  PROVE  IInv'
<1> DEFINE f == [Top(t) EXCEPT !.at = "walk", !.cur = smallwin_list]
<1>1. stack[t] # <<>> /\ Top(t) \in Frame /\ Top(t) = stack[t][1] /\ Top(t).msg.hsm \in HSM
  BY TopIs DEF StartWalk, At, IInv, Shape
<1>2. f \in Frame /\ f.at = "walk" /\ f.msg = Top(t).msg
  BY <1>1 DEF Frame, IInv, Typed
<1>3. stack' = [stack EXCEPT ![t] = [stack[t] EXCEPT ![1] = f]]
  BY <1>1, TopIs DEF StartWalk
<1> HIDE DEF f
<1>4. Replaced(t, f)
  BY <1>1, <1>2, <1>3, ReplacesTop DEF IInv
<1> QED
  BY <1>1, <1>2, <1>4, ReplaceStep DEF StartWalk

LEMMA WalkStep ==
  ASSUME IInv, NEW t \in Threads, Walk(t)
  PROVE  IInv'
<1> DEFINE f == [Top(t) EXCEPT !.cur = next[Top(t).cur]]
<1>1. stack[t] # <<>> /\ Top(t) \in Frame /\ Top(t) = stack[t][1] /\ Top(t).msg.hsm \in HSM
      /\ Top(t).at = "walk"
  BY TopIs DEF Walk, At, IInv, Shape
<1>2. UNCHANGED <<fifo, memory, sem_system, usage>>
  BY DEF Walk
<1>3. CASE Leaves(t)
  BY <1>1, <1>2, <1>3, LeaveStep
<1>4. CASE Moves(t, "run")
  BY <1>2, <1>4, MoveStep DEF Walk, Places
<1>5. CASE Top(t).cur # NULL /\ stack' = [stack EXCEPT ![t][1].cur = next[Top(t).cur]]
  <2>1. f \in Frame /\ f.at = "walk" /\ f.msg = Top(t).msg
    BY <1>1, <1>5 DEF Frame, IInv, Typed
  <2>2. stack' = [stack EXCEPT ![t] = [stack[t] EXCEPT ![1] = f]]
    BY <1>1, <1>5, TopIs
  <2> HIDE DEF f
  <2>3. Replaced(t, f)
    BY <1>1, <2>1, <2>2, ReplacesTop DEF IInv
  <2> QED
    BY <1>1, <1>2, <2>1, <2>3, ReplaceStep
<1> QED
  BY <1>3, <1>4, <1>5 DEF Walk, AtEnd

(* What Pushed makes of the queue. *)
LEMMA PushedIs ==
  ASSUME Typed, NEW m \in MESSAGE
  PROVE  /\ Pushed(m) \in Seq(MESSAGE) /\ Len(Pushed(m)) <= nqueue
         /\ Len(Pushed(m)) \in {Len(fifo), Len(fifo) + 1}
         /\ \A k \in 1 .. Len(fifo) : Pushed(m)[k] = fifo[k]
         /\ Len(Pushed(m)) = Len(fifo) + 1 => Pushed(m)[Len(fifo) + 1] = m
BY Codes DEF Typed, Pushed

(* A message of the queue after a push was there before, or is the new one. *)
LEMMA PushAdds ==
  ASSUME Typed, NEW m \in MESSAGE, fifo' = Pushed(m)
  PROVE  /\ fifo' \in Seq(MESSAGE) /\ Len(fifo') <= nqueue
         /\ \A k \in 1 .. Len(fifo') :
              \/ k \in 1 .. Len(fifo) /\ fifo'[k] = fifo[k]
              \/ k = Len(fifo) + 1 /\ fifo'[k] = m
<1>1. Len(fifo) \in Nat
  BY DEF Typed
<1>2. /\ fifo' \in Seq(MESSAGE) /\ Len(fifo') <= nqueue
      /\ Len(fifo') \in {Len(fifo), Len(fifo) + 1}
      /\ \A k \in 1 .. Len(fifo) : fifo'[k] = fifo[k]
      /\ Len(fifo') = Len(fifo) + 1 => fifo'[Len(fifo) + 1] = m
  BY ONLY fifo' = Pushed(m), Typed, m \in MESSAGE, PushedIs
<1> QED
  BY <1>1, <1>2

LEMMA SendStep ==
  ASSUME IInv, NEW t \in Threads, NEW m \in Sendable, SendMessage(t, m)
  PROVE  IInv'
<1>1. Keeps(t) /\ Shape' /\ ~ Holds(t)'
  BY AfterSend DEF SendMessage, Holds, IInv
<1>2. /\ m \in MESSAGE /\ m.message # SMM_CREATE /\ m.param <= Len(born)
      /\ fifo' = Pushed(m) /\ sem_system = 1
  BY SendableIs DEF SendMessage, IInv
<1>3. UNCHANGED <<smallwin_list, next, prev, owner, born, sem_system, usage>>
  BY DEF SendMessage, memory
<1>4. Typed'
  BY <1>1, <1>2, <1>3, PushedIs DEF IInv, Typed, Keeps
<1>5. \A u \in Threads : ~ Holds(u)'
  BY <1>1, <1>2, OthersStay DEF Holds, IInv, Excludes
<1>6. Excludes' /\ Newest'
  BY <1>5 DEF Excludes, Newest, Holds
<1>7. ASSUME NEW k \in 1 .. Len(fifo')
      PROVE  \/ k \in 1 .. Len(fifo) /\ fifo'[k] = fifo[k]
             \/ fifo'[k] = m
  BY <1>2, PushAdds DEF IInv
<1>8. Numbered'
  BY <1>2, <1>3, <1>7 DEF IInv, Numbered
<1>9. CreateFirst'
  <2> SUFFICES ASSUME NEW k \in 1 .. Len(fifo'), fifo'[k].message = SMM_CREATE, NEW j \in 1 .. k - 1
               PROVE  fifo'[j].param # fifo'[k].param
    BY DEF CreateFirst
  <2>1. k \in 1 .. Len(fifo) /\ fifo'[k] = fifo[k]
    BY <1>2, <1>7
  <2>2. j \in 1 .. Len(fifo) /\ fifo'[j] = fifo[j]
    BY <1>2, <2>1, PushedIs DEF IInv, Typed
  <2> QED
    BY <2>1, <2>2 DEF IInv, CreateFirst
<1> QED
  BY <1>1, <1>4, <1>6, <1>8, <1>9 DEF IInv

LEMMA PopStep ==
  ASSUME IInv, sched \in Threads, PopMessage
  PROVE  IInv'
<1> DEFINE m == Head(fifo)
<1>1. /\ Len(fifo) \in Nat \ {0} /\ m = fifo[1] /\ m \in MESSAGE
      /\ fifo' \in Seq(MESSAGE) /\ Len(fifo') = Len(fifo) - 1
      /\ \A k \in 1 .. Len(fifo') : fifo'[k] = fifo[k + 1] /\ k + 1 \in 1 .. Len(fifo)
  BY HeadTailProperties DEF PopMessage, IInv, Typed
<1>2. UNCHANGED <<smallwin_list, next, prev, owner, born, sem_system, usage>>
  BY DEF PopMessage, memory
<1>3. Keeps(sched) /\ Shape' /\ ~ Holds(sched)'
  <2> DEFINE f == Entering("find", m)
             s == IF m.hsm = NULL THEN <<>> ELSE <<f>>
  <2>1. f \in Frame /\ f.at = "find" /\ (m.hsm # NULL => f.msg.hsm \in HSM)
    BY <1>1 DEF Entering, Frame, MESSAGE, NULL
  <2>2. s \in Seq(Frame) /\ Len(s) \in {0, 1} /\ (Len(s) = 1 => m.hsm # NULL /\ s[1] = f)
    BY <2>1
  <2>3. stack' = [stack EXCEPT ![sched] = s]
    BY DEF PopMessage
  <2> HIDE DEF s, f
  <2>4. Keeps(sched) /\ stack'[sched] = s
    BY <2>2, <2>3 DEF IInv, Typed, Keeps
  <2>5. Shape'
    BY <2>1, <2>2, <2>4 DEF IInv, Shape, Keeps
  <2>6. ~ Holds(sched)'
    BY <2>1, <2>2, <2>4, TopIsNext DEF Keeps, Holds, At
  <2> QED
    BY <2>4, <2>5, <2>6
<1> HIDE DEF m
<1>4. Typed'
  <2>1. Len(fifo') <= nqueue
    BY <1>1, Codes DEF IInv, Typed
  <2> QED
    BY <1>1, <1>2, <1>3, <2>1 DEF IInv, Typed, Keeps
<1>5. \A u \in Threads : /\ Holds(u)' => Holds(u)
                         /\ At(u, "push")' => At(u, "push") /\ Top(u)' = Top(u)
  BY <1>3, OthersStay DEF Holds, IInv
<1>6. Excludes' /\ Newest'
  BY <1>1, <1>2, <1>5 DEF IInv, Excludes, Newest
<1>7. Numbered'
  BY <1>1, <1>2 DEF IInv, Numbered
<1>8. CreateFirst'
  <2> SUFFICES ASSUME NEW k \in 1 .. Len(fifo'), fifo'[k].message = SMM_CREATE, NEW j \in 1 .. k - 1
               PROVE  fifo'[j].param # fifo'[k].param
    BY DEF CreateFirst
  <2>1. /\ fifo'[k] = fifo[k + 1] /\ k + 1 \in 1 .. Len(fifo)
        /\ fifo'[j] = fifo[j + 1] /\ j + 1 \in 1 .. (k + 1) - 1
    BY <1>1
  <2> QED
    BY <2>1 DEF IInv, CreateFirst
<1> QED
  BY <1>3, <1>4, <1>6, <1>7, <1>8 DEF IInv

LEMMA LinkStep ==
  ASSUME IInv, NEW t \in Threads, LinkWindow(t)
  PROVE  IInv'
<1>1. PICK a \in HSM :
        /\ \/ smallwin_list' = a /\ next' = [next EXCEPT ![a] = NULL]
           \/ smallwin_list' = smallwin_list /\ next' = [next EXCEPT ![Last] = a, ![a] = NULL]
        /\ owner' = [owner EXCEPT ![a] = Len(born) + 1]
        /\ born' = Append(born, a)
        /\ stack' = [stack EXCEPT ![t][1] = Entering("push",
                       [hsm |-> a, message |-> SMM_CREATE, param |-> Len(born) + 1])]
  BY DEF LinkWindow, Allocatable
<1>2. /\ sem_system = 1 /\ sem_system' = 0 /\ Len(born) < MaxWindows
      /\ UNCHANGED <<fifo, usage>> /\ stack[t] # <<>>
  BY DEF LinkWindow, KeepSystem, At
<1> DEFINE m == [hsm |-> a, message |-> SMM_CREATE, param |-> Len(born) + 1]
           f == Entering("push", m)
<1>3. /\ Len(born) \in Nat /\ Len(born) + 1 \in 0 .. MaxWindows
      /\ born' \in Seq(HSM) /\ Len(born') = Len(born) + 1
  BY <1>1, <1>2, Codes DEF IInv, Typed
<1>4. m \in MESSAGE /\ f \in Frame /\ f.at = "push" /\ f.msg = m /\ f.msg.hsm \in HSM
  BY <1>3, Codes DEF Entering, Frame, MESSAGE, NULL
<1>5. stack' = [stack EXCEPT ![t] = [stack[t] EXCEPT ![1] = f]]
  BY <1>1
<1> HIDE DEF f
<1>6. Replaced(t, f) /\ Keeps(t)
  BY <1>2, <1>4, <1>5, ReplacesTop DEF IInv, Replaced
<1>7. Shape' /\ Top(t)' = f /\ At(t, "push")'
  BY <1>2, <1>4, <1>6, AfterReplace DEF IInv
<1>8. Typed'
  <2>1. smallwin_list' \in HSM \cup {NULL} /\ next' \in [HSM -> HSM \cup {NULL}]
    <3>1. [next EXCEPT ![Last] = a] \in [HSM -> HSM \cup {NULL}]
      BY DEF IInv, Typed
    <3> QED
      BY <1>1, <3>1 DEF IInv, Typed
  <2>2. owner' \in [HSM -> 0 .. MaxWindows]
    BY <1>1, <1>3 DEF IInv, Typed
  <2>3. Len(born') <= MaxWindows
    BY <1>2, <1>3, Codes
  <2> QED
    BY <1>2, <1>3, <1>6, <2>1, <2>2, <2>3 DEF IInv, Typed, Keeps
<1>9. \A u \in Threads : u # t => ~ Holds(u)'
  BY <1>2, <1>6, OthersStay DEF IInv, Excludes, Holds
<1>10. Excludes'
  BY <1>2, <1>9 DEF Excludes
<1>11. ASSUME NEW k \in 1 .. Len(fifo) PROVE fifo[k].param < Len(born')
  <2>1. fifo[k] \in MESSAGE /\ fifo[k].param <= Len(born)
    BY DEF IInv, Typed, Numbered
  <2> QED
    BY <1>3, <2>1, Codes
<1>12. Numbered'
  BY <1>2, <1>3, <1>11, Codes DEF IInv, Numbered, Typed
<1>13. CreateFirst'
  BY <1>2 DEF IInv, CreateFirst
<1>14. Newest'
  <2>1. \A u \in Threads : At(u, "push")' => u = t
    BY <1>9 DEF Holds
  <2>2. Top(t)'.msg.message = SMM_CREATE /\ Top(t)'.msg.param = Len(born') /\ Len(born') >= 1
    BY <1>3, <1>4, <1>7
  <2>3. \A k \in 1 .. Len(fifo') : fifo'[k].param # Len(born')
    <3>1. \A k \in 1 .. Len(fifo) : fifo[k].param \in Int
      BY Codes DEF IInv, Typed
    <3> QED
      BY <1>2, <1>3, <1>11, <3>1
  <2> QED
    BY <2>1, <2>2, <2>3 DEF Newest
<1> QED
  BY <1>7, <1>8, <1>10, <1>12, <1>13, <1>14 DEF IInv

LEMMA PushStep ==
  ASSUME IInv, NEW t \in Threads, PushCreate(t)
  PROVE  IInv'
<1> DEFINE m == Top(t).msg
<1>1. /\ stack[t] # <<>> /\ Top(t) \in Frame /\ Leaves(t) /\ At(t, "push")
      /\ fifo' = Pushed(m) /\ sem_system' = 1
      /\ UNCHANGED <<smallwin_list, next, prev, owner, born, usage>>
  BY TopIs DEF PushCreate, At, IInv, memory
<1>2. /\ m \in MESSAGE /\ m.message = SMM_CREATE /\ m.param = Len(born) /\ Len(born) >= 1
      /\ \A k \in 1 .. Len(fifo) : fifo[k].param # m.param
  BY <1>1 DEF IInv, Newest, Frame
<1> HIDE DEF m
<1>3. Keeps(t) /\ Shape' /\ ~ Holds(t)'
  BY <1>1, LeavesTop, AfterLeave DEF IInv, Left, Holds
<1>4. Typed'
  BY <1>1, <1>2, <1>3, PushAdds DEF IInv, Typed, Keeps
<1>5. \A u \in Threads : ~ Holds(u)'
  BY <1>1, <1>3, OthersStay DEF IInv, Excludes, Holds
<1>6. Excludes' /\ Newest'
  BY <1>5 DEF Excludes, Newest, Holds
<1>7. \A k \in 1 .. Len(fifo') : \/ k \in 1 .. Len(fifo) /\ fifo'[k] = fifo[k]
                                 \/ k = Len(fifo) + 1 /\ fifo'[k] = m
  BY <1>1, <1>2, PushAdds DEF IInv
<1>8. Numbered'
  <2>1. Len(born) \in Nat
    BY DEF IInv, Typed
  <2> QED
    BY <1>1, <1>2, <1>7, <2>1 DEF IInv, Numbered
<1>9. CreateFirst'
  <2> SUFFICES ASSUME NEW k \in 1 .. Len(fifo'), fifo'[k].message = SMM_CREATE, NEW j \in 1 .. k - 1
               PROVE  fifo'[j].param # fifo'[k].param
    BY DEF CreateFirst
  <2>1. Len(fifo) \in Nat /\ Len(fifo') \in Nat
    BY <1>4 DEF IInv, Typed
  <2>2. j \in 1 .. Len(fifo') /\ j < k
    BY <2>1
  <2>3. j \in 1 .. Len(fifo) /\ fifo'[j] = fifo[j]
    BY <1>7, <2>1, <2>2
  <2>4. CASE k \in 1 .. Len(fifo) /\ fifo'[k] = fifo[k]
    BY <2>3, <2>4 DEF IInv, CreateFirst
  <2>5. CASE k = Len(fifo) + 1 /\ fifo'[k] = m
    BY <1>2, <2>3, <2>5
  <2> QED
    BY <1>7, <2>4, <2>5
<1> QED
  BY <1>3, <1>4, <1>6, <1>8, <1>9 DEF IInv

LEMMA UnlinkStep ==
  ASSUME IInv, NEW t \in Threads, UnlinkWindow(t)
  PROVE  IInv'
<1>1. /\ stack[t] # <<>> /\ Top(t) \in Frame /\ Top(t) = stack[t][1] /\ Top(t).msg.hsm \in HSM
      /\ Moves(t, "free") /\ sem_system = 1 /\ sem_system' = 0
      /\ UNCHANGED <<fifo, owner, born, usage>>
  BY TopIs DEF UnlinkWindow, At, IInv, Shape
<1> DEFINE f == [Top(t) EXCEPT !.at = "free"]
<1>2. Replaced(t, f) /\ Keeps(t) /\ f \in Frame /\ f.at = "free" /\ f.msg.hsm \in HSM
  BY <1>1, MovesTop DEF IInv, Frame, Places, Replaced
<1> HIDE DEF f
<1>3. Shape' /\ Top(t)' = f /\ At(t, "free")'
  BY <1>1, <1>2, AfterReplace DEF IInv
<1>4. smallwin_list' \in HSM \cup {NULL} /\ next' \in [HSM -> HSM \cup {NULL}]
  BY <1>1 DEF UnlinkWindow, IInv, Typed
<1>5. Typed'
  BY <1>1, <1>2, <1>4 DEF IInv, Typed, Keeps
<1>6. \A u \in Threads : u # t => ~ Holds(u)'
  BY <1>1, <1>2, OthersStay DEF IInv, Excludes, Holds
<1>7. Excludes' /\ Newest'
  BY <1>1, <1>2, <1>3, <1>6 DEF Excludes, Newest, Holds, At
<1>8. Numbered' /\ CreateFirst'
  BY <1>1 DEF IInv, Numbered, CreateFirst
<1> QED
  BY <1>3, <1>5, <1>7, <1>8 DEF IInv

LEMMA FreeStep ==
  ASSUME IInv, NEW t \in Threads, FreeWindow(t)
  PROVE  IInv'
<1>1. /\ stack[t] # <<>> /\ Top(t) \in Frame /\ Top(t) = stack[t][1] /\ Top(t).msg.hsm \in HSM
      /\ Moves(t, "erase") /\ sem_system' = 1 /\ Holds(t)
      /\ owner' = [owner EXCEPT ![Top(t).msg.hsm] = 0]
      /\ UNCHANGED <<fifo, smallwin_list, next, prev, born, usage>>
  BY TopIs DEF FreeWindow, At, IInv, Shape, Holds
<1> DEFINE f == [Top(t) EXCEPT !.at = "erase"]
<1>2. Replaced(t, f) /\ Keeps(t) /\ f \in Frame /\ f.at = "erase" /\ f.msg.hsm \in HSM
  BY <1>1, MovesTop DEF IInv, Frame, Places, Replaced
<1> HIDE DEF f
<1>3. Shape' /\ ~ Holds(t)'
  BY <1>1, <1>2, AfterReplace DEF IInv, Holds
<1>4. Typed'
  BY <1>1, <1>2, Codes DEF IInv, Typed, Keeps
<1>5. \A u \in Threads : ~ Holds(u)'
  BY <1>1, <1>2, <1>3, OthersStay DEF IInv, Excludes, Holds
<1>6. Excludes' /\ Newest'
  BY <1>5 DEF Excludes, Newest, Holds
<1>7. Numbered' /\ CreateFirst'
  BY <1>1 DEF IInv, Numbered, CreateFirst
<1> QED
  BY <1>3, <1>4, <1>6, <1>7 DEF IInv

LEMMA EraseStep ==
  ASSUME IInv, NEW t \in Threads, EraseWindow(t)
  PROVE  IInv'
<1>1. /\ stack[t] # <<>> /\ Leaves(t)
      /\ UNCHANGED <<smallwin_list, next, prev, owner, born, sem_system, usage>>
  BY DEF EraseWindow, At, memory
<1>2. /\ fifo' \in Seq(MESSAGE) /\ Len(fifo') = Len(fifo)
      /\ \A k \in 1 .. Len(fifo) : fifo'[k] \in {fifo[k], Erased}
  <2>1. DOMAIN fifo = 1 .. Len(fifo) /\ Len(fifo) \in Nat
    BY DEF IInv, Typed
  <2> QED
    BY <2>1, Codes DEF EraseWindow, EraseMessage, IInv, Typed
<1>3. Keeps(t) /\ Shape' /\ ~ Holds(t)'
  BY <1>1, LeavesTop, AfterLeave DEF IInv, Left, Holds
<1>4. Typed'
  BY <1>1, <1>2, <1>3 DEF IInv, Typed, Keeps
<1>5. \A u \in Threads : /\ Holds(u)' => Holds(u)
                         /\ At(u, "push")' => At(u, "push") /\ Top(u)' = Top(u)
  BY <1>3, OthersStay DEF Holds, IInv
<1>6. Excludes'
  BY <1>1, <1>5 DEF IInv, Excludes
<1>7. Numbered'
  <2>1. Len(born) \in Nat
    BY DEF IInv, Typed
  <2> QED
    BY <1>1, <1>2, <2>1, Codes DEF IInv, Numbered
<1>8. Newest'
  BY <1>1, <1>2, <1>5, Codes DEF IInv, Newest
<1>9. CreateFirst'
  <2> SUFFICES ASSUME NEW k \in 1 .. Len(fifo), fifo'[k].message = SMM_CREATE, NEW j \in 1 .. k - 1
               PROVE  fifo'[j].param # fifo'[k].param
    BY <1>2 DEF CreateFirst
  <2>1. Len(fifo) \in Nat /\ j \in 1 .. Len(fifo)
    BY DEF IInv, Typed
  <2>2. fifo'[k] = fifo[k] /\ fifo[k].param >= 1
    BY <1>2, Codes DEF IInv, Numbered
  <2> QED
    BY <1>2, <2>1, <2>2, Codes DEF IInv, CreateFirst
<1> QED
  BY <1>3, <1>4, <1>6, <1>7, <1>8, <1>9 DEF IInv

LEMMA Stutter ==
  ASSUME IInv, UNCHANGED vars
  PROVE  IInv'
BY DEF vars, IInv, Typed, Shape, Excludes, Numbered, Newest, CreateFirst, Holds, At, Top

LEMMA InitIInv == ASSUME Init PROVE IInv
BY Codes DEF Init, IInv, Typed, Shape, Excludes, Numbered, Newest, CreateFirst, Holds, At

LEMMA NextIInv == ASSUME IInv, [Next]_vars PROVE IInv'
<1>1. CASE PopMessage
  BY <1>1, PopStep DEF Threads
<1>2. CASE UNCHANGED vars
  BY <1>2, Stutter
<1>3. ASSUME NEW t \in Threads, Step(t) PROVE IInv'
  <2>1. CASE ReturnProc(t)
    BY <2>1, MoveStep DEF ReturnProc, Places
  <2>2. CASE LinkWindow(t)
    BY <2>2, LinkStep
  <2>3. CASE CreateFails(t)
    BY <2>3, LeaveStep DEF CreateFails, At
  <2>4. CASE PushCreate(t)
    BY <2>4, PushStep
  <2>5. CASE StartWalk(t)
    BY <2>5, StartWalkStep
  <2>6. CASE Walk(t)
    BY <2>6, WalkStep
  <2>7. CASE RunProc(t)
    BY <2>7, MoveStep DEF RunProc, Places
  <2>8. CASE DefaultNothing(t)
    BY <2>8, LeaveStep DEF DefaultNothing, At
  <2>9. CASE UnlinkWindow(t)
    BY <2>9, UnlinkStep
  <2>10. CASE FreeWindow(t)
    BY <2>10, FreeStep
  <2>11. CASE EraseWindow(t)
    BY <2>11, EraseStep
  <2> QED
    BY <1>3, <2>1, <2>2, <2>3, <2>4, <2>5, <2>6, <2>7, <2>8, <2>9, <2>10, <2>11 DEF Step
<1>4. ASSUME NEW t \in Threads, CallCreate(t) PROVE IInv'
  <2> DEFINE f == Entering("create", Erased)
  <2>1. f \in Frame /\ f.at = "create"
    BY Codes DEF Entering, Frame
  <2>2. Calls(t, <<f>>) /\ UNCHANGED <<fifo, memory, sem_system, usage>>
    BY <1>4 DEF CallCreate
  <2> HIDE DEF f
  <2> QED
    BY <2>1, <2>2, CallStep
<1>5. ASSUME NEW t \in Threads, NEW m \in Sendable, CallExpress(t, m) PROVE IInv'
  <2> DEFINE f == Entering("find", m)
  <2>1. f \in Frame /\ f.at = "find" /\ f.msg.hsm \in HSM
    BY SendableIs DEF Entering, Frame, IInv
  <2>2. Calls(t, <<f>>) /\ UNCHANGED <<fifo, memory, sem_system, usage>>
    BY <1>5 DEF CallExpress
  <2> HIDE DEF f
  <2> QED
    BY <2>1, <2>2, CallStep
<1> QED
  BY <1>1, <1>2, <1>3, <1>4, <1>5, SendStep DEF Next

(* No message to a window gets ahead of its SMM_CREATE, whoever sends.     *)
THEOREM CreateAlwaysFirst == Spec => []CreateFirst
<1>1. IInv => CreateFirst
  BY DEF IInv
<1> QED
  BY <1>1, InitIInv, NextIInv, PTL DEF Spec

-----------------------------------------------------------------------------
(* The list, under the two conditions that the code leaves to its users.   *)
(* No client expresses a message: windows are then closed by the           *)
(* scheduler's thread alone, and the others only create and send.  And no  *)
(* procedure closes a window again that it is closing.                     *)

OneDestroyer == \A use \in Usages, c \in Clients : \A call \in use.calls[c] : call.op # "express"

NobodyRecloses == \A use \in Usages : ~ use.recloses

(* The list is the sequence s of the linked windows, by age.               *)
IsList(s) ==
  /\ \A i \in 1 .. Len(s) : s[i] \in Linked
  /\ \A a \in Linked : \E i \in 1 .. Len(s) : s[i] = a
  /\ \A i, j \in 1 .. Len(s) : i < j => owner[s[i]] < owner[s[j]]
  /\ smallwin_list = IF Len(s) = 0 THEN NULL ELSE s[1]
  /\ \A i \in 1 .. Len(s) : /\ next[s[i]] = IF i = Len(s) THEN NULL ELSE s[i + 1]
                           /\ prev[s[i]] = IF i = 1 THEN NULL ELSE s[i - 1]

Listed == \E s \in Seq(HSM) : IsList(s)

(* prev has its type, and no window is numbered ahead of its creation.     *)
Aged == /\ prev \in [HSM -> HSM \cup {NULL}]
        /\ \A a \in HSM : owner[a] <= Len(born)

Closes(f) == f.msg.message = SMM_CLOSE

(* What a frame relies on, given the windows that are linked and alive.    *)
Safe(f, linked, live) ==
  /\ Closes(f) /\ f.at \in {"proc", "default"} => f.msg.hsm \in linked
  /\ f.at = "walk" => f.cur \in linked \cup {NULL}
  /\ f.at = "run" => f.msg.hsm \in linked
  /\ f.at = "free" => f.msg.hsm \in live /\ Closes(f)

(* The scheduler's thread is not closing one window in two frames.         *)
Behaved ==
  /\ \A c \in Clients : \A k \in 1 .. Len(stack[c]) : stack[c][k].at \in {"create", "push"}
  /\ \A k \in 1 .. Len(stack[sched]) : Safe(stack[sched][k], Linked, Live)
  /\ \A j, k \in 1 .. Len(stack[sched]) :
       j < k /\ Closes(stack[sched][j]) /\ Closes(stack[sched][k])
         => stack[sched][j].msg.hsm # stack[sched][k].msg.hsm

LInv == IInv /\ Aged /\ Listed /\ Behaved

LEMMA SchedIs == sched \in Threads /\ sched \notin Clients /\ Clients \subseteq Threads
                 /\ \A t \in Threads : t # sched => t \in Clients
BY UsageSet DEF Threads

(* Where neither the list nor a thread that destroys a window has moved.   *)
LEMMA SameList ==
  ASSUME Typed, NEW t \in Threads, Keeps(t), UNCHANGED memory, ~ At(t, "free"), ~ At(t, "free")'
  PROVE  Live' = Live /\ Linked' = Linked /\ (Listed => Listed') /\ (Aged => Aged')
<1>1. Live' = Live
  BY DEF Live, memory
<1>2. ASSUME NEW u \in Threads, NEW a
      PROVE  (At(u, "free") /\ Top(u).msg.hsm = a)' <=> (At(u, "free") /\ Top(u).msg.hsm = a)
  <2>1. CASE u = t
    BY <2>1
  <2>2. CASE u # t
    BY <2>2, OthersStay
  <2> QED
    BY <2>1, <2>2
<1>3. Linked' = Linked
  BY <1>1, <1>2 DEF Linked
<1>4. ASSUME NEW s \in Seq(HSM), IsList(s) PROVE IsList(s)'
  BY <1>3, <1>4 DEF IsList, memory
<1> QED
  BY <1>1, <1>3, <1>4 DEF Listed, Aged, memory

LEMMA BehavedReplace ==
  ASSUME Typed, Shape, Behaved, NEW t \in Threads, stack[t] # <<>>, NEW f \in Frame, Replaced(t, f),
         t # sched => f.at \in {"create", "push"} /\ Linked \subseteq Linked' /\ Live \subseteq Live',
         t = sched => /\ Safe(f, Linked', Live')
                      /\ \A a \in Linked \ Linked' : Closes(Top(t)) /\ a = Top(t).msg.hsm,
         f.msg = Top(t).msg \/ ~ Closes(f)
  PROVE  Behaved'
<1>1. /\ Keeps(t) /\ Len(stack[t]) \in Nat \ {0} /\ Len(stack'[t]) = Len(stack[t]) /\ stack'[t][1] = f
      /\ \A k \in 2 .. Len(stack[t]) : stack'[t][k] = stack[t][k]
      /\ Top(t) = stack[t][1]
  BY TopIs DEF Replaced
<1>2. CASE t # sched
  <2>1. stack'[sched] = stack[sched]
    BY <1>1, <1>2, SchedIs DEF Keeps
  <2>2. ASSUME NEW c \in Clients, NEW k \in 1 .. Len(stack'[c])
        PROVE  stack'[c][k].at \in {"create", "push"}
    <3>1. CASE c # t
      BY <1>1, <3>1, SchedIs DEF Keeps, Behaved
    <3>2. CASE c = t /\ k = 1
      BY <1>1, <1>2, <3>2
    <3>3. CASE c = t /\ k # 1
      BY <1>1, <3>3 DEF Behaved
    <3> QED
      BY <3>1, <3>2, <3>3
  <2>3. \A k \in 1 .. Len(stack[sched]) : Safe(stack[sched][k], Linked', Live')
    BY <1>2 DEF Behaved, Safe
  <2> QED
    BY <2>1, <2>2, <2>3 DEF Behaved
<1>3. CASE t = sched
  <2>1. \A c \in Clients : stack'[c] = stack[c]
    BY <1>1, <1>3, SchedIs DEF Keeps
  <2>2. ASSUME NEW k \in 2 .. Len(stack[sched]) PROVE Safe(stack[sched][k], Linked', Live')
    <3>1. /\ k \in 1 .. Len(stack[sched]) /\ 1 \in 1 .. Len(stack[sched]) /\ 1 < k
          /\ stack[sched][k].at = "default"
      BY <1>1, <1>3 DEF Shape
    <3>2. Closes(stack[sched][k]) => stack[sched][k].msg.hsm \in Linked
      BY <3>1 DEF Behaved, Safe
    <3>3. Closes(stack[sched][k]) /\ Closes(stack[sched][1])
            => stack[sched][1].msg.hsm # stack[sched][k].msg.hsm
      BY <3>1 DEF Behaved
    <3> QED
      BY <1>1, <1>3, <3>1, <3>2, <3>3 DEF Safe
  <2>3. \A k \in 1 .. Len(stack'[sched]) : Safe(stack'[sched][k], Linked', Live')
    <3> TAKE k \in 1 .. Len(stack'[sched])
    <3>1. CASE k = 1
      BY <1>1, <1>3, <3>1
    <3>2. CASE k # 1
      BY <1>1, <1>3, <2>2, <3>2
    <3> QED
      BY <3>1, <3>2
  <2>4. ASSUME NEW j \in 1 .. Len(stack'[sched]), NEW k \in 1 .. Len(stack'[sched]), j < k,
               Closes(stack'[sched][j]), Closes(stack'[sched][k])
        PROVE  stack'[sched][j].msg.hsm # stack'[sched][k].msg.hsm
    <3>1. /\ j \in 1 .. Len(stack[sched]) /\ k \in 1 .. Len(stack[sched]) /\ k # 1
          /\ stack'[sched][k] = stack[sched][k]
      BY <1>1, <1>3, <2>4
    <3>2. Closes(stack[sched][j]) /\ stack'[sched][j].msg = stack[sched][j].msg
      <4>1. CASE j = 1
        BY <1>1, <1>3, <2>4, <4>1 DEF Closes
      <4>2. CASE j # 1
        BY <1>1, <1>3, <2>4, <3>1, <4>2
      <4> QED
        BY <4>1, <4>2
    <3> QED
      BY <2>4, <3>1, <3>2 DEF Behaved
  <2> QED
    BY <2>1, <2>3, <2>4 DEF Behaved
<1> QED
  BY <1>2, <1>3

LEMMA BehavedLeave ==
  ASSUME Typed, Shape, Behaved, NEW t \in Threads, stack[t] # <<>>, Left(t), Linked' = Linked, Live' = Live
  PROVE  Behaved'
<1>1. /\ Keeps(t) /\ Len(stack[t]) \in Nat \ {0} /\ Len(stack'[t]) = Len(stack[t]) - 1
      /\ \A k \in 1 .. Len(stack'[t]) : k + 1 \in 1 .. Len(stack[t]) /\ stack'[t][k] = stack[t][k + 1]
  BY TopIs DEF Left
<1>2. ASSUME NEW c \in Clients, NEW k \in 1 .. Len(stack'[c])
      PROVE  stack'[c][k].at \in {"create", "push"}
  <2>1. CASE c # t
    BY <1>1, <2>1, SchedIs DEF Keeps, Behaved
  <2>2. CASE c = t
    BY <1>1, <2>2 DEF Behaved
  <2> QED
    BY <2>1, <2>2
<1>3. ASSUME NEW k \in 1 .. Len(stack'[sched]) PROVE Safe(stack'[sched][k], Linked', Live')
  <2>1. CASE sched # t
    BY <1>1, <2>1, SchedIs DEF Keeps, Behaved
  <2>2. CASE sched = t
    BY <1>1, <2>2 DEF Behaved
  <2> QED
    BY <2>1, <2>2
<1>4. ASSUME NEW j \in 1 .. Len(stack'[sched]), NEW k \in 1 .. Len(stack'[sched]), j < k,
             Closes(stack'[sched][j]), Closes(stack'[sched][k])
      PROVE  stack'[sched][j].msg.hsm # stack'[sched][k].msg.hsm
  <2>1. CASE sched # t
    BY <1>1, <1>4, <2>1, SchedIs DEF Keeps, Behaved
  <2>2. CASE sched = t
    <3>1. /\ j + 1 < k + 1 /\ j + 1 \in 1 .. Len(stack[sched]) /\ k + 1 \in 1 .. Len(stack[sched])
          /\ stack'[sched][j] = stack[sched][j + 1] /\ stack'[sched][k] = stack[sched][k + 1]
      BY <1>1, <1>4, <2>2
    <3>2. Closes(stack[sched][j + 1]) /\ Closes(stack[sched][k + 1])
      BY <1>4, <3>1
    <3>3. stack[sched][j + 1].msg.hsm # stack[sched][k + 1].msg.hsm
      BY <3>1, <3>2 DEF Behaved
    <3> QED
      BY <3>1, <3>3
  <2> QED
    BY <2>1, <2>2
<1> QED
  BY <1>2, <1>3, <1>4 DEF Behaved

LEMMA BehavedCall ==
  ASSUME Typed, Shape, Behaved, NEW t \in Threads, NEW f \in Frame, Calls(t, <<f>>),
         f.at \in {"create", "find"}, t # sched => f.at = "create",
         Closes(f) => \A k \in 1 .. Len(stack[t]) :
                        ~ (stack[t][k].msg.hsm = f.msg.hsm /\ stack[t][k].msg.message = SMM_CLOSE),
         Linked' = Linked, Live' = Live
  PROVE  Behaved'
<1>0. <<f>> \in Seq(Frame) /\ Len(<<f>>) = 1 /\ <<f>>[1] = f
  OBVIOUS
<1>1. Called(t, <<f>>)
  BY ONLY Typed, t \in Threads, Calls(t, <<f>>), <1>0, CallsOf
<1>2. Keeps(t)
  BY <1>1 DEF Called
<1>3. CASE t # sched
  <2>1. stack[t] = <<>> /\ stack'[t] = <<f>>
    <3>1. ~ At(t, "proc")
      BY <1>3, SchedIs, TopIs DEF At, Behaved
    <3> QED
      BY <1>1, <3>1 DEF Called
  <2>2. stack'[sched] = stack[sched]
    BY <1>2, <1>3, SchedIs DEF Keeps
  <2>3. \A c \in Clients : \A k \in 1 .. Len(stack'[c]) : stack'[c][k].at \in {"create", "push"}
    BY <1>2, <1>3, <2>1, SchedIs DEF Keeps, Behaved
  <2> QED
    BY <2>2, <2>3 DEF Behaved
<1>4. CASE t = sched
  <2>1. \A c \in Clients : stack'[c] = stack[c]
    BY <1>2, <1>4, SchedIs DEF Keeps
  <2>2. At(sched, "proc")
    BY <1>1, <1>4, SchedIs DEF Called
  <2>3. stack[sched] # <<>> /\ Top(sched) = stack[sched][1] /\ Len(stack[sched]) \in Nat \ {0}
        /\ Top(sched) \in Frame /\ Top(sched).at = "proc"
    BY <2>2, SchedIs, TopIs DEF At
  <2> DEFINE g == [Top(sched) EXCEPT !.at = "default"]
  <2>4. g.at = "default" /\ g.msg = stack[sched][1].msg /\ Safe(g, Linked, Live)
    <3>1. g.at = "default" /\ g.msg = stack[sched][1].msg
      BY <2>3 DEF Frame
    <3>2. Safe(stack[sched][1], Linked, Live)
      BY <2>3 DEF Behaved
    <3> QED
      BY <2>3, <3>1, <3>2 DEF Safe, Closes
  <2>5. /\ Len(stack'[sched]) = Len(stack[sched]) + 1
        /\ stack'[sched][1] = f /\ stack'[sched][2] = g
        /\ \A k \in 2 .. Len(stack[sched]) : stack'[sched][k + 1] = stack[sched][k]
    BY <1>0, <1>1, <1>4, <2>2, <2>3 DEF Called
  <2> HIDE DEF g
  <2>6. ASSUME NEW k \in 1 .. Len(stack'[sched]), k # 1
        PROVE  /\ k - 1 \in 1 .. Len(stack[sched])
               /\ stack'[sched][k].msg = stack[sched][k - 1].msg
               /\ Safe(stack'[sched][k], Linked, Live)
    <3>1. CASE k = 2
      BY <2>3, <2>4, <2>5, <3>1
    <3>2. CASE k # 2
      <4>1. k - 1 \in 2 .. Len(stack[sched]) /\ (k - 1) + 1 = k /\ k - 1 \in 1 .. Len(stack[sched])
        BY <2>3, <2>5, <2>6, <3>2
      <4>2. stack'[sched][k] = stack[sched][k - 1]
        BY <2>5, <4>1
      <4> QED
        BY <4>1, <4>2 DEF Behaved
    <3> QED
      BY <3>1, <3>2
  <2>7. \A k \in 1 .. Len(stack'[sched]) : Safe(stack'[sched][k], Linked', Live')
    <3>1. Safe(f, Linked, Live)
      BY DEF Safe
    <3> QED
      BY <2>5, <2>6, <3>1
  <2>8. ASSUME NEW j \in 1 .. Len(stack'[sched]), NEW k \in 1 .. Len(stack'[sched]), j < k,
               Closes(stack'[sched][j]), Closes(stack'[sched][k])
        PROVE  stack'[sched][j].msg.hsm # stack'[sched][k].msg.hsm
    <3>1. /\ k # 1 /\ k - 1 \in 1 .. Len(stack[sched])
          /\ stack'[sched][k].msg = stack[sched][k - 1].msg
      BY <2>6, <2>8
    <3>2. Closes(stack[sched][k - 1])
      BY <2>8, <3>1 DEF Closes
    <3>3. CASE j = 1
      BY <1>4, <2>5, <2>8, <3>1, <3>2, <3>3 DEF Closes
    <3>4. CASE j # 1
      <4>1. /\ j - 1 \in 1 .. Len(stack[sched]) /\ j - 1 < k - 1
            /\ stack'[sched][j].msg = stack[sched][j - 1].msg
        BY <2>6, <2>8, <3>4
      <4>2. Closes(stack[sched][j - 1])
        BY <2>8, <4>1 DEF Closes
      <4>3. stack[sched][j - 1].msg.hsm # stack[sched][k - 1].msg.hsm
        BY <3>1, <3>2, <4>1, <4>2 DEF Behaved
      <4> QED
        BY <3>1, <4>1, <4>3
    <3> QED
      BY <3>3, <3>4
  <2> QED
    BY <2>1, <2>7, <2>8 DEF Behaved
<1> QED
  BY <1>3, <1>4

LEMMA BehavedSend ==
  ASSUME Typed, Shape, Behaved, NEW t \in Threads, Calls(t, <<>>), Linked' = Linked, Live' = Live
  PROVE  Behaved'
<1>0. <<>> \in Seq(Frame) /\ Len(<<>>) = 0
  OBVIOUS
<1>1. Called(t, <<>>)
  BY <1>0, CallsOf
<1>2. CASE stack[t] = <<>> /\ stack'[t] = <<>>
  <2>1. \A u \in Threads : stack'[u] = stack[u]
    BY <1>1, <1>2 DEF Called, Keeps
  <2> QED
    BY <2>1, SchedIs DEF Behaved
<1>3. CASE At(t, "proc")
  <2> DEFINE g == [Top(t) EXCEPT !.at = "default"]
  <2>1. /\ stack[t] # <<>> /\ Top(t) = stack[t][1] /\ Len(stack[t]) \in Nat \ {0}
        /\ Top(t) \in Frame /\ Top(t).at = "proc"
    BY <1>3, TopIs DEF At
  <2>2. t = sched
    BY <2>1, SchedIs DEF Behaved
  <2>3. g \in Frame /\ g.at = "default" /\ g.msg = Top(t).msg
    BY <2>1 DEF Frame
  <2>4. Safe(g, Linked, Live)
    <3>1. Safe(stack[sched][1], Linked, Live)
      BY <2>1, <2>2 DEF Behaved
    <3> QED
      BY <2>1, <2>2, <2>3, <3>1 DEF Safe, Closes
  <2>5. /\ Keeps(t) /\ Len(stack'[t]) = Len(stack[t]) /\ stack'[t][1] = g
        /\ \A k \in 2 .. Len(stack[t]) : stack'[t][k + 0] = stack[t][k]
    BY <1>0, <1>1, <1>3, <2>1 DEF Called
  <2>6. Replaced(t, g)
    BY <2>1, <2>5 DEF Replaced
  <2> HIDE DEF g
  <2> QED
    BY <2>1, <2>2, <2>3, <2>4, <2>6, BehavedReplace
<1> QED
  BY <1>1, <1>2, <1>3 DEF Called

-----------------------------------------------------------------------------
(* Steps that leave the list alone. *)

LKeep == Aged /\ Listed /\ Behaved

LEMMA ListReplace ==
  ASSUME LInv, NEW t \in Threads, stack[t] # <<>>, NEW f \in Frame, Replaced(t, f),
         Top(t).at \notin {"create", "push", "free"}, f.at # "free",
         f.msg = Top(t).msg, Safe(f, Linked, Live), UNCHANGED memory
  PROVE  LKeep'
<1>1. t = sched
  BY SchedIs, TopIs DEF LInv, IInv, Behaved
<1>2. Keeps(t) /\ f.msg.hsm \in HSM
  BY TopIs DEF LInv, IInv, Replaced, Shape
<1>3. ~ At(t, "free") /\ ~ At(t, "free")'
  BY <1>2, AfterReplace DEF At, LInv, IInv
<1>4. Linked' = Linked /\ Live' = Live /\ Aged' /\ Listed'
  BY <1>2, <1>3, SameList DEF LInv, IInv
<1>5. Behaved'
  BY <1>1, <1>4, BehavedReplace DEF LInv, IInv
<1> QED
  BY <1>4, <1>5 DEF LKeep

LEMMA ListLeave ==
  ASSUME LInv, NEW t \in Threads, stack[t] # <<>>, Top(t).at # "free", Leaves(t), UNCHANGED memory
  PROVE  LKeep'
<1>1. Left(t)
  BY LeavesTop DEF LInv, IInv
<1>2. Keeps(t) /\ ~ At(t, "free") /\ ~ At(t, "free")'
  BY <1>1, AfterLeave DEF At, LInv, IInv, Left
<1>3. Linked' = Linked /\ Live' = Live /\ Aged' /\ Listed'
  BY <1>2, SameList DEF LInv, IInv
<1>4. Behaved'
  BY <1>1, <1>3, BehavedLeave DEF LInv, IInv
<1> QED
  BY <1>3, <1>4 DEF LKeep

LEMMA ListMove ==
  ASSUME LInv, NEW t \in Threads, NEW from \in Places \ {"create", "push", "free"}, At(t, from),
         NEW at \in Places \ {"free"}, Moves(t, at), UNCHANGED memory,
         Safe([Top(t) EXCEPT !.at = at], Linked, Live)
  PROVE  LKeep'
<1>1. stack[t] # <<>> /\ Top(t) \in Frame /\ Top(t).at = from
  BY TopIs DEF At, LInv, IInv
<1>2. Replaced(t, [Top(t) EXCEPT !.at = at]) /\ [Top(t) EXCEPT !.at = at] \in Frame
  BY <1>1, MovesTop DEF LInv, IInv, Frame, Places
<1>3. [Top(t) EXCEPT !.at = at].at = at /\ [Top(t) EXCEPT !.at = at].msg = Top(t).msg
  BY <1>1 DEF Frame
<1> QED
  BY <1>1, <1>2, <1>3, ListReplace

(* The innermost frame of a thread that is not at the entry of a creation  *)
(* is the scheduler's, and what it relies on is so.                        *)
LEMMA TopSafe ==
  ASSUME LInv, NEW t \in Threads, stack[t] # <<>>, Top(t).at \notin {"create", "push"}
  PROVE  /\ t = sched /\ Top(t) \in Frame /\ Safe(Top(t), Linked, Live)
         /\ Top(t).msg.hsm \in HSM
<1>1. Top(t) = stack[t][1] /\ 1 \in 1 .. Len(stack[t]) /\ Top(t) \in Frame
  BY TopIs DEF LInv, IInv
<1>2. t = sched
  BY <1>1, SchedIs DEF LInv, Behaved
<1> QED
  BY <1>1, <1>2 DEF LInv, IInv, Behaved, Shape

(* The windows next to a linked one, and the first, are linked.            *)
LEMMA Links ==
  ASSUME LInv
  PROVE  /\ smallwin_list \in Linked \cup {NULL}
         /\ \A a \in Linked : next[a] \in Linked \cup {NULL} /\ prev[a] \in Linked \cup {NULL}
<1>1. PICK s \in Seq(HSM) : IsList(s)
  BY DEF LInv, Listed
<1>2. Len(s) \in Nat
  OBVIOUS
<1>3. smallwin_list \in Linked \cup {NULL}
  BY <1>1, <1>2 DEF IsList
<1>4. ASSUME NEW a \in Linked
      PROVE  next[a] \in Linked \cup {NULL} /\ prev[a] \in Linked \cup {NULL}
  <2>1. PICK i \in 1 .. Len(s) : s[i] = a
    BY <1>1 DEF IsList
  <2>2. (i # Len(s) => i + 1 \in 1 .. Len(s)) /\ (i # 1 => i - 1 \in 1 .. Len(s))
    BY <1>2
  <2>3. next[a] \in Linked \cup {NULL}
    BY <1>1, <2>1, <2>2 DEF IsList
  <2>4. prev[a] \in Linked \cup {NULL}
    BY <1>1, <2>1, <2>2 DEF IsList
  <2> QED
    BY <2>3, <2>4
<1> QED
  BY <1>3, <1>4

LEMMA ListWalks ==
  ASSUME LInv, NEW t \in Threads, StartWalk(t) \/ Walk(t)
  PROVE  LKeep'
<1>1. /\ stack[t] # <<>> /\ Top(t) \in Frame /\ Top(t) = stack[t][1]
      /\ Top(t).at \in {"find", "walk"} /\ UNCHANGED memory
  BY TopIs DEF StartWalk, Walk, At, LInv, IInv
<1>2. Safe(Top(t), Linked, Live)
  BY <1>1, TopSafe
<1>3. CASE StartWalk(t)
  <2> DEFINE f == [Top(t) EXCEPT !.at = "walk", !.cur = smallwin_list]
  <2>1. f \in Frame /\ f.at = "walk" /\ f.msg = Top(t).msg /\ f.cur = smallwin_list
    BY <1>1 DEF Frame, LInv, IInv, Typed
  <2>2. Safe(f, Linked, Live)
    BY <2>1, Links DEF Safe
  <2>3. stack' = [stack EXCEPT ![t] = [stack[t] EXCEPT ![1] = f]]
    BY <1>1, <1>3, TopIs DEF StartWalk
  <2> HIDE DEF f
  <2>4. Replaced(t, f)
    BY <1>1, <2>1, <2>3, ReplacesTop DEF LInv, IInv
  <2> QED
    BY <1>1, <2>1, <2>2, <2>4, ListReplace
<1>4. CASE At(t, "walk") /\ Leaves(t)
  BY <1>1, <1>4, ListLeave DEF At
<1>5. CASE At(t, "walk") /\ Top(t).cur # NULL /\ Top(t).cur = Top(t).msg.hsm /\ Moves(t, "run")
  <2>1. Top(t).msg.hsm \in Linked
    BY <1>2, <1>5 DEF Safe, At
  <2>2. Safe([Top(t) EXCEPT !.at = "run"], Linked, Live)
    BY <1>1, <2>1 DEF Safe, Frame
  <2> QED
    BY <1>1, <1>5, <2>2, ListMove DEF Places
<1>6. CASE /\ At(t, "walk") /\ Top(t).cur # NULL
           /\ stack' = [stack EXCEPT ![t][1].cur = next[Top(t).cur]]
  <2> DEFINE f == [Top(t) EXCEPT !.cur = next[Top(t).cur]]
  <2>1. Top(t).cur \in Linked /\ Top(t).at = "walk"
    BY <1>2, <1>6 DEF Safe, At
  <2>2. f \in Frame /\ f.at = "walk" /\ f.msg = Top(t).msg /\ f.cur = next[Top(t).cur]
    BY <1>1, <1>6, <2>1 DEF Frame, LInv, IInv, Typed, Linked, Live
  <2>3. Safe(f, Linked, Live)
    BY <2>1, <2>2, Links DEF Safe
  <2>4. stack' = [stack EXCEPT ![t] = [stack[t] EXCEPT ![1] = f]]
    BY <1>1, <1>6, TopIs
  <2> HIDE DEF f
  <2>5. Replaced(t, f)
    BY <1>1, <2>2, <2>4, ReplacesTop DEF LInv, IInv
  <2> QED
    BY <1>1, <2>1, <2>2, <2>3, <2>5, ListReplace
<1> QED
  BY <1>3, <1>4, <1>5, <1>6 DEF Walk, AtEnd

LEMMA ListMoves ==
  ASSUME LInv, NEW t \in Threads, ReturnProc(t) \/ RunProc(t)
  PROVE  LKeep'
<1>1. CASE ReturnProc(t)
  <2>1. stack[t] # <<>> /\ Top(t).at = "proc"
    BY <1>1 DEF ReturnProc, At
  <2>2. Safe([Top(t) EXCEPT !.at = "default"], Linked, Live)
    BY <2>1, TopSafe DEF Safe, Frame, Closes
  <2> QED
    BY <1>1, <2>2, ListMove DEF ReturnProc, Places
<1>2. CASE RunProc(t)
  <2>1. stack[t] # <<>> /\ Top(t).at = "run"
    BY <1>2 DEF RunProc, At
  <2>2. Safe([Top(t) EXCEPT !.at = "proc"], Linked, Live)
    BY <2>1, TopSafe DEF Safe, Frame, Closes
  <2> QED
    BY <1>2, <2>2, ListMove DEF RunProc, Places
<1> QED
  BY <1>1, <1>2

LEMMA ListPops ==
  ASSUME LInv, PopMessage
  PROVE  LKeep'
<1> DEFINE m == Head(fifo)
           f == Entering("find", m)
           s == IF m.hsm = NULL THEN <<>> ELSE <<f>>
<1>1. m \in MESSAGE
  BY HeadTailProperties DEF PopMessage, LInv, IInv, Typed
<1>2. f \in Frame /\ f.at = "find"
  BY <1>1 DEF Entering, Frame
<1>3. s \in Seq(Frame) /\ Len(s) \in {0, 1} /\ (Len(s) = 1 => s[1] = f)
  BY <1>2
<1>4. stack' = [stack EXCEPT ![sched] = s] /\ stack[sched] = <<>> /\ UNCHANGED memory
  BY DEF PopMessage
<1> HIDE DEF s, f, m
<1>5. Keeps(sched) /\ stack'[sched] = s
  BY <1>3, <1>4, SchedIs DEF LInv, IInv, Typed, Keeps
<1>6. ~ At(sched, "free") /\ ~ At(sched, "free")'
  BY <1>2, <1>3, <1>4, <1>5, SchedIs, TopIsNext DEF Keeps, At
<1>7. Linked' = Linked /\ Live' = Live /\ Aged' /\ Listed'
  BY <1>4, <1>5, <1>6, SameList, SchedIs DEF LInv, IInv
<1>8. Behaved'
  <2>1. \A c \in Clients : stack'[c] = stack[c]
    BY <1>5, SchedIs DEF Keeps
  <2>2. Safe(f, Linked, Live)
    BY <1>2 DEF Safe
  <2>3. \A k \in 1 .. Len(stack'[sched]) : Safe(stack'[sched][k], Linked', Live')
    <3> TAKE k \in 1 .. Len(stack'[sched])
    <3>1. stack'[sched][k] = f
      BY <1>3, <1>5
    <3> QED
      BY <1>7, <2>2, <3>1
  <2>4. Len(stack'[sched]) \in {0, 1}
    BY <1>3, <1>5
  <2>5. ASSUME NEW j \in 1 .. Len(stack'[sched]), NEW k \in 1 .. Len(stack'[sched]) PROVE ~ (j < k)
    <3>1. CASE Len(stack'[sched]) = 0
      BY <3>1
    <3>2. CASE Len(stack'[sched]) = 1
      BY <3>2
    <3> QED
      BY <2>4, <3>1, <3>2
  <2> QED
    BY <2>1, <2>3, <2>5 DEF LInv, Behaved
<1> QED
  BY <1>7, <1>8 DEF LKeep

LEMMA ListCalls ==
  ASSUME OneDestroyer, NobodyRecloses, LInv, NEW t \in Threads,
         CallCreate(t) \/ \E m \in Sendable : SendMessage(t, m) \/ CallExpress(t, m)
  PROVE  LKeep'
<1>1. UNCHANGED memory
  BY DEF CallCreate, SendMessage, CallExpress
<1>2. ASSUME NEW frames, Calls(t, frames) PROVE ~ At(t, "free")
  BY <1>2 DEF Calls, At
<1>3. ASSUME NEW f \in Frame, Calls(t, <<f>>), f.at \in {"create", "find"}, f.at = "find" => f.msg.hsm \in HSM,
             t # sched => f.at = "create",
             Closes(f) => \A k \in 1 .. Len(stack[t]) :
                            ~ (stack[t][k].msg.hsm = f.msg.hsm /\ stack[t][k].msg.message = SMM_CLOSE)
      PROVE  LKeep'
  <2>1. Keeps(t) /\ ~ At(t, "free")'
    BY <1>3, AfterCall DEF LInv, IInv
  <2>2. Linked' = Linked /\ Live' = Live /\ Aged' /\ Listed'
    BY <1>1, <1>2, <1>3, <2>1, SameList DEF LInv, IInv
  <2>3. Behaved'
    BY <1>3, <2>2, BehavedCall DEF LInv, IInv
  <2> QED
    BY <2>2, <2>3 DEF LKeep
<1>4. CASE CallCreate(t)
  <2> DEFINE f == Entering("create", Erased)
  <2>1. f \in Frame /\ f.at = "create" /\ ~ Closes(f)
    BY Codes, NullValues, MessageCodes DEF Entering, Frame, Closes, Erased
  <2>2. Calls(t, <<f>>)
    BY <1>4 DEF CallCreate
  <2> HIDE DEF f
  <2> QED
    BY <1>3, <2>1, <2>2
<1>5. ASSUME NEW m \in Sendable, SendMessage(t, m) PROVE LKeep'
  <2>1. Calls(t, <<>>)
    BY <1>5 DEF SendMessage
  <2>2. Keeps(t) /\ ~ At(t, "free")'
    BY <2>1, AfterSend DEF LInv, IInv
  <2>3. Linked' = Linked /\ Live' = Live /\ Aged' /\ Listed'
    BY <1>1, <1>2, <2>1, <2>2, SameList DEF LInv, IInv
  <2>4. Behaved'
    BY <2>1, <2>3, BehavedSend DEF LInv, IInv
  <2> QED
    BY <2>3, <2>4 DEF LKeep
<1>6. ASSUME NEW m \in Sendable, CallExpress(t, m) PROVE LKeep'
  <2> DEFINE f == Entering("find", m)
  <2>1. f \in Frame /\ f.at = "find" /\ f.msg = m /\ m.hsm \in HSM
    BY SendableIs DEF Entering, Frame, LInv, IInv
  <2>2. Calls(t, <<f>>)
    BY <1>6 DEF CallExpress
  <2>3. t = sched
    <3>1. [op |-> "express", message |-> m.message] \in usage.calls[t] /\ usage \in Usages
      BY <1>6 DEF CallExpress, Makes, LInv, IInv, Typed
    <3> QED
      BY <3>1, SchedIs DEF OneDestroyer
  <2>4. Closes(f) => \A k \in 1 .. Len(stack[t]) :
                       ~ (stack[t][k].msg.hsm = f.msg.hsm /\ stack[t][k].msg.message = SMM_CLOSE)
    <3>1. ~ usage.recloses
      BY DEF NobodyRecloses, LInv, IInv, Typed
    <3> QED
      BY <1>6, <2>1, <3>1 DEF CallExpress, Closing, Closes
  <2> HIDE DEF f
  <2> QED
    BY <1>3, <2>1, <2>2, <2>3, <2>4
<1> QED
  BY <1>4, <1>5, <1>6

-----------------------------------------------------------------------------
(* Steps that change the list. *)

LEMMA InList ==
  ASSUME Typed, NEW s \in Seq(HSM), IsList(s)
  PROVE  /\ Len(s) \in Nat
         /\ \A i \in 1 .. Len(s) : s[i] \in HSM /\ s[i] # NULL /\ s[i] \in Live /\ owner[s[i]] \in Int
         /\ \A i, j \in 1 .. Len(s) : s[i] = s[j] => i = j
<1>1. Len(s) \in Nat /\ \A i \in 1 .. Len(s) : s[i] \in HSM
  OBVIOUS
<1>2. \A i \in 1 .. Len(s) : s[i] # NULL /\ s[i] \in Live /\ owner[s[i]] \in Int
  BY <1>1, Codes DEF IsList, Linked, Typed
<1>3. ASSUME NEW i \in 1 .. Len(s), NEW j \in 1 .. Len(s), s[i] = s[j] PROVE i = j
  <2>1. ~ (i < j)
    BY <1>2, <1>3 DEF IsList
  <2>2. ~ (j < i)
    BY <1>2, <1>3 DEF IsList
  <2> QED
    BY <1>1, <2>1, <2>2
<1> QED
  BY <1>1, <1>2, <1>3

LEMMA ListLinks ==
  ASSUME LInv, NEW t \in Threads, LinkWindow(t)
  PROVE  LKeep'
<1>1. PICK a \in HSM :
        /\ owner[a] = 0
        /\ IF smallwin_list = NULL
           THEN /\ smallwin_list' = a
                /\ next' = [next EXCEPT ![a] = NULL]
                /\ prev' = [prev EXCEPT ![a] = NULL]
           ELSE /\ next' = [next EXCEPT ![Last] = a, ![a] = NULL]
                /\ prev' = [prev EXCEPT ![a] = Last]
                /\ UNCHANGED smallwin_list
        /\ owner' = [owner EXCEPT ![a] = Len(born) + 1]
        /\ born' = Append(born, a)
        /\ stack' = [stack EXCEPT ![t][1] = Entering("push",
                       [hsm |-> a, message |-> SMM_CREATE, param |-> Len(born) + 1])]
  BY DEF LinkWindow, Allocatable
<1>2. /\ sem_system = 1 /\ Len(born) < MaxWindows /\ Len(born) \in Nat
      /\ stack[t] # <<>> /\ Top(t).at = "create" /\ Len(born') = Len(born) + 1
  BY <1>1 DEF LinkWindow, At, LInv, IInv, Typed
<1> DEFINE m == [hsm |-> a, message |-> SMM_CREATE, param |-> Len(born) + 1]
           f == Entering("push", m)
<1>3. /\ f \in Frame /\ f.at = "push" /\ f.msg.hsm \in HSM /\ ~ Closes(f)
  BY <1>2, Codes, MessageCodes DEF Entering, Frame, MESSAGE, NULL, Closes
<1>4. stack' = [stack EXCEPT ![t] = [stack[t] EXCEPT ![1] = f]]
  BY <1>1
<1> HIDE DEF f
<1>5. Replaced(t, f) /\ Keeps(t)
  BY <1>2, <1>3, <1>4, ReplacesTop DEF LInv, IInv, Replaced
<1>6. ~ At(t, "free")'
  BY <1>2, <1>3, <1>5, AfterReplace DEF LInv, IInv
<1>7. \A u \in Threads : ~ At(u, "free") /\ ~ At(u, "free")'
  BY <1>2, <1>5, <1>6, OthersStay DEF LInv, IInv, Excludes, Holds
<1>8. Linked = Live /\ Linked' = Live'
  BY <1>7 DEF Linked
<1>9. Live' = Live \cup {a} /\ a \notin Live
  BY <1>1, <1>2 DEF Live, LInv, IInv, Typed
<1>10. Behaved'
  BY <1>2, <1>3, <1>5, <1>8, <1>9, BehavedReplace DEF LInv, IInv, Safe
<1>11. PICK s \in Seq(HSM) : IsList(s)
  BY DEF LInv, Listed
<1>12. /\ Len(s) \in Nat
       /\ \A i \in 1 .. Len(s) : s[i] \in HSM /\ s[i] # NULL /\ s[i] \in Live /\ owner[s[i]] \in Int
       /\ \A i, j \in 1 .. Len(s) : s[i] = s[j] => i = j
  BY <1>11, InList DEF LInv, IInv
<1>13. smallwin_list = NULL <=> Len(s) = 0
  BY <1>11, <1>12 DEF IsList
<1>14. ASSUME Len(s) # 0 PROVE Last = s[Len(s)]
  <2>1. s[Len(s)] \in Live /\ next[s[Len(s)]] = NULL
    BY <1>11, <1>12, <1>14 DEF IsList
  <2>2. ASSUME NEW b \in Live, next[b] = NULL PROVE b = s[Len(s)]
    <3>1. PICK i \in 1 .. Len(s) : s[i] = b
      BY <1>8, <1>11 DEF IsList
    <3>2. i = Len(s)
      BY <1>11, <1>12, <2>2, <3>1 DEF IsList
    <3> QED
      BY <3>1, <3>2
  <2> QED
    BY <2>1, <2>2 DEF Last
<1>15. ASSUME NEW b \in HSM
       PROVE  /\ next'[b] = IF b = a THEN NULL ELSE IF Len(s) # 0 /\ b = s[Len(s)] THEN a ELSE next[b]
              /\ prev'[b] = IF b # a THEN prev[b] ELSE IF Len(s) = 0 THEN NULL ELSE s[Len(s)]
              /\ owner'[b] = IF b = a THEN Len(born) + 1 ELSE owner[b]
  <2>1. CASE Len(s) = 0
    BY <1>1, <1>13, <2>1 DEF LInv, IInv, Typed, Aged
  <2>2. CASE Len(s) # 0
    <3>1. smallwin_list # NULL /\ Last = s[Len(s)] /\ Last \in HSM /\ Last # a
      BY <1>9, <1>12, <1>13, <1>14, <2>2
    <3>2. /\ next' = [next EXCEPT ![Last] = a, ![a] = NULL]
          /\ prev' = [prev EXCEPT ![a] = Last]
          /\ owner' = [owner EXCEPT ![a] = Len(born) + 1]
      BY <1>1, <3>1
    <3> HIDE DEF Last
    <3>3. next'[b] = IF b = a THEN NULL ELSE IF b = Last THEN a ELSE next[b]
      BY <3>1, <3>2 DEF LInv, IInv, Typed
    <3>4. prev'[b] = IF b = a THEN Last ELSE prev[b]
      BY <3>1, <3>2 DEF LInv, Aged
    <3>5. owner'[b] = IF b = a THEN Len(born) + 1 ELSE owner[b]
      BY <3>2 DEF LInv, IInv, Typed
    <3> QED
      BY <2>2, <3>1, <3>3, <3>4, <3>5
  <2> QED
    BY <2>1, <2>2
<1>16. Aged'
  <2>1. prev' \in [HSM -> HSM \cup {NULL}]
    <3>1. CASE smallwin_list = NULL
      BY <1>1, <3>1 DEF LInv, Aged
    <3>2. CASE smallwin_list # NULL
      <4>1. Last \in HSM
        BY <1>12, <1>13, <1>14, <3>2
      <4> QED
        BY <1>1, <3>2, <4>1 DEF LInv, Aged
    <3> QED
      BY <3>1, <3>2
  <2>2. ASSUME NEW b \in HSM PROVE owner'[b] <= Len(born')
    <3>1. owner[b] <= Len(born) /\ owner[b] \in Int
      BY Codes DEF LInv, Aged, IInv, Typed
    <3> QED
      BY <1>2, <1>15, <3>1
  <2> QED
    BY <2>1, <2>2 DEF Aged
<1>17. \E z \in Seq(HSM) : IsList(z)'
  <2>1. PICK z \in Seq(HSM) : /\ Len(z) = Len(s) + 1 /\ z[Len(s) + 1] = a
                              /\ \A i \in 1 .. Len(s) : z[i] = s[i]
    <3>1. /\ Append(s, a) \in Seq(HSM) /\ Len(Append(s, a)) = Len(s) + 1 /\ Append(s, a)[Len(s) + 1] = a
          /\ \A i \in 1 .. Len(s) : Append(s, a)[i] = s[i]
      OBVIOUS
    <3> QED
      BY ONLY <3>1
  <2>2. ASSUME NEW i \in 1 .. Len(z) PROVE i = Len(s) + 1 \/ i \in 1 .. Len(s)
    BY <1>12, <2>1
  <2>3. \A i \in 1 .. Len(s) : s[i] # a
    BY <1>9, <1>12
  <2>4. \A i \in 1 .. Len(z) : z[i] \in Linked'
    BY <1>8, <1>9, <1>12, <2>1, <2>2
  <2>5. \A b \in Linked' : \E i \in 1 .. Len(z) : z[i] = b
    <3> TAKE b \in Linked'
    <3>1. CASE b = a
      <4>1. Len(s) + 1 \in 1 .. Len(z)
        BY <1>12, <2>1
      <4> QED
        BY <2>1, <3>1, <4>1
    <3>2. CASE b # a
      <4>1. PICK i \in 1 .. Len(s) : s[i] = b
        BY <1>8, <1>9, <1>11, <3>2 DEF IsList
      <4>2. i \in 1 .. Len(z) /\ z[i] = b
        BY <1>12, <2>1, <4>1
      <4> QED
        BY <4>2
    <3> QED
      BY <3>1, <3>2
  <2>6. ASSUME NEW i \in 1 .. Len(z), NEW j \in 1 .. Len(z), i < j PROVE owner'[z[i]] < owner'[z[j]]
    <3>1. i \in 1 .. Len(s) /\ z[i] = s[i] /\ owner'[z[i]] = owner[s[i]]
      BY <1>12, <1>15, <2>1, <2>2, <2>3, <2>6
    <3>2. CASE j \in 1 .. Len(s)
      <4>1. owner'[z[j]] = owner[s[j]]
        BY <1>12, <1>15, <2>1, <2>3, <3>2
      <4> QED
        BY <1>11, <2>6, <3>1, <3>2, <4>1 DEF IsList
    <3>3. CASE j = Len(s) + 1
      <4>1. owner'[z[j]] = Len(born) + 1
        BY <1>15, <2>1, <3>3
      <4>2. owner[s[i]] <= Len(born) /\ owner[s[i]] \in Int
        BY <1>12, <3>1 DEF LInv, Aged
      <4> QED
        BY <1>2, <3>1, <4>1, <4>2
    <3> QED
      BY <2>2, <3>2, <3>3
  <2>7. smallwin_list' = IF Len(z) = 0 THEN NULL ELSE z[1]
    <3>1. CASE Len(s) = 0
      BY <1>1, <1>13, <2>1, <3>1
    <3>2. CASE Len(s) # 0
      <4>1. 1 \in 1 .. Len(s) /\ smallwin_list' = smallwin_list
        BY <1>1, <1>12, <1>13, <3>2
      <4> QED
        BY <1>11, <1>12, <2>1, <3>2, <4>1 DEF IsList
    <3> QED
      BY <3>1, <3>2
  <2>8. ASSUME NEW i \in 1 .. Len(z)
        PROVE  /\ next'[z[i]] = IF i = Len(z) THEN NULL ELSE z[i + 1]
               /\ prev'[z[i]] = IF i = 1 THEN NULL ELSE z[i - 1]
    <3>1. CASE i = Len(s) + 1
      <4>1. z[i] = a /\ i = Len(z) /\ (i = 1 <=> Len(s) = 0)
        BY <1>12, <2>1, <3>1
      <4>2. Len(s) # 0 => z[i - 1] = s[Len(s)]
        BY <1>12, <2>1, <3>1
      <4> QED
        BY <1>15, <4>1, <4>2
    <3>2. CASE i \in 1 .. Len(s)
      <4>1. /\ z[i] = s[i] /\ s[i] # a /\ s[i] \in HSM /\ i # Len(z) /\ Len(s) # 0
            /\ next[s[i]] = IF i = Len(s) THEN NULL ELSE s[i + 1]
            /\ prev[s[i]] = IF i = 1 THEN NULL ELSE s[i - 1]
        BY <1>11, <1>12, <2>1, <2>3, <3>2 DEF IsList
      <4>2. prev'[z[i]] = IF i = 1 THEN NULL ELSE z[i - 1]
        <5>1. i # 1 => i - 1 \in 1 .. Len(s)
          BY <1>12, <3>2
        <5> QED
          BY <1>15, <2>1, <4>1, <5>1
      <4>3. next'[z[i]] = z[i + 1]
        <5>1. CASE i = Len(s)
          BY <1>12, <1>15, <2>1, <4>1, <5>1
        <5>2. CASE i # Len(s)
          <6>1. i + 1 \in 1 .. Len(s) /\ s[i] # s[Len(s)]
            BY <1>12, <3>2, <5>2
          <6> QED
            BY <1>15, <2>1, <4>1, <5>2, <6>1
        <5> QED
          BY <5>1, <5>2
      <4> QED
        BY <4>1, <4>2, <4>3
    <3> QED
      BY <2>2, <3>1, <3>2
  <2>9. IsList(z)'
    BY <2>4, <2>5, <2>6, <2>7, <2>8 DEF IsList
  <2> QED
    BY <2>9
<1> QED
  BY <1>10, <1>16, <1>17 DEF LKeep, Listed

(* The list without its j-th window. *)
LEMMA Without ==
  ASSUME NEW s \in Seq(HSM), NEW j \in 1 .. Len(s)
  PROVE  \E z \in Seq(HSM) : /\ Len(z) = Len(s) - 1
                             /\ \A i \in 1 .. Len(z) : z[i] = IF i < j THEN s[i] ELSE s[i + 1]
<1> DEFINE n == Len(s) - 1
           z == [i \in 1 .. n |-> IF i < j THEN s[i] ELSE s[i + 1]]
<1>1. n \in Nat
  OBVIOUS
<1>2. \A i \in 1 .. n : i \in 1 .. Len(s) /\ i + 1 \in 1 .. Len(s)
  OBVIOUS
<1>3. z \in [1 .. n -> HSM]
  BY <1>2
<1>4. z \in Seq(HSM) /\ Len(z) = n
  BY <1>1, <1>3
<1> QED
  BY <1>4

LEMMA ListUnlinks ==
  ASSUME LInv, NEW t \in Threads, UnlinkWindow(t)
  PROVE  LKeep'
<1> DEFINE h == Top(t).msg.hsm
           f == [Top(t) EXCEPT !.at = "free"]
<1>1. /\ stack[t] # <<>> /\ Top(t).at = "default" /\ Closes(Top(t))
      /\ sem_system = 1 /\ Moves(t, "free") /\ UNCHANGED <<owner, born>>
      /\ IF prev[h] # NULL
         THEN next' = [next EXCEPT ![prev[h]] = next[h]] /\ UNCHANGED smallwin_list
         ELSE smallwin_list' = next[h] /\ UNCHANGED next
      /\ prev' = IF next[h] # NULL THEN [prev EXCEPT ![next[h]] = prev[h]] ELSE prev
  BY DEF UnlinkWindow, BackWithout, At, Closes
<1>2. t = sched /\ Top(t) \in Frame /\ h \in HSM /\ h \in Linked
  BY <1>1, TopSafe DEF Safe
<1>3. f \in Frame /\ f.at = "free" /\ f.msg = Top(t).msg
  BY <1>2 DEF Frame
<1>4. Replaced(t, f) /\ Keeps(t)
  BY <1>1, MovesTop DEF Places, Replaced, LInv, IInv
<1> HIDE DEF f
<1>5. At(t, "free")' /\ Top(t)' = f
  BY <1>1, <1>2, <1>3, <1>4, AfterReplace DEF LInv, IInv
<1>6. \A u \in Threads : ~ At(u, "free") /\ (At(u, "free")' => u = t)
  BY <1>1, <1>4, OthersStay DEF LInv, IInv, Excludes, Holds
<1>7. Live' = Live /\ Linked = Live
  BY <1>1, <1>6 DEF Live, Linked
<1>8. Linked' = Linked \ {h}
  <2>1. ASSUME NEW b \in Live
        PROVE  (\A u \in Threads : ~ (At(u, "free") /\ Top(u).msg.hsm = b)') <=> b # h
    BY <1>3, <1>5, <1>6
  <2> QED
    BY <1>7, <2>1 DEF Linked
<1>9. Behaved'
  <2>1. Safe(f, Linked', Live')
    BY <1>1, <1>2, <1>3, <1>7 DEF Safe, Closes
  <2> QED
    BY <1>1, <1>2, <1>3, <1>4, <1>8, <2>1, BehavedReplace DEF LInv, IInv
<1> HIDE DEF h
<1>10. PICK s \in Seq(HSM) : IsList(s)
  BY DEF LInv, Listed
<1>11. /\ Len(s) \in Nat
       /\ \A i \in 1 .. Len(s) : s[i] \in HSM /\ s[i] # NULL /\ s[i] \in Live /\ owner[s[i]] \in Int
       /\ \A i, j \in 1 .. Len(s) : s[i] = s[j] => i = j
  BY <1>10, InList DEF LInv, IInv
<1>12. PICK j \in 1 .. Len(s) : s[j] = h
  BY <1>2, <1>10 DEF IsList
<1>13. (j # 1 => j - 1 \in 1 .. Len(s)) /\ (j # Len(s) => j + 1 \in 1 .. Len(s))
  BY <1>11
<1>14. /\ next[h] = IF j = Len(s) THEN NULL ELSE s[j + 1]
       /\ prev[h] = IF j = 1 THEN NULL ELSE s[j - 1]
  BY <1>10, <1>12 DEF IsList
<1>15. (next[h] = NULL <=> j = Len(s)) /\ (prev[h] = NULL <=> j = 1)
  BY <1>11, <1>13, <1>14
<1>16. ASSUME NEW b \in HSM
       PROVE  /\ next'[b] = IF prev[h] # NULL /\ b = prev[h] THEN next[h] ELSE next[b]
              /\ prev'[b] = IF next[h] # NULL /\ b = next[h] THEN prev[h] ELSE prev[b]
  BY <1>1 DEF LInv, IInv, Typed, Aged
<1>17. Aged'
  BY <1>1, <1>2 DEF LInv, IInv, Typed, Aged
<1>18. PICK z \in Seq(HSM) : /\ Len(z) = Len(s) - 1
                             /\ \A i \in 1 .. Len(z) : z[i] = IF i < j THEN s[i] ELSE s[i + 1]
  BY Without
<1>19. IsList(z)'
  <2>1. ASSUME NEW i \in 1 .. Len(z)
        PROVE  \/ i < j /\ i \in 1 .. Len(s) /\ i # j /\ z[i] = s[i]
               \/ i >= j /\ i + 1 \in 1 .. Len(s) /\ i + 1 # j /\ z[i] = s[i + 1]
    BY <1>11, <1>18
  <2>2. \A i \in 1 .. Len(z) : z[i] \in Linked'
    <3> TAKE i \in 1 .. Len(z)
    <3>1. PICK k \in 1 .. Len(s) : k # j /\ z[i] = s[k]
      BY <2>1
    <3>2. s[k] # h /\ s[k] \in Linked
      BY <1>10, <1>11, <1>12, <3>1 DEF IsList
    <3> QED
      BY <1>8, <3>1, <3>2
  <2>3. \A b \in Linked' : \E i \in 1 .. Len(z) : z[i] = b
    <3> TAKE b \in Linked'
    <3>1. PICK k \in 1 .. Len(s) : s[k] = b
      BY <1>8, <1>10 DEF IsList
    <3>2. k # j
      BY <1>8, <1>12, <3>1
    <3>3. CASE k < j
      <4>1. k \in 1 .. Len(z) /\ z[k] = b
        BY <1>11, <1>18, <3>1, <3>3
      <4> QED
        BY <4>1
    <3>4. CASE k > j
      <4>1. k - 1 \in 1 .. Len(z) /\ ~ (k - 1 < j) /\ (k - 1) + 1 = k
        BY <1>11, <1>18, <3>4
      <4>2. z[k - 1] = b
        BY <1>18, <3>1, <4>1
      <4> QED
        BY <4>1, <4>2
    <3> QED
      BY <1>11, <3>2, <3>3, <3>4
  <2>4. ASSUME NEW i \in 1 .. Len(z), NEW k \in 1 .. Len(z), i < k PROVE owner'[z[i]] < owner'[z[k]]
    <3>1. PICK x \in 1 .. Len(s), y \in 1 .. Len(s) : x < y /\ z[i] = s[x] /\ z[k] = s[y]
      <4>1. CASE k < j
        BY <1>11, <2>1, <2>4, <4>1
      <4>2. CASE i < j /\ k >= j
        <5>1. i < k + 1
          BY <2>4
        <5> QED
          BY <1>11, <2>1, <2>4, <4>2, <5>1
      <4>3. CASE i >= j
        <5>1. i + 1 < k + 1 /\ k >= j
          BY <1>11, <2>4, <4>3
        <5> QED
          BY <1>11, <2>1, <2>4, <4>3, <5>1
      <4> QED
        BY <1>11, <2>4, <4>1, <4>2, <4>3
    <3> QED
      BY <1>1, <1>10, <3>1 DEF IsList
  <2>5. smallwin_list' = IF Len(z) = 0 THEN NULL ELSE z[1]
    <3>1. smallwin_list = s[1]
      BY <1>10, <1>11 DEF IsList
    <3>2. CASE j = 1
      <4>1. smallwin_list' = next[h]
        BY <1>1, <1>15, <3>2
      <4>2. Len(z) = 0 <=> j = Len(s)
        BY <1>11, <1>18, <3>2
      <4>3. Len(z) # 0 => z[1] = s[2]
        BY <1>11, <1>18, <3>2
      <4> QED
        BY <1>14, <3>2, <4>1, <4>2, <4>3
    <3>3. CASE j # 1
      <4>1. smallwin_list' = smallwin_list
        BY <1>1, <1>15, <3>3
      <4>2. Len(z) # 0 /\ z[1] = s[1]
        BY <1>11, <1>18, <3>3
      <4> QED
        BY <3>1, <4>1, <4>2
    <3> QED
      BY <3>2, <3>3
  <2>6. ASSUME NEW i \in 1 .. Len(z)
        PROVE  /\ next'[z[i]] = IF i = Len(z) THEN NULL ELSE z[i + 1]
               /\ prev'[z[i]] = IF i = 1 THEN NULL ELSE z[i - 1]
    <3>0. i + 1 \in Int /\ i - 1 \in Int
      OBVIOUS
    <3>1. next'[z[i]] = IF i = Len(z) THEN NULL ELSE z[i + 1]
      <4>1. CASE i < j - 1
        <5>1. /\ i \in 1 .. Len(s) /\ i + 1 \in 1 .. Len(z) /\ i # Len(z) /\ i # Len(s)
              /\ z[i] = s[i] /\ z[i + 1] = s[i + 1] /\ (j # 1 => i # j - 1)
          BY <1>11, <1>18, <4>1
        <5>2. next[s[i]] = s[i + 1]
          BY <1>10, <5>1 DEF IsList
        <5>3. ~ (prev[h] # NULL /\ s[i] = prev[h])
          BY <1>11, <1>13, <1>14, <1>15, <5>1
        <5> QED
          BY <1>11, <1>16, <5>1, <5>2, <5>3
      <4>2. CASE i = j - 1
        <5>1. /\ j # 1 /\ z[i] = s[j - 1] /\ (i = Len(z) <=> j = Len(s))
              /\ (j # Len(s) => z[i + 1] = s[j + 1])
          BY <1>11, <1>18, <4>2
        <5>2. prev[h] # NULL /\ z[i] = prev[h] /\ z[i] \in HSM
          BY <1>11, <1>13, <1>14, <1>15, <5>1
        <5> QED
          BY <1>14, <1>16, <5>1, <5>2
      <4>3. CASE i >= j
        <5>1. /\ i + 1 \in 1 .. Len(s) /\ z[i] = s[i + 1] /\ (i = Len(z) <=> i + 1 = Len(s))
              /\ i + 1 # j - 1 /\ (i # Len(z) => z[i + 1] = s[(i + 1) + 1])
          <6>1. i # Len(z) => i + 1 \in 1 .. Len(z) /\ ~ (i + 1 < j)
            BY <1>11, <1>18, <4>3
          <6>2. i # Len(z) => z[i + 1] = s[(i + 1) + 1]
            BY <1>18, <6>1
          <6>3. /\ i + 1 \in 1 .. Len(s) /\ (i = Len(z) <=> i + 1 = Len(s)) /\ i + 1 # j - 1 /\ ~ (i < j)
            BY <1>11, <1>18, <4>3
          <6> QED
            BY <1>18, <6>2, <6>3
        <5>2. next[s[i + 1]] = IF i + 1 = Len(s) THEN NULL ELSE s[(i + 1) + 1]
          BY <1>10, <5>1 DEF IsList
        <5>3. ~ (prev[h] # NULL /\ s[i + 1] = prev[h])
          BY <1>11, <1>13, <1>14, <1>15, <5>1
        <5> QED
          BY <1>11, <1>16, <5>1, <5>2, <5>3
      <4> QED
        BY <1>11, <4>1, <4>2, <4>3
    <3>2. prev'[z[i]] = IF i = 1 THEN NULL ELSE z[i - 1]
      <4>1. CASE i < j
        <5>1. /\ i \in 1 .. Len(s) /\ z[i] = s[i] /\ (j # Len(s) => i # j + 1)
              /\ (i # 1 => z[i - 1] = s[i - 1])
          BY <1>11, <1>18, <4>1
        <5>2. prev[s[i]] = IF i = 1 THEN NULL ELSE s[i - 1]
          BY <1>10, <5>1 DEF IsList
        <5>3. ~ (next[h] # NULL /\ s[i] = next[h])
          BY <1>11, <1>13, <1>14, <1>15, <5>1
        <5> QED
          BY <1>11, <1>16, <5>1, <5>2, <5>3
      <4>2. CASE i = j
        <5>1. /\ j # Len(s) /\ z[i] = s[j + 1]
              /\ (j # 1 => z[i - 1] = s[j - 1])
          <6>1. j # 1 => i - 1 \in 1 .. Len(z) /\ i - 1 < j
            BY <1>11, <1>18, <4>2
          <6>2. j # 1 => z[i - 1] = s[i - 1]
            BY <1>18, <6>1
          <6>3. j # Len(s) /\ ~ (i < j)
            BY <1>11, <1>18, <4>2
          <6> QED
            BY <1>18, <4>2, <6>2, <6>3
        <5>2. next[h] # NULL /\ z[i] = next[h] /\ z[i] \in HSM
          BY <1>11, <1>13, <1>14, <1>15, <5>1
        <5> QED
          BY <1>14, <1>16, <4>2, <5>1, <5>2
      <4>3. CASE i > j
        <5>1. /\ i + 1 \in 1 .. Len(s) /\ z[i] = s[i + 1] /\ i + 1 # j + 1 /\ i # 1 /\ i + 1 # 1
              /\ z[i - 1] = s[i] /\ (i + 1) - 1 = i
          <6>1. i - 1 \in 1 .. Len(z) /\ ~ (i - 1 < j) /\ (i - 1) + 1 = i
            BY <1>11, <1>18, <4>3
          <6>2. z[i - 1] = s[i]
            BY <1>18, <6>1
          <6>3. /\ i + 1 \in 1 .. Len(s) /\ i + 1 # j + 1 /\ i # 1 /\ i + 1 # 1 /\ (i + 1) - 1 = i /\ ~ (i < j)
            BY <1>11, <1>18, <4>3
          <6> QED
            BY <1>18, <6>2, <6>3
        <5>2. prev[s[i + 1]] = s[i]
          BY <1>10, <5>1 DEF IsList
        <5>3. ~ (next[h] # NULL /\ s[i + 1] = next[h])
          BY <1>11, <1>13, <1>14, <1>15, <5>1
        <5> QED
          BY <1>11, <1>16, <5>1, <5>2, <5>3
      <4> QED
        BY <1>11, <4>1, <4>2, <4>3
    <3> QED
      BY <3>1, <3>2
  <2> QED
    BY <2>2, <2>3, <2>4, <2>5, <2>6 DEF IsList
<1> QED
  BY <1>9, <1>17, <1>19 DEF LKeep, Listed

LEMMA ListFrees ==
  ASSUME LInv, NEW t \in Threads, FreeWindow(t)
  PROVE  LKeep'
<1> DEFINE h == Top(t).msg.hsm
           f == [Top(t) EXCEPT !.at = "erase"]
<1>1. /\ stack[t] # <<>> /\ Top(t).at = "free" /\ Moves(t, "erase")
      /\ owner' = [owner EXCEPT ![h] = 0] /\ UNCHANGED <<smallwin_list, next, prev, born>>
  BY DEF FreeWindow, At
<1>2. t = sched /\ Top(t) \in Frame /\ h \in HSM /\ At(t, "free")
  BY <1>1, TopSafe DEF At
<1>3. f \in Frame /\ f.at = "erase" /\ f.msg = Top(t).msg
  BY <1>2 DEF Frame
<1>4. Replaced(t, f) /\ Keeps(t)
  BY <1>1, MovesTop DEF Places, Replaced, LInv, IInv
<1> HIDE DEF f
<1>5. ~ At(t, "free")'
  BY <1>1, <1>2, <1>3, <1>4, AfterReplace DEF LInv, IInv
<1>6. \A u \in Threads : ~ At(u, "free")' /\ (At(u, "free") => u = t)
  BY <1>2, <1>4, <1>5, OthersStay DEF LInv, IInv, Excludes, Holds
<1>7. Live' = Live \ {h}
  BY <1>1, <1>2 DEF Live, LInv, IInv, Typed
<1>8. Linked = Live \ {h}
  BY <1>2, <1>6 DEF Linked
<1>9. Linked' = Linked
  BY <1>6, <1>7, <1>8 DEF Linked
<1>10. Behaved'
  <2>1. Safe(f, Linked', Live')
    BY <1>3 DEF Safe
  <2> QED
    BY <1>1, <1>2, <1>3, <1>4, <1>9, <2>1, BehavedReplace DEF LInv, IInv
<1>11. Aged'
  BY <1>1, <1>2 DEF LInv, IInv, Typed, Aged
<1>12. PICK s \in Seq(HSM) : IsList(s)
  BY DEF LInv, Listed
<1>13. \A i \in 1 .. Len(s) : owner'[s[i]] = owner[s[i]]
  <2> TAKE i \in 1 .. Len(s)
  <2>1. s[i] \in Linked /\ s[i] \in HSM
    BY <1>12 DEF IsList
  <2> QED
    BY <1>1, <1>8, <2>1 DEF LInv, IInv, Typed
<1>14. IsList(s)'
  BY <1>1, <1>9, <1>12, <1>13 DEF IsList
<1> QED
  BY <1>10, <1>11, <1>14 DEF LKeep, Listed

-----------------------------------------------------------------------------

LEMMA InitLInv == ASSUME Init PROVE LInv
<1>1. IInv
  BY InitIInv
<1>2. Aged
  BY DEF Init, Aged
<1>3. Live = {} /\ Linked = {} /\ smallwin_list = NULL
  BY DEF Init, Live, Linked
<1>4. <<>> \in Seq(HSM) /\ Len(<<>>) = 0
  OBVIOUS
<1>5. Listed
  <2>1. IsList(<<>>)
    BY <1>3, <1>4 DEF IsList
  <2> QED
    BY <1>4, <2>1 DEF Listed
<1>6. \A t \in Threads : stack[t] = <<>>
  BY DEF Init
<1>7. Behaved
  BY <1>6, SchedIs DEF Behaved
<1> QED
  BY <1>1, <1>2, <1>5, <1>7 DEF LInv

LEMMA NextLInv == ASSUME OneDestroyer, NobodyRecloses, LInv, [Next]_vars PROVE LInv'
<1>1. IInv'
  BY NextIInv DEF LInv
<1>2. ASSUME PopMessage PROVE LKeep'
  BY <1>2, ListPops
<1>3. ASSUME UNCHANGED vars PROVE LKeep'
  <2>1. Live' = Live /\ Linked' = Linked
    BY <1>3 DEF vars, Live, Linked, At, Top
  <2>2. Aged' /\ Behaved'
    BY <1>3, <2>1 DEF vars, LInv, Aged, Behaved
  <2>3. ASSUME NEW s \in Seq(HSM), IsList(s) PROVE IsList(s)'
    BY <1>3, <2>1, <2>3 DEF vars, IsList
  <2> QED
    BY <2>2, <2>3 DEF LInv, Listed, LKeep
<1>4. ASSUME NEW t \in Threads, Step(t) PROVE LKeep'
  <2>1. CASE ReturnProc(t) \/ RunProc(t)
    BY <2>1, ListMoves
  <2>2. CASE LinkWindow(t)
    BY <2>2, ListLinks
  <2>3. CASE StartWalk(t) \/ Walk(t)
    BY <2>3, ListWalks
  <2>4. CASE UnlinkWindow(t)
    BY <2>4, ListUnlinks
  <2>5. CASE FreeWindow(t)
    BY <2>5, ListFrees
  <2>6. CASE CreateFails(t) \/ PushCreate(t) \/ DefaultNothing(t) \/ EraseWindow(t)
    BY <2>6, ListLeave DEF CreateFails, PushCreate, DefaultNothing, EraseWindow, At
  <2> QED
    BY <1>4, <2>1, <2>2, <2>3, <2>4, <2>5, <2>6 DEF Step
<1>5. ASSUME NEW t \in Threads, CallCreate(t) \/ \E m \in Sendable : SendMessage(t, m) \/ CallExpress(t, m)
      PROVE  LKeep'
  BY <1>5, ListCalls
<1>6. LKeep'
  BY <1>2, <1>3, <1>4, <1>5 DEF Next
<1> QED
  BY <1>1, <1>6 DEF LInv, LKeep

LEMMA Invariant == ASSUME OneDestroyer, NobodyRecloses PROVE Spec => []LInv
BY InitLInv, NextLInv, PTL DEF Spec

(* Every variable has its type: no pointer leaves the windows and NULL,    *)
(* if no client expresses and no procedure recloses.                       *)
THEOREM TypeCorrect == ASSUME OneDestroyer, NobodyRecloses PROVE Spec => []TypeOK
<1>1. LInv => TypeOK
  BY DEF LInv, IInv, Typed, Aged, TypeOK
<1> QED
  BY <1>1, Invariant, PTL

(* A reader of the list without the lock finds it intact at every moment   *)
(* of sm_create_smallwin and sm_destroy_smallwin, if no client expresses   *)
(* and no procedure recloses.                                              *)
THEOREM ListAlwaysSound == ASSUME OneDestroyer, NobodyRecloses PROVE Spec => []ListSound
<1>1. ASSUME LInv PROVE ListSound
  <2>1. PICK s \in Seq(HSM) : IsList(s)
    BY <1>1 DEF LInv, Listed
  <2>2. /\ Len(s) \in Nat
        /\ \A i \in 1 .. Len(s) : s[i] \in HSM /\ s[i] # NULL /\ s[i] \in Live /\ owner[s[i]] \in Int
        /\ \A i, j \in 1 .. Len(s) : s[i] = s[j] => i = j
    BY <1>1, <2>1, InList DEF LInv, IInv
  <2>3. smallwin_list = NULL <=> Linked = {}
    <3>1. CASE Len(s) = 0
      BY <2>1, <3>1 DEF IsList
    <3>2. CASE Len(s) # 0
      <4>1. 1 \in 1 .. Len(s)
        BY <2>2, <3>2
      <4> QED
        BY <2>1, <2>2, <3>2, <4>1 DEF IsList
    <3> QED
      BY <3>1, <3>2
  <2>4. smallwin_list # NULL => smallwin_list \in Linked /\ prev[smallwin_list] = NULL
    <3> SUFFICES ASSUME smallwin_list # NULL
                 PROVE  smallwin_list \in Linked /\ prev[smallwin_list] = NULL
      OBVIOUS
    <3>1. 1 \in 1 .. Len(s) /\ smallwin_list = s[1]
      BY <2>1, <2>2 DEF IsList
    <3> QED
      BY <2>1, <3>1 DEF IsList
  <2>5. ASSUME NEW a \in Linked
        PROVE  /\ next[a] # NULL => next[a] \in Linked /\ prev[next[a]] = a /\ owner[a] < owner[next[a]]
               /\ prev[a] # NULL => prev[a] \in Linked /\ next[prev[a]] = a
               /\ prev[a] = NULL => a = smallwin_list
    <3>1. PICK i \in 1 .. Len(s) : s[i] = a
      BY <2>1 DEF IsList
    <3>2. /\ next[a] = IF i = Len(s) THEN NULL ELSE s[i + 1]
          /\ prev[a] = IF i = 1 THEN NULL ELSE s[i - 1]
      BY <2>1, <3>1 DEF IsList
    <3>3. ASSUME next[a] # NULL
          PROVE  next[a] \in Linked /\ prev[next[a]] = a /\ owner[a] < owner[next[a]]
      <4>1. /\ i # Len(s) /\ next[a] = s[i + 1] /\ i + 1 \in 1 .. Len(s) /\ i < i + 1
            /\ i + 1 # 1 /\ (i + 1) - 1 = i
        BY <2>2, <3>2, <3>3
      <4>2. s[i + 1] \in Linked /\ owner[s[i]] < owner[s[i + 1]]
        BY <2>1, <4>1 DEF IsList
      <4>3. prev[s[i + 1]] = s[(i + 1) - 1]
        BY <2>1, <4>1 DEF IsList
      <4> QED
        BY <3>1, <4>1, <4>2, <4>3
    <3>4. ASSUME prev[a] # NULL PROVE prev[a] \in Linked /\ next[prev[a]] = a
      <4>1. /\ i # 1 /\ prev[a] = s[i - 1] /\ i - 1 \in 1 .. Len(s)
            /\ i - 1 # Len(s) /\ (i - 1) + 1 = i
        BY <2>2, <3>2, <3>4
      <4>2. s[i - 1] \in Linked
        BY <2>1, <4>1 DEF IsList
      <4>3. next[s[i - 1]] = s[(i - 1) + 1]
        BY <2>1, <4>1 DEF IsList
      <4> QED
        BY <3>1, <4>1, <4>2, <4>3
    <3>5. ASSUME prev[a] = NULL PROVE a = smallwin_list
      <4>1. i = 1
        BY <2>2, <3>2, <3>5
      <4>2. Len(s) # 0
        BY <2>2
      <4> QED
        BY <2>1, <3>1, <4>1, <4>2 DEF IsList
    <3> QED
      BY <3>3, <3>4, <3>5
  <2> QED
    BY <2>3, <2>4, <2>5 DEF ListSound
<1> QED
  BY <1>1, Invariant, PTL

(* Neither the walk of sm_is_smallwin nor run_sm nor sm_destroy_smallwin   *)
(* touches a window that was freed, if no client expresses and no          *)
(* procedure recloses.                                                     *)
THEOREM NothingDangles == ASSUME OneDestroyer, NobodyRecloses PROVE Spec => []NoDangling
<1>1. ASSUME LInv PROVE NoDangling
  <2>1. ASSUME NEW t \in Threads, stack[t] # <<>>, Top(t).at \notin {"create", "push"}
        PROVE  Safe(Top(t), Linked, Live)
    BY <1>1, <2>1, TopSafe
  <2>2. Linked \subseteq Live
    BY DEF Linked
  <2> QED
    BY <2>1, <2>2 DEF NoDangling, Safe, At, Closes
<1> QED
  BY <1>1, Invariant, PTL

=============================================================================
