---------------------------- MODULE BoundedQueue ----------------------------
(***************************************************************************)
(* What sk_os.h promises of an OS message queue: a first-in first-out      *)
(* queue of at most max_msg_count messages.  A call that cannot proceed    *)
(* waits as long as its timeout allows; a call takes effect in one step.   *)
(* SkQueue is the code.                                                    *)
(***************************************************************************)
EXTENDS Integers, Sequences

CONSTANTS
  Users,           (* Threads that send and receive.                       *)
  Request,         (* The calls they make.                                 *)
  max_msg_count,
  Idle,            (* No call under way.                                   *)
  Blank            (* No message.                                          *)

VARIABLES
  items,           (* The messages in the queue, oldest first.             *)
  open,            (* Has it not been destroyed?                           *)
  call,            (* The call each thread has under way, or Idle.         *)
  status,          (* Its status code, "unknown" until it took effect.     *)
  got              (* The message it received.                             *)

vars == <<items, open, call, status, got>>

Init ==
  /\ items = <<>>
  /\ open = TRUE
  /\ call = [t \in Users |-> Idle]
  /\ status = [t \in Users |-> "unknown"]
  /\ got = [t \in Users |-> Blank]

Invoke(t, r) ==
  /\ call[t] = Idle
  /\ call' = [call EXCEPT ![t] = r]
  /\ UNCHANGED <<items, open, status, got>>

Running(t, op) ==
  call[t] # Idle /\ call[t].op = op /\ status[t] = "unknown"

Ends(t, s) ==
  /\ status' = [status EXCEPT ![t] = s]
  /\ UNCHANGED call

Send(t) ==
  /\ Running(t, "send")
  /\ Len(items) < max_msg_count
  /\ items' = Append(items, call[t].msg)
  /\ Ends(t, "success")
  /\ UNCHANGED <<open, got>>

Receive(t) ==
  /\ Running(t, "receive")
  /\ items # <<>>
  /\ items' = Tail(items)
  /\ got' = [got EXCEPT ![t] = Head(items)]
  /\ Ends(t, "success")
  /\ UNCHANGED open

(* An immediate call gives up only where it cannot proceed; one with a     *)
(* delay may have waited and find things changed; an infinite one gives up *)
(* when the queue is destroyed.                                            *)
GiveUp(t) ==
  /\ \/ Running(t, "send") /\ Len(items) = max_msg_count
     \/ Running(t, "receive") /\ items = <<>>
     \/ call[t] # Idle /\ status[t] = "unknown" /\ call[t].timeout # "immediate"
  /\ call[t].timeout = "infinity" => ~ open
  /\ Ends(t, "timeout")
  /\ UNCHANGED <<items, open, got>>

Refuse(t) ==
  /\ ~ open
  /\ Running(t, "send") \/ Running(t, "receive")
  /\ Ends(t, "bad_parameter")
  /\ UNCHANGED <<items, open, got>>

Return(t) ==
  /\ status[t] # "unknown"
  /\ call' = [call EXCEPT ![t] = Idle]
  /\ status' = [status EXCEPT ![t] = "unknown"]
  /\ got' = [got EXCEPT ![t] = Blank]
  /\ UNCHANGED <<items, open>>

Destroy ==
  /\ open
  /\ open' = FALSE
  /\ UNCHANGED <<items, call, status, got>>

Next ==
  \/ \E t \in Users :
       \/ \E r \in Request : Invoke(t, r)
       \/ Send(t) \/ Receive(t) \/ GiveUp(t) \/ Refuse(t) \/ Return(t)
  \/ Destroy

Spec == Init /\ [][Next]_vars

=============================================================================
