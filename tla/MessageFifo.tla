---------------------------- MODULE MessageFifo ----------------------------
(***************************************************************************)
(* What the SmallWin message queue promises: a first-in first-out queue of *)
(* at most nqueue messages on which every call takes effect in one         *)
(* indivisible step, somewhere between its start and its return.           *)
(*                                                                         *)
(*   - a send to a valid window appends the message, or is refused if      *)
(*     nqueue messages are pending; a send to no window does nothing;      *)
(*   - a pop waits for a message and takes the oldest;                     *)
(*   - an erasure blanks messages in place: they keep their turn and their *)
(*     share of the capacity;                                              *)
(*   - a query sees exactly the pending messages.                          *)
(*                                                                         *)
(* This is the contract that users of the queue rely on; SmMsg is the code *)
(* and implements it.                                                      *)
(***************************************************************************)
EXTENDS Integers, Sequences, Messages

CONSTANTS
  Clients,      (* Threads that call everything but pop_message.           *)
  Schedulers,   (* Threads that call pop_message.                          *)
  Requests,     (* The calls the clients make.                             *)
  nqueue,       (* The capacity.                                           *)
  Idle          (* No call under way.                                      *)

VARIABLES
  fifo,          (* The pending messages, oldest first.                    *)
  call,          (* The call each thread has under way, or Idle.           *)
  return_value,  (* The result of that call, Unknown until it took effect. *)
  out            (* The message a pop handed over.                         *)

vars == <<fifo, call, return_value, out>>

Threads == Clients \cup Schedulers

Unknown == -1

Init ==
  /\ fifo = <<>>
  /\ call = [t \in Threads |-> Idle]
  /\ return_value = [t \in Threads |-> Unknown]
  /\ out = [t \in Threads |-> Erased]

Invoke(t, r) ==
  /\ call[t] = Idle
  /\ call' = [call EXCEPT ![t] = r]
  /\ UNCHANGED <<fifo, return_value, out>>

(* t's call is of one of the kinds ops, and has not taken effect. *)
Running(t, ops) ==
  /\ call[t] # Idle
  /\ call[t].op \in ops
  /\ return_value[t] = Unknown

Replies(t, value) ==
  /\ return_value' = [return_value EXCEPT ![t] = value]
  /\ UNCHANGED call

Put(t) ==
  /\ Running(t, {"send_message"})
  /\ call[t].m.hsm # SK_INVALID_HSM
  /\ Len(fifo) < nqueue
  /\ fifo' = Append(fifo, call[t].m)
  /\ Replies(t, 1)
  /\ UNCHANGED out

Refuse(t) ==
  /\ Running(t, {"send_message"})
  /\ call[t].m.hsm = SK_INVALID_HSM \/ Len(fifo) = nqueue
  /\ Replies(t, 0)
  /\ UNCHANGED <<fifo, out>>

Take(t) ==
  /\ Running(t, {"pop_message"})
  /\ fifo # <<>>
  /\ fifo' = Tail(fifo)
  /\ out' = [out EXCEPT ![t] = Head(fifo)]
  /\ Replies(t, 1)

Edit(t) ==
  /\ Running(t, EditOps)
  /\ fifo' = Edited(fifo, call[t])
  /\ Replies(t, 1)
  /\ UNCHANGED out

Query(t) ==
  /\ Running(t, QueryOps)
  /\ LET r == call[t]
         found == Found(fifo, DOMAIN fifo, r)
     IN Replies(t, IF found /\ (r.op = "is_message" => r.m.hsm # SK_INVALID_HSM)
                   THEN 1 ELSE 0)
  /\ UNCHANGED <<fifo, out>>

Return(t) ==
  /\ return_value[t] # Unknown
  /\ call' = [call EXCEPT ![t] = Idle]
  /\ return_value' = [return_value EXCEPT ![t] = Unknown]
  /\ out' = [out EXCEPT ![t] = Erased]
  /\ UNCHANGED fifo

Next ==
  \/ \E t \in Clients, r \in Requests : Invoke(t, r)
  \/ \E t \in Schedulers : Invoke(t, PopRequest)
  \/ \E t \in Threads : Put(t) \/ Refuse(t) \/ Take(t) \/ Edit(t) \/ Query(t) \/ Return(t)

Spec == Init /\ [][Next]_vars

=============================================================================
