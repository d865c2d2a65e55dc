------------------------------ MODULE Messages ------------------------------
(***************************************************************************)
(* The MESSAGE record of smmsg.h and what the functions of smmsg.c do to a *)
(* collection of messages.  The operators are written over any function    *)
(* from places to messages, so that the slot array of the ring (SmMsg) and *)
(* the sequence of pending messages (MessageFifo, SmSched) share them.     *)
(*                                                                         *)
(* A param stands for the pair (param1, param2), which the queue compares, *)
(* copies and clears together.                                             *)
(***************************************************************************)

CONSTANTS
  HSM,             (* Handles of windows: non-zero addresses.              *)
  Msgs,            (* Message codes the application sends.                 *)
  Params,          (* Parameter pairs.                                     *)
  SK_INVALID_HSM,  (* The null handle, 0.                                  *)
  SMM_INVALIDMSG,  (* The null message code, 0.                            *)
  NoParam          (* The pair (0, 0).                                     *)

ASSUME NullValues ==
  /\ SK_INVALID_HSM \notin HSM
  /\ SMM_INVALIDMSG \notin Msgs
  /\ NoParam \in Params

MESSAGE == [hsm     : HSM \cup {SK_INVALID_HSM},
            message : Msgs \cup {SMM_INVALIDMSG},
            param   : Params]

(* What an erased slot holds: it stays in its place, addressed to nobody. *)
Erased == [hsm |-> SK_INVALID_HSM, message |-> SMM_INVALIDMSG, param |-> NoParam]

EraseMessage(f, h) ==
  [i \in DOMAIN f |-> IF f[i].hsm = h THEN Erased ELSE f[i]]

EraseMessageType(f, h, msg) ==
  [i \in DOMAIN f |-> IF f[i].hsm = h /\ f[i].message = msg THEN Erased ELSE f[i]]

(* Unlike the erasures, invalidation leaves the message with its receiver. *)
InvalidateMessage(f, msg) ==
  [i \in DOMAIN f |-> IF f[i].message = msg
                      THEN [f[i] EXCEPT !.message = SMM_INVALIDMSG, !.param = NoParam]
                      ELSE f[i]]

(* The three kinds of calls that rewrite messages in place. *)
EditOps == {"erase_message", "erase_message_type", "invalidate_message"}

Edited(f, r) ==
  CASE r.op = "erase_message"      -> EraseMessage(f, r.m.hsm)
    [] r.op = "erase_message_type" -> EraseMessageType(f, r.m.hsm, r.m.message)
    [] r.op = "invalidate_message" -> InvalidateMessage(f, r.m.message)

(* The two kinds of calls that search. *)
QueryOps == {"is_message", "is_message_param"}

Found(f, places, r) ==
  CASE r.op = "is_message"       -> \E i \in places : f[i].hsm = r.m.hsm
    [] r.op = "is_message_param" -> \E i \in places : f[i] = r.m

(***************************************************************************)
(* A call: the function and its arguments.  Arguments a function does not  *)
(* have are those of Erased.                                               *)
(***************************************************************************)
Ops == {"send_message", "pop_message"} \cup EditOps \cup QueryOps

Request == [op : Ops, m : MESSAGE]

PopRequest == [op |-> "pop_message", m |-> Erased]

=============================================================================
