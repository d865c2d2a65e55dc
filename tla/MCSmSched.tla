----------------------------- MODULE MCSmSched -----------------------------
(* Small instances of SmSched: who makes which calls. *)
EXTENDS SmSched, TLC

CONSTANTS c1, c2

Create == [op |-> "create", message |-> SMM_CREATE]

Send(m) == [op |-> "send", message |-> m]

Express(m) == [op |-> "express", message |-> m]

(* In both usages no client expresses, and a procedure that is closing a   *)
(* window does not express SMM_CLOSE to it again.                          *)

(* Two clients create and close windows, and addresses are used again. *)
Sharing ==
  [calls |-> (c1 :> {Create, Send(SMM_CLOSE)}) @@ (c2 :> {Create, Send(SMM_CLOSE)})
               @@ (sched :> {Create, Express(SMM_CLOSE)}),
   reuse |-> TRUE, recloses |-> FALSE]

(* One client and the procedures make every call; addresses are not used again. *)
Lasting ==
  [calls |-> (c1 :> {Create, Send(SMM_CLOSE), Send(SMM_USER)}) @@ (c2 :> {})
               @@ (sched :> {Create, Send(SMM_CLOSE), Send(SMM_USER), Express(SMM_CLOSE), Express(SMM_USER)}),
   reuse |-> FALSE, recloses |-> FALSE]

MCUsages == {Sharing, Lasting}

=============================================================================
