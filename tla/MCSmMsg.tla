------------------------------ MODULE MCSmMsg ------------------------------
(* Small instances of SmMsg: two windows, one message code, and calls that  *)
(* collide on them.                                                        *)
EXTENDS SmMsg, TLC

CONSTANTS h1, h2, m1

M(h, msg) == [hsm |-> h, message |-> msg, param |-> NoParam]

(* Free slots may hold anything, a look-alike of a real message included. *)
MCGarbage == {M(h1, m1)}

(* Sends that compete for the last slot, all the edits and a search.       *)
SafetyRequests ==
  [op : {"send_message"}, m : {M(h1, m1), M(h2, m1)}]
  \cup [op : {"erase_message"}, m : {M(h1, SMM_INVALIDMSG)}]
  \cup [op : {"erase_message_type"}, m : {M(h2, m1)}]
  \cup [op : {"invalidate_message"}, m : {M(SK_INVALID_HSM, m1)}]
  \cup [op : {"is_message_param"}, m : {M(h2, m1)}]

(* Calls that take each way out of the functions: a send that may be       *)
(* refused, a send to no window, an edit, searches with and without lock.  *)
LiveRequests ==
  [op : {"send_message"}, m : {M(h1, m1), M(SK_INVALID_HSM, m1)}]
  \cup [op : {"erase_message"}, m : {M(h1, SMM_INVALIDMSG)}]
  \cup [op : {"is_message"}, m : {M(h1, SMM_INVALIDMSG), Erased}]

(* Threads of one kind are alike; only safety is checked under symmetry. *)
Symmetric == Permutations(Clients) \cup Permutations(Schedulers)

=============================================================================
