----------------------------- MODULE MCSkEvent -----------------------------
(* Small instances of SkEvent. *)
EXTENDS SkEvent, TLC

CONSTANTS u1, u2, u3, u4

Plain(op) == [op |-> op, is_not_auto_reset |-> FALSE, infinity |-> TRUE]

(* Waits that reset the event, with and without a deadline, and the rest. *)
AutoReset ==
  {Plain("set"), Plain("reset"), Plain("wait"), [Plain("wait") EXCEPT !.infinity = FALSE]}

(* Waits that leave it set. *)
ManualReset == {Plain("set"), [Plain("wait") EXCEPT !.is_not_auto_reset = TRUE]}

(* Both kinds. *)
AllCalls == AutoReset \cup ManualReset

Symmetric == Permutations(Users)

=============================================================================
