------------------------------ MODULE MCSmTick ------------------------------
(* Small instances of SmTick: a u32 has eight values, a scan takes two.    *)
EXTENDS SmTick, TLC

CONSTANTS c1, c2

MCParams == (0 .. SMALLWIN_NTICKS) \X (0 .. Word - 1)

MCNoParam == <<0, 0>>

Set(periods, param2s) == [op : {"set"}, n100msec : periods, param2 : param2s]

Send == [op |-> "send", n100msec |-> 0, param2 |-> 0]

Destroy == [op |-> "destroy", n100msec |-> 0, param2 |-> 0]

(* Periods that are met between two scans and that overflow; nobody        *)
(* destroys a timer.                                                       *)
Setters == (c1 :> (Set({3, 7}, {0}) \cup {Send})) @@ (c2 :> Set({3, 7}, {0}))

(* A period of zero and a param2 too, and a thread that destroys timers.   *)
Destroyers == (c1 :> (Set({0, 3}, {0}) \cup Set({3}, {5}) \cup {Send})) @@ (c2 :> (Set({3}, {0}) \cup {Destroy}))

MCUsages == {Setters, Destroyers}
=============================================================================
