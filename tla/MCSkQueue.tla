----------------------------- MODULE MCSkQueue -----------------------------
(* Small instances of SkQueue: who calls what. *)
EXTENDS SkQueue, TLC

CONSTANTS u1, u2, u3, x, y

Sends(messages, timeouts) == [op : {"send"}, msg : messages, timeout : timeouts]

Receives(timeouts) == [op : {"receive"}, msg : {Blank}, timeout : timeouts]

Every == {"immediate", "delay", "infinity"}

(* The only receiver may wait; of the senders none does. *)
FanIn == (u1 :> Receives(Every)) @@ (u2 :> Sends({x}, {"immediate"})) @@ (u3 :> Sends({y}, {"immediate"}))

(* The only sender may wait; of the receivers none does. *)
FanOut == (u1 :> Sends({x}, Every)) @@ (u2 :> Receives({"immediate"})) @@ (u3 :> Receives({"immediate"}))

(* One thread on each side, and both may wait. *)
Pair == (u1 :> Sends({x, y}, Every)) @@ (u2 :> Receives(Every)) @@ (u3 :> {})

OneWaiterASide == {FanIn, FanOut, Pair}

(* Two senders that wait, as long as it takes, and a receiver. *)
TwoWaiters ==
  {(u1 :> Sends({x}, {"infinity"})) @@ (u2 :> Sends({x}, {"infinity"})) @@ (u3 :> Receives({"infinity"}))}

=============================================================================
