------------------------------ MODULE MCSkTask ------------------------------
(* Small instances of SkTask: who makes which calls. *)
EXTENDS SkTask, TLC

CONSTANTS c1, c2

Create == [op : {"create"}, name : Names]

Ending(ops) == [op : ops, name : {Nothing}]

(* One thread creates and ends all tasks, another one waits for them. *)
ManagerAndWaiter == (c1 :> (Create \cup Ending({"destroy"}))) @@ (c2 :> Ending({"wait"}))

MCUsages == {ManagerAndWaiter}

=============================================================================
