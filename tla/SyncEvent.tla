----------------------------- MODULE SyncEvent -----------------------------
(***************************************************************************)
(* What sk_os.h promises of an event: threads wait until it is set or      *)
(* their time is up; whoever got it resets it, unless asked not to.  Each  *)
(* call takes effect in one step.  SkEvent is the code.                    *)
(***************************************************************************)
EXTENDS Integers

CONSTANTS
  Users,      (* Threads.                                                  *)
  Calls,      (* The calls they make.                                      *)
  Idle        (* No call under way.                                        *)

VARIABLES
  state,      (* 1 if the event is set.                                    *)
  call,       (* The call each thread has under way, or Idle.              *)
  status      (* Its status code, "unknown" until it took effect.          *)

vars == <<state, call, status>>

Init ==
  /\ state \in {0, 1}
  /\ call = [t \in Users |-> Idle]
  /\ status = [t \in Users |-> "unknown"]

Invoke(t, r) ==
  /\ call[t] = Idle
  /\ call' = [call EXCEPT ![t] = r]
  /\ UNCHANGED <<state, status>>

Running(t, op) ==
  call[t] # Idle /\ call[t].op = op /\ status[t] = "unknown"

Ends(t, s) ==
  /\ status' = [status EXCEPT ![t] = s]
  /\ UNCHANGED call

Set(t) ==
  /\ Running(t, "set")
  /\ state' = 1
  /\ Ends(t, "success")

Reset(t) ==
  /\ Running(t, "reset")
  /\ state' = 0
  /\ Ends(t, "success")

Get(t) ==
  /\ Running(t, "wait")
  /\ state = 1
  /\ state' = IF call[t].is_not_auto_reset THEN 1 ELSE 0
  /\ Ends(t, "success")

GiveUp(t) ==
  /\ Running(t, "wait")
  /\ ~ call[t].infinity
  /\ Ends(t, "timeout")
  /\ UNCHANGED state

Return(t) ==
  /\ status[t] # "unknown"
  /\ call' = [call EXCEPT ![t] = Idle]
  /\ status' = [status EXCEPT ![t] = "unknown"]
  /\ UNCHANGED state

Next ==
  \E t \in Users :
    \/ \E r \in Calls : Invoke(t, r)
    \/ Set(t) \/ Reset(t) \/ Get(t) \/ GiveUp(t) \/ Return(t)

Spec == Init /\ [][Next]_vars

=============================================================================
