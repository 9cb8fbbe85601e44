----------------------------- MODULE TaskPromise -----------------------------
(***************************************************************************)
(* What Task.h promises to the author of a task (the comment at its head   *)
(* and those of Run, GetEvents and fInRunCount), with no queues, heaps,    *)
(* threads or kAlive bit: a signalled task is scheduled, its Run is never  *)
(* entered twice, GetEvents hands over the events sent, and a task goes    *)
(* back to rest only when nothing is pending on it.                        *)
(***************************************************************************)
CONSTANTS Tasks, Events, kIdleEvent

VARIABLES
  phase,     \* "none", "rest", "scheduled", "running" or "deleted"
  pending    \* the events sent and not yet returned by GetEvents

promiseVars == <<phase, pending>>

Init ==
  /\ phase = [t \in Tasks |-> "none"]
  /\ pending = [t \in Tasks |-> {}]

Create(t) ==
  /\ phase[t] = "none"
  /\ phase' = [phase EXCEPT ![t] = "rest"]
  /\ UNCHANGED pending

(* "Once Signal() is called, the task object will be scheduled."           *)
Signal(t, E) ==
  /\ phase[t] # "none"
  /\ phase' = [phase EXCEPT ![t] = IF @ = "rest" THEN "scheduled" ELSE @]
  /\ pending' = [pending EXCEPT ![t] = @ \cup E]

(* "When it runs, its Run() function will get called."                     *)
Begin(t) ==
  /\ phase[t] = "scheduled"
  /\ phase' = [phase EXCEPT ![t] = "running"]
  /\ UNCHANGED pending

(* GetEvents "returns the events that were sent" and clears them; an event *)
(* may be sent between its reading and its clearing of the mask.           *)
GetEvents(t, E) ==
  /\ phase[t] = "running"
  /\ E \subseteq pending[t]
  /\ pending' = [pending EXCEPT ![t] = @ \ E]
  /\ UNCHANGED phase

(* "All events must be cleared before the Run() function returns, or Run() *)
(* will be invoked again immediately."                                     *)
Rest(t) ==
  /\ phase[t] = "running"
  /\ pending[t] = {}
  /\ phase' = [phase EXCEPT ![t] = "rest"]
  /\ UNCHANGED pending

(* ">0-> invoke me after this number of MilSecs with a kIdleEvent"         *)
Sleep(t) ==
  /\ phase[t] = "running"
  /\ phase' = [phase EXCEPT ![t] = "scheduled"]
  /\ UNCHANGED pending

Idle(t) ==
  /\ phase[t] = "scheduled"
  /\ pending' = [pending EXCEPT ![t] = @ \cup {kIdleEvent}]
  /\ UNCHANGED phase

(* "-1 delete me"                                                          *)
Delete(t) ==
  /\ phase[t] = "running"
  /\ phase' = [phase EXCEPT ![t] = "deleted"]
  /\ UNCHANGED pending

Free(t) ==
  /\ phase[t] = "deleted"
  /\ phase' = [phase EXCEPT ![t] = "none"]
  /\ pending' = [pending EXCEPT ![t] = {}]

Next ==
  \E t \in Tasks :
    \/ Create(t) \/ Begin(t) \/ Rest(t) \/ Sleep(t) \/ Idle(t) \/ Delete(t) \/ Free(t)
    \/ \E E \in SUBSET Events : Signal(t, E)
    \/ \E E \in SUBSET (Events \cup {kIdleEvent}) : GetEvents(t, E)

Spec == Init /\ [][Next]_promiseVars
=============================================================================
