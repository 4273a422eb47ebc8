---------------------------- MODULE TaskOutcome ----------------------------
(***************************************************************************)
(* What the lead agent is promised about the subagents it delegates to:    *)
(* the outcome of a task is decided once and stays, and a call of the task *)
(* tool answers with the outcome of its own task, or openly without one.   *)
(***************************************************************************)
CONSTANTS
    Task,
    Outcome,   \* how a task can end
    Excuse     \* what an answer without an outcome says

VARIABLES
    outcome,   \* per task, how it ended, or "open"
    answer     \* per task, what the call answered, or "none"

vars == <<outcome, answer>>

Init ==
    /\ outcome = [t \in Task |-> "open"]
    /\ answer = [t \in Task |-> "none"]

Decide(t) ==
    /\ outcome[t] = "open"
    /\ \E o \in Outcome : outcome' = [outcome EXCEPT ![t] = o]
    /\ UNCHANGED answer

Answer(t) ==
    /\ answer[t] = "none" /\ outcome[t] # "open"
    /\ answer' = [answer EXCEPT ![t] = outcome[t]]
    /\ UNCHANGED outcome

\* The call stops waiting: it was itself cancelled, or out of patience.
Abandon(t) ==
    /\ answer[t] = "none"
    /\ \E x \in Excuse : answer' = [answer EXCEPT ![t] = x]
    /\ UNCHANGED outcome

Next == \E t \in Task : Decide(t) \/ Answer(t) \/ Abandon(t)

Spec == Init /\ [][Next]_vars
=============================================================================
