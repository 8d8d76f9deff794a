--------------------------- MODULE BoundedExecutor ---------------------------
(***************************************************************************)
(* What the task queue of gView.Server promises to the controllers: every  *)
(* submitted request is executed once, at most Limit of them at a time,    *)
(* and, as long as the server is open, none of them waits for ever.        *)
(* Nothing is said of the order in which waiting requests start.           *)
(***************************************************************************)
EXTENDS Naturals, FiniteSets

CONSTANTS Requests,   \* the calls of AwaitRequest
          Limit       \* how many of them may execute at the same time

VARIABLES status,     \* where each request stands
          open        \* FALSE once the host began to shut down

execVars == <<status, open>>

Executing == {r \in Requests : status[r] = "executing"}

Init == /\ status = [r \in Requests |-> "new"]
        /\ open = TRUE

Submit(r) == /\ status[r] = "new"
             /\ status' = [status EXCEPT ![r] = "waiting"]
             /\ UNCHANGED open

Start(r) == /\ status[r] = "waiting"
            /\ Cardinality(Executing) < Limit
            /\ status' = [status EXCEPT ![r] = "executing"]
            /\ UNCHANGED open

Finish(r) == /\ status[r] = "executing"
             /\ status' = [status EXCEPT ![r] = "finished"]
             /\ UNCHANGED open

Close == /\ open
         /\ open' = FALSE
         /\ UNCHANGED status

Next == Close \/ \E r \in Requests : Submit(r) \/ Start(r) \/ Finish(r)

Safety == Init /\ [][Next]_execVars

(* An open executor starts whatever it could start for ever, and whatever  *)
(* it started comes to an end.                                             *)
Fairness == \A r \in Requests : /\ WF_execVars(open /\ Start(r))
                                /\ WF_execVars(Finish(r))

Spec == Safety /\ Fairness
==============================================================================
