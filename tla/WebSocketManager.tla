-------------------------- MODULE WebSocketManager --------------------------
(***************************************************************************)
(* infrastructure/websocket/manager.py: one task per endpoint connects,    *)
(* reads log notifications until the connection ends, and tries again, at  *)
(* most MaxAttempts times in its life.                                     *)
(***************************************************************************)
EXTENDS Naturals

CONSTANTS Endpoints,
          MaxAttempts    \* max_reconnect_attempts: 10 in config/settings.yaml

ASSUME AttemptsAssumption == MaxAttempts \in Nat \ {0}

VARIABLES
    phase,      \* how far start() and stop() of the manager are
    tpc,        \* where each endpoint's task is suspended, or how it ended
    attempt,    \* its loop variable
    connected,  \* the flag the tasks share
    remote      \* what an endpoint does with a connection

vars == <<phase, tpc, attempt, connected, remote>>

Ended == {"returned", "died", "cancelled"}
Tasks == {"none", "ready", "connecting", "open", "sleeping"} \cup Ended

(* The types of the variables: the loop variable never passes the attempt  *)
(* that ends the task.                                                     *)
TypeOK ==
    /\ phase \in {"new", "running", "stopping", "stopped"}
    /\ tpc \in [Endpoints -> Tasks]
    /\ attempt \in [Endpoints -> 1..(MaxAttempts + 1)]
    /\ connected \in BOOLEAN
    /\ remote \in [Endpoints -> {"serves", "fails", "rejects"}]

Init ==
    /\ phase = "new"
    /\ tpc = [e \in Endpoints |-> "none"]
    /\ attempt = [e \in Endpoints |-> 1]
    /\ connected = FALSE
    /\ remote \in [Endpoints -> {"serves", "fails", "rejects"}]

-----------------------------------------------------------------------------

Start ==
    /\ phase = "new" /\ phase' = "running"
    /\ tpc' = [e \in Endpoints |-> "ready"]
    /\ UNCHANGED <<attempt, connected, remote>>

MayTry(n) == phase = "running" /\ n <= MaxAttempts

(* The head of the loop, as attempt n.                                     *)
Try(e, n) ==
    /\ attempt' = [attempt EXCEPT ![e] = n]
    /\ \/ MayTry(n) /\ tpc' = [tpc EXCEPT ![e] = "connecting"]
       \/ ~MayTry(n) /\ tpc' = [tpc EXCEPT ![e] = "returned"]

Begins(e) ==
    /\ tpc[e] = "ready" /\ phase = "running"
    /\ Try(e, 1)
    /\ UNCHANGED <<phase, connected, remote>>

Opens(e) ==
    /\ tpc[e] = "connecting" /\ phase = "running" /\ remote[e] = "serves"
    /\ tpc' = [tpc EXCEPT ![e] = "open"]
    /\ connected' = TRUE
    /\ UNCHANGED <<phase, attempt, remote>>

(* Refused, timed out, broken off, or a message that is not JSON.          *)
Fails(e) ==
    /\ \/ tpc[e] = "connecting" /\ remote[e] = "fails"
       \/ tpc[e] = "open"
    /\ phase = "running"
    /\ tpc' = [tpc EXCEPT ![e] = "sleeping"]
    /\ connected' = FALSE
    /\ UNCHANGED <<phase, attempt, remote>>

(* A handshake answered with an HTTP error, or a notification without the  *)
(* lists and objects the parser expects, raises none of the exceptions     *)
(* that line 56 names, and ends the task.                                  *)
Dies(e) ==
    /\ tpc[e] \in {"connecting", "open"} /\ phase = "running" /\ remote[e] = "rejects"
    /\ tpc' = [tpc EXCEPT ![e] = "died"]
    /\ UNCHANGED <<phase, attempt, connected, remote>>

(* Mutant: the loop is left when the server closes the connection.         *)
ClosesFinally(e) ==
    /\ tpc[e] = "open" /\ phase = "running"
    /\ tpc' = [tpc EXCEPT ![e] = "returned"]
    /\ UNCHANGED <<phase, attempt, connected, remote>>

(* A close in good order ends the iteration over messages, and the next    *)
(* attempt follows at once.                                                *)
Closes(e) ==
    /\ tpc[e] = "open" /\ phase = "running"
    /\ Try(e, attempt[e] + 1)
    /\ UNCHANGED <<phase, connected, remote>>

Wakes(e) ==
    /\ tpc[e] = "sleeping" /\ phase = "running"
    /\ Try(e, attempt[e] + 1)
    /\ UNCHANGED <<phase, connected, remote>>

Stop ==
    /\ phase = "running" /\ phase' = "stopping"
    /\ UNCHANGED <<tpc, attempt, connected, remote>>

CancelEnds(e) ==
    /\ phase = "stopping" /\ tpc[e] \notin Ended
    /\ tpc' = [tpc EXCEPT ![e] = "cancelled"]
    /\ UNCHANGED <<phase, attempt, connected, remote>>

(* stop() gathers the tasks that it has cancelled.                         *)
StopReturns ==
    /\ phase = "stopping" /\ \A e \in Endpoints : tpc[e] \in Ended
    /\ phase' = "stopped" /\ connected' = FALSE
    /\ UNCHANGED <<tpc, attempt, remote>>

RemoteBecomes(e, r) ==
    /\ remote[e] # r /\ remote' = [remote EXCEPT ![e] = r]
    /\ UNCHANGED <<phase, tpc, attempt, connected>>

-----------------------------------------------------------------------------

TaskStep(e) == Begins(e) \/ Opens(e) \/ Fails(e) \/ Dies(e) \/ Closes(e) \/ Wakes(e)

Next ==
    \/ Start \/ Stop \/ StopReturns
    \/ \E e \in Endpoints : TaskStep(e) \/ CancelEnds(e)
    \/ \E e \in Endpoints, r \in {"serves", "fails", "rejects"} : RemoteBecomes(e, r)

Spec == Init /\ [][Next]_vars

(* Attempts to connect have an outcome, sleeps end and cancelled tasks too;*)
(* an open connection may stay open for ever.                              *)
Fairness ==
    /\ \A e \in Endpoints :
          /\ WF_vars(Begins(e) \/ Wakes(e) \/ (tpc[e] = "connecting" /\ TaskStep(e)))
          /\ WF_vars(CancelEnds(e))
    /\ WF_vars(StopReturns)

FairSpec == Spec /\ Fairness

-----------------------------------------------------------------------------
(* Properties *)

Served(e) == phase = "running" /\ remote[e] = "serves"

(* "Auto-reconnecting" (manager.py:1): while the manager runs, a task whose*)
(* endpoint serves from some moment on is connected again and again or for *)
(* good, whatever failed, was refused or was closed before or since.  Two  *)
(* things alone end it: it has used up its attempts, of which connections  *)
(* that worked cost one each (line 45), or it has died of an exception     *)
(* that line 56 does not name.                                             *)
RetriesFailures ==
    \A e \in Endpoints :
        <>[]Served(e) => \/ []<>(tpc[e] = "open")
                         \/ <>[](tpc[e] = "returned" /\ attempt[e] > MaxAttempts)
                         \/ <>[](tpc[e] = "died")
=============================================================================
