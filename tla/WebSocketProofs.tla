-------------------------- MODULE WebSocketProofs --------------------------
(***************************************************************************)
(* The tasks of the websocket manager end within their attempts.           *)
(***************************************************************************)
EXTENDS WebSocketManager, TLAPS

(* A task that waits has begun an attempt that it may make: the loop       *)
(* variable passes the limit only in the step that ends the task.          *)
WithinAttempts ==
    \A e \in Endpoints :
        tpc[e] \in {"connecting", "open", "sleeping"} => attempt[e] <= MaxAttempts

ManagerInd == TypeOK /\ WithinAttempts

LEMMA InitHolds == Init => ManagerInd
  <1> SUFFICES ASSUME Init PROVE ManagerInd
    OBVIOUS
  <1>1. 1 \in 1..(MaxAttempts + 1)
    BY AttemptsAssumption
  <1>2. TypeOK
    BY <1>1 DEF Init, TypeOK, Tasks
  <1>3. WithinAttempts
    BY DEF Init, WithinAttempts
  <1> QED
    BY <1>2, <1>3 DEF ManagerInd

(* The head of the loop makes an attempt only when one is left.            *)
LEMMA TryStep ==
    ASSUME ManagerInd, NEW e \in Endpoints, NEW n \in 1..(MaxAttempts + 1), Try(e, n)
    PROVE  /\ attempt' \in [Endpoints -> 1..(MaxAttempts + 1)]
           /\ tpc' \in [Endpoints -> Tasks]
           /\ WithinAttempts'
  <1>1. attempt' = [attempt EXCEPT ![e] = n]
    BY DEF Try
  <1>2. CASE MayTry(n) /\ tpc' = [tpc EXCEPT ![e] = "connecting"]
    BY <1>1, <1>2, AttemptsAssumption
    DEF MayTry, ManagerInd, TypeOK, Tasks, Ended, WithinAttempts
  <1>3. CASE tpc' = [tpc EXCEPT ![e] = "returned"]
    BY <1>1, <1>3, AttemptsAssumption DEF ManagerInd, TypeOK, Tasks, Ended, WithinAttempts
  <1> QED
    BY <1>2, <1>3 DEF Try

(* A step of a task, or the end of its cancellation.                       *)
LEMMA TaskStepHolds ==
    ASSUME ManagerInd, NEW e \in Endpoints, TaskStep(e) \/ CancelEnds(e)
    PROVE  ManagerInd'
  <1>1. CASE Begins(e)
    <2>1. 1 \in 1..(MaxAttempts + 1)
      BY AttemptsAssumption
    <2> QED
      BY <1>1, <2>1, TryStep DEF Begins, ManagerInd, TypeOK
  <1>2. CASE Closes(e) \/ Wakes(e)
    <2>1. attempt[e] + 1 \in 1..(MaxAttempts + 1)
      BY <1>2, AttemptsAssumption DEF Closes, Wakes, ManagerInd, TypeOK, WithinAttempts
    <2> QED
      BY <1>2, <2>1, TryStep DEF Closes, Wakes, ManagerInd, TypeOK
  <1>3. CASE Opens(e) \/ Fails(e) \/ Dies(e)
    BY <1>3 DEF Opens, Fails, Dies, ManagerInd, TypeOK, Tasks, Ended, WithinAttempts
  <1>4. CASE CancelEnds(e)
    BY <1>4 DEF CancelEnds, ManagerInd, TypeOK, Tasks, Ended, WithinAttempts
  <1> QED
    BY <1>1, <1>2, <1>3, <1>4 DEF TaskStep

LEMMA NextHolds == ManagerInd /\ [Next]_vars => ManagerInd'
  <1> SUFFICES ASSUME ManagerInd, [Next]_vars PROVE ManagerInd'
    OBVIOUS
  <1>1. CASE \E e \in Endpoints : TaskStep(e) \/ CancelEnds(e)
    BY <1>1, TaskStepHolds
  <1>2. CASE Start
    BY <1>2, AttemptsAssumption
    DEF Start, ManagerInd, TypeOK, Tasks, Ended, WithinAttempts
  <1>3. CASE Stop \/ StopReturns
    BY <1>3 DEF Stop, StopReturns, ManagerInd, TypeOK, WithinAttempts
  <1>4. CASE \E e \in Endpoints, r \in {"serves", "fails", "rejects"} : RemoteBecomes(e, r)
    BY <1>4 DEF RemoteBecomes, ManagerInd, TypeOK, WithinAttempts
  <1>5. CASE UNCHANGED vars
    BY <1>5 DEF vars, ManagerInd, TypeOK, WithinAttempts
  <1> QED
    BY <1>1, <1>2, <1>3, <1>4, <1>5 DEF Next

(* The inductive invariant of the manager holds always.                    *)
THEOREM ManagerInvariance == Spec => []ManagerInd
  BY InitHolds, NextHolds, PTL DEF Spec

(* The loop variable of a task never passes the attempt that ends it, for  *)
(* any number of endpoints and attempts (lines 45-47).                     *)
THEOREM TypeCorrect == Spec => []TypeOK
  <1>1. ManagerInd => TypeOK
    BY DEF ManagerInd
  <1> QED
    BY <1>1, ManagerInvariance, PTL
=============================================================================
