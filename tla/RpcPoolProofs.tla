--------------------------- MODULE RpcPoolProofs ---------------------------
(***************************************************************************)
(* The pool's inductive invariant, for any endpoints, priorities and       *)
(* number of overlapping calls.  PoolInd is inductive as it stands: a      *)
(* request that has failed but has not returned names a server that has    *)
(* been down, so the step that counts it never blames another.             *)
(***************************************************************************)
EXTENDS RpcPool, TLAPS

USE DEF Limit, Closed, Servers

LEMMA PoolInitHolds == PoolInit => PoolInd
  <1> SUFFICES ASSUME PoolInit PROVE PoolInd
    OBVIOUS
  <1>1. server \in [Endpoints -> Servers]
    BY DEF PoolInit
  <1>2. PoolTypeOK
    <2>1. 0 \in 0..Limit
      OBVIOUS
    <2>2. /\ healthy \in [Endpoints -> BOOLEAN]
          /\ failures \in [Endpoints -> 0..Limit]
          /\ cto \in [Calls -> Endpoints \cup {None}]
      BY <2>1 DEF PoolInit
    <2>3. /\ check \in [Endpoints -> {"none", "sent", "ok", "failed"}]
          /\ cpc \in [Calls -> {"idle", "sent", "ok", "error", "garbled", "failed"}]
          /\ wentDown \subseteq Endpoints
      BY DEF PoolInit
    <2> QED
      BY <1>1, <2>2, <2>3 DEF PoolInit, PoolTypeOK
  <1>3. NoFalseAlarm
    BY DEF PoolInit, NoFalseAlarm
  <1> QED
    BY <1>2, <1>3, EndpointsAssumption DEF PoolInit, PoolInd

(* What is selected is an endpoint of the pool.                            *)
LEMMA SelectableEndpoints == Selectable \subseteq Endpoints
  BY DEF Selectable, AtPosition, Healthy

LEMMA OneMoreRange ==
    ASSUME NEW e \in Endpoints, failures[e] \in 0..Limit
    PROVE  OneMore(e) \in 0..Limit
  BY DEF OneMore

(* The except clause keeps a healthy endpoint's count below the limit.     *)
LEMMA BlameEffect ==
    ASSUME PoolInd, NEW e \in Endpoints, NEW n \in 0..Limit, Blame(e, n)
    PROVE  /\ healthy' \in [Endpoints -> BOOLEAN]
           /\ failures' \in [Endpoints -> 0..Limit]
           /\ failures'[e] = n
           /\ n = 1 => healthy'[e]
           /\ \A f \in Endpoints : healthy'[f] => failures'[f] < Limit
           /\ \A f \in Endpoints \ {e} : healthy'[f] = healthy[f] /\ failures'[f] = failures[f]
  <1>1. (n < Limit) \in BOOLEAN
    OBVIOUS
  <1>2. \A f \in Endpoints : healthy[f] => failures[f] < Limit
    BY DEF PoolInd
  <1>3. (healthy'[e] <=> n < Limit) /\ failures'[e] = n
    BY DEF Blame, PoolInd, PoolTypeOK
  <1>4. \A f \in Endpoints \ {e} : healthy'[f] = healthy[f] /\ failures'[f] = failures[f]
    BY DEF Blame, PoolInd, PoolTypeOK
  <1>5. \A f \in Endpoints : healthy'[f] => failures'[f] < Limit
    BY <1>2, <1>3, <1>4
  <1>6. n = 1 => healthy'[e]
    <2>1. n = 1 => n < Limit
      OBVIOUS
    <2> QED
      BY <1>3, <2>1
  <1>7. healthy' \in [Endpoints -> BOOLEAN] /\ failures' \in [Endpoints -> 0..Limit]
    BY <1>1 DEF Blame, PoolInd, PoolTypeOK
  <1> QED
    BY <1>3, <1>4, <1>5, <1>6, <1>7

(* Sending changes neither a count nor what the servers have done.         *)
LEMMA SendStep ==
    ASSUME PoolInd, NEW c \in Calls, Send(c)
    PROVE  PoolInd'
  <1>1. PICK e \in Selectable : /\ cto' = [cto EXCEPT ![c] = e]
                                /\ cpc' = [cpc EXCEPT ![c] = "sent"]
    BY DEF Send
  <1>2. e \in Endpoints
    BY SelectableEndpoints
  <1> QED
    BY <1>1, <1>2, EndpointsAssumption DEF Send, PoolInd, PoolTypeOK, NoFalseAlarm

LEMMA SendClosedStep ==
    ASSUME PoolInd, NEW c \in Calls, SendClosed(c)
    PROVE  PoolInd'
  <1>1. PICK e \in Selectable : Blame(e, OneMore(e))
    BY DEF SendClosed
  <1>2. e \in Endpoints /\ OneMore(e) \in 0..Limit
    BY SelectableEndpoints, OneMoreRange DEF PoolInd, PoolTypeOK
  <1>3. /\ healthy' \in [Endpoints -> BOOLEAN]
        /\ failures' \in [Endpoints -> 0..Limit]
        /\ \A f \in Endpoints : healthy'[f] => failures'[f] < Limit
    BY <1>1, <1>2, BlameEffect
  <1> QED
    BY <1>3 DEF SendClosed, PoolInd, PoolTypeOK, NoFalseAlarm

LEMMA AnsweredStep ==
    ASSUME PoolInd, NEW c \in Calls, Answered(c)
    PROVE  PoolInd'
  <1>1. PICK a \in Answers(cto[c]) : cpc' = [cpc EXCEPT ![c] = a]
    BY DEF Answered
  <1>2. cto[c] \in Endpoints
    BY DEF Answered, PoolInd, PoolTypeOK
  <1>3. /\ a \in {"ok", "error", "garbled", "failed"}
        /\ a = "failed" => Closed \/ server[cto[c]] = "down"
    BY DEF Answers
  <1> QED
    BY <1>1, <1>2, <1>3 DEF Answered, PoolInd, PoolTypeOK, NoFalseAlarm

(* Only a failed request adds to a count.                                  *)
LEMMA ReturnsStep ==
    ASSUME PoolInd, NEW c \in Calls, Returns(c)
    PROVE  PoolInd'
  <1> DEFINE e == cto[c]
  <1>1. e \in Endpoints /\ OneMore(e) \in 0..Limit
    BY OneMoreRange DEF Returns, PoolInd, PoolTypeOK
  <1>2. CASE cpc[c] \in {"ok", "garbled"}
    BY <1>1, <1>2, EndpointsAssumption DEF Returns, PoolInd, PoolTypeOK, NoFalseAlarm
  <1>3. CASE cpc[c] = "error"
    <2>1. Blame(e, 1)
      BY <1>3 DEF Returns, ErrorCount
    <2>2. 1 \in 0..Limit
      OBVIOUS
    <2> QED
      BY <1>1, <1>3, <2>1, <2>2, BlameEffect, EndpointsAssumption
      DEF Returns, PoolInd, PoolTypeOK, NoFalseAlarm
  <1>4. CASE cpc[c] = "failed"
    <2>1. Blame(e, OneMore(e)) /\ (Closed \/ e \in wentDown)
      BY <1>4 DEF Returns, PoolInd
    <2> QED
      BY <1>1, <1>4, <2>1, BlameEffect, EndpointsAssumption
      DEF Returns, PoolInd, PoolTypeOK, NoFalseAlarm
  <1> QED
    BY <1>2, <1>3, <1>4 DEF Returns

LEMMA CancelledStep ==
    ASSUME PoolInd, NEW c \in Calls, Cancelled(c)
    PROVE  PoolInd'
  BY EndpointsAssumption DEF Cancelled, PoolInd, PoolTypeOK, NoFalseAlarm

LEMMA CheckReturnsStep ==
    ASSUME PoolInd, NEW e \in Endpoints, CheckReturns(e)
    PROVE  PoolInd'
  <1>1. OneMore(e) \in 0..Limit
    BY OneMoreRange DEF PoolInd, PoolTypeOK
  <1>2. CASE CheckOk(e)
    BY <1>2 DEF CheckReturns, CheckOk, PoolInd, PoolTypeOK, NoFalseAlarm
  <1>3. CASE CheckFailed(e)
    BY <1>1, <1>3 DEF CheckReturns, CheckFailed, PoolInd, PoolTypeOK, NoFalseAlarm
  <1> QED
    BY <1>2, <1>3 DEF CheckReturns

(* The other steps of the health task, stop() and the servers.             *)
LEMMA SurroundingsStep ==
    ASSUME PoolInd,
           \/ RoundBegins \/ RoundEnds \/ PoolStop \/ PoolClose
           \/ \E e \in Endpoints : CheckAnswered(e)
           \/ \E e \in Endpoints, s \in Servers : ServerBecomes(e, s)
    PROVE  PoolInd'
  <1>1. CASE RoundBegins \/ RoundEnds
    BY <1>1 DEF RoundBegins, RoundEnds, PoolInd, PoolTypeOK, NoFalseAlarm
  <1>2. CASE PoolStop \/ PoolClose
    BY <1>2 DEF PoolStop, PoolClose, PoolInd, PoolTypeOK, NoFalseAlarm
  <1>3. ASSUME NEW e \in Endpoints, CheckAnswered(e)
        PROVE  PoolInd'
    BY <1>3 DEF CheckAnswered, PoolInd, PoolTypeOK, NoFalseAlarm
  <1>4. ASSUME NEW e \in Endpoints, NEW s \in Servers, ServerBecomes(e, s)
        PROVE  PoolInd'
    BY <1>4 DEF ServerBecomes, PoolInd, PoolTypeOK, NoFalseAlarm
  <1> QED
    BY <1>1, <1>2, <1>3, <1>4

LEMMA PoolStep ==
    ASSUME PoolInd, [PoolNext]_poolVars
    PROVE  PoolInd'
  <1>1. CASE UNCHANGED poolVars
    BY <1>1 DEF poolVars, PoolInd, PoolTypeOK, NoFalseAlarm
  <1>2. ASSUME NEW c \in Calls,
               Send(c) \/ SendClosed(c) \/ Answered(c) \/ Returns(c) \/ Cancelled(c)
        PROVE  PoolInd'
    BY <1>2, SendStep, SendClosedStep, AnsweredStep, ReturnsStep, CancelledStep
  <1>3. CASE HealthStep
    BY <1>3, SurroundingsStep, CheckReturnsStep DEF HealthStep
  <1> QED
    BY <1>1, <1>2, <1>3, SurroundingsStep DEF PoolNext

(* The inductive invariant holds in every reachable state.                 *)
THEOREM PoolInvariance == PoolSpec => []PoolInd
  BY PoolInitHolds, PoolStep, PTL DEF PoolSpec

(* Application errors never take an endpoint out of the rotation, whatever *)
(* calls and checks overlap (call, lines 62-69).                           *)
THEOREM NoFalseAlarms == PoolSpec => []NoFalseAlarm
  <1>1. PoolInd => NoFalseAlarm
    BY DEF PoolInd
  <1> QED
    BY <1>1, PoolInvariance, PTL
=============================================================================
