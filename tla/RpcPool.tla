------------------------------- MODULE RpcPool -------------------------------
(***************************************************************************)
(* infrastructure/rpc/connection_pool.py after its start(): calls go to    *)
(* one of the two best healthy endpoints, and a health task asks every     *)
(* endpoint in rounds.                                                     *)
(*                                                                         *)
(* An answer is decided by the server when the request reaches it and is   *)
(* applied to the endpoint when the task that waits for it resumes: calls, *)
(* checks and the server's own changes interleave in between.              *)
(***************************************************************************)
EXTENDS Naturals, FiniteSets

CONSTANTS Endpoints, Calls, None,
          Priority      \* the configured priority of each endpoint

ASSUME EndpointsAssumption == IsFiniteSet(Endpoints) /\ None \notin Endpoints
ASSUME PriorityAssumption == Priority \in [Endpoints -> Nat]

VARIABLES
    healthy,    \* RpcEndpoint.healthy
    failures,   \* RpcEndpoint.failures, up to the limit it is compared with
    odd,        \* the parity of _rr_index: positions are taken modulo 1 or 2
    hpc,        \* the health task; it is over once the client is closed
    check,      \* each endpoint's getHealth request in the current round
    cpc,        \* each task's call: in flight, answered or none
    cto,        \* the endpoint it was sent to
    server,     \* what the servers do
    wentDown    \* history: the servers that have ever been down

poolVars == <<healthy, failures, odd, hpc, check, cpc, cto, server, wentDown>>

(* A server that errs answers HTTP 200 with an error or without JSON.      *)
Servers == {"up", "errs", "down"}
Limit == 3
Closed == hpc = "ended"

(* The types of the variables: no counter, request or task is in a state   *)
(* the code does not name.                                                 *)
PoolTypeOK ==
    /\ healthy \in [Endpoints -> BOOLEAN]
    /\ failures \in [Endpoints -> 0..Limit]
    /\ odd \in BOOLEAN
    /\ hpc \in {"sleep", "checking", "cancelled", "ended"}
    /\ check \in [Endpoints -> {"none", "sent", "ok", "failed"}]
    /\ cpc \in [Calls -> {"idle", "sent", "ok", "error", "garbled", "failed"}]
    /\ cto \in [Calls -> Endpoints \cup {None}]
    /\ server \in [Endpoints -> Servers]
    /\ wentDown \subseteq Endpoints

(* start() has created the health task, which is about to check.           *)
PoolInit ==
    /\ healthy = [e \in Endpoints |-> TRUE]
    /\ failures = [e \in Endpoints |-> 0]
    /\ odd = FALSE
    /\ hpc = "sleep"
    /\ check = [e \in Endpoints |-> "none"]
    /\ cpc = [c \in Calls |-> "idle"]
    /\ cto = [c \in Calls |-> None]
    /\ server \in [Endpoints -> {"up", "down"}]
    /\ wentDown = {e \in Endpoints : server[e] = "down"}

-----------------------------------------------------------------------------
(* Selection and bookkeeping *)

Healthy == {e \in Endpoints : healthy[e]}

(* Endpoints that can be at position k when the healthy ones are sorted by *)
(* priority and, within one, by a latency that may be anything.            *)
AtPosition(k) ==
    {e \in Healthy :
        /\ Cardinality({f \in Healthy : Priority[f] < Priority[e]}) <= k
        /\ Cardinality({f \in Healthy \ {e} : Priority[f] <= Priority[e]}) >= k}

Selectable == AtPosition(IF odd /\ Cardinality(Healthy) > 1 THEN 1 ELSE 0)

(* Mutant: failures are logged and not counted.                            *)
OneMoreUncounted(e) == failures[e]
OneMore(e) == IF failures[e] = Limit THEN Limit ELSE failures[e] + 1

(* Mutant: the count is reset only by an answer without an error.          *)
ErrorCounted(e) == OneMore(e)
(* A JSON-RPC error finds the count reset by the HTTP answer it came in.   *)
ErrorCount(e) == 1

(* The except clause of call().                                            *)
Blame(e, n) ==
    /\ failures' = [failures EXCEPT ![e] = n]
    /\ healthy' = [healthy EXCEPT ![e] = n < Limit]

-----------------------------------------------------------------------------
(* Calls *)

Send(c) ==
    /\ cpc[c] = "idle" /\ ~Closed
    /\ \E e \in Selectable :
          /\ cto' = [cto EXCEPT ![c] = e]
          /\ cpc' = [cpc EXCEPT ![c] = "sent"]
    /\ odd' = ~odd
    /\ UNCHANGED <<healthy, failures, hpc, check, server, wentDown>>

(* The closed client refuses a request with a RuntimeError.                *)
SendClosed(c) ==
    /\ cpc[c] = "idle" /\ Closed
    /\ \E e \in Selectable : Blame(e, OneMore(e))
    /\ odd' = ~odd
    /\ UNCHANGED <<hpc, check, cpc, cto, server, wentDown>>

Answers(e) ==
    CASE Closed \/ server[e] = "down" -> {"failed"}
      [] ~Closed /\ server[e] = "errs" -> {"error", "garbled"}
      [] OTHER -> {"ok"}

Answered(c) ==
    /\ cpc[c] = "sent"
    /\ \E a \in Answers(cto[c]) : cpc' = [cpc EXCEPT ![c] = a]
    /\ UNCHANGED <<healthy, failures, odd, hpc, check, cto, server, wentDown>>

(* What is not JSON raises past the except clause, once the count is reset *)
Returns(c) ==
    LET e == cto[c] IN
    /\ \/ /\ cpc[c] \in {"ok", "garbled"}
          /\ failures' = [failures EXCEPT ![e] = 0]
          /\ UNCHANGED healthy
       \/ cpc[c] = "error" /\ Blame(e, ErrorCount(e))
       \/ cpc[c] = "failed" /\ Blame(e, OneMore(e))
    /\ cpc' = [cpc EXCEPT ![c] = "idle"]
    /\ cto' = [cto EXCEPT ![c] = None]
    /\ UNCHANGED <<odd, hpc, check, server, wentDown>>

(* Cancellation of the caller is no failure of the endpoint.               *)
Cancelled(c) ==
    /\ cpc[c] # "idle"
    /\ cpc' = [cpc EXCEPT ![c] = "idle"]
    /\ cto' = [cto EXCEPT ![c] = None]
    /\ UNCHANGED <<healthy, failures, odd, hpc, check, server, wentDown>>

-----------------------------------------------------------------------------
(* The health task, stop(), and the servers *)

RoundBegins ==
    /\ hpc = "sleep" /\ hpc' = "checking"
    /\ check' = [e \in Endpoints |-> "sent"]
    /\ UNCHANGED <<healthy, failures, odd, cpc, cto, server, wentDown>>

CheckAnswered(e) ==
    /\ check[e] = "sent"
    /\ check' = [check EXCEPT ![e] = IF server[e] = "down" THEN "failed" ELSE "ok"]
    /\ UNCHANGED <<healthy, failures, odd, hpc, cpc, cto, server, wentDown>>

(* Mutant: a check that succeeds only resets the count.                    *)
CheckOkForgets(e) ==
    /\ check[e] = "ok"
    /\ failures' = [failures EXCEPT ![e] = 0]
    /\ UNCHANGED healthy

CheckOk(e) ==
    /\ check[e] = "ok"
    /\ failures' = [failures EXCEPT ![e] = 0]
    /\ healthy' = [healthy EXCEPT ![e] = TRUE]

CheckFailed(e) ==
    /\ check[e] = "failed"
    /\ failures' = [failures EXCEPT ![e] = OneMore(e)]
    /\ healthy' = [healthy EXCEPT ![e] = FALSE]

CheckReturns(e) ==
    /\ hpc = "checking"
    /\ CheckOk(e) \/ CheckFailed(e)
    /\ check' = [check EXCEPT ![e] = "none"]
    /\ UNCHANGED <<odd, hpc, cpc, cto, server, wentDown>>

RoundEnds ==
    /\ hpc = "checking" /\ \A e \in Endpoints : check[e] = "none"
    /\ hpc' = "sleep"
    /\ UNCHANGED <<healthy, failures, odd, check, cpc, cto, server, wentDown>>

PoolStop ==
    /\ hpc \in {"sleep", "checking"} /\ hpc' = "cancelled"
    /\ UNCHANGED <<healthy, failures, odd, check, cpc, cto, server, wentDown>>

PoolClose ==
    /\ hpc = "cancelled" /\ hpc' = "ended"
    /\ check' = [e \in Endpoints |-> "none"]
    /\ UNCHANGED <<healthy, failures, odd, cpc, cto, server, wentDown>>

ServerBecomes(e, s) ==
    /\ server[e] # s /\ server' = [server EXCEPT ![e] = s]
    /\ wentDown' = IF s = "down" THEN wentDown \cup {e} ELSE wentDown
    /\ UNCHANGED <<healthy, failures, odd, hpc, check, cpc, cto>>

-----------------------------------------------------------------------------

HealthStep == RoundBegins \/ RoundEnds \/ \E e \in Endpoints : CheckReturns(e)

PoolNext ==
    \/ \E c \in Calls : Send(c) \/ SendClosed(c) \/ Answered(c) \/ Returns(c) \/ Cancelled(c)
    \/ HealthStep \/ \E e \in Endpoints : CheckAnswered(e)
    \/ PoolStop \/ PoolClose
    \/ \E e \in Endpoints, s \in Servers : ServerBecomes(e, s)

PoolSpec == PoolInit /\ [][PoolNext]_poolVars

(* Requests are answered or time out, and tasks that can run are resumed;  *)
(* nobody need call, stop the pool, or bring a server back.                *)
PoolFairness ==
    /\ \A c \in Calls : WF_poolVars(Answered(c)) /\ WF_poolVars(Returns(c))
    /\ \A e \in Endpoints : WF_poolVars(CheckAnswered(e)) /\ WF_poolVars(CheckReturns(e))
    /\ WF_poolVars(RoundBegins) /\ WF_poolVars(RoundEnds)

PoolFairSpec == PoolSpec /\ PoolFairness

-----------------------------------------------------------------------------
(* Properties *)

(* An endpoint whose server has answered every request, even with errors,  *)
(* is never taken out of the rotation (lines 62-69): application errors do *)
(* not add up, however they interleave with checks and other calls.        *)
NoFalseAlarm ==
    \A e \in Endpoints \ wentDown : ~Closed => healthy[e] /\ failures[e] <= 1

(* Failures are only blamed on servers that have been down or on a client  *)
(* that is closed, and the count of a healthy endpoint is below the limit. *)
PoolInd ==
    /\ PoolTypeOK /\ NoFalseAlarm
    /\ \A e \in Endpoints :
          /\ server[e] = "down" \/ check[e] = "failed" => e \in wentDown
          /\ healthy[e] => failures[e] < Limit
    /\ \A c \in Calls :
          /\ cpc[c] = "idle" <=> cto[c] = None
          /\ cpc[c] = "failed" => Closed \/ cto[c] \in wentDown

Open == hpc \in {"sleep", "checking"}

(* "HTTP/2 RPC pool with health checks [and] failover" (README.md:14): the *)
(* endpoint of a server that stays down is in the end left alone, although *)
(* calls that fail late can revive it after a check has taken it out.      *)
DeadIsLeft ==
    \A e \in Endpoints : <>[](server[e] = "down" /\ Open) => <>[]~healthy[e]

(* A server that answers again is in the end selected again, whatever the  *)
(* calls sent before say late.                                             *)
RecoveredIsUsed ==
    \A e \in Endpoints : <>[](server[e] = "up" /\ Open) => <>[]healthy[e]
=============================================================================
