--------------------------- MODULE CircuitBreaker ---------------------------
(***************************************************************************)
(* core/lifecycle.py: a breaker around an operation of several tasks.  A   *)
(* task asks before it sends and reports when its answer is there, so that *)
(* answers to requests from before the breaker opened come in after it.    *)
(* The engine makes three breakers and asks none of them; the callers are  *)
(* any that use the three methods as they are meant.                       *)
(***************************************************************************)
EXTENDS Integers

CONSTANTS Requests,      \* that may be under way at once
          Threshold,     \* failure_threshold
          Recovery,      \* recovery_timeout_seconds
          MaxFailures    \* bound on what is counted

ASSUME BreakerAssumption ==
    Threshold \in Nat \ {0} /\ Recovery \in Nat /\ MaxFailures \in Nat /\ MaxFailures >= Threshold

VARIABLES
    failures,   \* counted since the last success
    openFor,    \* the seconds since opened_at, or Closed
    underway,   \* the requests that were let through
    quiet       \* not in the code: seconds since any failure was reported

breakerVars == <<failures, openFor, underway, quiet>>

Closed == -1
Upto(n, bound) == IF n <= bound THEN n ELSE bound

BreakerInit == failures = 0 /\ openFor = Closed /\ underway = {} /\ quiet = Recovery

allow_request == openFor = Closed \/ openFor >= Recovery

is_open == openFor # Closed /\ ~allow_request

(* The caller asks either of the two.                                      *)
Allowed(r) ==
    /\ r \notin underway /\ (allow_request \/ ~is_open)
    /\ underway' = underway \cup {r}
    /\ UNCHANGED <<failures, openFor, quiet>>

record_success(r) ==
    /\ r \in underway /\ underway' = underway \ {r}
    /\ failures' = 0 /\ openFor' = Closed
    /\ UNCHANGED quiet

(* Mutant: the time it opened is kept while it is open.                    *)
OpenedOnce == IF failures + 1 = Threshold THEN 0 ELSE openFor

(* The breaker opens, or opens again, with each failure from here on.      *)
Opened == IF failures + 1 >= Threshold THEN 0 ELSE openFor

record_failure(r) ==
    /\ r \in underway /\ underway' = underway \ {r}
    /\ failures' = Upto(failures + 1, MaxFailures)
    /\ openFor' = Opened
    /\ quiet' = 0

(* A second passes; what is past the recovery is not told apart.           *)
BreakerAges ==
    /\ openFor' = IF openFor = Closed THEN Closed ELSE Upto(openFor + 1, Recovery)
    /\ quiet' = Upto(quiet + 1, Recovery)
    /\ UNCHANGED <<failures, underway>>

BreakerNext ==
    \/ \E r \in Requests : Allowed(r) \/ record_success(r) \/ record_failure(r)
    \/ BreakerAges

BreakerSpec == BreakerInit /\ [][BreakerNext]_breakerVars

-----------------------------------------------------------------------------
(* Properties *)

(* The breaker is open from the failure that reaches the threshold, and    *)
(* its time runs from the last one.                                        *)
OpenSinceLastFailure ==
    /\ failures \in 0..MaxFailures /\ underway \subseteq Requests /\ quiet \in 0..Recovery
    /\ openFor = IF failures >= Threshold THEN quiet ELSE Closed

(* While a threshold of failures has come in without a success among them, *)
(* nothing is sent within the recovery time of the last of them, however   *)
(* many requests were under way when the breaker opened and whenever they  *)
(* fail.  A success among them closes it (lifecycle.py lines 33-46).       *)
BreakerBlocks ==
    [][\A r \in underway' \ underway : failures < Threshold \/ quiet >= Recovery]_breakerVars
=============================================================================
