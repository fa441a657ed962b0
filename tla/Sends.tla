-------------------------------- MODULE Sends --------------------------------
(***************************************************************************)
(* execution/retry_engine.py around the two operations of the repository   *)
(* that send: JitoBundleClient.submit_bundle() ("bundle") and              *)
(* RpcConnectionPool.call() ("call").  A server that accepts may answer    *)
(* late, with nonsense or not at all; one that answers with an error has   *)
(* accepted nothing.  Nobody in the repository composes the three; this is *)
(* what run() does with each of the two clients' exceptions.               *)
(***************************************************************************)
EXTENDS Integers

CONSTANTS Runs, KindOf,      \* calls of run(), and what each sends
          OpportunityOf,     \* for a bundle, in percent where the code has fractions
          MaxRetries,        \* of RetryEngine
          BaseTip, MaxTipPercentage

ASSUME SendsAssumption ==
    /\ MaxRetries \in Nat /\ BaseTip \in Nat /\ MaxTipPercentage \in Nat
    /\ KindOf \in [Runs -> {"bundle", "call"}]
    /\ OpportunityOf \in
          [Runs -> [confidence : Int, congestion : Int, seen : Int, now : Int, profit : Int]]

VARIABLES
    phase,      \* where each run() is, or how it has ended
    attempt,    \* its loop variable
    tip,        \* what its bundle offers
    closed,     \* the engine has closed the clients
    accepted    \* not in the code: how often the server has accepted it

sendVars == <<phase, attempt, tip, closed, accepted>>

Phases == {"idle", "posted", "refused", "held", "sleeping", "returned", "raised", "exhausted"}

SendInit ==
    /\ phase = [r \in Runs |-> "idle"] /\ attempt = [r \in Runs |-> 0]
    /\ tip = [r \in Runs |-> 0] /\ closed = FALSE /\ accepted = [r \in Runs |-> 0]

-----------------------------------------------------------------------------
(* Tips *)

Smaller(x, y) == IF x <= y THEN x ELSE y
Larger(x, y) == IF x >= y THEN x ELSE y

urgency_ms(o) == Larger(0, o.now - o.seen)

RawTip(o) ==
    (BaseTip * (100 + o.confidence + o.congestion) * (100 + Larger(0, 50 - urgency_ms(o)))) \div 10000
Cap(o) == (o.profit * MaxTipPercentage) \div 100

(* A cap that is not positive is none.                                     *)
calculate_tip_lamports(o) ==
    Larger(BaseTip, Smaller(RawTip(o), IF Cap(o) > 0 THEN Cap(o) ELSE RawTip(o)))

-----------------------------------------------------------------------------
(* run() *)

(* The operation is called: a request is on its way, unless the client is  *)
(* closed, for which httpx raises a RuntimeError.                          *)
Posts(r) ==
    /\ phase' = [phase EXCEPT ![r] = IF closed THEN "refused" ELSE "posted"]
    /\ tip' = [tip EXCEPT ![r] =
                  IF KindOf[r] = "bundle" THEN calculate_tip_lamports(OpportunityOf[r]) ELSE 0]

RunBegins(r) == phase[r] = "idle" /\ Posts(r) /\ UNCHANGED <<attempt, closed, accepted>>

Accepts(r) ==
    /\ phase[r] = "posted"
    /\ phase' = [phase EXCEPT ![r] = "held"]
    /\ accepted' = [accepted EXCEPT ![r] = @ + 1]
    /\ UNCHANGED <<attempt, tip, closed>>

(* A result; and to submit_bundle(), which does not look for an error, an  *)
(* answer with an error as well: its bundle's identifier is then "{}".     *)
RunReturns(r) ==
    /\ ~closed
    /\ phase[r] = "held" \/ (phase[r] = "posted" /\ KindOf[r] = "bundle")
    /\ phase' = [phase EXCEPT ![r] = "returned"]
    /\ UNCHANGED <<attempt, tip, closed, accepted>>

(* httpx's timeouts, connection and status errors, and an answer that      *)
(* cannot be decoded, are none of the exceptions that are caught.          *)
RunRaises(r) ==
    /\ phase[r] \in {"posted", "held"}
    /\ phase' = [phase EXCEPT ![r] = "raised"]
    /\ UNCHANGED <<attempt, tip, closed, accepted>>

(* Mutant: a timeout of the client is caught as well.                      *)
RetriesTimeouts(r) ==
    /\ phase[r] \in {"posted", "held"} /\ KindOf[r] = "call"
    /\ phase' = [phase EXCEPT ![r] = IF attempt[r] >= MaxRetries THEN "exhausted" ELSE "sleeping"]
    /\ UNCHANGED <<attempt, tip, closed, accepted>>

(* call() raises RuntimeError, which is caught, for an answer with an      *)
(* error and when there is no healthy endpoint; a closed client's is       *)
(* caught too, whatever is sent.                                           *)
Retries(r) ==
    /\ phase[r] = "refused" \/ (phase[r] = "posted" /\ KindOf[r] = "call")
    /\ phase' = [phase EXCEPT ![r] = IF attempt[r] >= MaxRetries THEN "exhausted" ELSE "sleeping"]
    /\ UNCHANGED <<attempt, tip, closed, accepted>>

(* The back-off is over.                                                   *)
SendsAgain(r) ==
    /\ phase[r] = "sleeping" /\ Posts(r)
    /\ attempt' = [attempt EXCEPT ![r] = @ + 1]
    /\ UNCHANGED <<closed, accepted>>

(* The task is cancelled, in the request or in the back-off.               *)
RunCancelled(r) ==
    /\ phase[r] \in {"posted", "held", "sleeping"}
    /\ phase' = [phase EXCEPT ![r] = "raised"]
    /\ UNCHANGED <<attempt, tip, closed, accepted>>

(* The engine's stop() closes the clients of the pool and of the relayer.  *)
ClientsClose ==
    /\ closed' = TRUE /\ UNCHANGED <<phase, attempt, tip, accepted>>

SendNext ==
    \/ \E r \in Runs :
          \/ RunBegins(r) \/ Accepts(r) \/ RunReturns(r) \/ RunRaises(r) \/ Retries(r)
          \/ SendsAgain(r) \/ RunCancelled(r)
    \/ ClientsClose

SendSpec == SendInit /\ [][SendNext]_sendVars

-----------------------------------------------------------------------------
(* Properties *)

(* What is held was accepted, once; what is on its way or waits was not.   *)
SendsTyped ==
    /\ phase \in [Runs -> Phases] /\ attempt \in [Runs -> 0..MaxRetries]
    /\ tip \in [Runs -> Int] /\ closed \in BOOLEAN /\ accepted \in [Runs -> 0..1]
    /\ \A r \in Runs : /\ phase[r] = "held" => accepted[r] = 1
                       /\ phase[r] \in {"idle", "posted", "refused", "sleeping"} => accepted[r] = 0
                       /\ phase[r] = "sleeping" => attempt[r] < MaxRetries

(* "Retry orchestration for idempotent transaction sends": with the two    *)
(* clients of the repository a run sends nothing twice that has been       *)
(* accepted, as no error that leaves this open is retried; and "operation  *)
(* failed after retries" means that every attempt was used and none was    *)
(* accepted.  A call that returns was accepted, a bundle need not have     *)
(* been (retry_engine.py lines 21-29, bundle_client.py lines 39-42).       *)
SentOnce ==
    \A r \in Runs :
        /\ accepted[r] <= 1
        /\ phase[r] = "exhausted" => attempt[r] = MaxRetries /\ accepted[r] = 0
        /\ phase[r] = "returned" /\ KindOf[r] = "call" => accepted[r] = 1
=============================================================================
