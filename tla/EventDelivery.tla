--------------------------- MODULE EventDelivery ---------------------------
(***************************************************************************)
(* What core/event_bus.py promises its users, without queue, workers or    *)
(* counters.  An event is offered once and is then refused, accepted or    *)
(* kept waiting; an accepted event is started at most once.  The first     *)
(* calls of stop() promise whatever is accepted and not finished, and the  *)
(* bus closes only when it has kept that promise.  Only a closed bus loses *)
(* events, and it starts no more of them.                                  *)
(***************************************************************************)
CONSTANT Events

VARIABLES stage,    \* how far each event has come
          phase,    \* how far the bus has come towards closing
          promised  \* the events it has to finish before it closes

vars == <<stage, phase, promised>>

Outstanding == {e \in Events : stage[e] \in {"accepted", "started"}}

Init ==
    /\ stage = [e \in Events |-> "new"]
    /\ phase = "open"
    /\ promised = {}

Moved(S, to) == [e \in Events |-> IF e \in S THEN to ELSE stage[e]]

Offer(e) ==
    /\ stage[e] = "new"
    /\ \E to \in {"waiting", "refused", "accepted"} : stage' = Moved({e}, to)
    /\ UNCHANGED <<phase, promised>>

Admit(e) ==
    /\ stage[e] = "waiting"
    /\ stage' = Moved({e}, "accepted")
    /\ UNCHANGED <<phase, promised>>

Begin(e) ==
    /\ stage[e] = "accepted" /\ phase # "closed"
    /\ stage' = Moved({e}, "started")
    /\ UNCHANGED <<phase, promised>>

(* The end of an event may be what the calls of stop() are waiting for.    *)
Finish(e) ==
    /\ stage[e] = "started"
    /\ stage' = Moved({e}, "finished")
    /\ \/ UNCHANGED phase
       \/ /\ phase = "draining"
          /\ \A f \in promised : stage'[f] = "finished"
          /\ phase' = "drained"
    /\ UNCHANGED promised

(* A worker that ends an event may start another one in the same step.     *)
FinishAndBegin(e, f) ==
    /\ stage[e] = "started" /\ stage[f] = "accepted" /\ phase # "closed"
    /\ stage' = [Moved({e}, "finished") EXCEPT ![f] = "started"]
    /\ UNCHANGED <<phase, promised>>

Stop ==
    \/ /\ phase \in {"open", "draining"}
       /\ promised' = promised \cup Outstanding
       /\ \/ phase' = "draining"
          \/ Outstanding = {} /\ phase' = "closed"
       /\ UNCHANGED stage
    \/ /\ phase = "drained"
       /\ phase' = "closed"
       /\ UNCHANGED <<stage, promised>>

Lose(S) ==
    /\ phase = "closed"
    /\ \A e \in S : stage[e] \in {"waiting", "started"}
    /\ stage' = Moved(S, "lost")
    /\ UNCHANGED <<phase, promised>>

Next ==
    \/ \E e \in Events : Offer(e) \/ Admit(e) \/ Begin(e) \/ Finish(e)
    \/ \E e, f \in Events : FinishAndBegin(e, f)
    \/ Stop
    \/ \E S \in SUBSET Events : Lose(S)

Spec == Init /\ [][Next]_vars
=============================================================================
