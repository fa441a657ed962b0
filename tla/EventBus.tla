------------------------------ MODULE EventBus ------------------------------
(***************************************************************************)
(* core/event_bus.py: a bounded asyncio.Queue drained by worker tasks.     *)
(*                                                                         *)
(* asyncio runs one task at a time and switches only at an await, so an    *)
(* action is what one task executes from the await that resumes it to the  *)
(* await that suspends it.  An event is published once, by the task that   *)
(* SourceOf names: a task outside the bus (External) or an invocation      *)
(* <<event, registration>> of a handler.  Stoppers are the tasks that call *)
(* stop(): External, or invocations of a handler that does.                *)
(***************************************************************************)
EXTENDS Naturals, Sequences, FiniteSets

CONSTANTS Workers, QueueSize, Events, Topics, Regs, Stoppers, External, None,
          TopicOf,      \* the topic of each event
          PatternOf,    \* the topics a registration's exact name or prefix matches
          SourceOf      \* the task that publishes each event

Invocations == Events \X Regs

ASSUME QueueAssumption == QueueSize \in Nat \ {0}
ASSUME WorkersAssumption == IsFiniteSet(Workers)
ASSUME NamesAssumption == None \notin Events /\ External \notin Invocations
ASSUME EventsAssumption ==
    /\ TopicOf \in [Events -> Topics]
    /\ PatternOf \in [Regs -> SUBSET Topics]
    /\ SourceOf \in [Events -> Invocations \cup {External}]
    /\ Stoppers \subseteq Invocations \cup {External}

VARIABLES
    subs,        \* registrations made so far
    queue,       \* the asyncio.Queue
    unfinished,  \* its count of unfinished tasks
    running,     \* the _running flag
    cancelled,   \* stop() has cancelled the worker tasks
    wpc,         \* where each worker task is suspended
    held,        \* its local variable event: the last one it took
    inflight,    \* handler invocations that have not ended
    raised,      \* events of which some handler has raised
    status,      \* what has become of each event
    spc,         \* where each call of stop() is
    owed         \* history: the events outstanding when stop() was called

vars == <<subs, queue, unfinished, running, cancelled, wpc, held, inflight,
          raised, status, spc, owed>>

Statuses == {"new", "blocked", "dropped", "queued", "taken", "done", "aborted"}
WorkerStates == {"new", "ready", "get", "dispatch", "exited"}
StopStates == {"idle", "joining", "woken", "gathering", "done", "aborted"}

(* The types of the variables: local counters never go below zero and no   *)
(* worker, call of stop() or event is in a state the code does not name.   *)
TypeOK ==
    /\ subs \subseteq Regs
    /\ queue \in Seq(Events)
    /\ unfinished \in Nat
    /\ running \in BOOLEAN /\ cancelled \in BOOLEAN
    /\ wpc \in [Workers -> WorkerStates]
    /\ held \in [Workers -> Events \cup {None}]
    /\ inflight \subseteq Invocations
    /\ raised \subseteq Events
    /\ status \in [Events -> Statuses]
    /\ spc \in [Stoppers -> StopStates]
    /\ owed \in [Stoppers -> SUBSET Events]

Init ==
    /\ subs = {} /\ queue = <<>> /\ unfinished = 0
    /\ running = FALSE /\ cancelled = FALSE
    /\ wpc = [w \in Workers |-> "new"]
    /\ held = [w \in Workers |-> None]
    /\ inflight = {} /\ raised = {}
    /\ status = [e \in Events |-> "new"]
    /\ spc = [s \in Stoppers |-> "idle"]
    /\ owed = [s \in Stoppers |-> {}]

-----------------------------------------------------------------------------
(* Helpers *)

Started == \A w \in Workers : wpc[w] # "new"
Full == Len(queue) >= QueueSize
MatchingHandlers(e) == {r \in subs : TopicOf[e] \in PatternOf[r]}
InvocationsOf(e) == {i \in inflight : i[1] = e}
Dispatching == {w \in Workers : wpc[w] = "dispatch"}
Outstanding == {e \in Events : status[e] \in {"queued", "taken"}}

(* Cancelling a worker task cancels the gather it awaits, and through it   *)
(* the handlers; a gather that has already raised no longer reaches them.  *)
Doomed(i) == cancelled /\ i[1] \notin raised

Alive(t) == t = External \/ (t \in inflight /\ ~Doomed(t))

(* Whether t may execute a statement of its own: a handler that waits in   *)
(* publish() or in stop() may not; outside the bus another task always can *)
Free(t) ==
    \/ t = External
    \/ /\ Alive(t)
       /\ \A e \in Events : status[e] = "blocked" => SourceOf[e] # t
       /\ t \in Stoppers => spc[t] \in {"idle", "done"}

(* join() is woken by the task_done() that brings the count to zero.       *)
Woken(spcs, n) ==
    [s \in Stoppers |-> IF n = 0 /\ spcs[s] = "joining" THEN "woken" ELSE spcs[s]]
Decremented == IF unfinished = 0 THEN 0 ELSE unfinished - 1

Accept(e) ==
    /\ queue' = Append(queue, e)
    /\ unfinished' = unfinished + 1
    /\ status' = [status EXCEPT ![e] = "queued"]
    /\ UNCHANGED <<subs, running, cancelled, wpc, held, inflight, raised, spc, owed>>

Refuse(e, as) ==
    /\ status' = [status EXCEPT ![e] = as]
    /\ UNCHANGED <<subs, queue, unfinished, running, cancelled, wpc, held, inflight,
                   raised, spc, owed>>

(* Mutant: the head is read without being removed.                         *)
TakePeeking(w, statuses) ==
    /\ queue # <<>>
    /\ wpc' = [wpc EXCEPT ![w] = "dispatch"]
    /\ held' = [held EXCEPT ![w] = Head(queue)]
    /\ inflight' = inflight \cup ({Head(queue)} \X MatchingHandlers(Head(queue)))
    /\ status' = [statuses EXCEPT ![Head(queue)] = "taken"]
    /\ UNCHANGED queue

(* A worker takes the head of the queue and starts its handlers.           *)
Take(w, statuses) ==
    LET e == Head(queue) IN
    /\ queue # <<>>
    /\ queue' = Tail(queue)
    /\ wpc' = [wpc EXCEPT ![w] = "dispatch"]
    /\ held' = [held EXCEPT ![w] = e]
    /\ inflight' = inflight \cup ({e} \X MatchingHandlers(e))
    /\ status' = [statuses EXCEPT ![e] = "taken"]

Rest(w, pc, statuses) ==
    /\ wpc' = [wpc EXCEPT ![w] = pc]
    /\ status' = statuses
    /\ UNCHANGED <<queue, held, inflight>>

(* The head of the worker's loop: leave, take an event, or wait for one.   *)
Loop(w, statuses) ==
    \/ ~running /\ Rest(w, "exited", statuses)
    \/ running /\ queue = <<>> /\ Rest(w, "get", statuses)
    \/ running /\ Take(w, statuses)

-----------------------------------------------------------------------------
(* Publishing and handling *)

Subscribe(R) ==
    /\ subs' = subs \cup R
    /\ UNCHANGED <<queue, unfinished, running, cancelled, wpc, held, inflight, raised,
                   status, spc, owed>>

Publish(e) ==
    /\ status[e] = "new" /\ Free(SourceOf[e])
    /\ \/ ~Full /\ Accept(e)
       \/ Full /\ Refuse(e, "blocked")

PublishNowait(e) ==
    /\ status[e] = "new" /\ Free(SourceOf[e])
    /\ \/ ~Full /\ Accept(e)
       \/ Full /\ Refuse(e, "dropped")

PutterWakes(e) ==
    /\ status[e] = "blocked" /\ Alive(SourceOf[e])
    /\ ~Full /\ Accept(e)

HandlerReturn(i) ==
    /\ i \in inflight /\ Free(i)
    /\ inflight' = inflight \ {i}
    /\ UNCHANGED <<subs, queue, unfinished, running, cancelled, wpc, held, raised,
                   status, spc, owed>>

HandlerRaise(i) ==
    /\ i \in inflight /\ Free(i)
    /\ inflight' = inflight \ {i}
    /\ raised' = raised \cup {i[1]}
    /\ UNCHANGED <<subs, queue, unfinished, running, cancelled, wpc, held,
                   status, spc, owed>>

-----------------------------------------------------------------------------
(* Workers *)

(* start() does not suspend: its caller may subscribe in the same step.    *)
Start(R) ==
    /\ \A w \in Workers : wpc[w] = "new"
    /\ running' = TRUE
    /\ wpc' = [w \in Workers |-> "ready"]
    /\ subs' = subs \cup R
    /\ UNCHANGED <<queue, unfinished, cancelled, held, inflight, raised, status,
                   spc, owed>>

WorkerBegin(w) ==
    /\ wpc[w] = "ready" /\ ~cancelled
    /\ Loop(w, status)
    /\ UNCHANGED <<subs, unfinished, running, cancelled, raised, spc, owed>>

(* Mutant: a cancelled worker still takes the event it was waiting for.    *)
GetWakesCancelled(w) ==
    /\ wpc[w] = "get"
    /\ Take(w, status)
    /\ UNCHANGED <<subs, unfinished, running, cancelled, raised, spc, owed>>

GetWakes(w) ==
    /\ wpc[w] = "get" /\ ~cancelled
    /\ Take(w, status)
    /\ UNCHANGED <<subs, unfinished, running, cancelled, raised, spc, owed>>

(* Mutant: task_done() is not in a finally block.                          *)
FinishDispatchUncounted(w) ==
    /\ wpc[w] = "dispatch" /\ ~cancelled
    /\ \/ /\ held[w] \in raised
          /\ UNCHANGED <<unfinished, spc>>
       \/ /\ held[w] \notin raised /\ InvocationsOf(held[w]) = {}
          /\ unfinished' = Decremented /\ spc' = Woken(spc, Decremented)
    /\ Loop(w, [status EXCEPT ![held[w]] = "done"])
    /\ UNCHANGED <<subs, running, cancelled, raised, owed>>

(* Mutant: an exception from a handler ends the worker.                    *)
FinishDispatchFatal(w) ==
    /\ wpc[w] = "dispatch" /\ ~cancelled
    /\ held[w] \in raised \/ InvocationsOf(held[w]) = {}
    /\ unfinished' = Decremented
    /\ spc' = Woken(spc, Decremented)
    /\ IF held[w] \in raised THEN Rest(w, "exited", [status EXCEPT ![held[w]] = "done"])
                             ELSE Loop(w, [status EXCEPT ![held[w]] = "done"])
    /\ UNCHANGED <<subs, running, cancelled, raised, owed>>

(* gather() returns when every handler has, and raises when one does.      *)
FinishDispatch(w) ==
    /\ wpc[w] = "dispatch" /\ ~cancelled
    /\ held[w] \in raised \/ InvocationsOf(held[w]) = {}
    /\ unfinished' = Decremented
    /\ spc' = Woken(spc, Decremented)
    /\ Loop(w, [status EXCEPT ![held[w]] = "done"])
    /\ UNCHANGED <<subs, running, cancelled, raised, owed>>

(* A cancelled worker that waits in get() counts its previous event again. *)
CancelIdle(w) ==
    /\ cancelled /\ wpc[w] \in {"ready", "get"}
    /\ wpc' = [wpc EXCEPT ![w] = "exited"]
    /\ \/ held[w] = None /\ UNCHANGED <<unfinished, spc>>
       \/ held[w] # None /\ unfinished' = Decremented /\ spc' = Woken(spc, Decremented)
    /\ UNCHANGED <<subs, queue, running, cancelled, held, inflight, raised, status, owed>>

CancelDispatch(w) ==
    LET e == held[w]
        own == {i \in InvocationsOf(e) : Doomed(i)}
        lost == {f \in Events : \/ f = e /\ own # {}
                                \/ status[f] = "blocked" /\ SourceOf[f] \in own}
    IN
    /\ cancelled /\ wpc[w] = "dispatch"
    /\ wpc' = [wpc EXCEPT ![w] = "exited"]
    /\ inflight' = inflight \ own
    /\ status' = [f \in Events |-> IF f \in lost THEN "aborted"
                                   ELSE IF f = e THEN "done" ELSE status[f]]
    /\ unfinished' = Decremented
    /\ spc' = [s \in Stoppers |->
                 IF s \in own /\ spc[s] \notin {"idle", "done"} THEN "aborted"
                 ELSE Woken(spc, Decremented)[s]]
    /\ UNCHANGED <<subs, queue, running, cancelled, held, raised, owed>>

-----------------------------------------------------------------------------
(* stop() *)

FirstDrain == ~cancelled /\ \A s \in Stoppers : spc[s] # "woken"

(* Mutant: stop() cancels the workers without join().                      *)
StopCallUndrained(s) ==
    /\ Started /\ Free(s) /\ spc[s] = "idle"
    /\ running' = FALSE /\ cancelled' = TRUE
    /\ owed' = [owed EXCEPT ![s] = IF FirstDrain THEN Outstanding ELSE {}]
    /\ spc' = [spc EXCEPT ![s] = "gathering"]
    /\ UNCHANGED <<subs, queue, unfinished, wpc, held, inflight, raised, status>>

(* Mutant: a call of stop() that finds the bus stopped does not join() it.  *)
StopCallAgain(s) ==
    /\ Started /\ Free(s) /\ spc[s] = "idle"
    /\ running' = FALSE
    /\ owed' = [owed EXCEPT ![s] = IF FirstDrain THEN Outstanding ELSE {}]
    /\ \/ /\ unfinished = 0 \/ ~running
          /\ spc' = [spc EXCEPT ![s] = "gathering"]
          /\ cancelled' = TRUE
       \/ /\ unfinished > 0 /\ running
          /\ spc' = [spc EXCEPT ![s] = "joining"]
          /\ UNCHANGED cancelled
    /\ UNCHANGED <<subs, queue, unfinished, wpc, held, inflight, raised, status>>

StopCall(s) ==
    /\ Started /\ Free(s) /\ spc[s] = "idle"
    /\ running' = FALSE
    /\ owed' = [owed EXCEPT ![s] = IF FirstDrain THEN Outstanding ELSE {}]
    /\ \/ /\ unfinished = 0
          /\ spc' = [spc EXCEPT ![s] = "gathering"]
          /\ cancelled' = TRUE
       \/ /\ unfinished > 0
          /\ spc' = [spc EXCEPT ![s] = "joining"]
          /\ UNCHANGED cancelled
    /\ UNCHANGED <<subs, queue, unfinished, wpc, held, inflight, raised, status>>

StopCancel(s) ==
    /\ spc[s] = "woken" /\ Alive(s)
    /\ spc' = [spc EXCEPT ![s] = "gathering"]
    /\ cancelled' = TRUE
    /\ UNCHANGED <<subs, queue, unfinished, running, wpc, held, inflight, raised,
                   status, owed>>

StopReturn(s) ==
    /\ spc[s] = "gathering" /\ Alive(s)
    /\ \A w \in Workers : wpc[w] = "exited"
    /\ spc' = [spc EXCEPT ![s] = "done"]
    /\ UNCHANGED <<subs, queue, unfinished, running, cancelled, wpc, held, inflight,
                   raised, status, owed>>

-----------------------------------------------------------------------------

WorkerStep(w) ==
    \/ WorkerBegin(w) \/ GetWakes(w) \/ FinishDispatch(w)
    \/ CancelIdle(w) \/ CancelDispatch(w)
HandlerEnd(i) == HandlerReturn(i) \/ HandlerRaise(i)
StopStep(s) == StopCancel(s) \/ StopReturn(s)

Next ==
    \/ \E R \in SUBSET Regs : Subscribe(R) \/ Start(R)
    \/ \E e \in Events : Publish(e) \/ PublishNowait(e) \/ PutterWakes(e)
    \/ \E i \in Invocations : HandlerEnd(i)
    \/ \E w \in Workers : WorkerStep(w)
    \/ \E s \in Stoppers : StopCall(s) \/ StopStep(s)

Spec == Init /\ [][Next]_vars

(* The loop resumes every task that can run; a handler that waits on       *)
(* nothing of the bus ends.  Nothing obliges anyone to publish or to stop. *)
Fairness ==
    /\ \A w \in Workers : WF_vars(WorkerStep(w))
    /\ \A e \in Events : WF_vars(PutterWakes(e))
    /\ \A i \in Invocations : WF_vars(HandlerEnd(i))
    /\ \A s \in Stoppers : WF_vars(StopStep(s))

FairSpec == Spec /\ Fairness

-----------------------------------------------------------------------------
(* Properties *)

(* Until the workers are cancelled the queue's count is the backlog plus   *)
(* the events being dispatched, so join() can trust it (lines 64, 79-81).  *)
(* Afterwards it may fall short, since a worker cancelled in get() counts  *)
(* its last event again, but no call of stop() waits for more than is left. *)
UnfinishedExact ==
    /\ unfinished <= Len(queue) + Cardinality(Dispatching)
    /\ ~cancelled => unfinished = Len(queue) + Cardinality(Dispatching)

(* "Drain and cancel": once join() lets the first stop() go on, each event *)
(* that was outstanding when it was called has been dispatched to its end. *)
DrainedAtCancel ==
    \A s \in Stoppers : spc[s] \in {"woken", "gathering", "done"}
                          => \A e \in owed[s] : status[e] = "done"

(* When stop() returns, the only handlers that can still be running are    *)
(* siblings of one that raised: gather() left them behind (line 86).       *)
OrphansOnlyAfterRaise ==
    \A s \in Stoppers : spc[s] = "done" => \A i \in inflight : i[1] \in raised

(* An event is being dispatched by exactly one worker, or by none before   *)
(* it is taken and after it is done: nothing is handled twice (72-81).     *)
HandledByOneWorker ==
    /\ \A v, w \in Dispatching : held[v] = held[w] => v = w
    /\ \A e \in Events : status[e] = "taken" <=> \E w \in Dispatching : held[w] = e
    /\ \A w \in Dispatching : held[w] # None

(* So a handler runs under one worker that waits for it, or is left over   *)
(* from an event whose handling failed.                                    *)
HandledOnce == HandledByOneWorker /\ OrphansOnlyAfterRaise

(* The queue holds each accepted event that no worker has taken, once.     *)
QueueHoldsQueued ==
    /\ \A j, k \in 1 .. Len(queue) : queue[j] = queue[k] => j = k
    /\ \A e \in Events : status[e] = "queued" <=> \E k \in 1 .. Len(queue) : queue[k] = e

(* A handler runs while its event is dispatched, or as an orphan.          *)
HandlersOfTaken == \A i \in inflight : status[i[1]] = "taken" \/ i[1] \in raised

(* A first call of stop() that waits in join() still has something to wait *)
(* for, and what it owes is not lost; a later call owes nothing.           *)
JoiningOwes ==
    \A s \in Stoppers : spc[s] = "joining" =>
        \/ /\ FirstDrain /\ unfinished > 0
           /\ \A e \in owed[s] : status[e] \in {"queued", "taken", "done"}
        \/ ~FirstDrain /\ owed[s] = {}

WorkersGoneAfterStop ==
    \A s \in Stoppers : spc[s] = "done" => \A w \in Workers : wpc[w] = "exited"

(* The inductive invariant behind the safety properties.                   *)
IndInv ==
    /\ TypeOK
    /\ QueueHoldsQueued
    /\ HandledByOneWorker
    /\ HandlersOfTaken
    /\ UnfinishedExact
    /\ JoiningOwes
    /\ DrainedAtCancel
    /\ WorkersGoneAfterStop

(* A worker that will do nothing more: it has left its loop (line 71), or  *)
(* every handler it gathers waits for room in the queue (line 45) or, in   *)
(* stop(), for the count to reach zero (line 64).                          *)
Waits(i) ==
    \/ Full /\ \E e \in Events : status[e] = "blocked" /\ SourceOf[e] = i
    \/ i \in Stoppers /\ spc[i] = "joining"
Idles(w) ==
    \/ wpc[w] = "exited"
    \/ /\ wpc[w] = "dispatch"
       /\ held[w] \notin raised /\ InvocationsOf(held[w]) # {}
       /\ \A i \in InvocationsOf(held[w]) : Waits(i)
Hung ==
    /\ ~cancelled /\ FirstDrain /\ unfinished > 0
    /\ \A w \in Workers : Idles(w)

(* A hung bus hangs for good: whatever is still published, subscribed or   *)
(* stopped, no event is finished or lost any more, and no call of stop()   *)
(* that waits in join() goes on: nothing in lines 61-86 frees it again.    *)
HangsForGood ==
    [][Hung => /\ Hung'
               /\ \A e \in Events : status[e] \in {"queued", "taken"} => status'[e] = status[e]
               /\ \A s \in Stoppers : spc[s] = "joining" => spc'[s] = "joining"]_vars

(* An accepted event is handled to its end, whatever its handlers and      *)
(* those before it raise, unless somebody calls stop() or every worker is  *)
(* held by handlers that wait in publish() for room in the queue, which is *)
(* the one way the bus can stall by itself (lines 45, 71-81).              *)
Stalled == \A w \in Workers : wpc[w] = "dispatch" /\ Idles(w)
DeliveredUnlessStalled ==
    \A e \in Events : status[e] = "queued" ~> (status[e] = "done" \/ ~running \/ Stalled)

(* stop() returns when the workers waiting in get() can cover the backlog, *)
(* nobody has more to publish and it is not called from a handler.         *)
Covered ==
    /\ Len(queue) <= Cardinality({w \in Workers : wpc[w] = "get"})
    /\ \A e \in Events : status[e] \notin {"new", "blocked"}
StopReturnsWhenCovered ==
    \A s \in Stoppers \cap {External} :
        (spc[s] = "joining" /\ Covered) ~> spc[s] = "done"

(* The bus implements the delivery promise: an accepted event starts at    *)
(* most once, and stop() lets the bus close only when it owes nothing.     *)
StageOf(st) ==
    CASE st = "blocked" -> "waiting"  [] st = "dropped" -> "refused"
      [] st = "queued"  -> "accepted" [] st = "taken"   -> "started"
      [] st = "done"    -> "finished" [] st = "aborted" -> "lost"
      [] st = "new"     -> "new"
EventStage == [e \in Events |-> StageOf(status[e])]
BusPhase ==
    CASE cancelled -> "closed"
      [] ~cancelled /\ ~FirstDrain -> "drained"
      [] FirstDrain /\ (\E s \in Stoppers : spc[s] = "joining") -> "draining"
      [] FirstDrain /\ (\A s \in Stoppers : spc[s] # "joining") -> "open"
Promised == UNION {owed[s] : s \in Stoppers}
Delivery == INSTANCE EventDelivery WITH
    stage <- EventStage, phase <- BusPhase, promised <- Promised
DeliverySpec == Delivery!Spec

(* publish() holds its caller no longer than the insertion takes (line 44): *)
(* while the bus runs, a caller that found the queue full gets its slot.   *)
PublishInserts ==
    \A e \in Events : (running /\ status[e] = "blocked") ~> status[e] # "blocked"

(* "Drain and cancel workers." (line 62): a call of stop() returns.        *)
StopReturns == \A s \in Stoppers : spc[s] = "joining" ~> spc[s] = "done"
=============================================================================
