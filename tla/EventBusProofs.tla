--------------------------- MODULE EventBusProofs ---------------------------
(***************************************************************************)
(* The safety of the event bus, for every number of workers, queue size,   *)
(* set of events and assignment of handlers.                               *)
(***************************************************************************)
EXTENDS EventBus, SequenceTheorems, FiniteSetTheorems, TLAPS

-----------------------------------------------------------------------------
(* The queue *)

LEMMA PutAtTail ==
    ASSUME NEW q \in Seq(Events), NEW e \in Events
    PROVE  /\ Append(q, e) \in Seq(Events)
           /\ Len(Append(q, e)) = Len(q) + 1
           /\ \A k \in 1 .. Len(q) : Append(q, e)[k] = q[k]
           /\ Append(q, e)[Len(q) + 1] = e
BY AppendProperties

LEMMA TakeAtHead ==
    ASSUME NEW q \in Seq(Events), q # <<>>
    PROVE  /\ Head(q) = q[1] /\ Head(q) \in Events
           /\ Tail(q) \in Seq(Events)
           /\ Len(Tail(q)) = Len(q) - 1 /\ Len(q) \in Nat \ {0}
           /\ \A k \in 1 .. Len(q) - 1 : Tail(q)[k] = q[k + 1]
<1>1. Len(q) \in Nat \ {0}
  BY EmptySeq, LenProperties
<1>2. Tail(q) \in Seq(Events) /\ Len(Tail(q)) = Len(q) - 1 /\ Head(q) \in Events
  BY HeadTailProperties
<1>3. \A k \in 1 .. Len(q) - 1 : Tail(q)[k] = q[k + 1]
  BY <1>2, HeadTailProperties
<1>4. Head(q) = q[1]
  OBVIOUS
<1> QED BY <1>1, <1>2, <1>3, <1>4

-----------------------------------------------------------------------------
(* Type correctness *)

LEMMA LoopType ==
    ASSUME TypeOK, NEW w \in Workers, NEW st \in [Events -> Statuses],
           Loop(w, st) \/ Take(w, st)
    PROVE  /\ queue' \in Seq(Events)
           /\ wpc' \in [Workers -> WorkerStates]
           /\ held' \in [Workers -> Events \cup {None}]
           /\ inflight' \subseteq Invocations
           /\ status' \in [Events -> Statuses]
<1>1. CASE Take(w, st)
  <2>1. queue # <<>> /\ queue \in Seq(Events)
    BY <1>1 DEF Take, TypeOK
  <2>2. Head(queue) \in Events /\ Tail(queue) \in Seq(Events)
    BY <2>1, TakeAtHead
  <2>3. MatchingHandlers(Head(queue)) \subseteq Regs
    BY DEF MatchingHandlers, TypeOK
  <2> QED
    BY <1>1, <2>2, <2>3 DEF Take, TypeOK, WorkerStates, Statuses, Invocations
<1>2. CASE ~Take(w, st)
  BY <1>2 DEF Loop, Rest, TypeOK, WorkerStates
<1> QED BY <1>1, <1>2

LEMMA WokenType ==
    ASSUME NEW f \in [Stoppers -> StopStates], NEW n \in Nat
    PROVE  Woken(f, n) \in [Stoppers -> StopStates]
BY DEF Woken, StopStates

LEMMA TypeStep == TypeOK /\ [Next]_vars => TypeOK'
<1> SUFFICES ASSUME TypeOK, [Next]_vars PROVE TypeOK'
  OBVIOUS
<1>a. Decremented \in Nat
  BY DEF Decremented, TypeOK
<1>1. ASSUME NEW R \in SUBSET Regs, Subscribe(R) \/ Start(R) PROVE TypeOK'
  BY <1>1 DEF TypeOK, Subscribe, Start, WorkerStates
<1>2. ASSUME NEW e \in Events, Accept(e) PROVE TypeOK'
  BY <1>2, PutAtTail DEF TypeOK, Accept, Statuses
<1>3. ASSUME NEW e \in Events, NEW as \in Statuses, Refuse(e, as) PROVE TypeOK'
  BY <1>3 DEF TypeOK, Refuse
<1>4. ASSUME NEW e \in Events, Publish(e) \/ PublishNowait(e) \/ PutterWakes(e) PROVE TypeOK'
  BY <1>2, <1>3, <1>4 DEF Publish, PublishNowait, PutterWakes, Statuses
<1>5. ASSUME NEW i \in Invocations, HandlerEnd(i) PROVE TypeOK'
  BY <1>5 DEF TypeOK, HandlerEnd, HandlerReturn, HandlerRaise, Invocations
<1>6. ASSUME NEW w \in Workers, WorkerBegin(w) \/ GetWakes(w) PROVE TypeOK'
  BY <1>6, LoopType DEF TypeOK, WorkerBegin, GetWakes
<1>7. ASSUME NEW w \in Workers, FinishDispatch(w) PROVE TypeOK'
  <2>1. [status EXCEPT ![held[w]] = "done"] \in [Events -> Statuses]
    BY DEF TypeOK, Statuses
  <2> QED
    BY <1>7, <1>a, <2>1, LoopType, WokenType DEF TypeOK, FinishDispatch
<1>8. ASSUME NEW w \in Workers, CancelIdle(w) PROVE TypeOK'
  BY <1>8, <1>a, WokenType DEF TypeOK, CancelIdle, WorkerStates
<1>9. ASSUME NEW w \in Workers, CancelDispatch(w) PROVE TypeOK'
  <2>1. Woken(spc, Decremented) \in [Stoppers -> StopStates]
    BY <1>a, WokenType DEF TypeOK
  <2> QED
    BY <1>9, <1>a, <2>1 DEF TypeOK, CancelDispatch, WorkerStates, Statuses, StopStates
<1>10. ASSUME NEW s \in Stoppers, StopCall(s) PROVE TypeOK'
  BY <1>10 DEF TypeOK, StopCall, StopStates, Outstanding
<1>11. ASSUME NEW s \in Stoppers, StopStep(s) PROVE TypeOK'
  BY <1>11 DEF TypeOK, StopStep, StopCancel, StopReturn, StopStates
<1>12. CASE UNCHANGED vars
  BY <1>12 DEF TypeOK, vars
<1> QED
  BY <1>1, <1>4, <1>5, <1>6, <1>7, <1>8, <1>9, <1>10, <1>11, <1>12 DEF Next, WorkerStep

(* Every variable keeps its type in every execution of core/event_bus.py.  *)
THEOREM TypeCorrect == Spec => []TypeOK
<1>1. Init => TypeOK
  <2> SUFFICES ASSUME Init PROVE TypeOK
    OBVIOUS
  <2>1. queue \in Seq(Events)
    BY EmptySeq DEF Init
  <2> QED BY <2>1 DEF Init, TypeOK, WorkerStates, Statuses, StopStates
<1>2. QED BY <1>1, TypeStep, PTL DEF Spec

-----------------------------------------------------------------------------
(* The queue holds exactly the queued events *)

LEMMA QueueSame ==
    ASSUME QueueHoldsQueued, queue' = queue,
           \A e \in Events : status'[e] = "queued" <=> status[e] = "queued"
    PROVE  QueueHoldsQueued'
BY DEF QueueHoldsQueued

LEMMA QueuePut ==
    ASSUME TypeOK, QueueHoldsQueued, NEW e \in Events, status[e] # "queued", Accept(e)
    PROVE  QueueHoldsQueued'
<1>1. /\ queue' = Append(queue, e)
      /\ Len(queue) \in Nat
      /\ Len(queue') = Len(queue) + 1
      /\ \A k \in 1 .. Len(queue) : queue'[k] = queue[k]
      /\ queue'[Len(queue) + 1] = e
  BY PutAtTail, LenProperties DEF Accept, TypeOK
<1>2. \A f \in Events : status'[f] = IF f = e THEN "queued" ELSE status[f]
  BY DEF Accept, TypeOK
<1>3. \A k \in 1 .. Len(queue) : queue[k] # e
  BY DEF QueueHoldsQueued
<1>4. \A j, k \in 1 .. Len(queue') : queue'[j] = queue'[k] => j = k
  BY <1>1, <1>3 DEF QueueHoldsQueued
<1>5. ASSUME NEW f \in Events
      PROVE  status'[f] = "queued" <=> \E k \in 1 .. Len(queue') : queue'[k] = f
  <2>1. CASE f = e
    BY <2>1, <1>1, <1>2
  <2>2. CASE f # e
    BY <2>2, <1>1, <1>2 DEF QueueHoldsQueued
  <2> QED BY <2>1, <2>2
<1> QED BY <1>4, <1>5 DEF QueueHoldsQueued

LEMMA QueueTake ==
    ASSUME TypeOK, QueueHoldsQueued, NEW w \in Workers, NEW st \in [Events -> Statuses],
           \A e \in Events : st[e] = "queued" <=> status[e] = "queued", Take(w, st)
    PROVE  QueueHoldsQueued'
<1> DEFINE h == Head(queue)
<1>1. /\ queue # <<>> /\ queue \in Seq(Events)
      /\ queue' = Tail(queue)
      /\ status' = [st EXCEPT ![h] = "taken"]
  BY DEF Take, TypeOK
<1>2. /\ h = queue[1] /\ h \in Events
      /\ Len(queue) \in Nat \ {0}
      /\ Len(queue') = Len(queue) - 1
      /\ \A k \in 1 .. Len(queue) - 1 : queue'[k] = queue[k + 1]
  BY <1>1, TakeAtHead
<1>3. \A f \in Events : status'[f] = IF f = h THEN "taken" ELSE st[f]
  BY <1>1, <1>2
<1>4. \A j, k \in 1 .. Len(queue') : queue'[j] = queue'[k] => j = k
  BY <1>2 DEF QueueHoldsQueued
<1>5. ASSUME NEW f \in Events
      PROVE  status'[f] = "queued" <=> \E k \in 1 .. Len(queue') : queue'[k] = f
  <2>1. CASE f = h
    <3>1. \A k \in 1 .. Len(queue') : queue'[k] # h
      BY <1>2 DEF QueueHoldsQueued
    <3> QED BY <2>1, <3>1, <1>3
  <2>2. CASE f # h
    <3>1. status'[f] = "queued" <=> \E k \in 1 .. Len(queue) : queue[k] = f
      BY <2>2, <1>3 DEF QueueHoldsQueued
    <3>2. ASSUME NEW k \in 1 .. Len(queue), queue[k] = f
          PROVE  \E j \in 1 .. Len(queue') : queue'[j] = f
      <4>1. k # 1
        BY <3>2, <2>2, <1>2
      <4>2. k - 1 \in 1 .. Len(queue') /\ queue'[k - 1] = f
        BY <4>1, <3>2, <1>2
      <4> QED BY <4>2
    <3>3. ASSUME NEW k \in 1 .. Len(queue'), queue'[k] = f
          PROVE  \E j \in 1 .. Len(queue) : queue[j] = f
      <4>1. k + 1 \in 1 .. Len(queue) /\ queue[k + 1] = f
        BY <3>3, <1>2
      <4> QED BY <4>1
    <3> QED BY <3>1, <3>2, <3>3
  <2> QED BY <2>1, <2>2
<1> QED BY <1>4, <1>5 DEF QueueHoldsQueued

LEMMA QueueStep ==
    ASSUME TypeOK, QueueHoldsQueued, HandledByOneWorker, [Next]_vars
    PROVE  QueueHoldsQueued'
<1>1. ASSUME NEW e \in Events, Publish(e) \/ PublishNowait(e) \/ PutterWakes(e)
      PROVE  QueueHoldsQueued'
  <2>1. status[e] # "queued"
    BY <1>1 DEF Publish, PublishNowait, PutterWakes
  <2>2. CASE Accept(e)
    BY <2>1, <2>2, QueuePut
  <2>3. ASSUME NEW as \in {"blocked", "dropped"}, Refuse(e, as) PROVE QueueHoldsQueued'
    BY <2>1, <2>3, QueueSame DEF Refuse, TypeOK
  <2> QED BY <1>1, <2>2, <2>3 DEF Publish, PublishNowait, PutterWakes
<1>2. ASSUME NEW w \in Workers, WorkerBegin(w) \/ GetWakes(w) PROVE QueueHoldsQueued'
  <2>1. CASE Take(w, status)
    BY <2>1, QueueTake DEF TypeOK
  <2>2. CASE ~Take(w, status)
    BY <1>2, <2>2, QueueSame DEF WorkerBegin, GetWakes, Loop, Rest
  <2> QED BY <2>1, <2>2
<1>3. ASSUME NEW w \in Workers, FinishDispatch(w) PROVE QueueHoldsQueued'
  <2> DEFINE st == [status EXCEPT ![held[w]] = "done"]
  <2>1. status[held[w]] = "taken"
    BY <1>3 DEF FinishDispatch, HandledByOneWorker, Dispatching, TypeOK
  <2>2. st \in [Events -> Statuses] /\ \A e \in Events : st[e] = "queued" <=> status[e] = "queued"
    BY <2>1 DEF TypeOK, Statuses
  <2>3. CASE Take(w, st)
    BY <2>2, <2>3, QueueTake
  <2>4. CASE ~Take(w, st)
    BY <1>3, <2>2, <2>4, QueueSame DEF FinishDispatch, Loop, Rest
  <2> QED BY <2>3, <2>4
<1>4. ASSUME NEW w \in Workers, CancelDispatch(w) PROVE QueueHoldsQueued'
  <2>1. status[held[w]] = "taken"
    BY <1>4 DEF CancelDispatch, HandledByOneWorker, Dispatching, TypeOK
  <2> QED BY <1>4, <2>1, QueueSame DEF CancelDispatch, TypeOK
<1>5. CASE UNCHANGED <<queue, status>>
  BY <1>5, QueueSame
<1> QED
  BY <1>1, <1>2, <1>3, <1>4, <1>5
  DEF Next, WorkerStep, HandlerEnd, StopStep, vars, Subscribe, Start, HandlerReturn,
      HandlerRaise, CancelIdle, StopCall, StopCancel, StopReturn

-----------------------------------------------------------------------------
(* One worker per taken event *)

(* What a worker leaves behind when it goes on: the events that the others *)
(* are dispatching are the ones marked as taken.                           *)
OthersHold(w, st) ==
    \A e \in Events : st[e] = "taken" <=> \E v \in Dispatching \ {w} : held[v] = e

LEMMA HeadQueued ==
    ASSUME TypeOK, QueueHoldsQueued, queue # <<>>
    PROVE  Head(queue) \in Events /\ status[Head(queue)] = "queued"
<1>1. Head(queue) = queue[1] /\ Head(queue) \in Events /\ Len(queue) \in Nat \ {0}
  BY TakeAtHead DEF TypeOK
<1> QED BY <1>1 DEF QueueHoldsQueued

LEMMA HandledGoesOn ==
    ASSUME TypeOK, QueueHoldsQueued, HandledByOneWorker,
           NEW w \in Workers, NEW st \in [Events -> Statuses], OthersHold(w, st),
           \A e \in Events : st[e] = "queued" <=> status[e] = "queued",
           Loop(w, st) \/ Take(w, st)
    PROVE  HandledByOneWorker'
<1>1. CASE Take(w, st)
  <2> DEFINE h == Head(queue)
  <2>1. h \in Events /\ st[h] = "queued"
    BY <1>1, HeadQueued DEF Take
  <2>2. /\ wpc' = [wpc EXCEPT ![w] = "dispatch"] /\ held' = [held EXCEPT ![w] = h]
        /\ status' = [st EXCEPT ![h] = "taken"]
    BY <1>1 DEF Take
  <2>3. Dispatching' = (Dispatching \ {w}) \cup {w}
    BY <2>2 DEF Dispatching, TypeOK
  <2>4. held'[w] = h /\ \A v \in Dispatching \ {w} : held'[v] = held[v] /\ held[v] # h
    BY <2>1, <2>2 DEF TypeOK, OthersHold, Dispatching
  <2>5. \A v \in Dispatching' : held'[v] # None
    BY <2>1, <2>3, <2>4, NamesAssumption DEF HandledByOneWorker
  <2>6. \A u, v \in Dispatching' : held'[u] = held'[v] => u = v
    BY <2>3, <2>4 DEF HandledByOneWorker
  <2>7. \A e \in Events : status'[e] = IF e = h THEN "taken" ELSE st[e]
    BY <2>1, <2>2
  <2>8. \A e \in Events : status'[e] = "taken" <=> \E v \in Dispatching' : held'[v] = e
    BY <2>3, <2>4, <2>7 DEF OthersHold
  <2> QED BY <2>5, <2>6, <2>8 DEF HandledByOneWorker
<1>2. ASSUME NEW pc \in {"exited", "get"}, Rest(w, pc, st) PROVE HandledByOneWorker'
  <2>1. Dispatching' = Dispatching \ {w} /\ held' = held /\ status' = st
    BY <1>2 DEF Rest, Dispatching, TypeOK
  <2> QED BY <2>1 DEF HandledByOneWorker, OthersHold
<1> QED BY <1>1, <1>2 DEF Loop

LEMMA OthersAfterDone ==
    ASSUME TypeOK, HandledByOneWorker, NEW w \in Dispatching
    PROVE  /\ held[w] \in Events /\ status[held[w]] = "taken"
           /\ \A v \in Dispatching \ {w} : held[v] # held[w]
           /\ OthersHold(w, [status EXCEPT ![held[w]] = "done"])
BY DEF TypeOK, HandledByOneWorker, OthersHold, Dispatching

LEMMA HandledSame ==
    ASSUME HandledByOneWorker, Dispatching' = Dispatching, held' = held,
           \A e \in Events : status'[e] = "taken" <=> status[e] = "taken"
    PROVE  HandledByOneWorker'
BY DEF HandledByOneWorker

LEMMA HandledStep ==
    ASSUME TypeOK, QueueHoldsQueued, HandledByOneWorker, [Next]_vars
    PROVE  HandledByOneWorker'
<1>1. ASSUME NEW e \in Events, Publish(e) \/ PublishNowait(e) \/ PutterWakes(e)
      PROVE  HandledByOneWorker'
  <2>1. UNCHANGED <<wpc, held>> /\ \A f \in Events : status'[f] = "taken" <=> status[f] = "taken"
    BY <1>1 DEF Publish, PublishNowait, PutterWakes, Accept, Refuse, TypeOK
  <2> QED BY <2>1, HandledSame DEF Dispatching
<1>2. ASSUME NEW w \in Workers, WorkerBegin(w) \/ GetWakes(w) PROVE HandledByOneWorker'
  <2>1. w \notin Dispatching /\ status \in [Events -> Statuses]
    BY <1>2 DEF WorkerBegin, GetWakes, Dispatching, TypeOK
  <2>2. OthersHold(w, status)
    BY <2>1 DEF OthersHold, HandledByOneWorker
  <2>3. Loop(w, status) \/ Take(w, status)
    BY <1>2 DEF WorkerBegin, GetWakes
  <2> QED BY <2>1, <2>2, <2>3, HandledGoesOn
<1>3. ASSUME NEW w \in Workers, FinishDispatch(w) PROVE HandledByOneWorker'
  <2> DEFINE st == [status EXCEPT ![held[w]] = "done"]
  <2>1. w \in Dispatching
    BY <1>3 DEF FinishDispatch, Dispatching
  <2>2. status[held[w]] = "taken" /\ OthersHold(w, st)
    BY <2>1, OthersAfterDone
  <2>3. st \in [Events -> Statuses] /\ \A e \in Events : st[e] = "queued" <=> status[e] = "queued"
    BY <2>2 DEF TypeOK, Statuses
  <2>4. Loop(w, st)
    BY <1>3 DEF FinishDispatch
  <2> QED BY <2>2, <2>3, <2>4, HandledGoesOn
<1>4. ASSUME NEW w \in Workers, CancelDispatch(w) PROVE HandledByOneWorker'
  <2>1. w \in Dispatching
    BY <1>4 DEF CancelDispatch, Dispatching
  <2>2. /\ held[w] \in Events
        /\ \A v \in Dispatching \ {w} : held[v] # held[w]
        /\ OthersHold(w, [status EXCEPT ![held[w]] = "done"])
    BY <2>1, OthersAfterDone
  <2>3. Dispatching' = Dispatching \ {w} /\ held' = held
    BY <1>4 DEF CancelDispatch, Dispatching, TypeOK
  <2>4. \A e \in Events : status'[e] = "taken" <=> status[e] = "taken" /\ e # held[w]
    BY <1>4 DEF CancelDispatch, TypeOK
  <2>5. \A e \in Events : status'[e] = "taken" <=> \E v \in Dispatching \ {w} : held[v] = e
    BY <2>2, <2>4 DEF OthersHold, TypeOK
  <2> QED BY <2>3, <2>5 DEF HandledByOneWorker
<1>5. ASSUME NEW w \in Workers, CancelIdle(w) PROVE HandledByOneWorker'
  <2>1. Dispatching' = Dispatching
    BY <1>5 DEF CancelIdle, Dispatching, TypeOK
  <2> QED BY <1>5, <2>1, HandledSame DEF CancelIdle
<1>6. ASSUME NEW R \in SUBSET Regs, Start(R) PROVE HandledByOneWorker'
  <2>1. Dispatching' = Dispatching
    BY <1>6 DEF Start, Dispatching
  <2> QED BY <1>6, <2>1, HandledSame DEF Start
<1>7. CASE UNCHANGED <<wpc, held, status>>
  BY <1>7, HandledSame DEF Dispatching
<1> QED
  BY <1>1, <1>2, <1>3, <1>4, <1>5, <1>6, <1>7
  DEF Next, WorkerStep, HandlerEnd, StopStep, vars, Subscribe, HandlerReturn,
      HandlerRaise, StopCall, StopCancel, StopReturn

-----------------------------------------------------------------------------
(* Handlers run for taken events, or are left over from a failed dispatch *)

LEMMA HandlersGoOn ==
    ASSUME TypeOK, QueueHoldsQueued, NEW w \in Workers, NEW st \in [Events -> Statuses],
           \A i \in inflight : st[i[1]] = "taken" \/ i[1] \in raised,
           \A e \in Events : st[e] = "queued" <=> status[e] = "queued",
           Loop(w, st) \/ Take(w, st), raised' = raised
    PROVE  HandlersOfTaken'
<1>1. CASE Take(w, st)
  <2> DEFINE h == Head(queue)
  <2>1. h \in Events /\ inflight \subseteq Invocations
    BY <1>1, HeadQueued DEF Take, TypeOK
  <2>2. /\ inflight' = inflight \cup ({h} \X MatchingHandlers(h))
        /\ status' = [st EXCEPT ![h] = "taken"]
    BY <1>1 DEF Take
  <2>3. \A e \in Events : status'[e] = IF e = h THEN "taken" ELSE st[e]
    BY <2>1, <2>2
  <2>4. ASSUME NEW i \in inflight' PROVE status'[i[1]] = "taken" \/ i[1] \in raised'
    <3>1. CASE i \in inflight
      BY <3>1, <2>1, <2>3 DEF Invocations
    <3>2. CASE i \in {h} \X MatchingHandlers(h)
      BY <3>2, <2>1, <2>3
    <3> QED BY <2>2, <2>4, <3>1, <3>2
  <2> QED BY <2>4 DEF HandlersOfTaken
<1>2. CASE ~Take(w, st)
  BY <1>2 DEF Loop, Rest, HandlersOfTaken
<1> QED BY <1>1, <1>2

LEMMA HandlersStep ==
    ASSUME TypeOK, QueueHoldsQueued, HandledByOneWorker, HandlersOfTaken, [Next]_vars
    PROVE  HandlersOfTaken'
<1>0. inflight \subseteq Invocations
  BY DEF TypeOK
<1>1. ASSUME NEW e \in Events, Publish(e) \/ PublishNowait(e) \/ PutterWakes(e)
      PROVE  HandlersOfTaken'
  <2>1. /\ UNCHANGED <<inflight, raised>>
        /\ \A f \in Events : status[f] = "taken" => status'[f] = "taken"
    BY <1>1 DEF Publish, PublishNowait, PutterWakes, Accept, Refuse, TypeOK
  <2> QED BY <1>0, <2>1 DEF HandlersOfTaken, Invocations
<1>2. ASSUME NEW w \in Workers, WorkerBegin(w) \/ GetWakes(w) PROVE HandlersOfTaken'
  BY <1>2, HandlersGoOn DEF WorkerBegin, GetWakes, HandlersOfTaken, TypeOK
<1>3. ASSUME NEW w \in Workers, FinishDispatch(w) PROVE HandlersOfTaken'
  <2> DEFINE st == [status EXCEPT ![held[w]] = "done"]
  <2>1. w \in Dispatching
    BY <1>3 DEF FinishDispatch, Dispatching
  <2>2. held[w] \in Events /\ status[held[w]] = "taken"
    BY <2>1, OthersAfterDone
  <2>3. st \in [Events -> Statuses] /\ \A e \in Events : st[e] = "queued" <=> status[e] = "queued"
    BY <2>2 DEF TypeOK, Statuses
  <2>4. held[w] \in raised \/ \A i \in inflight : i[1] # held[w]
    BY <1>3 DEF FinishDispatch, InvocationsOf
  <2>5. \A i \in inflight : st[i[1]] = "taken" \/ i[1] \in raised
    BY <1>0, <2>4 DEF HandlersOfTaken, Invocations, TypeOK
  <2>6. Loop(w, st) /\ raised' = raised
    BY <1>3 DEF FinishDispatch
  <2> QED BY <2>3, <2>5, <2>6, HandlersGoOn
<1>4. ASSUME NEW w \in Workers, CancelDispatch(w) PROVE HandlersOfTaken'
  <2>1. /\ cancelled /\ raised' = raised
        /\ inflight' = inflight \ {i \in InvocationsOf(held[w]) : Doomed(i)}
    BY <1>4 DEF CancelDispatch
  <2>2. \A e \in Events : status[e] = "taken" /\ e # held[w] => status'[e] = "taken"
    BY <1>4 DEF CancelDispatch, TypeOK
  <2>3. \A i \in inflight' : i \in inflight /\ (i[1] # held[w] \/ i[1] \in raised)
    BY <2>1 DEF InvocationsOf, Doomed
  <2> QED BY <1>0, <2>1, <2>2, <2>3 DEF HandlersOfTaken, Invocations
<1>5. ASSUME NEW i \in Invocations, HandlerEnd(i) PROVE HandlersOfTaken'
  BY <1>5 DEF HandlerEnd, HandlerReturn, HandlerRaise, HandlersOfTaken
<1>6. CASE UNCHANGED <<inflight, raised, status>>
  BY <1>6 DEF HandlersOfTaken
<1> QED
  BY <1>1, <1>2, <1>3, <1>4, <1>5, <1>6
  DEF Next, WorkerStep, StopStep, vars, Subscribe, Start, CancelIdle, StopCall, StopCancel,
      StopReturn

-----------------------------------------------------------------------------
(* The count of unfinished tasks *)

LEMMA DispatchingFinite ==
    ASSUME TypeOK
    PROVE  IsFiniteSet(Dispatching) /\ Cardinality(Dispatching) \in Nat
BY WorkersAssumption, FS_Subset, FS_CardinalityType DEF Dispatching

LEMMA CountSame ==
    ASSUME UnfinishedExact, UNCHANGED <<queue, unfinished, Dispatching>>, cancelled => cancelled'
    PROVE  UnfinishedExact'
BY DEF UnfinishedExact

LEMMA CountStep ==
    ASSUME TypeOK, UnfinishedExact, HandledByOneWorker, [Next]_vars
    PROVE  UnfinishedExact'
<1>0. IsFiniteSet(Dispatching) /\ Cardinality(Dispatching) \in Nat /\ Len(queue) \in Nat
  BY DispatchingFinite, LenProperties DEF TypeOK
<1>1. ASSUME NEW e \in Events, Publish(e) \/ PublishNowait(e) \/ PutterWakes(e)
      PROVE  UnfinishedExact'
  <2>1. CASE Accept(e)
    <3>1. Len(queue') = Len(queue) + 1 /\ unfinished' = unfinished + 1
      BY <2>1, PutAtTail DEF Accept, TypeOK
    <3>2. Dispatching' = Dispatching /\ cancelled' = cancelled
      BY <2>1 DEF Accept, Dispatching
    <3> QED BY <1>0, <3>1, <3>2 DEF UnfinishedExact, TypeOK
  <2>2. ASSUME NEW as, Refuse(e, as) PROVE UnfinishedExact'
    BY <2>2, CountSame DEF Refuse, Dispatching
  <2> QED BY <1>1, <2>1, <2>2 DEF Publish, PublishNowait, PutterWakes
<1>2. ASSUME NEW w \in Workers, NEW st, Take(w, st)
      PROVE  /\ Len(queue') = Len(queue) - 1 /\ Len(queue) > 0
             /\ Dispatching' = Dispatching \cup {w}
  BY <1>2, TakeAtHead DEF Take, TypeOK, Dispatching
<1>3. ASSUME NEW w \in Workers, NEW pc \in {"exited", "get"}, NEW st, Rest(w, pc, st)
      PROVE  queue' = queue /\ Dispatching' = Dispatching \ {w}
  BY <1>3 DEF Rest, TypeOK, Dispatching
<1>4. ASSUME NEW w \in Workers, WorkerBegin(w) \/ GetWakes(w) PROVE UnfinishedExact'
  <2>1. w \notin Dispatching /\ UNCHANGED <<unfinished, cancelled>>
    BY <1>4 DEF WorkerBegin, GetWakes, Dispatching
  <2>2. CASE Take(w, status)
    <3>1. Cardinality(Dispatching \cup {w}) = Cardinality(Dispatching) + 1
      BY <1>0, <2>1, FS_AddElement
    <3>2. Len(queue') = Len(queue) - 1 /\ Dispatching' = Dispatching \cup {w}
      BY <1>2, <2>2
    <3>3. Cardinality(Dispatching') = Cardinality(Dispatching) + 1
      BY <3>1, <3>2
    <3> QED BY <1>0, <2>1, <3>2, <3>3 DEF UnfinishedExact
  <2>3. CASE ~Take(w, status)
    <3>1. queue' = queue /\ Dispatching' = Dispatching \ {w}
      BY <1>3, <1>4, <2>3 DEF WorkerBegin, GetWakes, Loop
    <3>2. Dispatching \ {w} = Dispatching
      BY <2>1
    <3> QED BY <2>1, <3>1, <3>2 DEF UnfinishedExact
  <2> QED BY <2>2, <2>3
<1>5. ASSUME NEW w \in Workers, FinishDispatch(w) PROVE UnfinishedExact'
  <2> DEFINE st == [status EXCEPT ![held[w]] = "done"]
  <2>1. w \in Dispatching /\ ~cancelled /\ ~cancelled' /\ unfinished' = Decremented /\ Loop(w, st)
    BY <1>5 DEF FinishDispatch, Dispatching
  <2>2. Cardinality(Dispatching \ {w}) = Cardinality(Dispatching) - 1 /\ Cardinality(Dispatching) > 0
    <3>1. Cardinality(Dispatching \ {w}) = Cardinality(Dispatching) - 1
      BY <1>0, <2>1, FS_RemoveElement
    <3>2. Cardinality(Dispatching \ {w}) \in Nat
      BY <1>0, FS_RemoveElement, FS_CardinalityType
    <3> QED BY <1>0, <3>1, <3>2
  <2>3. unfinished = Len(queue) + Cardinality(Dispatching) /\ unfinished' = unfinished - 1
    BY <1>0, <2>1, <2>2 DEF UnfinishedExact, Decremented
  <2>4. CASE Take(w, st)
    <3>1. Dispatching' = Dispatching /\ Len(queue') = Len(queue) - 1
      BY <1>2, <2>1, <2>4
    <3> QED BY <1>0, <2>3, <3>1 DEF UnfinishedExact
  <2>5. CASE ~Take(w, st)
    <3>1. queue' = queue /\ Dispatching' = Dispatching \ {w}
      BY <1>3, <2>1, <2>5 DEF Loop
    <3> QED BY <1>0, <2>2, <2>3, <3>1 DEF UnfinishedExact
  <2> QED BY <2>4, <2>5
<1>6. ASSUME NEW w \in Workers, CancelIdle(w) \/ CancelDispatch(w) PROVE UnfinishedExact'
  <2>1. /\ cancelled /\ cancelled' /\ queue' = queue
        /\ unfinished' = unfinished \/ unfinished' = Decremented
    BY <1>6 DEF CancelIdle, CancelDispatch
  <2>2. unfinished \in Nat /\ unfinished' \in Nat /\ unfinished' <= unfinished
    BY <2>1 DEF TypeOK, Decremented
  <2>3. CASE CancelIdle(w)
    <3>1. Dispatching' = Dispatching
      BY <2>3 DEF CancelIdle, Dispatching, TypeOK
    <3> QED BY <1>0, <2>1, <2>2, <3>1 DEF UnfinishedExact
  <2>4. CASE CancelDispatch(w)
    <3>1. w \in Dispatching /\ Dispatching' = Dispatching \ {w} /\ unfinished' = Decremented
      BY <2>4 DEF CancelDispatch, Dispatching, TypeOK
    <3>2. Cardinality(Dispatching \ {w}) = Cardinality(Dispatching) - 1
      BY <1>0, <3>1, FS_RemoveElement
    <3>3. Cardinality(Dispatching \ {w}) \in Nat
      BY <1>0, FS_RemoveElement, FS_CardinalityType
    <3>4. Cardinality(Dispatching') = Cardinality(Dispatching) - 1 /\ Cardinality(Dispatching') \in Nat
      BY <3>1, <3>2, <3>3
    <3> QED BY <1>0, <2>1, <2>2, <3>1, <3>4 DEF UnfinishedExact, Decremented
  <2> QED BY <1>6, <2>3, <2>4
<1>7. ASSUME NEW R \in SUBSET Regs, Start(R) PROVE UnfinishedExact'
  <2>1. Dispatching' = Dispatching
    BY <1>7 DEF Start, Dispatching
  <2> QED BY <1>7, <2>1, CountSame DEF Start
<1>8. ASSUME NEW s \in Stoppers, StopCall(s) \/ StopStep(s) PROVE UnfinishedExact'
  BY <1>8, CountSame DEF StopCall, StopStep, StopCancel, StopReturn, Dispatching
<1>9. CASE UNCHANGED <<queue, unfinished, cancelled, wpc>>
  BY <1>9, CountSame DEF Dispatching
<1> QED
  BY <1>1, <1>4, <1>5, <1>6, <1>7, <1>8, <1>9
  DEF Next, WorkerStep, HandlerEnd, vars, Subscribe, HandlerReturn, HandlerRaise

-----------------------------------------------------------------------------
(* What the calls of stop() owe *)

(* A first stop() stays first as long as nothing wakes it.                 *)
LEMMA FirstDrainOnce ==
    ASSUME TypeOK, [Next]_vars, ~FirstDrain
    PROVE  ~FirstDrain'
<1>1. CASE cancelled
  <2>1. cancelled'
    BY <1>1 DEF Next, WorkerStep, HandlerEnd, StopStep, vars, Subscribe, Start, Publish,
       PublishNowait, PutterWakes, Accept, Refuse, HandlerReturn, HandlerRaise, WorkerBegin,
       GetWakes, FinishDispatch, CancelIdle, CancelDispatch, StopCall, StopCancel, StopReturn
  <2> QED BY <2>1 DEF FirstDrain
<1>2. CASE ~cancelled
  <2>1. PICK s \in Stoppers : spc[s] = "woken"
    BY <1>2 DEF FirstDrain
  <2>2. spc'[s] = "woken" \/ cancelled'
    <3>1. ASSUME NEW t \in Stoppers, StopCall(t) \/ StopStep(t) PROVE spc'[s] = "woken" \/ cancelled'
      BY <2>1, <3>1 DEF StopCall, StopStep, StopCancel, StopReturn, TypeOK
    <3>2. ASSUME NEW w \in Workers, FinishDispatch(w) PROVE spc'[s] = "woken"
      BY <2>1, <3>2 DEF FinishDispatch, Woken
    <3>3. ASSUME NEW w \in Workers, CancelIdle(w) \/ CancelDispatch(w) PROVE FALSE
      BY <1>2, <3>3 DEF CancelIdle, CancelDispatch
    <3>4. CASE UNCHANGED spc
      BY <2>1, <3>4
    <3> QED
      BY <3>1, <3>2, <3>3, <3>4 DEF Next, WorkerStep, HandlerEnd, vars, Subscribe, Start, Publish,
         PublishNowait, PutterWakes, Accept, Refuse, HandlerReturn, HandlerRaise, WorkerBegin,
         GetWakes
  <2> QED BY <2>2 DEF FirstDrain
<1> QED BY <1>1, <1>2

(* Accepted events stay accepted until the workers are cancelled.          *)
Kept(e) == status[e] \in {"queued", "taken", "done"}

LEMMA KeptStep ==
    ASSUME TypeOK, QueueHoldsQueued, HandledByOneWorker, [Next]_vars, NEW e \in Events
    PROVE  /\ status[e] = "done" => status'[e] = "done"
           /\ Kept(e) /\ ~cancelled => Kept(e)'
<1>1. ASSUME NEW f \in Events, Publish(f) \/ PublishNowait(f) \/ PutterWakes(f)
      PROVE  Kept(e) => status'[e] = status[e]
  BY <1>1 DEF Publish, PublishNowait, PutterWakes, Accept, Refuse, TypeOK, Kept
<1>2. ASSUME NEW w \in Workers, NEW st \in [Events -> Statuses],
             \A f \in Events : st[f] = "queued" <=> status[f] = "queued",
             Loop(w, st) \/ Take(w, st)
      PROVE  status'[e] = st[e] \/ (status[e] = "queued" /\ status'[e] = "taken")
  <2>1. CASE Take(w, st)
    <3>1. status[Head(queue)] = "queued" /\ Head(queue) \in Events
      BY <2>1, HeadQueued DEF Take
    <3> QED BY <2>1, <3>1 DEF Take
  <2>2. CASE ~Take(w, st)
    BY <1>2, <2>2 DEF Loop, Rest
  <2> QED BY <2>1, <2>2
<1>3. ASSUME NEW w \in Workers, WorkerBegin(w) \/ GetWakes(w)
      PROVE  /\ status[e] = "done" => status'[e] = "done"
             /\ Kept(e) => Kept(e)'
  <2>1. status'[e] = status[e] \/ (status[e] = "queued" /\ status'[e] = "taken")
    BY <1>2, <1>3 DEF WorkerBegin, GetWakes, TypeOK
  <2> QED BY <2>1 DEF Kept
<1>4. ASSUME NEW w \in Workers, FinishDispatch(w)
      PROVE  /\ status[e] = "done" => status'[e] = "done"
             /\ Kept(e) => Kept(e)'
  <2> DEFINE st == [status EXCEPT ![held[w]] = "done"]
  <2>1. w \in Dispatching /\ Loop(w, st)
    BY <1>4 DEF FinishDispatch, Dispatching
  <2>2. status[held[w]] = "taken" /\ held[w] \in Events
    BY <2>1, OthersAfterDone
  <2>3. st \in [Events -> Statuses] /\ \A f \in Events : st[f] = "queued" <=> status[f] = "queued"
    BY <2>2 DEF TypeOK, Statuses
  <2>4. status'[e] = st[e] \/ (status[e] = "queued" /\ status'[e] = "taken")
    BY <1>2, <2>1, <2>3
  <2>5. st[e] = status[e] \/ st[e] = "done"
    BY DEF TypeOK
  <2> QED BY <2>4, <2>5 DEF Kept
<1>5. ASSUME NEW w \in Workers, CancelDispatch(w)
      PROVE  cancelled /\ (status[e] = "done" => status'[e] = "done")
  <2>1. w \in Dispatching
    BY <1>5 DEF CancelDispatch, Dispatching
  <2>2. status[held[w]] = "taken" /\ held[w] \in Events
    BY <2>1, OthersAfterDone
  <2> QED BY <1>5, <2>2 DEF CancelDispatch
<1>6. CASE UNCHANGED status
  BY <1>6 DEF Kept
<1> QED
  BY <1>1, <1>3, <1>4, <1>5, <1>6
  DEF Kept, Next, WorkerStep, HandlerEnd, StopStep, vars, Subscribe, Start, HandlerReturn,
      HandlerRaise, CancelIdle, StopCall, StopCancel, StopReturn

(* A step that wakes no call of stop() and leaves its debts alone.         *)
LEMMA JoiningSame ==
    ASSUME TypeOK, JoiningOwes, QueueHoldsQueued, HandledByOneWorker, [Next]_vars,
           owed' = owed, cancelled' = cancelled,
           \A s \in Stoppers : spc'[s] = "joining" => spc[s] = "joining",
           \A s \in Stoppers : spc'[s] = "woken" => spc[s] = "woken",
           unfinished > 0 => unfinished' > 0
    PROVE  JoiningOwes'
<1> SUFFICES ASSUME NEW s \in Stoppers, spc'[s] = "joining"
             PROVE  \/ /\ FirstDrain' /\ unfinished' > 0
                       /\ \A e \in owed'[s] : status'[e] \in {"queued", "taken", "done"}
                    \/ ~FirstDrain' /\ owed'[s] = {}
  BY DEF JoiningOwes
<1>1. CASE FirstDrain /\ unfinished > 0 /\ \A e \in owed[s] : Kept(e)
  <2>1. \A e \in owed[s] : Kept(e)'
    <3>1. ~cancelled /\ owed[s] \subseteq Events
      BY <1>1 DEF FirstDrain, TypeOK
    <3> QED BY <1>1, <3>1, KeptStep
  <2> QED BY <1>1, <2>1 DEF FirstDrain, Kept
<1>2. CASE ~FirstDrain /\ owed[s] = {}
  BY <1>2, FirstDrainOnce
<1> QED BY <1>1, <1>2 DEF JoiningOwes, Kept

LEMMA JoiningStep ==
    ASSUME TypeOK, JoiningOwes, QueueHoldsQueued, HandledByOneWorker, [Next]_vars
    PROVE  JoiningOwes'
<1>0. unfinished \in Nat
  BY DEF TypeOK
<1>1. ASSUME NEW w \in Workers, FinishDispatch(w) PROVE JoiningOwes'
  <2>1. /\ ~cancelled /\ owed' = owed /\ cancelled' = cancelled
        /\ unfinished' = Decremented /\ spc' = Woken(spc, Decremented)
    BY <1>1 DEF FinishDispatch
  <2>2. CASE Decremented = 0
    BY <2>1, <2>2 DEF Woken, JoiningOwes
  <2>3. CASE Decremented # 0
    <3>1. \A s \in Stoppers : spc'[s] = spc[s]
      BY <2>1, <2>3 DEF Woken
    <3>2. unfinished' > 0
      BY <1>0, <2>1, <2>3 DEF Decremented
    <3> QED BY <2>1, <3>1, <3>2, JoiningSame
  <2> QED BY <2>2, <2>3
<1>2. ASSUME NEW w \in Workers, CancelIdle(w) \/ CancelDispatch(w) PROVE JoiningOwes'
  <2>1. cancelled /\ owed' = owed
    BY <1>2 DEF CancelIdle, CancelDispatch
  <2>2. ASSUME NEW s \in Stoppers, spc'[s] = "joining" PROVE spc[s] = "joining"
    BY <1>2, <2>2 DEF CancelIdle, CancelDispatch, Woken
  <2>3. ~FirstDrain /\ ~FirstDrain'
    BY <2>1, FirstDrainOnce DEF FirstDrain
  <2> QED BY <2>1, <2>2, <2>3 DEF JoiningOwes
<1>3. ASSUME NEW s \in Stoppers, StopCall(s) PROVE JoiningOwes'
  <2>1. CASE unfinished = 0
    <3>1. cancelled' /\ \A t \in Stoppers : spc'[t] = "joining" => t # s /\ spc[t] = "joining"
      BY <1>3, <2>1 DEF StopCall, TypeOK
    <3>2. \A t \in Stoppers : t # s => owed'[t] = owed[t]
      BY <1>3 DEF StopCall, TypeOK
    <3> QED BY <2>1, <3>1, <3>2 DEF JoiningOwes, FirstDrain
  <2>2. CASE unfinished > 0
    <3>1. /\ cancelled' = cancelled /\ unfinished' = unfinished /\ status' = status
          /\ spc' = [spc EXCEPT ![s] = "joining"] /\ spc[s] = "idle"
          /\ owed' = [owed EXCEPT ![s] = IF FirstDrain THEN Outstanding ELSE {}]
      BY <1>3, <2>2 DEF StopCall
    <3>2. FirstDrain' <=> FirstDrain
      BY <3>1 DEF FirstDrain, TypeOK
    <3>3. \A e \in Outstanding : status[e] \in {"queued", "taken", "done"}
      BY DEF Outstanding
    <3> QED BY <2>2, <3>1, <3>2, <3>3 DEF JoiningOwes, TypeOK
  <2> QED BY <1>0, <2>1, <2>2
<1>4. ASSUME NEW s \in Stoppers, StopCancel(s) PROVE JoiningOwes'
  <2>1. ~FirstDrain /\ ~FirstDrain'
    BY <1>4 DEF StopCancel, FirstDrain
  <2>2. owed' = owed /\ \A t \in Stoppers : spc'[t] = "joining" => spc[t] = "joining"
    BY <1>4 DEF StopCancel, TypeOK
  <2> QED BY <2>1, <2>2 DEF JoiningOwes
<1>5. ASSUME NEW s \in Stoppers, StopReturn(s) PROVE JoiningOwes'
  BY <1>5, JoiningSame DEF StopReturn, TypeOK
<1>6. CASE UNCHANGED <<spc, owed, cancelled>> /\ (unfinished > 0 => unfinished' > 0)
  BY <1>6, JoiningSame
<1>7. ASSUME NEW e \in Events, Publish(e) \/ PublishNowait(e) \/ PutterWakes(e)
      PROVE  UNCHANGED <<spc, owed, cancelled>> /\ (unfinished > 0 => unfinished' > 0)
  BY <1>0, <1>7 DEF Publish, PublishNowait, PutterWakes, Accept, Refuse
<1> QED
  BY <1>1, <1>2, <1>3, <1>4, <1>5, <1>6, <1>7
  DEF Next, WorkerStep, HandlerEnd, StopStep, vars, Subscribe, Start, HandlerReturn,
      HandlerRaise, WorkerBegin, GetWakes

(* An empty count means an empty queue and idle workers.                   *)
AllCounted ==
    /\ TypeOK /\ QueueHoldsQueued /\ HandledByOneWorker /\ UnfinishedExact
    /\ ~cancelled /\ unfinished = 0

LEMMA NothingOutstanding == AllCounted => Outstanding = {}
<1> SUFFICES ASSUME AllCounted PROVE Outstanding = {}
  OBVIOUS
<1> USE DEF AllCounted
<1>1. Len(queue) \in Nat /\ IsFiniteSet(Dispatching) /\ Cardinality(Dispatching) \in Nat
  BY DispatchingFinite, LenProperties DEF TypeOK
<1>2. Len(queue) = 0 /\ Cardinality(Dispatching) = 0
  BY <1>1 DEF UnfinishedExact
<1>3. Dispatching = {}
  BY <1>1, <1>2, FS_EmptySet
<1> QED BY <1>2, <1>3 DEF QueueHoldsQueued, HandledByOneWorker, Outstanding

LEMMA DrainedStep ==
    ASSUME IndInv, [Next]_vars
    PROVE  DrainedAtCancel'
<1> USE DEF IndInv
<1> DEFINE Past(s) == spc[s] \in {"woken", "gathering", "done"}
<1>0. TypeOK' /\ QueueHoldsQueued' /\ HandledByOneWorker' /\ UnfinishedExact'
  BY TypeStep, QueueStep, HandledStep, CountStep
<1>1. ASSUME NEW s \in Stoppers, Past(s), owed'[s] = owed[s]
      PROVE  \A e \in owed'[s] : status'[e] = "done"
  <2>1. owed[s] \subseteq Events
    BY DEF TypeOK
  <2> QED BY <1>1, <2>1, KeptStep DEF DrainedAtCancel
<1>2. CASE owed' = owed /\ \A s \in Stoppers : Past(s)' => Past(s)
  BY <1>1, <1>2 DEF DrainedAtCancel
<1>3. ASSUME NEW w \in Workers, FinishDispatch(w) PROVE DrainedAtCancel'
  <2>1. /\ ~cancelled /\ ~cancelled' /\ owed' = owed
        /\ unfinished' = Decremented /\ spc' = Woken(spc, Decremented)
    BY <1>3 DEF FinishDispatch
  <2>2. ASSUME NEW s \in Stoppers, Past(s)', ~Past(s)
        PROVE  \A e \in owed'[s] : status'[e] = "done"
    <3>1. spc[s] = "joining" /\ unfinished' = 0
      BY <2>1, <2>2 DEF Woken
    <3>2. \A e \in Events : status'[e] \notin {"queued", "taken"}
      <4>1. AllCounted' => (Outstanding = {})'
        BY NothingOutstanding, PTL
      <4> QED BY <1>0, <2>1, <3>1, <4>1 DEF AllCounted, Outstanding
    <3>3. \A e \in owed[s] : Kept(e) /\ e \in Events
      BY <3>1 DEF JoiningOwes, Kept, TypeOK
    <3>4. \A e \in owed[s] : Kept(e)'
      BY <2>1, <3>3, KeptStep
    <3> QED BY <2>1, <3>2, <3>3, <3>4 DEF Kept
  <2> QED BY <1>1, <2>1, <2>2 DEF DrainedAtCancel
<1>4. ASSUME NEW w \in Workers, CancelIdle(w) \/ CancelDispatch(w) PROVE DrainedAtCancel'
  <2>1. cancelled /\ owed' = owed
    BY <1>4 DEF CancelIdle, CancelDispatch
  <2>2. ASSUME NEW s \in Stoppers, Past(s)', ~Past(s) PROVE spc[s] = "joining"
    BY <1>4, <2>2 DEF CancelIdle, CancelDispatch, Woken
  <2>3. \A s \in Stoppers : spc[s] = "joining" => owed[s] = {}
    BY <2>1 DEF JoiningOwes, FirstDrain
  <2> QED BY <1>1, <2>1, <2>2, <2>3 DEF DrainedAtCancel
<1>5. ASSUME NEW s \in Stoppers, StopCall(s) PROVE DrainedAtCancel'
  <2>1. /\ spc[s] = "idle" /\ status' = status
        /\ owed' = [owed EXCEPT ![s] = IF FirstDrain THEN Outstanding ELSE {}]
        /\ \A t \in Stoppers : t # s => spc'[t] = spc[t]
    BY <1>5 DEF StopCall, TypeOK
  <2>2. \A t \in Stoppers : t # s => owed'[t] = owed[t]
    BY <2>1 DEF TypeOK
  <2>3. ASSUME Past(s)' PROVE owed'[s] = {}
    <3>1. unfinished = 0
      BY <1>5, <2>3 DEF StopCall, TypeOK
    <3>2. FirstDrain => Outstanding = {}
      BY <3>1, NothingOutstanding DEF FirstDrain, AllCounted
    <3> QED BY <2>1, <3>2 DEF TypeOK
  <2>4. ASSUME NEW t \in Stoppers, Past(t)' PROVE \A e \in owed'[t] : status'[e] = "done"
    <3>1. CASE t = s
      BY <2>3, <2>4, <3>1
    <3>2. CASE t # s
      BY <1>1, <2>1, <2>2, <2>4, <3>2
    <3> QED BY <3>1, <3>2
  <2> QED BY <2>4 DEF DrainedAtCancel
<1>6. ASSUME NEW s \in Stoppers, StopStep(s)
      PROVE  owed' = owed /\ \A t \in Stoppers : Past(t)' => Past(t)
  BY <1>6 DEF StopStep, StopCancel, StopReturn, TypeOK
<1>7. CASE UNCHANGED <<spc, owed>>
  BY <1>2, <1>7
<1> QED
  BY <1>2, <1>3, <1>4, <1>5, <1>6, <1>7
  DEF Next, WorkerStep, HandlerEnd, vars, Subscribe, Start, HandlerReturn,
      HandlerRaise, WorkerBegin, GetWakes, Publish, PublishNowait, PutterWakes, Accept, Refuse

LEMMA GoneStep ==
    ASSUME TypeOK, WorkersGoneAfterStop, [Next]_vars
    PROVE  WorkersGoneAfterStop'
<1> DEFINE AllGone == \A w \in Workers : wpc[w] = "exited"
<1>1. AllGone => AllGone'
  <2>1. ASSUME NEW w \in Workers, WorkerStep(w), AllGone PROVE FALSE
    BY <2>1 DEF WorkerStep, WorkerBegin, GetWakes, FinishDispatch, CancelIdle, CancelDispatch
  <2>2. ASSUME NEW R, Start(R), AllGone PROVE AllGone'
    BY <2>2 DEF Start
  <2>3. CASE UNCHANGED wpc
    BY <2>3
  <2> QED
    BY <2>1, <2>2, <2>3 DEF Next, HandlerEnd, StopStep, vars, Subscribe, HandlerReturn,
       HandlerRaise, Publish, PublishNowait, PutterWakes, Accept, Refuse, StopCall, StopCancel,
       StopReturn
<1>2. ASSUME NEW s \in Stoppers, spc'[s] = "done", spc[s] # "done" PROVE AllGone'
  <2>1. ASSUME NEW t \in Stoppers, StopReturn(t) PROVE AllGone'
    BY <1>1, <2>1 DEF StopReturn
  <2>2. ASSUME NEW t \in Stoppers, StopCall(t) \/ StopCancel(t) PROVE FALSE
    BY <1>2, <2>2 DEF StopCall, StopCancel, TypeOK
  <2>3. ASSUME NEW w \in Workers, WorkerStep(w) PROVE FALSE
    BY <1>2, <2>3 DEF WorkerStep, WorkerBegin, GetWakes, FinishDispatch, CancelIdle,
       CancelDispatch, Woken, TypeOK
  <2>4. CASE UNCHANGED spc
    BY <1>2, <2>4
  <2> QED
    BY <2>1, <2>2, <2>3, <2>4 DEF Next, HandlerEnd, StopStep, vars, Subscribe, Start,
       HandlerReturn, HandlerRaise, Publish, PublishNowait, PutterWakes, Accept, Refuse
<1> QED BY <1>1, <1>2 DEF WorkersGoneAfterStop

-----------------------------------------------------------------------------
(* Results *)

LEMMA InvariantInit == Init => IndInv
<1> SUFFICES ASSUME Init PROVE IndInv
  OBVIOUS
<1>1. TypeOK
  BY EmptySeq DEF Init, TypeOK, WorkerStates, Statuses, StopStates
<1>2. Dispatching = {} /\ Len(queue) = 0 /\ Cardinality({}) = 0
  BY EmptySeq, FS_EmptySet DEF Init, Dispatching
<1>3. QueueHoldsQueued /\ HandledByOneWorker /\ HandlersOfTaken
  BY <1>2 DEF Init, QueueHoldsQueued, HandledByOneWorker, HandlersOfTaken
<1>4. UnfinishedExact
  BY <1>2 DEF Init, UnfinishedExact
<1>5. JoiningOwes /\ DrainedAtCancel /\ WorkersGoneAfterStop
  BY DEF Init, JoiningOwes, DrainedAtCancel, WorkersGoneAfterStop
<1> QED BY <1>1, <1>3, <1>4, <1>5 DEF IndInv

LEMMA InvariantStep == IndInv /\ [Next]_vars => IndInv'
BY TypeStep, QueueStep, HandledStep, HandlersStep, CountStep, JoiningStep, DrainedStep,
   GoneStep DEF IndInv

(* The inductive invariant: the count, the queue and the status of every   *)
(* event agree, and what a first stop() owes is kept until it is done.     *)
THEOREM Invariance == Spec => []IndInv
BY InvariantInit, InvariantStep, PTL DEF Spec

(* The count that join() waits on is exact until the workers are           *)
(* cancelled, and never too high after that.                               *)
THEOREM CountIsExact == Spec => []UnfinishedExact
<1>1. IndInv => UnfinishedExact
  BY DEF IndInv
<1> QED BY <1>1, Invariance, PTL

(* Whatever was outstanding at a first stop() is done when join() ends.    *)
THEOREM StopDrains == Spec => []DrainedAtCancel
<1>1. IndInv => DrainedAtCancel
  BY DEF IndInv
<1> QED BY <1>1, Invariance, PTL

(* No event is dispatched by two workers, and none twice; and handlers     *)
(* outlive stop() only as siblings of one that raised.                     *)
THEOREM ExclusiveHandling == Spec => []HandledOnce
<1>1. IndInv => OrphansOnlyAfterRaise
  <2> SUFFICES ASSUME IndInv, NEW s \in Stoppers, spc[s] = "done", NEW i \in inflight
               PROVE  i[1] \in raised
    BY DEF OrphansOnlyAfterRaise
  <2>1. Dispatching = {}
    BY DEF IndInv, WorkersGoneAfterStop, Dispatching
  <2>2. i[1] \in Events
    BY DEF IndInv, TypeOK, Invocations
  <2>3. status[i[1]] # "taken"
    BY <2>1, <2>2 DEF IndInv, HandledByOneWorker
  <2> QED BY <2>3 DEF IndInv, HandlersOfTaken
<1>2. IndInv => HandledOnce
  BY <1>1 DEF IndInv, HandledOnce
<1> QED BY <1>2, Invariance, PTL

-----------------------------------------------------------------------------
(* The bus implements EventDelivery: every step of core/event_bus.py is a  *)
(* step of the promise, or one that the promise does not see.              *)

(* The calls of stop() that owe nothing, and those that mean cancellation. *)
StopProgress ==
    \A s \in Stoppers : /\ spc[s] = "idle" => owed[s] = {}
                        /\ spc[s] \in {"gathering", "done", "aborted"} => cancelled

LEMMA ProgressStep ==
    ASSUME TypeOK, StopProgress, [Next]_vars
    PROVE  StopProgress'
<1>1. ASSUME NEW s \in Stoppers, StopCall(s) \/ StopStep(s) PROVE StopProgress'
  BY <1>1 DEF StopProgress, StopCall, StopStep, StopCancel, StopReturn, TypeOK
<1>2. ASSUME NEW w \in Workers, WorkerStep(w) PROVE StopProgress'
  BY <1>2 DEF StopProgress, WorkerStep, WorkerBegin, GetWakes, FinishDispatch, CancelIdle,
     CancelDispatch, Woken
<1>3. CASE UNCHANGED <<spc, owed, cancelled>>
  BY <1>3 DEF StopProgress
<1> QED
  BY <1>1, <1>2, <1>3 DEF Next, HandlerEnd, vars, Subscribe, Start, HandlerReturn, HandlerRaise,
     Publish, PublishNowait, PutterWakes, Accept, Refuse

-----------------------------------------------------------------------------
(* The refinement mapping *)

LEMMA StageValues ==
    ASSUME TypeOK, NEW e \in Events
    PROVE  /\ status[e] = "new" <=> EventStage[e] = "new"
           /\ status[e] = "blocked" <=> EventStage[e] = "waiting"
           /\ status[e] = "dropped" <=> EventStage[e] = "refused"
           /\ status[e] = "queued" <=> EventStage[e] = "accepted"
           /\ status[e] = "taken" <=> EventStage[e] = "started"
           /\ status[e] = "done" <=> EventStage[e] = "finished"
           /\ status[e] = "aborted" <=> EventStage[e] = "lost"
<1>1. EventStage[e] = StageOf(status[e]) /\ status[e] \in Statuses
  BY DEF EventStage, TypeOK
<1> QED BY <1>1 DEF StageOf, Statuses

PhaseMeaning ==
    /\ BusPhase = "closed" <=> cancelled
    /\ BusPhase = "drained" <=> ~cancelled /\ ~FirstDrain
    /\ BusPhase = "draining" <=> FirstDrain /\ \E s \in Stoppers : spc[s] = "joining"
    /\ BusPhase = "open" <=> FirstDrain /\ \A s \in Stoppers : spc[s] # "joining"
    /\ BusPhase \in {"closed", "drained", "draining", "open"}

LEMMA PhaseValues == PhaseMeaning
<1>1. FirstDrain => ~cancelled
  BY DEF FirstDrain
<1> QED BY <1>1 DEF BusPhase, PhaseMeaning

LEMMA SameOutstanding ==
    ASSUME TypeOK
    PROVE  Delivery!Outstanding = Outstanding
BY StageValues DEF Delivery!Outstanding, Outstanding

(* A step that moves the events of S to one stage, and nothing else.       *)
LEMMA MovedStage ==
    ASSUME TypeOK, NEW S \in SUBSET Events, NEW st \in Statuses,
           \A e \in Events : status'[e] = IF e \in S THEN st ELSE status[e]
    PROVE  EventStage' = Delivery!Moved(S, StageOf(st))
<1>1. EventStage' = [e \in Events |-> StageOf(status'[e])]
  BY DEF EventStage
<1>2. \A e \in Events : EventStage[e] = StageOf(status[e])
  BY DEF EventStage
<1> QED BY <1>1, <1>2 DEF Delivery!Moved

LEMMA SamePhase ==
    ASSUME UNCHANGED <<spc, owed, cancelled>>
    PROVE  BusPhase' = BusPhase /\ Promised' = Promised
BY DEF BusPhase, Promised, FirstDrain

StageNames ==
    /\ StageOf("queued") = "accepted" /\ StageOf("blocked") = "waiting"
    /\ StageOf("dropped") = "refused" /\ StageOf("taken") = "started"
    /\ StageOf("done") = "finished" /\ StageOf("aborted") = "lost"

LEMMA Names == StageNames
BY DEF StageNames, StageOf

-----------------------------------------------------------------------------
(* Each kind of step *)

LEMMA PublishMaps ==
    ASSUME TypeOK, NEW e \in Events, Publish(e) \/ PublishNowait(e) \/ PutterWakes(e)
    PROVE  Delivery!Offer(e) \/ Delivery!Admit(e)
<1>1. BusPhase' = BusPhase /\ Promised' = Promised
  <2>1. UNCHANGED <<spc, owed, cancelled>>
    BY DEF Publish, PublishNowait, PutterWakes, Accept, Refuse
  <2> QED BY <2>1, SamePhase
<1>2. PICK st \in {"queued", "blocked", "dropped"} :
        /\ status' = [status EXCEPT ![e] = st]
        /\ status[e] = "new" \/ (status[e] = "blocked" /\ st = "queued")
  BY DEF Publish, PublishNowait, PutterWakes, Accept, Refuse
<1>3. EventStage' = Delivery!Moved({e}, StageOf(st))
  <2>1. \A f \in Events : status'[f] = IF f \in {e} THEN st ELSE status[f]
    BY <1>2 DEF TypeOK
  <2> QED BY <2>1, MovedStage DEF Statuses
<1>4. CASE status[e] = "new"
  BY <1>1, <1>2, <1>3, <1>4, StageValues, Names DEF StageNames, Delivery!Offer
<1>5. CASE status[e] = "blocked" /\ st = "queued"
  BY <1>1, <1>3, <1>5, StageValues, Names DEF StageNames, Delivery!Admit
<1> QED BY <1>2, <1>4, <1>5

LEMMA TakeMaps ==
    ASSUME TypeOK, QueueHoldsQueued, NEW w \in Workers, WorkerBegin(w) \/ GetWakes(w)
    PROVE  \/ UNCHANGED <<EventStage, BusPhase, Promised>>
           \/ \E e \in Events : Delivery!Begin(e)
<1>1. BusPhase' = BusPhase /\ Promised' = Promised
  <2>1. UNCHANGED <<spc, owed, cancelled>>
    BY DEF WorkerBegin, GetWakes
  <2> QED BY <2>1, SamePhase
<1>2. CASE Take(w, status)
  <2> DEFINE h == Head(queue)
  <2>1. h \in Events /\ status[h] = "queued"
    BY <1>2, HeadQueued DEF Take
  <2>2. EventStage' = Delivery!Moved({h}, "started")
    <3>1. \A f \in Events : status'[f] = IF f \in {h} THEN "taken" ELSE status[f]
      BY <1>2, <2>1 DEF Take, TypeOK
    <3>2. EventStage' = Delivery!Moved({h}, StageOf("taken"))
      BY <3>1, <2>1, MovedStage DEF Statuses
    <3> QED BY <3>2, Names DEF StageNames
  <2>3. BusPhase # "closed"
    BY PhaseValues DEF PhaseMeaning, WorkerBegin, GetWakes
  <2> QED BY <1>1, <2>1, <2>2, <2>3, StageValues DEF Delivery!Begin
<1>3. CASE ~Take(w, status)
  <2>1. status' = status
    BY <1>3 DEF WorkerBegin, GetWakes, Loop, Rest
  <2> QED BY <1>1, <2>1 DEF EventStage
<1> QED BY <1>2, <1>3

LEMMA CancelMaps ==
    ASSUME TypeOK, QueueHoldsQueued, HandledByOneWorker,
           NEW w \in Workers, CancelIdle(w) \/ CancelDispatch(w)
    PROVE  \/ UNCHANGED <<EventStage, BusPhase, Promised>>
           \/ \E e \in Events : Delivery!Finish(e)
           \/ \E S \in SUBSET Events : Delivery!Lose(S)
<1>1. cancelled /\ cancelled' /\ owed' = owed
  BY DEF CancelIdle, CancelDispatch
<1>2. BusPhase = "closed" /\ BusPhase' = "closed" /\ Promised' = Promised
  BY <1>1 DEF BusPhase, FirstDrain, Promised
<1>3. CASE CancelIdle(w)
  BY <1>2, <1>3 DEF CancelIdle, EventStage
<1>4. CASE CancelDispatch(w)
  <2> DEFINE e == held[w]
             own == {i \in InvocationsOf(e) : Doomed(i)}
             lost == {f \in Events : \/ f = e /\ own # {}
                                     \/ status[f] = "blocked" /\ SourceOf[f] \in own}
  <2>1. w \in Dispatching
    BY <1>4 DEF CancelDispatch, Dispatching
  <2>2. e \in Events /\ status[e] = "taken"
    BY <2>1, OthersAfterDone
  <2>3. \A f \in Events : status'[f] = IF f \in lost THEN "aborted"
                                       ELSE IF f = e THEN "done" ELSE status[f]
    BY <1>4 DEF CancelDispatch
  <2>4. CASE own = {}
    <3>1. \A f \in Events : status'[f] = IF f \in {e} THEN "done" ELSE status[f]
      BY <2>3, <2>4
    <3>2. EventStage' = Delivery!Moved({e}, StageOf("done"))
      BY <2>2, <3>1, MovedStage DEF Statuses
    <3> QED BY <1>2, <2>2, <3>2, StageValues, Names DEF StageNames, Delivery!Finish
  <2>5. CASE own # {}
    <3>1. \A f \in Events : status'[f] = IF f \in lost THEN "aborted" ELSE status[f]
      BY <2>2, <2>3, <2>5
    <3>2. EventStage' = Delivery!Moved(lost, StageOf("aborted"))
      BY <3>1, MovedStage DEF Statuses
    <3>3. \A f \in lost : EventStage[f] \in {"waiting", "started"}
      BY <2>2, StageValues
    <3> QED BY <1>2, <3>2, <3>3, Names DEF StageNames, Delivery!Lose
  <2> QED BY <2>4, <2>5
<1> QED BY <1>3, <1>4

(* The end of an event lets stop() go on only when everything is finished. *)
LEMMA FinishMaps ==
    ASSUME IndInv, IndInv', StopProgress, StopProgress', NEW w \in Workers, FinishDispatch(w)
    PROVE  \/ \E e \in Events : Delivery!Finish(e)
           \/ \E e, f \in Events : Delivery!FinishAndBegin(e, f)
<1> USE DEF IndInv
<1> DEFINE e == held[w]
           st == [status EXCEPT ![e] = "done"]
<1>1. /\ w \in Dispatching /\ ~cancelled /\ ~cancelled' /\ owed' = owed /\ Loop(w, st)
      /\ unfinished' = Decremented /\ spc' = Woken(spc, Decremented)
  BY DEF FinishDispatch, Dispatching
<1>2. e \in Events /\ status[e] = "taken"
  BY <1>1, OthersAfterDone
<1>3. EventStage[e] = "started" /\ BusPhase # "closed" /\ Promised' = Promised
  BY <1>1, <1>2, StageValues, PhaseValues DEF PhaseMeaning, Promised
<1>4. st \in [Events -> Statuses] /\ \A f \in Events : st[f] = IF f = e THEN "done" ELSE status[f]
  BY <1>2 DEF TypeOK, Statuses
<1>5. PhaseMeaning /\ PhaseMeaning'
  <2>1. PhaseMeaning'
    BY PhaseValues, PTL
  <2> QED BY <2>1, PhaseValues
<1>6. \A f \in Events : status'[f] = "done" => EventStage'[f] = "finished"
  BY DEF EventStage, StageOf
<1>7. \A s \in Stoppers : spc[s] \in {"idle", "joining", "woken"}
  BY <1>1 DEF StopProgress, TypeOK, StopStates
<1>8. CASE Take(w, st)
  <2> DEFINE h == Head(queue)
  <2>1. h \in Events /\ status[h] = "queued" /\ h # e
    BY <1>2, <1>8, HeadQueued DEF Take
  <2>2. EventStage' = [Delivery!Moved({e}, "finished") EXCEPT ![h] = "started"]
    <3>1. \A f \in Events : status'[f] = IF f = h THEN "taken" ELSE IF f = e THEN "done" ELSE status[f]
      BY <1>4, <1>8, <2>1 DEF Take
    <3>2. EventStage' = [f \in Events |-> StageOf(status'[f])]
      BY DEF EventStage
    <3>3. \A f \in Events : EventStage[f] = StageOf(status[f])
      BY DEF EventStage
    <3>4. Delivery!Moved({e}, "finished")
            = [f \in Events |-> IF f = e THEN "finished" ELSE EventStage[f]]
      BY DEF Delivery!Moved
    <3> QED BY <3>1, <3>2, <3>3, <3>4, <2>1, Names DEF StageNames
  <2>3. Decremented # 0
    <3>1. /\ Len(queue) \in Nat \ {0} /\ IsFiniteSet(Dispatching)
          /\ Cardinality(Dispatching) \in Nat
      BY <1>8, TakeAtHead, DispatchingFinite DEF Take, TypeOK
    <3>2. Cardinality(Dispatching) # 0
      BY <1>1, <3>1, FS_EmptySet
    <3> QED BY <1>1, <3>1, <3>2 DEF UnfinishedExact, Decremented
  <2>4. spc' = spc
    BY <1>1, <2>3 DEF Woken, TypeOK
  <2>5. BusPhase' = BusPhase
    BY <1>1, <2>4 DEF BusPhase, FirstDrain
  <2>6. EventStage[h] = "accepted"
    BY <2>1, StageValues
  <2>7. Delivery!FinishAndBegin(e, h)
    BY <1>3, <2>2, <2>5, <2>6 DEF Delivery!FinishAndBegin
  <2> QED BY <1>2, <2>1, <2>7
<1>9. CASE ~Take(w, st)
  <2>1. EventStage' = Delivery!Moved({e}, "finished")
    <3>1. status' = st
      BY <1>1, <1>9 DEF Loop, Rest
    <3>2. \A f \in Events : status'[f] = IF f \in {e} THEN "done" ELSE status[f]
      BY <1>4, <3>1
    <3>3. EventStage' = Delivery!Moved({e}, StageOf("done"))
      BY <1>2, <3>2, MovedStage DEF Statuses
    <3> QED BY <3>3, Names DEF StageNames
  <2>2. CASE BusPhase' = BusPhase
    BY <1>2, <1>3, <2>1, <2>2 DEF Delivery!Finish
  <2>3. CASE BusPhase' # BusPhase
    <3>1. Decremented = 0 /\ \E s \in Stoppers : spc[s] = "joining"
      <4>1. CASE \A s \in Stoppers : spc'[s] = spc[s]
        BY <1>1, <2>3, <4>1 DEF BusPhase, FirstDrain
      <4>2. CASE \E s \in Stoppers : spc'[s] # spc[s]
        BY <1>1, <4>2 DEF Woken
      <4> QED BY <4>1, <4>2
    <3>2. BusPhase' = "drained"
      <4>1. \E s \in Stoppers : spc'[s] = "woken"
        BY <1>1, <3>1 DEF Woken
      <4> QED BY <1>1, <1>5, <4>1 DEF PhaseMeaning, FirstDrain
    <3>3. BusPhase = "draining"
      BY <1>3, <1>5, <2>3, <3>1, <3>2 DEF PhaseMeaning
    <3>4. \A f \in Promised : EventStage'[f] = "finished"
      <4>1. ASSUME NEW s \in Stoppers, NEW f \in owed[s] PROVE EventStage'[f] = "finished"
        <5>1. f \in Events
          BY DEF TypeOK
        <5>2. spc[s] \in {"joining", "woken"}
          BY <1>7 DEF StopProgress
        <5>3. spc'[s] = "woken"
          BY <1>1, <3>1, <5>2 DEF Woken
        <5>4. status'[f] = "done"
          BY <1>1, <5>3 DEF DrainedAtCancel
        <5> QED BY <1>6, <5>1, <5>4
      <4> QED BY <4>1 DEF Promised
    <3>5. Delivery!Finish(e)
      BY <1>3, <2>1, <3>2, <3>3, <3>4 DEF Delivery!Finish
    <3> QED BY <1>2, <3>5
  <2> QED BY <2>2, <2>3
<1> QED BY <1>8, <1>9

LEMMA StopMaps ==
    ASSUME IndInv, StopProgress, NEW s \in Stoppers, StopCall(s) \/ StopStep(s)
    PROVE  UNCHANGED <<EventStage, BusPhase, Promised>> \/ Delivery!Stop
<1> USE DEF IndInv
<1>1. PhaseMeaning /\ PhaseMeaning'
  <2>1. PhaseMeaning'
    BY PhaseValues, PTL
  <2> QED BY <2>1, PhaseValues
<1>2. EventStage' = EventStage
  BY DEF StopCall, StopStep, StopCancel, StopReturn, EventStage
<1>3. CASE StopReturn(s)
  <2>1. cancelled /\ cancelled' /\ owed' = owed
    BY <1>3 DEF StopReturn, StopProgress
  <2> QED BY <1>1, <1>2, <2>1 DEF PhaseMeaning, Promised
<1>4. CASE StopCancel(s)
  <2>1. cancelled' /\ owed' = owed /\ ~FirstDrain
    BY <1>4 DEF StopCancel, FirstDrain
  <2>2. BusPhase' = "closed" /\ Promised' = Promised /\ BusPhase \in {"closed", "drained"}
    BY <1>1, <2>1 DEF PhaseMeaning, Promised
  <2> QED BY <1>2, <2>2 DEF Delivery!Stop
<1>5. CASE StopCall(s)
  <2>1. /\ spc[s] = "idle" /\ owed[s] = {}
        /\ owed' = [owed EXCEPT ![s] = IF FirstDrain THEN Outstanding ELSE {}]
    BY <1>5 DEF StopCall, StopProgress
  <2>2. CASE FirstDrain
    <3>1. Promised' = Promised \cup Outstanding
      <4>1. \A t \in Stoppers : owed'[t] = IF t = s THEN Outstanding ELSE owed[t]
        BY <2>1, <2>2 DEF TypeOK
      <4> QED BY <2>1, <4>1 DEF Promised
    <3>2. BusPhase \in {"open", "draining"}
      BY <1>1, <2>2 DEF PhaseMeaning, FirstDrain
    <3>3. CASE unfinished = 0
      <4>1. Outstanding = {}
        BY <2>2, <3>3, NothingOutstanding DEF AllCounted, FirstDrain
      <4>2. BusPhase' = "closed"
        BY <1>1, <1>5, <3>3 DEF StopCall, PhaseMeaning
      <4> QED BY <1>2, <3>1, <3>2, <4>1, <4>2, SameOutstanding DEF Delivery!Stop
    <3>4. CASE unfinished > 0
      <4>1. spc' = [spc EXCEPT ![s] = "joining"] /\ cancelled' = cancelled
        BY <1>5, <3>4 DEF StopCall
      <4>2. spc'[s] = "joining" /\ FirstDrain'
        BY <2>2, <4>1 DEF FirstDrain, TypeOK
      <4>3. BusPhase' = "draining"
        BY <1>1, <4>2 DEF PhaseMeaning
      <4> QED BY <1>2, <3>1, <3>2, <4>3, SameOutstanding DEF Delivery!Stop
    <3> QED BY <3>3, <3>4 DEF TypeOK
  <2>3. CASE ~FirstDrain
    <3>1. Promised' = Promised
      <4>1. owed' = owed
        BY <2>1, <2>3 DEF TypeOK
      <4> QED BY <4>1 DEF Promised
    <3>2. CASE unfinished = 0
      <4>1. BusPhase' = "closed" /\ BusPhase \in {"closed", "drained"}
        BY <1>1, <1>5, <2>3, <3>2 DEF StopCall, PhaseMeaning
      <4> QED BY <1>2, <3>1, <4>1 DEF Delivery!Stop
    <3>3. CASE unfinished > 0
      <4>1. spc' = [spc EXCEPT ![s] = "joining"] /\ cancelled' = cancelled
        BY <1>5, <3>3 DEF StopCall
      <4>2. ~FirstDrain'
        BY <2>1, <2>3, <4>1 DEF FirstDrain, TypeOK
      <4>3. BusPhase' = BusPhase
        BY <1>1, <2>3, <4>1, <4>2 DEF PhaseMeaning
      <4> QED BY <1>2, <3>1, <4>3
    <3> QED BY <3>2, <3>3 DEF TypeOK
  <2> QED BY <2>2, <2>3
<1> QED BY <1>3, <1>4, <1>5 DEF StopStep

-----------------------------------------------------------------------------
(* Result *)

LEMMA StepMaps ==
    ASSUME IndInv, IndInv', StopProgress, StopProgress', [Next]_vars
    PROVE  [Delivery!Next]_(Delivery!vars)
<1> USE DEF IndInv
<1>1. ASSUME UNCHANGED <<EventStage, BusPhase, Promised>> PROVE UNCHANGED Delivery!vars
  BY <1>1 DEF Delivery!vars
<1>2. ASSUME NEW e \in Events, Publish(e) \/ PublishNowait(e) \/ PutterWakes(e)
      PROVE  Delivery!Next
  BY <1>2, PublishMaps DEF Delivery!Next
<1>3. ASSUME NEW w \in Workers, WorkerStep(w) PROVE [Delivery!Next]_(Delivery!vars)
  <2>1. CASE WorkerBegin(w) \/ GetWakes(w)
    BY <1>1, <2>1, TakeMaps DEF Delivery!Next
  <2>2. CASE FinishDispatch(w)
    BY <2>2, FinishMaps DEF Delivery!Next
  <2>3. CASE CancelIdle(w) \/ CancelDispatch(w)
    BY <1>1, <2>3, CancelMaps DEF Delivery!Next
  <2> QED BY <1>3, <2>1, <2>2, <2>3 DEF WorkerStep
<1>4. ASSUME NEW s \in Stoppers, StopCall(s) \/ StopStep(s)
      PROVE  [Delivery!Next]_(Delivery!vars)
  BY <1>1, <1>4, StopMaps DEF Delivery!Next
<1>5. CASE UNCHANGED <<status, spc, owed, cancelled>>
  <2>1. EventStage' = EventStage
    BY <1>5 DEF EventStage
  <2> QED BY <1>1, <1>5, <2>1, SamePhase
<1> QED
  BY <1>2, <1>3, <1>4, <1>5 DEF Next, HandlerEnd, vars, Subscribe, Start, HandlerReturn,
     HandlerRaise

(* The event bus keeps the promise of EventDelivery: at-most-once handling *)
(* and a stop() that closes the bus only when it owes nothing more.        *)
THEOREM BusDelivers == Spec => DeliverySpec
<1>1. Init => StopProgress /\ Delivery!Init
  <2> SUFFICES ASSUME Init PROVE StopProgress /\ Delivery!Init
    OBVIOUS
  <2>1. StopProgress
    BY DEF Init, StopProgress
  <2>2. EventStage = [e \in Events |-> "new"]
    BY DEF Init, EventStage, StageOf
  <2>3. Promised = {}
    BY DEF Init, Promised
  <2>4. BusPhase = "open"
    BY PhaseValues DEF Init, PhaseMeaning, FirstDrain
  <2> QED BY <2>1, <2>2, <2>3, <2>4 DEF Delivery!Init
<1>2. IndInv /\ StopProgress /\ [Next]_vars => StopProgress'
  BY ProgressStep DEF IndInv
<1>3. /\ IndInv /\ IndInv' /\ StopProgress /\ StopProgress' /\ [Next]_vars
      => [Delivery!Next]_(Delivery!vars)
  BY StepMaps
<1> QED BY <1>1, <1>2, <1>3, Invariance, PTL DEF Spec, DeliverySpec, Delivery!Spec
-----------------------------------------------------------------------------
(* A bus that hangs *)

LEMMA HungStays ==
    ASSUME Hung,
           cancelled' = cancelled, wpc' = wpc, held' = held,
           unfinished' \in Nat, unfinished' >= unfinished, unfinished \in Nat,
           Full => Full',
           \A e \in Events : Full /\ status[e] = "blocked" => status'[e] = "blocked",
           \A s \in Stoppers : spc[s] = "joining" => spc'[s] = "joining",
           \A s \in Stoppers : spc'[s] = "woken" => spc[s] = "woken",
           \A w \in Workers : Idles(w) /\ wpc[w] = "dispatch"
               => /\ InvocationsOf(held[w])' = InvocationsOf(held[w])
                  /\ held[w] \notin raised'
    PROVE  Hung'
<1>1. ASSUME NEW i, Waits(i) PROVE Waits(i)'
  BY <1>1 DEF Waits
<1>2. ASSUME NEW w \in Workers PROVE Idles(w)'
  <2>1. Idles(w)
    BY DEF Hung
  <2>2. CASE wpc[w] = "exited"
    BY <2>2 DEF Idles
  <2>3. CASE wpc[w] = "dispatch"
    <3>1. /\ InvocationsOf(held[w])' = InvocationsOf(held[w])
          /\ held[w] \notin raised'
      BY <2>1, <2>3
    <3>2. /\ InvocationsOf(held[w]) # {}
          /\ \A i \in InvocationsOf(held[w]) : Waits(i)
      BY <2>1, <2>3 DEF Idles
    <3>3. \A i \in InvocationsOf(held[w]) : Waits(i)'
      BY <3>2, <1>1
    <3> QED BY <2>3, <3>1, <3>2, <3>3 DEF Idles
  <2> QED BY <2>1, <2>2, <2>3 DEF Idles
<1>3. ~cancelled' /\ FirstDrain' /\ unfinished' > 0
  BY DEF Hung, FirstDrain
<1> QED BY <1>2, <1>3 DEF Hung

(* A handler that waits executes no statement of its own.                  *)
LEMMA WaitingNotFree ==
    ASSUME TypeOK, NEW i \in inflight, Waits(i) PROVE ~Free(i)
<1>1. i \in Invocations /\ i # External
  BY NamesAssumption DEF TypeOK
<1> QED BY <1>1 DEF Waits, Free

LEMMA HungStep ==
    ASSUME TypeOK, Hung, [Next]_vars
    PROVE  /\ Hung'
           /\ \A e \in Events : status[e] \in {"queued", "taken"} => status'[e] = status[e]
           /\ \A s \in Stoppers : spc[s] = "joining" => spc'[s] = "joining"
<1> DEFINE Goes == /\ Hung'
                   /\ \A e \in Events : status[e] \in {"queued", "taken"}
                                          => status'[e] = status[e]
                   /\ \A s \in Stoppers : spc[s] = "joining" => spc'[s] = "joining"
<1>a. /\ ~cancelled /\ unfinished > 0 /\ unfinished \in Nat /\ Len(queue) \in Nat
      /\ \A s \in Stoppers : spc[s] # "woken"
      /\ \A w \in Workers : Idles(w)
  BY LenProperties DEF Hung, FirstDrain, TypeOK
<1>b. \A w \in Workers : wpc[w] \in {"exited", "dispatch"}
  BY <1>a DEF Idles
<1>c. \A w \in Workers : wpc[w] = "dispatch" =>
          /\ held[w] \notin raised /\ InvocationsOf(held[w]) # {}
          /\ \A i \in InvocationsOf(held[w]) : ~Free(i)
  BY <1>a, WaitingNotFree DEF Idles, InvocationsOf
<1>d. \A w \in Workers : Idles(w) /\ wpc[w] = "dispatch" => held[w] \notin raised
  BY <1>c
<1>1. ASSUME NEW R \in SUBSET Regs, Subscribe(R) PROVE Goes
  <2>1. Hung'
    BY <1>1, <1>a, <1>d, HungStays DEF Subscribe, Full, InvocationsOf
  <2> QED BY <1>1, <2>1 DEF Subscribe
<1>2. ASSUME NEW R \in SUBSET Regs, Start(R) PROVE Goes
  <2>1. Workers = {}
    BY <1>2, <1>b DEF Start
  <2>2. Hung'
    BY <1>2, <1>a, <2>1 DEF Start, Hung, FirstDrain
  <2> QED BY <1>2, <2>2 DEF Start
<1>3. ASSUME NEW e \in Events, Accept(e), ~Full, status[e] \in {"new", "blocked"} PROVE Goes
  <2>1. Hung'
    BY <1>3, <1>a, <1>d, HungStays DEF Accept, InvocationsOf
  <2>2. \A f \in Events : status'[f] = IF f = e THEN "queued" ELSE status[f]
    BY <1>3 DEF Accept, TypeOK
  <2> QED BY <1>3, <2>1, <2>2 DEF Accept
<1>4. ASSUME NEW e \in Events, NEW as \in Statuses, Refuse(e, as), status[e] = "new" PROVE Goes
  <2>1. \A f \in Events : status'[f] = IF f = e THEN as ELSE status[f]
    BY <1>4 DEF Refuse, TypeOK
  <2>2. \A f \in Events : status[f] # "new" => status'[f] = status[f]
    BY <1>4, <2>1
  <2>3. UNCHANGED <<queue, unfinished, cancelled, wpc, held, inflight, raised, spc>>
    BY <1>4 DEF Refuse
  <2>4. Full => Full'
    BY <2>3 DEF Full
  <2>5. \A f \in Events : Full /\ status[f] = "blocked" => status'[f] = "blocked"
    BY <2>2
  <2>6. \A w \in Workers : Idles(w) /\ wpc[w] = "dispatch"
            => InvocationsOf(held[w])' = InvocationsOf(held[w]) /\ held[w] \notin raised'
    BY <1>d, <2>3 DEF InvocationsOf
  <2>7. Hung'
    BY <1>a, <2>3, <2>4, <2>5, <2>6, HungStays
  <2> QED BY <2>2, <2>3, <2>7
<1>5. ASSUME NEW e \in Events, Publish(e) \/ PublishNowait(e) \/ PutterWakes(e) PROVE Goes
  BY <1>3, <1>4, <1>5 DEF Publish, PublishNowait, PutterWakes, Statuses
<1>6. ASSUME NEW i \in Invocations, HandlerEnd(i) PROVE Goes
  <2>1. /\ i \in inflight /\ Free(i) /\ inflight' = inflight \ {i}
        /\ raised' \subseteq raised \cup {i[1]}
        /\ UNCHANGED <<queue, unfinished, cancelled, wpc, held, status, spc>>
    BY <1>6 DEF HandlerEnd, HandlerReturn, HandlerRaise
  <2>2. ASSUME NEW w \in Workers, wpc[w] = "dispatch"
        PROVE  /\ InvocationsOf(held[w])' = InvocationsOf(held[w])
               /\ held[w] \notin raised'
    <3>1. i \notin InvocationsOf(held[w])
      BY <1>c, <2>1, <2>2
    <3>2. i[1] # held[w]
      BY <2>1, <3>1 DEF InvocationsOf
    <3>3. InvocationsOf(held[w])' = InvocationsOf(held[w])
      BY <2>1, <3>2 DEF InvocationsOf
    <3> QED BY <1>c, <2>1, <2>2, <3>2, <3>3
  <2>3. Hung'
    BY <1>a, <2>1, <2>2, HungStays DEF Full
  <2> QED BY <2>1, <2>3
<1>7. ASSUME NEW w \in Workers, WorkerStep(w) PROVE FALSE
  BY <1>7, <1>a, <1>b, <1>c
  DEF WorkerStep, WorkerBegin, GetWakes, FinishDispatch, CancelIdle, CancelDispatch
<1>8. ASSUME NEW s \in Stoppers, StopCall(s) PROVE Goes
  <2>1. /\ spc' = [spc EXCEPT ![s] = "joining"] /\ spc[s] = "idle"
        /\ UNCHANGED <<queue, unfinished, cancelled, wpc, held, inflight, raised, status>>
    BY <1>8, <1>a DEF StopCall
  <2>2. \A t \in Stoppers : spc'[t] = IF t = s THEN "joining" ELSE spc[t]
    BY <2>1 DEF TypeOK
  <2>3. Hung'
    BY <1>a, <1>d, <2>1, <2>2, HungStays DEF Full, InvocationsOf
  <2> QED BY <2>1, <2>2, <2>3
<1>9. ASSUME NEW s \in Stoppers, StopStep(s) PROVE Goes
  <2>1. /\ spc[s] = "gathering" /\ spc' = [spc EXCEPT ![s] = "done"]
        /\ UNCHANGED <<queue, unfinished, cancelled, wpc, held, inflight, raised, status>>
    BY <1>9, <1>a DEF StopStep, StopCancel, StopReturn
  <2>2. \A t \in Stoppers : spc'[t] = IF t = s THEN "done" ELSE spc[t]
    BY <2>1 DEF TypeOK
  <2>3. Hung'
    BY <1>a, <1>d, <2>1, <2>2, HungStays DEF Full, InvocationsOf
  <2> QED BY <2>1, <2>2, <2>3
<1>10. CASE UNCHANGED vars
  <2>1. Hung'
    BY <1>10, <1>a, <1>d, HungStays DEF vars, Full, InvocationsOf
  <2> QED BY <1>10, <2>1 DEF vars
<1> QED
  BY <1>1, <1>2, <1>5, <1>6, <1>7, <1>8, <1>9, <1>10 DEF Next

(* Once every worker has left its loop or gathers handlers that all wait   *)
(* in publish() or stop(), with the count above zero, the bus stays so: no *)
(* later publish(), subscribe() or stop() brings it back (lines 43-86).    *)
THEOREM HungForGood == Spec => HangsForGood
<1>1. TypeOK /\ [Next]_vars =>
        [Hung => /\ Hung'
                 /\ \A e \in Events : status[e] \in {"queued", "taken"} => status'[e] = status[e]
                 /\ \A s \in Stoppers : spc[s] = "joining" => spc'[s] = "joining"]_vars
  BY HungStep
<1> QED BY <1>1, TypeCorrect, PTL DEF Spec, HangsForGood
=============================================================================
