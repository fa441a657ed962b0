---------------------------- MODULE EngineProofs ----------------------------
(***************************************************************************)
(* The engine uses the event bus as the bus's specification allows, so the *)
(* results about the bus hold inside it; and its start-up and its calls of *)
(* stop(), however they interleave, keep the components in order.          *)
(***************************************************************************)
EXTENDS SoloHunterEngine, EventBusProofs

LEMMA CallersOfStop == Stoppers \subseteq Invocations \cup {External}
BY EventsAssumption

-----------------------------------------------------------------------------
(* Refinement *)

LEMMA EngineStepIsBusStep ==
    ASSUME [EngineNext]_allVars
    PROVE  [Next]_vars
<1>1. ASSUME StartStep \/ Signal \/ MainStop PROVE [Next]_vars
  BY <1>1 DEF StartStep, Signal, MainStop, BeginStop, Pinged, RedisAnswers, Prefetched, Served, StartFails,
     Alone, Next
<1>2. ASSUME NEW s \in Stoppers, StopStage(s) PROVE [Next]_vars
  <2>1. s # External => s \in Invocations
    BY CallersOfStop
  <2> QED
    BY <1>2, <2>1 DEF StopStage, StopNext, StopBus, StopBusWoken, StopRedis, CloseRedis, StopEnds, StopFails,
       Alone, Next, HandlerEnd, StopStep
<1>3. ASSUME NEW i \in Invocations, OnShutdown(i) \/ OnListingEnds(i) \/ OnCritical(i)
      PROVE  [Next]_vars
  BY <1>3 DEF OnShutdown, BeginStop, OnListingEnds, OnCritical, Alone, Next, HandlerEnd
<1>4. ASSUME NEW x \in Components, Closed(x) PROVE [Next]_vars
  BY <1>4 DEF Closed, Alone
<1>5. ASSUME NEW e \in Events,
             WsListing(e) \/ SystemEvent(e) \/ EventPut(e) \/ OnListingConfirmed(e)
      PROVE  [Next]_vars
  BY <1>5 DEF WsListing, SystemEvent, EventPut, OnListingConfirmed, Next
<1>6. ASSUME NEW w \in Workers, Worker(w) PROVE [Next]_vars
  BY <1>6 DEF Worker, Next
<1>7. CASE UNCHANGED allVars
  BY <1>7 DEF allVars
<1> QED BY <1>1, <1>2, <1>3, <1>4, <1>5, <1>6, <1>7 DEF InProcess, EngineNext

(* Every execution of the engine is an execution of the event bus.         *)
THEOREM EngineImplementsBus == EngineSpec => BusSpec
<1>1. EngineInit => Init
  BY DEF EngineInit
<1> QED BY <1>1, EngineStepIsBusStep, PTL DEF EngineSpec, BusSpec, Spec

(* So the count of unfinished events is exact inside the engine, and what  *)
(* its first stop() finds outstanding is done before workers are cancelled *)
THEOREM EngineDrains == EngineSpec => [](UnfinishedExact /\ DrainedAtCancel)
<1>1. IndInv => UnfinishedExact /\ DrainedAtCancel
  BY DEF IndInv
<1> QED BY <1>1, EngineImplementsBus, Invariance, PTL DEF BusSpec

-----------------------------------------------------------------------------
(* Types of the engine's variables *)

LEMMA EngineTypeStep == EngineTypeOK /\ [EngineNext]_allVars => EngineTypeOK'
<1> SUFFICES ASSUME EngineTypeOK, [EngineNext]_allVars PROVE EngineTypeOK'
  OBVIOUS
<1> USE DEF EngineStates, EngineTypeOK
<1>1. CASE StartStep \/ Signal
  BY <1>1 DEF StartStep, Signal, Pinged, RedisAnswers, Prefetched, Served, StartFails, Opened
<1>2. CASE MainStop
  BY <1>2 DEF MainStop, BeginStop, Closing
<1>3. ASSUME NEW s \in Stoppers, StopStage(s) PROVE EngineTypeOK'
  <2>1. CASE StopNext(s)
    <3>1. PICK x \in {"ws", "cache", "rpc", "redis"} :
             ipc' = [ipc EXCEPT ![s] = After[x]] /\ comp' = Closing(After[x])
      BY <2>1 DEF StopNext
    <3>2. After[x] \in {"cache", "rpc", "jito", "health"}
      BY DEF After
    <3> QED BY <2>1, <3>1, <3>2 DEF StopNext, Closing
  <2> QED
    BY <1>3, <2>1 DEF StopStage, StopBus, StopBusWoken, StopRedis, CloseRedis, StopEnds, StopFails, Closing,
       engineVars
<1>4. ASSUME NEW i \in Invocations, OnShutdown(i) \/ OnListingEnds(i) \/ OnCritical(i)
      PROVE  EngineTypeOK'
  BY <1>4 DEF OnShutdown, BeginStop, OnListingEnds, OnCritical, HandlerEnd, Closing, ShutdownCalls, engineVars
<1>5. ASSUME NEW x \in Components, Closed(x) PROVE EngineTypeOK'
  BY <1>5 DEF Closed
<1>6. CASE UNCHANGED engineVars
  BY <1>6 DEF engineVars
<1> QED
  BY <1>1, <1>2, <1>3, <1>4, <1>5, <1>6
  DEF InProcess, EngineNext, WsListing, SystemEvent, EventPut, OnListingConfirmed, Worker, allVars

-----------------------------------------------------------------------------
(* What a step of a worker leaves alone *)

LEMMA WorkerKeeps ==
    ASSUME TypeOK, NEW w \in Workers, WorkerStep(w)
    PROVE  /\ UNCHANGED <<subs, running, cancelled, raised>>
           /\ wpc[w] \notin {"new", "exited"}
           /\ \A v \in Workers : wpc[v] = "exited" => wpc'[v] = "exited"
           /\ \A s \in Stoppers : /\ spc'[s] # "idle" => spc[s] # "idle"
                                  /\ spc[s] = "done" => spc'[s] = "done"
                                  /\ spc'[s] \in {"gathering", "done"} => spc'[s] = spc[s]
<1> USE DEF TypeOK
<1>1. CASE WorkerBegin(w) \/ GetWakes(w)
  BY <1>1 DEF WorkerBegin, GetWakes, Loop, Take, Rest
<1>2. CASE FinishDispatch(w)
  BY <1>2 DEF FinishDispatch, Loop, Take, Rest, Woken
<1>3. CASE CancelIdle(w)
  BY <1>3 DEF CancelIdle, Woken
<1>4. CASE CancelDispatch(w)
  BY <1>4 DEF CancelDispatch, Woken
<1> QED BY <1>1, <1>2, <1>3, <1>4 DEF WorkerStep

-----------------------------------------------------------------------------
(* The order of start-up *)

LEMMA StartOrderedStep ==
    ASSUME EngineTypeOK, TypeOK, StartOrdered, StopOrdered, [EngineNext]_allVars
    PROVE  StartOrdered'
<1> USE DEF EngineStates, EngineTypeOK, StartOrdered, Components
<1>1. CASE Pinged
  BY <1>1 DEF Pinged, RedisAnswers, Opened, Alone, vars
<1>2. CASE Prefetched
  BY <1>2 DEF Prefetched, Opened
<1>3. CASE Served \/ StartFails \/ Signal
  BY <1>3 DEF Served, StartFails, Signal, Opened, Alone, vars
<1>4. CASE MainStop
  BY <1>4 DEF MainStop, BeginStop, Closing, Alone, vars
<1>5. ASSUME NEW s \in Stoppers, StopStage(s) PROVE StartOrdered'
  <2>1. mpc \notin {"ping", "prefetch"}
    BY <1>5 DEF StopStage, StopNext, StopBus, StopBusWoken, StopRedis, CloseRedis, StopEnds, StopFails, At,
       StopCancel, StopOrdered, PastBus
  <2>2. mpc' \in {mpc, "exited", "crashed"} /\ (comp' = comp \/ \E x : comp' = Closing(x))
    BY <1>5 DEF StopStage, StopNext, StopBus, StopBusWoken, StopRedis, CloseRedis, StopEnds, StopFails, engineVars
  <2> QED BY <2>1, <2>2 DEF Closing
<1>6. ASSUME NEW i \in Invocations, OnShutdown(i) \/ OnListingEnds(i) \/ OnCritical(i)
      PROVE  StartOrdered'
  <2>1. i \in inflight
    BY <1>6, NamesAssumption
    DEF OnShutdown, BeginStop, Alive, OnListingEnds, HandlerReturn, HandlerRaise, OnCritical, HandlerEnd
  <2> QED
    BY <1>6, <2>1 DEF OnShutdown, BeginStop, OnListingEnds, OnCritical, HandlerEnd, Closing, engineVars
<1>7. ASSUME NEW x \in Components, Closed(x) PROVE StartOrdered'
  BY <1>7 DEF Closed, Alone, vars
<1>8. ASSUME NEW e \in Events,
             WsListing(e) \/ SystemEvent(e) \/ EventPut(e) \/ OnListingConfirmed(e)
      PROVE  StartOrdered'
  BY <1>8 DEF WsListing, SystemEvent, EventPut, OnListingConfirmed, Publish, PublishNowait,
     PutterWakes, Accept, Refuse, engineVars
<1>9. ASSUME NEW w \in Workers, Worker(w) PROVE StartOrdered'
  BY <1>9, WorkerKeeps DEF Worker, engineVars
<1>10. CASE UNCHANGED allVars
  BY <1>10 DEF allVars, vars, engineVars
<1> QED
  BY <1>1, <1>2, <1>3, <1>4, <1>5, <1>6, <1>7, <1>8, <1>9, <1>10 DEF InProcess, EngineNext, StartStep

-----------------------------------------------------------------------------
(* The order of closing *)

LEMMA StopOrderedStep ==
    ASSUME EngineTypeOK, TypeOK, StartOrdered, StopOrdered, [EngineNext]_allVars
    PROVE  StopOrdered'
<1> USE DEF EngineStates, EngineTypeOK, StopOrdered, Components, PastWs, PastCache, PastBus
<1>0. spc \in [Stoppers -> StopStates]
  BY DEF TypeOK
<1>1. CASE Pinged
  BY <1>1 DEF Pinged, RedisAnswers, Opened, Alone, vars, StartOrdered
<1>2. CASE Prefetched
  BY <1>2 DEF Prefetched, Opened, Start, StartOrdered
<1>3. CASE Served \/ StartFails \/ Signal
  BY <1>3 DEF Served, StartFails, Signal, Opened, Alone, vars
<1>4. ASSUME NEW s \in Stoppers, BeginStop(s), mpc' # "exited",
             mpc \in {"serve", "wait", "stop"}
      PROVE  StopOrdered'
  <2>1. comp["ws"] # "none" /\ comp["cache"] # "none"
    BY <1>4 DEF StartOrdered
  <2>2. comp'["ws"] \in {"closing", "down"} /\ (comp["ws"] = "down" => comp'["ws"] = "down")
    BY <1>4, <2>1 DEF BeginStop, Closing
  <2>3. \A x \in Components \ {"ws"} : comp'[x] = comp[x]
    BY <1>4 DEF BeginStop, Closing
  <2>4. ipc' = [ipc EXCEPT ![s] = "ws"] /\ ipc[s] = "idle" /\ UNCHANGED vars
    BY <1>4 DEF BeginStop, Alone
  <2>5. UNCHANGED <<cancelled, running, wpc, spc>>
    BY <2>4 DEF vars
  <2> QED BY <1>4, <2>1, <2>2, <2>3, <2>4, <2>5
<1>5. CASE MainStop
  <2>1. External \in Stoppers
    BY EngineAssumption
  <2> QED BY <1>4, <1>5, <2>1 DEF MainStop
<1>6. ASSUME NEW s \in Stoppers, StopNext(s) PROVE StopOrdered'
  <2>1. PICK x \in {"ws", "cache", "rpc", "redis"} :
           /\ At(s, x)
           /\ ipc' = [ipc EXCEPT ![s] = After[x]]
           /\ comp' = Closing(After[x])
    BY <1>6 DEF StopNext
  <2>2. UNCHANGED <<cancelled, running, wpc, spc, mpc>>
    BY <1>6 DEF StopNext, Alone, vars
  <2>3. ipc[s] = x /\ comp[x] \in {"none", "down"}
    BY <2>1 DEF At
  <2>4. CASE x = "ws"
    BY <2>1, <2>2, <2>3, <2>4 DEF After, Closing
  <2>5. CASE x = "cache"
    BY <2>1, <2>2, <2>3, <2>5 DEF After, Closing
  <2>6. CASE x = "rpc"
    BY <2>1, <2>2, <2>3, <2>6 DEF After, Closing
  <2>7. CASE x = "redis"
    BY <2>1, <2>2, <2>3, <2>7 DEF After, Closing
  <2> QED BY <2>4, <2>5, <2>6, <2>7
<1>7. ASSUME NEW s \in Stoppers, StopBus(s) PROVE StopOrdered'
  BY <1>0, <1>7 DEF StopBus, StopCall, At
<1>8. ASSUME NEW s \in Stoppers, StopBusWoken(s) PROVE StopOrdered'
  BY <1>0, <1>8 DEF StopBusWoken, StopCancel, engineVars
<1>9. ASSUME NEW s \in Stoppers, StopRedis(s) PROVE StopOrdered'
  BY <1>0, <1>9 DEF StopRedis, CloseRedis, StopReturn, At, Closing
<1>10. ASSUME NEW s \in Stoppers, StopEnds(s) \/ StopFails(s) PROVE StopOrdered'
  <2>1. UNCHANGED <<comp, cancelled, running, wpc, spc>>
    BY <1>10 DEF StopEnds, StopFails, Alone, vars, HandlerReturn, HandlerRaise
  <2>2. CASE StopEnds(s)
    <3>1. ipc[s] = "health" /\ ipc' = [ipc EXCEPT ![s] = "done"]
      BY <2>2 DEF StopEnds, At
    <3>2. mpc' = mpc \/ (s = External /\ mpc' = "exited")
      BY <2>2 DEF StopEnds
    <3>3. \A t \in Stoppers : ipc'[t] = IF t = s THEN "done" ELSE ipc[t]
      BY <3>1
    <3>4. External \in Stoppers
      BY EngineAssumption
    <3> QED BY <2>1, <3>1, <3>2, <3>3, <3>4
  <2>3. CASE StopFails(s)
    BY <2>1, <2>3 DEF StopFails
  <2> QED BY <1>10, <2>2, <2>3
<1>11. ASSUME NEW i \in Invocations, OnShutdown(i) \/ OnListingEnds(i) \/ OnCritical(i),
              mpc \notin {"exited", "crashed"}
       PROVE  StopOrdered'
  <2>1. CASE OnShutdown(i)
    <3>1. i \in inflight
      BY <2>1, NamesAssumption DEF OnShutdown, BeginStop, Alive
    <3>2. mpc \in {"serve", "wait", "stop"} /\ i \in Stoppers
      BY <1>11, <2>1, <3>1 DEF OnShutdown, ShutdownCalls, StartOrdered
    <3> QED BY <1>4, <2>1, <3>2 DEF OnShutdown
  <2>2. CASE OnListingEnds(i) \/ OnCritical(i)
    BY <2>2 DEF OnListingEnds, OnCritical, HandlerEnd, HandlerReturn, HandlerRaise, engineVars
  <2> QED BY <1>11, <2>1, <2>2
<1>12. ASSUME NEW x \in Components, Closed(x) PROVE StopOrdered'
  BY <1>12 DEF Closed, Alone, vars
<1>13. ASSUME NEW e \in Events,
              WsListing(e) \/ SystemEvent(e) \/ EventPut(e) \/ OnListingConfirmed(e)
       PROVE  StopOrdered'
  BY <1>13 DEF WsListing, SystemEvent, EventPut, OnListingConfirmed, Publish, PublishNowait,
     PutterWakes, Accept, Refuse, engineVars
<1>14. ASSUME NEW w \in Workers, Worker(w) PROVE StopOrdered'
  <2>1. WorkerStep(w) /\ UNCHANGED <<comp, ipc, mpc>>
    BY <1>14 DEF Worker, engineVars
  <2> QED BY <2>1, WorkerKeeps
<1>15. CASE UNCHANGED allVars
  BY <1>15 DEF allVars, vars, engineVars
<1> QED
  BY <1>1, <1>2, <1>3, <1>5, <1>6, <1>7, <1>8, <1>9, <1>10, <1>11, <1>12, <1>13, <1>14, <1>15
  DEF InProcess, EngineNext, StartStep, StopStage

-----------------------------------------------------------------------------
(* Who handles what *)

(* A worker's step: events end only if they were taken, are taken only if  *)
(* they were queued, and the handlers it starts are those of their topic.  *)
LEMMA WorkerMoves ==
    ASSUME IndInv, NEW w \in Workers, WorkerStep(w)
    PROVE  /\ \A e \in Events :
                 \/ status'[e] = status[e]
                 \/ status[e] = "taken" /\ status'[e] = "done"
                 \/ status[e] = "queued" /\ status'[e] = "taken"
                 \/ cancelled /\ status[e] = "taken" /\ status'[e] = "aborted" /\ e \notin raised
                 \/ cancelled /\ status[e] = "blocked" /\ status'[e] = "aborted"
           /\ \A i \in inflight' \ inflight :
                 status[i[1]] = "queued" /\ i[1] \in Events /\ TopicOf[i[1]] \in PatternOf[i[2]]
           /\ \A e \in Events : status'[e] = "blocked" /\ SourceOf[e] \in inflight
                                  => SourceOf[e] \in inflight'
<1> USE DEF IndInv, TypeOK
<1>1. ASSUME NEW st \in [Events -> Statuses], Loop(w, st) \/ Take(w, st)
      PROVE  /\ \A e \in Events : \/ status'[e] = st[e]
                                  \/ status[e] = "queued" /\ status'[e] = "taken"
             /\ \A i \in inflight' \ inflight :
                   status[i[1]] = "queued" /\ i[1] \in Events /\ TopicOf[i[1]] \in PatternOf[i[2]]
             /\ inflight \subseteq inflight'
  <2>1. CASE Take(w, st)
    <3>1. Head(queue) \in Events /\ status[Head(queue)] = "queued"
      BY <2>1, HeadQueued DEF Take
    <3> QED BY <2>1, <3>1 DEF Take, MatchingHandlers
  <2>2. CASE ~Take(w, st)
    BY <1>1, <2>2 DEF Loop, Rest
  <2> QED BY <2>1, <2>2
<1>2. CASE WorkerBegin(w) \/ GetWakes(w)
  BY <1>1, <1>2 DEF WorkerBegin, GetWakes
<1>3. CASE FinishDispatch(w)
  <2> DEFINE st == [status EXCEPT ![held[w]] = "done"]
  <2>1. w \in Dispatching
    BY <1>3 DEF FinishDispatch, Dispatching
  <2>2. held[w] \in Events /\ status[held[w]] = "taken"
    BY <2>1, OthersAfterDone
  <2>3. st \in [Events -> Statuses] /\ Loop(w, st)
    BY <1>3 DEF FinishDispatch, Statuses
  <2> QED BY <1>1, <2>2, <2>3
<1>4. CASE CancelIdle(w)
  BY <1>4 DEF CancelIdle
<1>5. CASE CancelDispatch(w)
  <2>1. w \in Dispatching
    BY <1>5 DEF CancelDispatch, Dispatching
  <2>2. held[w] \in Events /\ status[held[w]] = "taken"
    BY <2>1, OthersAfterDone
  <2>3. \A i \in InvocationsOf(held[w]) : i[1] = held[w]
    BY DEF InvocationsOf
  <2> QED BY <1>5, <2>2, <2>3 DEF CancelDispatch, Doomed
<1> QED BY <1>2, <1>3, <1>4, <1>5 DEF WorkerStep

(* The three ways an offered event can go, and who offers it.              *)
LEMMA OffersMove ==
    ASSUME TypeOK, NEW e \in Events,
           WsListing(e) \/ SystemEvent(e) \/ EventPut(e) \/ OnListingConfirmed(e)
    PROVE  /\ UNCHANGED <<subs, inflight, raised, cancelled>>
           /\ status[e] \in {"new", "blocked"}
           /\ \E to \in {"queued", "blocked", "dropped"} : status' = [status EXCEPT ![e] = to]
           /\ status'[e] = "blocked" => TopicOf[e] # Listing
           /\ status'[e] = "blocked" /\ TopicOf[e] = Confirmed => SourceOf[e] \in inflight
<1>0. TopicOf[e] = Confirmed => SourceOf[e] \in Invocations
  BY EngineAssumption, EventsAssumption DEF Invocations
<1>1. CASE WsListing(e)
  BY <1>1, EngineAssumption DEF WsListing, Topic, PublishNowait, Accept, Refuse, TypeOK
<1>2. CASE SystemEvent(e)
  BY <1>2, EngineAssumption
  DEF SystemEvent, Topic, Publish, PublishNowait, Accept, Refuse, TypeOK
<1>3. CASE EventPut(e)
  BY <1>3 DEF EventPut, PutterWakes, Accept, TypeOK
<1>4. CASE OnListingConfirmed(e)
  <2>1. TopicOf[e] = Confirmed
    BY <1>4 DEF OnListingConfirmed, Topic
  <2>2. SourceOf[e] \in inflight
    BY <1>0, <1>4, <2>1, NamesAssumption DEF OnListingConfirmed, Publish, Free, Alive
  <2> QED
    BY <1>4, <2>1, <2>2, EngineAssumption
    DEF OnListingConfirmed, Publish, Accept, Refuse, TypeOK
<1> QED BY <1>1, <1>2, <1>3, <1>4

LEMMA TopicsOfHandlers ==
    /\ PatternOf[onListing] = {Listing} /\ PatternOf[onShutdown] = {Shutdown}
    /\ Listing \notin PatternOf[onCritical]
    /\ \A i \in ShutdownCalls : TopicOf[i[1]] = Shutdown /\ i[2] = onShutdown
    /\ Listing # Confirmed /\ Listing # Shutdown /\ onListing # onShutdown
BY EngineAssumption DEF ShutdownCalls

(* What an ending handler leaves, whichever of the engine's steps it ends  *)
(* in: all other invocations, and no opportunity of its own that waits.    *)
LEMMA EndKeepsOrder ==
    ASSUME IndInv, HandlersInOrder, NEW i \in Invocations, HandlerReturn(i) \/ HandlerRaise(i),
           i \in ShutdownCalls \/ i[2] \in {onListing, onCritical} \/ HandlerReturn(i)
    PROVE  HandlersInOrder'
<1> USE DEF HandlersInOrder
<1>1. /\ i \in inflight /\ inflight' = inflight \ {i}
      /\ \A e \in Events : status[e] = "blocked" => SourceOf[e] # i
      /\ UNCHANGED <<status, cancelled>>
  BY NamesAssumption DEF HandlerReturn, HandlerRaise, Free
<1>2. CASE HandlerReturn(i)
  BY <1>1, <1>2 DEF HandlerReturn, Topic
<1>3. CASE ~HandlerReturn(i)
  <2>1. raised' = raised \cup {i[1]} /\ i[1] \in Events
    BY <1>3 DEF HandlerRaise, Invocations
  <2>2. status[i[1]] \in {"taken", "done"}
    BY <1>1 DEF IndInv, HandlersOfTaken
  <2>3. ASSUME NEW j \in inflight', j[2] = onListing PROVE j[1] # i[1]
    <3>1. j \in inflight /\ j # i /\ j \in Invocations
      BY <1>1, <2>3 DEF IndInv, TypeOK
    <3>2. TopicOf[j[1]] = Listing
      BY <2>3, <3>1, TopicsOfHandlers
    <3>3. CASE i[2] = onListing
      BY <2>3, <3>1, <3>3 DEF Invocations
    <3>4. CASE i \in ShutdownCalls
      BY <3>2, <3>4, TopicsOfHandlers
    <3>5. CASE i[2] = onCritical
      BY <1>1, <3>2, <3>5, TopicsOfHandlers DEF HandlersInOrder
    <3> QED BY <1>3, <3>3, <3>4, <3>5
  <2> QED BY <1>1, <2>1, <2>2, <2>3 DEF Topic
<1> QED BY <1>2, <1>3

LEMMA HandlersInOrderStep ==
    ASSUME IndInv, HandlersInOrder, [EngineNext]_allVars
    PROVE  HandlersInOrder'
<1> USE DEF HandlersInOrder
<1>0. status \in [Events -> Statuses] /\ inflight \subseteq Invocations
  BY DEF IndInv, TypeOK
<1>1. CASE UNCHANGED <<inflight, raised, status, cancelled>>
  BY <1>1 DEF Topic
<1>2. CASE UNCHANGED <<inflight, raised, status>> /\ cancelled'
  BY <1>2 DEF Topic
<1>3. ASSUME NEW i \in Invocations, HandlerReturn(i) \/ HandlerRaise(i),
             i \in ShutdownCalls \/ i[2] \in {onListing, onCritical} \/ HandlerReturn(i)
      PROVE  HandlersInOrder'
  BY <1>3, EndKeepsOrder
<1>4. ASSUME NEW s \in Stoppers, StopStage(s) PROVE HandlersInOrder'
  <2>1. CASE StopNext(s) \/ StopRedis(s)
    BY <1>1, <2>1 DEF StopNext, Alone, vars, StopRedis, CloseRedis, StopReturn
  <2>2. CASE StopBus(s) \/ StopBusWoken(s)
    BY <1>1, <1>2, <2>2 DEF StopBus, StopCall, StopBusWoken, StopCancel
  <2>3. CASE StopEnds(s) \/ StopFails(s)
    <3>1. s # External => s \in Invocations /\ s \in ShutdownCalls
      BY CallersOfStop DEF ShutdownCalls
    <3>2. (s # External /\ (HandlerReturn(s) \/ HandlerRaise(s))) \/ UNCHANGED vars
      BY <2>3 DEF StopEnds, StopFails, Alone
    <3>3. CASE s # External /\ (HandlerReturn(s) \/ HandlerRaise(s))
      BY <1>3, <3>1, <3>3
    <3>4. CASE UNCHANGED vars
      BY <1>1, <3>4 DEF vars
    <3> QED BY <3>2, <3>3, <3>4
  <2> QED BY <1>4, <2>1, <2>2, <2>3 DEF StopStage
<1>5. ASSUME NEW i \in Invocations, OnShutdown(i) \/ OnListingEnds(i) \/ OnCritical(i)
      PROVE  HandlersInOrder'
  <2>1. CASE OnShutdown(i)
    BY <1>1, <2>1 DEF OnShutdown, BeginStop, Alone, vars
  <2>2. CASE OnListingEnds(i) \/ OnCritical(i)
    BY <1>3, <2>2 DEF OnListingEnds, OnCritical, HandlerEnd
  <2> QED BY <1>5, <2>1, <2>2
<1>6. ASSUME NEW e \in Events,
             WsListing(e) \/ SystemEvent(e) \/ EventPut(e) \/ OnListingConfirmed(e)
      PROVE  HandlersInOrder'
  <2>1. /\ UNCHANGED <<subs, inflight, raised, cancelled>>
        /\ status[e] \in {"new", "blocked"}
        /\ status'[e] = "blocked" => TopicOf[e] # Listing
        /\ status'[e] = "blocked" /\ TopicOf[e] = Confirmed => SourceOf[e] \in inflight
    BY <1>6, OffersMove DEF IndInv
  <2>2. PICK to \in {"queued", "blocked", "dropped"} : status' = [status EXCEPT ![e] = to]
    BY <1>6, OffersMove DEF IndInv
  <2>3. \A f \in Events : status'[f] = IF f = e THEN to ELSE status[f]
    BY <1>0, <2>2
  <2>4. \A f \in raised' : status'[f] \in {"taken", "done"}
    <3>1. raised' = raised /\ raised \subseteq Events
      BY <2>1 DEF IndInv, TypeOK
    <3> QED BY <2>1, <2>3, <3>1
  <2>5. \A f \in Events : status'[f] = "aborted" => cancelled'
    BY <2>1, <2>3
  <2>6. /\ \A f \in Topic(Listing) : status'[f] # "blocked"
        /\ \A f \in Topic(Confirmed) : status'[f] = "blocked" => SourceOf[f] \in inflight'
    BY <2>1, <2>3 DEF Topic
  <2>7. /\ \A i \in inflight' : TopicOf[i[1]] \in PatternOf[i[2]]
        /\ \A i \in inflight' : i[2] = onListing => i[1] \notin raised'
    BY <2>1
  <2> QED BY <2>4, <2>5, <2>6, <2>7 DEF Topic
<1>7. ASSUME NEW w \in Workers, Worker(w) PROVE HandlersInOrder'
  <2> DEFINE fresh == inflight' \ inflight
  <2>1. WorkerStep(w)
    BY <1>7 DEF Worker
  <2>2. raised' = raised /\ cancelled' = cancelled
    BY <2>1, WorkerKeeps DEF IndInv
  <2>3. /\ \A e \in Events :
              \/ status'[e] = status[e]
              \/ status[e] = "taken" /\ status'[e] = "done"
              \/ status[e] = "queued" /\ status'[e] = "taken"
              \/ cancelled /\ status[e] = "taken" /\ status'[e] = "aborted" /\ e \notin raised
              \/ cancelled /\ status[e] = "blocked" /\ status'[e] = "aborted"
        /\ \A i \in fresh :
              status[i[1]] = "queued" /\ i[1] \in Events /\ TopicOf[i[1]] \in PatternOf[i[2]]
        /\ \A e \in Events : status'[e] = "blocked" /\ SourceOf[e] \in inflight
                               => SourceOf[e] \in inflight'
    BY <2>1, WorkerMoves
  <2>4. raised \subseteq Events
    BY DEF IndInv, TypeOK
  <2>5. \A i \in inflight' : i[2] = onListing => i[1] \notin raised'
    BY <2>2, <2>3
  <2>6. \A e \in raised' : status'[e] \in {"taken", "done"}
    BY <2>2, <2>3, <2>4
  <2>7. \A e \in Events : (status'[e] = "aborted" => cancelled')
                          /\ (status'[e] = "blocked" => status[e] = "blocked")
    BY <2>2, <2>3
  <2> QED BY <2>3, <2>5, <2>6, <2>7 DEF Topic
<1> QED
  BY <1>1, <1>4, <1>5, <1>6, <1>7
  DEF InProcess, EngineNext, StartStep, Pinged, RedisAnswers, Prefetched, Served, StartFails, Start, Signal, MainStop,
      BeginStop, Closed, Alone, vars, allVars

-----------------------------------------------------------------------------
(* Listings are over when the first drain is *)

Over ==
    /\ \A e \in Topic(Listing) \cup Topic(Confirmed) : status[e] \in {"new", "dropped", "done"}
    /\ \A i \in inflight : i[2] # onListing

LEMMA OverWhenNothingOutstanding ==
    ASSUME IndInv, HandlersInOrder, ~cancelled, Outstanding = {}
    PROVE  Over
<1>1. \A e \in Events : status[e] \in Statuses \ {"queued", "taken", "aborted"}
  BY DEF IndInv, TypeOK, Outstanding, HandlersInOrder
<1>2. ASSUME NEW i \in inflight, i[2] = onListing PROVE FALSE
  <2>1. i[1] \in Events /\ status[i[1]] # "taken"
    BY <1>1 DEF IndInv, TypeOK, Invocations
  <2> QED BY <1>2, <2>1 DEF IndInv, HandlersOfTaken, HandlersInOrder
<1>3. ASSUME NEW e \in Topic(Confirmed), status[e] = "blocked" PROVE FALSE
  <2>1. e \in Events /\ SourceOf[e] \in inflight
    BY <1>3 DEF HandlersInOrder, Topic
  <2>2. PICK f \in Events : SourceOf[e] = <<f, onListing>>
    BY <1>3, EngineAssumption DEF Topic
  <2> QED BY <1>2, <2>1, <2>2
<1>4. \A e \in Topic(Listing) : status[e] # "blocked"
  BY DEF HandlersInOrder
<1> QED BY <1>1, <1>2, <1>3, <1>4 DEF Over, Topic, Statuses

(* The steps that end the first drain: a stop() that finds the count at    *)
(* zero, or the worker that brings it there.                               *)
LEMMA FirstDrainEnds ==
    ASSUME IndInv, FirstDrain, [Next]_vars, ~FirstDrain'
    PROVE  \/ ~cancelled /\ unfinished = 0 /\ UNCHANGED <<status, inflight>>
           \/ ~cancelled' /\ unfinished' = 0
<1> USE DEF FirstDrain
<1>0. ~cancelled /\ \A s \in Stoppers : spc[s] # "woken"
  OBVIOUS
<1>1. ASSUME NEW w \in Workers, WorkerStep(w) PROVE ~cancelled' /\ unfinished' = 0
  <2>1. FinishDispatch(w)
    <3>1. ~CancelIdle(w) /\ ~CancelDispatch(w)
      BY <1>0 DEF CancelIdle, CancelDispatch
    <3>2. ~WorkerBegin(w) /\ ~GetWakes(w)
      BY <1>0 DEF WorkerBegin, GetWakes
    <3> QED BY <1>1, <3>1, <3>2 DEF WorkerStep
  <2>2. PICK s \in Stoppers : spc'[s] = "woken"
    BY <1>0, <2>1 DEF FinishDispatch
  <2> QED BY <1>0, <2>1, <2>2 DEF FinishDispatch, Woken, IndInv, TypeOK
<1>2. ASSUME NEW s \in Stoppers, StopCall(s)
      PROVE  ~cancelled /\ unfinished = 0 /\ UNCHANGED <<status, inflight>>
  BY <1>0, <1>2 DEF StopCall, IndInv, TypeOK
<1>3. ASSUME NEW s \in Stoppers, StopStep(s) PROVE FALSE
  BY <1>0, <1>3 DEF StopStep, StopCancel, StopReturn, IndInv, TypeOK
<1>4. CASE UNCHANGED <<cancelled, spc>>
  BY <1>0, <1>4
<1> QED
  BY <1>1, <1>2, <1>3, <1>4
  DEF Next, Subscribe, Start, Publish, PublishNowait, PutterWakes, Accept, Refuse, HandlerEnd,
      HandlerReturn, HandlerRaise, vars

LEMMA DrainIsFinal ==
    ASSUME IndInv, HandlersInOrder, FirstDrain, [Next]_vars, ~FirstDrain', IndInv', HandlersInOrder'
    PROVE  Over'
<1>1. CASE ~cancelled /\ unfinished = 0 /\ UNCHANGED <<status, inflight>>
  <2>1. AllCounted
    BY <1>1 DEF AllCounted, IndInv
  <2>2. Over
    BY <1>1, <2>1, NothingOutstanding, OverWhenNothingOutstanding
  <2> QED BY <1>1, <2>2 DEF Over, Topic
<1>2. CASE ~cancelled' /\ unfinished' = 0
  <2>1. AllCounted'
    BY <1>2 DEF AllCounted, IndInv
  <2>2. (AllCounted => Outstanding = {})'
    BY NothingOutstanding, PTL
  <2>3. IndInv /\ HandlersInOrder /\ ~cancelled /\ Outstanding = {} => Over
    BY OverWhenNothingOutstanding
  <2>4. (IndInv /\ HandlersInOrder /\ ~cancelled /\ Outstanding = {} => Over)'
    BY OverWhenNothingOutstanding, PTL
  <2> QED BY <1>2, <2>1, <2>2, <2>4
<1> QED BY <1>1, <1>2, FirstDrainEnds

LEMMA OverStays ==
    ASSUME IndInv, StopOrdered, HandlersInOrder, Over, ~FirstDrain, [EngineNext]_allVars
    PROVE  Over'
<1> USE DEF Over
<1>0. status \in [Events -> Statuses] /\ inflight \subseteq Invocations
  BY DEF IndInv, TypeOK
<1>1. CASE status' = status /\ inflight' \subseteq inflight
  BY <1>1 DEF Topic
<1>2. comp["ws"] = "down"
  BY DEF FirstDrain, StopOrdered, PastBus, PastWs
<1>3. ASSUME NEW e \in Events,
             WsListing(e) \/ SystemEvent(e) \/ EventPut(e) \/ OnListingConfirmed(e)
      PROVE  Over'
  <2>1. UNCHANGED inflight
    BY <1>3, OffersMove DEF IndInv
  <2>2. status[e] \in {"new", "blocked"}
    BY <1>3, OffersMove DEF IndInv
  <2>3. PICK to \in {"queued", "blocked", "dropped"} : status' = [status EXCEPT ![e] = to]
    BY <1>3, OffersMove DEF IndInv
  <2>4. e \notin Topic(Listing) \cup Topic(Confirmed)
    <3>1. ~WsListing(e)
      BY <1>2 DEF WsListing
    <3>2. CASE SystemEvent(e)
      BY <3>2, EngineAssumption DEF SystemEvent, Topic
    <3>3. CASE EventPut(e)
      BY <3>3 DEF EventPut, PutterWakes
    <3>4. CASE OnListingConfirmed(e)
      <4>1. PICK f \in Events : SourceOf[e] = <<f, onListing>>
        BY <3>4, EngineAssumption DEF OnListingConfirmed, Topic
      <4>2. SourceOf[e] \notin inflight
        BY <4>1
      <4>3. SourceOf[e] # External
        BY <4>1, EngineAssumption, NamesAssumption DEF Invocations
      <4> QED BY <3>4, <4>2, <4>3 DEF OnListingConfirmed, Publish, Free, Alive
    <3> QED BY <1>3, <3>1, <3>2, <3>3, <3>4
  <2> QED BY <1>0, <2>1, <2>3, <2>4 DEF Topic
<1>4. ASSUME NEW w \in Workers, Worker(w) PROVE Over'
  <2>1. WorkerStep(w)
    BY <1>4 DEF Worker
  <2>2. \A e \in Topic(Listing) \cup Topic(Confirmed) : status'[e] = status[e]
    BY <2>1, WorkerMoves DEF Topic
  <2>3. ASSUME NEW i \in inflight' \ inflight, i[2] = onListing PROVE FALSE
    <3>1. i[1] \in Events /\ status[i[1]] = "queued" /\ TopicOf[i[1]] = Listing
      BY <2>1, <2>3, WorkerMoves, TopicsOfHandlers
    <3> QED BY <3>1 DEF Topic
  <2> QED BY <2>2, <2>3 DEF Topic
<1>5. ASSUME NEW s \in Stoppers, StopStage(s) PROVE Over'
  BY <1>1, <1>5
  DEF StopStage, StopNext, StopBus, StopCall, StopBusWoken, StopCancel, StopRedis, CloseRedis, StopReturn,
      StopEnds, StopFails, HandlerReturn, HandlerRaise, Alone, vars
<1>6. ASSUME NEW i \in Invocations, OnShutdown(i) \/ OnListingEnds(i) \/ OnCritical(i) PROVE Over'
  BY <1>1, <1>6
  DEF OnShutdown, BeginStop, OnListingEnds, OnCritical, HandlerEnd, HandlerReturn, HandlerRaise, Alone, vars
<1> QED
  BY <1>1, <1>3, <1>4, <1>5, <1>6
  DEF InProcess, EngineNext, StartStep, Pinged, RedisAnswers, Prefetched, Served, StartFails, Start, Signal, MainStop,
      BeginStop, Closed, Alone, vars, allVars

-----------------------------------------------------------------------------
(* The invariant of the engine *)

LEMMA EngineCoreStep == EngineCore /\ [EngineNext]_allVars => EngineCore'
<1> SUFFICES ASSUME EngineCore, [EngineNext]_allVars PROVE EngineCore'
  OBVIOUS
<1> USE DEF EngineCore
<1>1. [Next]_vars /\ TypeOK
  BY EngineStepIsBusStep DEF IndInv
<1>2. EngineTypeOK' /\ IndInv'
  BY <1>1, EngineTypeStep, InvariantStep
<1>3. StartOrdered' /\ StopOrdered' /\ HandlersInOrder'
  BY <1>1, StartOrderedStep, StopOrderedStep, HandlersInOrderStep
<1>4. ListingsOver'
  <2>1. CASE FirstDrain
    BY <1>1, <1>2, <1>3, <2>1, DrainIsFinal DEF ListingsOver, Over
  <2>2. CASE ~FirstDrain
    BY <2>2, OverStays DEF ListingsOver, Over
  <2> QED BY <2>1, <2>2
<1> QED BY <1>2, <1>3, <1>4

(* The order of start(), stop(), the handlers and amain() is kept.         *)
LEMMA CoreInvariance == EngineSpec => []EngineCore
<1>1. EngineInit => EngineCore
  <2> SUFFICES ASSUME EngineInit PROVE EngineCore
    OBVIOUS
  <2>1. EngineTypeOK /\ StartOrdered
    BY DEF EngineInit, Init, EngineStates, EngineTypeOK, StartOrdered, Components
  <2>2. StopOrdered
    BY DEF EngineInit, Init, StopOrdered, Components, PastWs, PastCache, PastBus
  <2>3. HandlersInOrder /\ ListingsOver
    BY DEF EngineInit, Init, HandlersInOrder, ListingsOver, FirstDrain, Topic
  <2>4. IndInv
    BY InvariantInit DEF EngineInit
  <2> QED BY <2>1, <2>2, <2>3, <2>4 DEF EngineCore
<1> QED BY <1>1, EngineCoreStep, PTL DEF EngineSpec

(* Components are opened after, and closed before, what they depend on, in *)
(* whatever order the signal and shutdown events bring two stop()s.        *)
THEOREM ComponentsInOrder == EngineSpec => []DependencyOrder
<1>1. EngineCore => DependencyOrder
  BY DEF EngineCore, EngineTypeOK, Components, StartOrdered, StopOrdered, DependencyOrder
<1> QED BY <1>1, CoreInvariance, PTL

(* A process that ends through stop() leaves no accepted listing and no    *)
(* confirmed opportunity half handled.                                     *)
THEOREM ExitsClean == EngineSpec => []CleanExit
<1>1. EngineCore => CleanExit
  <2> SUFFICES ASSUME EngineCore, mpc = "exited"
               PROVE  \A e \in Topic(Listing) \cup Topic(Confirmed) :
                         status[e] \in {"new", "dropped", "done"}
    BY DEF CleanExit
  <2>1. External \in Stoppers
    BY EngineAssumption
  <2>2. ipc[External] = "done" /\ cancelled
    BY <2>1 DEF EngineCore, StopOrdered, PastBus
  <2> QED BY <2>2 DEF EngineCore, ListingsOver, FirstDrain
<1> QED BY <1>1, CoreInvariance, PTL

(* What ACTIVE and a cleared flag say of the calls of stop().              *)
StopsReported ==
    /\ ~accepting => \E s \in Stoppers : ipc[s] # "idle"
    /\ state = "ACTIVE" => ipc[External] = "idle"
    /\ mpc \in {"ping", "prefetch", "serve", "wait"} => ipc[External] = "idle"

LEMMA StopsReportedStep ==
    ASSUME EngineTypeOK, StopsReported, [EngineNext]_allVars
    PROVE  StopsReported'
<1> USE EngineAssumption DEF EngineTypeOK, EngineStates, StopsReported
<1>1. CASE StartStep \/ Signal
  BY <1>1 DEF StartStep, Signal, Pinged, RedisAnswers, Prefetched, Served, StartFails
<1>2. CASE MainStop
  BY <1>2 DEF MainStop, BeginStop
<1>3. ASSUME NEW i \in Invocations, OnShutdown(i) PROVE StopsReported'
  <2>1. i \in Stoppers /\ i # External
    BY <1>3 DEF OnShutdown, ShutdownCalls
  <2> QED BY <1>3, <2>1 DEF OnShutdown, BeginStop
<1>4. ASSUME NEW s \in Stoppers, StopStage(s) PROVE StopsReported'
  <2>1. CASE StopNext(s)
    BY <1>4, <2>1 DEF StopNext, At, After
  <2>2. CASE StopBus(s) \/ StopRedis(s)
    BY <1>4, <2>2 DEF StopBus, StopRedis, CloseRedis, At
  <2>3. CASE StopBusWoken(s)
    BY <2>3 DEF StopBusWoken, engineVars
  <2>4. CASE StopEnds(s) \/ StopFails(s)
    BY <1>4, <2>4 DEF StopEnds, StopFails, At
  <2> QED BY <1>4, <2>1, <2>2, <2>3, <2>4 DEF StopStage
<1>5. ASSUME NEW i \in Invocations, OnListingEnds(i) \/ OnCritical(i) PROVE StopsReported'
  BY <1>5 DEF OnListingEnds, OnCritical, HandlerEnd, engineVars
<1>6. ASSUME NEW x \in Components, Closed(x) PROVE StopsReported'
  BY <1>6 DEF Closed
<1>7. ASSUME NEW e \in Events, WsListing(e) \/ SystemEvent(e) \/ EventPut(e) \/ OnListingConfirmed(e)
      PROVE  StopsReported'
  BY <1>7 DEF WsListing, SystemEvent, EventPut, OnListingConfirmed, engineVars
<1>8. CASE UNCHANGED allVars \/ \E w \in Workers : Worker(w)
  BY <1>8 DEF allVars, engineVars, Worker
<1> QED BY <1>1, <1>2, <1>3, <1>4, <1>5, <1>6, <1>7, <1>8 DEF EngineNext

(* The engine says that it is active after stop() has begun only when a    *)
(* shutdown handler called it (engine.py lines 83 and 87).                 *)
THEOREM ActiveOnlyByHandler == EngineSpec => []ActiveAfterStop
<1>1. EngineInit => StopsReported
  BY EngineAssumption DEF EngineInit, StopsReported
<1>2. StopsReported => ActiveAfterStop
  BY DEF StopsReported, ActiveAfterStop, ShutdownCalls
<1>3. EngineCore => EngineTypeOK
  BY DEF EngineCore
<1> QED BY <1>1, <1>2, <1>3, StopsReportedStep, CoreInvariance, PTL DEF EngineSpec

(* One handler for each topic: none that runs has a sibling that raised.   *)
LEMMA OneHandler ==
    ASSUME NEW i \in Invocations, NEW j \in Invocations, i[1] = j[1],
           TopicOf[i[1]] \in PatternOf[i[2]], TopicOf[j[1]] \in PatternOf[j[2]]
    PROVE  i = j
<1>1. i[2] \in {onListing, onShutdown, onCritical} /\ j[2] \in {onListing, onShutdown, onCritical}
  BY EngineAssumption DEF Invocations
<1>2. /\ PatternOf[onListing] = {Listing} /\ PatternOf[onShutdown] = {Shutdown}
      /\ PatternOf[onCritical] = {Critical}
  BY EngineAssumption
<1>3. i[2] = j[2]
  BY <1>1, <1>2, EngineAssumption
<1>4. i = <<i[1], i[2]>> /\ j = <<j[1], j[2]>>
  BY DEF Invocations
<1> QED BY <1>3, <1>4

LEMMA NoOrphansStep ==
    ASSUME IndInv, HandlersInOrder, NoOrphans, [Next]_vars
    PROVE  NoOrphans'
<1> USE DEF NoOrphans
<1>1. CASE UNCHANGED <<inflight, raised>>
  BY <1>1
<1>2. ASSUME NEW i \in Invocations, HandlerEnd(i) PROVE NoOrphans'
  <2>1. CASE HandlerReturn(i)
    BY <2>1 DEF HandlerReturn
  <2>2. CASE HandlerRaise(i)
    <3>1. /\ i \in inflight /\ inflight' = inflight \ {i} /\ raised' = raised \cup {i[1]}
          /\ inflight \subseteq Invocations
      BY <2>2 DEF HandlerRaise, IndInv, TypeOK
    <3>2. \A j \in inflight' : j[1] # i[1]
      BY <3>1, OneHandler DEF HandlersInOrder
    <3> QED BY <3>1, <3>2
  <2> QED BY <1>2, <2>1, <2>2 DEF HandlerEnd
<1>3. ASSUME NEW w \in Workers, WorkerStep(w) PROVE NoOrphans'
  <2>1. raised' = raised
    BY <1>3, WorkerKeeps DEF IndInv
  <2>2. \A i \in inflight' \ inflight : status[i[1]] = "queued"
    BY <1>3, WorkerMoves
  <2>3. \A e \in raised : status[e] # "queued"
    BY DEF HandlersInOrder
  <2> QED BY <2>1, <2>2, <2>3
<1> QED
  BY <1>1, <1>2, <1>3
  DEF Next, Subscribe, Start, Publish, PublishNowait, PutterWakes, Accept, Refuse, StopCall,
      StopStep, StopCancel, StopReturn, vars

(* What a stop() that goes on to Redis leaves: no handler, and an amain()  *)
(* that waits for that stop().                                             *)
RedisClosing == comp["redis"] \in {"closing", "down"}
Reported == RedisClosing => inflight = {} /\ mpc \in {"stop", "exited", "crashed"}

(* Only amain()'s call of stop() gets past the bus: a handler's is         *)
(* cancelled with the workers.                                             *)
LEMMA PastBusOnlyMain ==
    ASSUME EngineCore, NoOrphans, NEW s \in Stoppers, StopRedis(s)
    PROVE  s = External /\ inflight = {}
<1>1. spc[s] = "gathering" /\ Alive(s) /\ \A w \in Workers : wpc[w] = "exited"
  BY DEF StopRedis, CloseRedis, StopReturn
<1>2. Dispatching = {}
  BY <1>1 DEF Dispatching
<1>3. inflight = {}
  <2> SUFFICES ASSUME NEW i \in inflight PROVE FALSE
    OBVIOUS
  <2>1. i[1] \in Events /\ i[1] \notin raised
    BY DEF EngineCore, IndInv, TypeOK, Invocations, NoOrphans
  <2>2. status[i[1]] = "taken"
    BY <2>1 DEF EngineCore, IndInv, HandlersOfTaken
  <2> QED BY <1>2, <2>1, <2>2 DEF EngineCore, IndInv, HandledByOneWorker
<1> QED BY <1>1, <1>3 DEF Alive

LEMMA ReportedStep ==
    ASSUME EngineCore, StopsReported, NoOrphans, Reported, [EngineNext]_allVars
    PROVE  Reported' /\ (RedisClosing => state' = state)
<1> USE DEF Reported, RedisClosing
<1>0. EngineTypeOK /\ "redis" \in Components
  BY DEF EngineCore, Components
<1>1. CASE StartStep \/ Signal \/ MainStop
  <2>1. CASE RedisClosing
    BY <1>1, <2>1 DEF StartStep, Signal, MainStop, Pinged, RedisAnswers, Prefetched, Served, StartFails, Alone, vars
  <2>2. CASE ~RedisClosing
    BY <1>0, <1>1, <2>2 DEF StartStep, Signal, MainStop, BeginStop, Pinged, RedisAnswers, Prefetched, Served,
       StartFails, Opened, Closing, EngineTypeOK
  <2> QED BY <2>1, <2>2
<1>2. ASSUME NEW i \in Invocations, OnShutdown(i) \/ OnListingEnds(i) \/ OnCritical(i)
      PROVE  Reported' /\ (RedisClosing => state' = state)
  <2>1. i \in inflight
    <3>1. CASE OnShutdown(i)
      BY <3>1 DEF OnShutdown, BeginStop, ShutdownCalls, Alive
    <3>2. CASE OnListingEnds(i) \/ OnCritical(i)
      BY <3>2 DEF OnListingEnds, OnCritical, HandlerEnd, HandlerReturn, HandlerRaise
    <3> QED BY <1>2, <3>1, <3>2
  <2>2. ~RedisClosing
    BY <2>1
  <2>3. comp'["redis"] = comp["redis"]
    BY <1>0, <1>2
    DEF OnShutdown, BeginStop, Closing, OnListingEnds, OnCritical, HandlerEnd, engineVars, EngineTypeOK
  <2> QED BY <2>2, <2>3
<1>3. ASSUME NEW s \in Stoppers, StopStage(s)
      PROVE  Reported' /\ (RedisClosing => state' = state)
  <2>1. CASE StopRedis(s)
    <3>1. s = External /\ inflight = {}
      BY <2>1, PastBusOnlyMain
    <3>2. mpc \in {"stop", "exited", "crashed"}
      BY <2>1, <3>1, <1>0 DEF StopRedis, CloseRedis, At, StopsReported, EngineTypeOK
    <3> QED BY <2>1, <3>1, <3>2 DEF StopRedis, CloseRedis, StopReturn
  <2>2. CASE StopNext(s)
    BY <1>0, <2>2 DEF StopNext, At, After, Closing, Alone, vars, EngineTypeOK
  <2>3. CASE StopBus(s) \/ StopBusWoken(s)
    BY <2>3 DEF StopBus, StopCall, StopBusWoken, StopCancel, engineVars
  <2>4. CASE StopEnds(s) \/ StopFails(s)
    BY <2>4 DEF StopEnds, StopFails, HandlerReturn, HandlerRaise, Alone, vars
  <2> QED BY <1>3, <2>1, <2>2, <2>3, <2>4 DEF StopStage
<1>4. ASSUME NEW x \in Components, Closed(x)
      PROVE  Reported' /\ (RedisClosing => state' = state)
  BY <1>0, <1>4 DEF Closed, Alone, vars, EngineTypeOK
<1>5. ASSUME NEW e \in Events,
             WsListing(e) \/ SystemEvent(e) \/ EventPut(e) \/ OnListingConfirmed(e)
      PROVE  Reported' /\ (RedisClosing => state' = state)
  <2>1. UNCHANGED inflight
    BY <1>5, OffersMove DEF EngineCore, IndInv
  <2> QED BY <1>5, <2>1 DEF WsListing, SystemEvent, EventPut, OnListingConfirmed, engineVars
<1>6. ASSUME NEW w \in Workers, Worker(w)
      PROVE  Reported' /\ (RedisClosing => state' = state)
  <2>1. ~RedisClosing
    BY <1>6, WorkerKeeps DEF Worker, EngineCore, IndInv, StopOrdered
  <2> QED BY <1>6, <2>1 DEF Worker, engineVars
<1>7. CASE UNCHANGED allVars
  BY <1>7 DEF allVars, vars, engineVars
<1> QED BY <1>1, <1>2, <1>3, <1>4, <1>5, <1>6, <1>7 DEF EngineNext

(* What the engine reports when stop() goes on to Redis, it reports to the *)
(* end (engine.py lines 95-96 and 118).                                    *)
THEOREM ReportStays == EngineSpec => ReportSettles
<1> DEFINE Inv == EngineCore /\ StopsReported /\ NoOrphans /\ Reported
<1>1. EngineInit => StopsReported /\ NoOrphans /\ Reported
  BY EngineAssumption
  DEF EngineInit, Init, StopsReported, NoOrphans, Reported, RedisClosing, Components
<1>2. Inv /\ [EngineNext]_allVars => (StopsReported /\ NoOrphans /\ Reported)'
  <2> SUFFICES ASSUME Inv, [EngineNext]_allVars PROVE (StopsReported /\ NoOrphans /\ Reported)'
    OBVIOUS
  <2>1. EngineTypeOK /\ IndInv /\ HandlersInOrder /\ TypeOK
    BY DEF EngineCore, IndInv
  <2>2. [Next]_vars
    BY <2>1, EngineStepIsBusStep
  <2> QED BY <2>1, <2>2, StopsReportedStep, NoOrphansStep, ReportedStep
<1>3. Inv /\ [EngineNext]_allVars => [RedisClosing => state' = state]_allVars
  BY ReportedStep
<1>4. ReportSettles <=> [][RedisClosing => state' = state]_allVars
  BY PTL DEF ReportSettles, RedisClosing
<1> QED BY <1>1, <1>2, <1>3, <1>4, CoreInvariance, PTL DEF EngineSpec
-----------------------------------------------------------------------------
(* stop() called by the system.shutdown handler *)

LEMMA StillCounted ==
    IndInv /\ NoOrphans /\ ~cancelled /\ inflight # {} => unfinished > 0
<1> SUFFICES ASSUME IndInv, NoOrphans, ~cancelled, NEW i \in inflight PROVE unfinished > 0
  OBVIOUS
<1>1. status[i[1]] = "taken" /\ i[1] \in Events
  BY DEF IndInv, TypeOK, HandlersOfTaken, NoOrphans, Invocations
<1>2. PICK w \in Dispatching : held[w] = i[1]
  BY <1>1 DEF IndInv, HandledByOneWorker
<1>3. IsFiniteSet(Dispatching)
  BY DispatchingFinite DEF IndInv
<1>4. Cardinality(Dispatching) \in Nat /\ Cardinality(Dispatching) # 0
  BY <1>2, <1>3, FS_CardinalityType, FS_EmptySet
<1>5. Len(queue) \in Nat
  BY LenProperties DEF IndInv, TypeOK
<1> QED BY <1>4, <1>5 DEF IndInv, UnfinishedExact

LEMMA StillCountedNext ==
    (IndInv /\ NoOrphans /\ ~cancelled /\ inflight # {} => unfinished > 0)'
BY StillCounted, PTL

(* The part of ShutdownHeld that is about the bus.                         *)
CallHeld(i) ==
    /\ spc[i] \in {"idle", "joining", "woken", "aborted"}
    /\ spc[i] \in {"joining", "woken"} => i \in inflight
    /\ spc[i] \in {"woken", "aborted"} => cancelled

LEMMA LoopKeepsHandlers ==
    ASSUME NEW w, NEW st, Loop(w, st) \/ Take(w, st) PROVE inflight \subseteq inflight'
BY DEF Loop, Rest, Take

LEMMA CallHeldStep ==
    ASSUME IndInv, IndInv', NoOrphans, NoOrphans', [Next]_vars,
           NEW i \in ShutdownCalls, CallHeld(i)
    PROVE  CallHeld(i)'
<1> USE DEF CallHeld
<1>0. i \in Stoppers /\ i # External /\ spc \in [Stoppers -> StopStates]
  BY DEF ShutdownCalls, IndInv, TypeOK
<1>1. CASE UNCHANGED <<spc, cancelled>> /\ inflight \subseteq inflight'
  BY <1>1
<1>2. ASSUME NEW j \in Invocations, HandlerEnd(j) PROVE CallHeld(i)'
  <2>1. /\ inflight' = inflight \ {j} /\ Free(j)
        /\ UNCHANGED <<spc, cancelled>>
    BY <1>2 DEF HandlerEnd, HandlerReturn, HandlerRaise
  <2>2. j = i => spc[i] \notin {"joining", "woken"}
    BY <1>0, <2>1 DEF Free
  <2> QED BY <2>1, <2>2
<1>3. ASSUME NEW w \in Workers, FinishDispatch(w) PROVE CallHeld(i)'
  <2>1. /\ ~cancelled /\ ~cancelled'
        /\ unfinished' = Decremented /\ spc' = Woken(spc, Decremented)
        /\ inflight \subseteq inflight'
    BY <1>3, LoopKeepsHandlers DEF FinishDispatch
  <2>2. spc[i] = "joining" => unfinished' > 0
    BY <2>1, StillCountedNext
  <2>3. spc'[i] = spc[i]
    BY <1>0, <2>1, <2>2 DEF Woken
  <2> QED BY <2>1, <2>3
<1>4. ASSUME NEW w \in Workers, CancelIdle(w) PROVE CallHeld(i)'
  BY <1>0, <1>4 DEF CancelIdle, Woken
<1>5. ASSUME NEW w \in Workers, CancelDispatch(w) PROVE CallHeld(i)'
  <2> DEFINE own == {j \in InvocationsOf(held[w]) : Doomed(j)}
  <2>1. cancelled /\ cancelled' /\ inflight' = inflight \ own
    BY <1>5 DEF CancelDispatch
  <2>2. spc'[i] = IF i \in own /\ spc[i] \notin {"idle", "done"} THEN "aborted"
                  ELSE Woken(spc, Decremented)[i]
    BY <1>0, <1>5 DEF CancelDispatch
  <2>3. Woken(spc, Decremented)[i] = spc[i]
        \/ (spc[i] = "joining" /\ Woken(spc, Decremented)[i] = "woken")
    BY <1>0 DEF Woken
  <2> HIDE DEF own
  <2>4. CASE i \in own /\ spc[i] \notin {"idle", "done"}
    BY <2>1, <2>2, <2>4
  <2>5. CASE ~(i \in own /\ spc[i] \notin {"idle", "done"})
    <3>1. spc'[i] = spc[i] \/ (spc[i] = "joining" /\ spc'[i] = "woken")
      BY <2>2, <2>3, <2>5
    <3>2. spc[i] \in {"joining", "woken"} => i \in inflight'
      BY <2>1, <2>5
    <3> QED BY <2>1, <3>1, <3>2
  <2> QED BY <2>4, <2>5
<1>6. ASSUME NEW s \in Stoppers, StopCall(s) PROVE CallHeld(i)'
  <2>1. CASE s = i
    <3>1. i \in inflight /\ ~cancelled
      BY <1>0, <1>6, <2>1 DEF StopCall, Free, Alive, Doomed, NoOrphans
    <3>2. unfinished > 0
      BY <3>1, StillCounted
    <3> QED BY <1>0, <1>6, <2>1, <3>1, <3>2 DEF StopCall
  <2>2. CASE s # i
    <3>1. spc'[i] = spc[i] /\ inflight' = inflight /\ (cancelled => cancelled')
      BY <1>0, <1>6, <2>2 DEF StopCall
    <3> QED BY <3>1
  <2> QED BY <2>1, <2>2
<1>7. ASSUME NEW s \in Stoppers, StopStep(s) PROVE CallHeld(i)'
  <2>1. s # i
    BY <1>0, <1>7 DEF StopStep, StopCancel, StopReturn, Alive, Doomed, NoOrphans
  <2>2. spc'[i] = spc[i] /\ inflight' = inflight /\ (cancelled => cancelled')
    BY <1>0, <1>7, <2>1 DEF StopStep, StopCancel, StopReturn
  <2> QED BY <2>2
<1>8. ASSUME NEW w \in Workers, WorkerBegin(w) \/ GetWakes(w) PROVE CallHeld(i)'
  BY <1>1, <1>8, LoopKeepsHandlers DEF WorkerBegin, GetWakes
<1> QED
  BY <1>1, <1>2, <1>3, <1>4, <1>5, <1>6, <1>7, <1>8
  DEF Next, WorkerStep, Subscribe, Start, Publish, PublishNowait, PutterWakes, Accept, Refuse, vars

(* No call of stop() is woken while one that a handler made waits for the  *)
(* event of that handler.                                                  *)
LEMMA NobodyWoken ==
    ASSUME IndInv, IndInv', NoOrphans, NoOrphans', [Next]_vars, FirstDrain,
           NEW i \in inflight, i \in Stoppers, spc[i] = "joining"
    PROVE  FirstDrain'
<1>1. /\ ~cancelled /\ unfinished > 0 /\ spc \in [Stoppers -> StopStates]
      /\ \A s \in Stoppers : spc[s] # "woken"
  BY StillCounted DEF FirstDrain, IndInv, TypeOK
<1>2. CASE UNCHANGED <<spc, cancelled>>
  BY <1>2 DEF FirstDrain
<1>3. ASSUME NEW w \in Workers, FinishDispatch(w) PROVE FirstDrain'
  <2>1. /\ ~cancelled'
        /\ unfinished' = Decremented /\ spc' = Woken(spc, Decremented)
        /\ inflight \subseteq inflight'
    BY <1>3, LoopKeepsHandlers DEF FinishDispatch
  <2>2. unfinished' > 0
    BY <2>1, StillCountedNext
  <2> QED BY <1>1, <2>1, <2>2 DEF FirstDrain, Woken
<1>4. ASSUME NEW w \in Workers, CancelIdle(w) \/ CancelDispatch(w) PROVE FALSE
  BY <1>1, <1>4 DEF CancelIdle, CancelDispatch
<1>5. ASSUME NEW s \in Stoppers, StopCall(s) PROVE FirstDrain'
  BY <1>1, <1>5 DEF StopCall, FirstDrain
<1>6. ASSUME NEW s \in Stoppers, StopStep(s) PROVE FirstDrain'
  BY <1>1, <1>6 DEF StopStep, StopCancel, StopReturn, FirstDrain
<1> QED
  BY <1>2, <1>3, <1>4, <1>5, <1>6
  DEF Next, WorkerStep, WorkerBegin, GetWakes, HandlerEnd, HandlerReturn, HandlerRaise, Subscribe,
      Start, Publish, PublishNowait, PutterWakes, Accept, Refuse, vars

LEMMA CallStays ==
    ASSUME TypeOK, [Next]_vars, NEW i \in Stoppers, spc[i] # "idle" PROVE spc'[i] # "idle"
<1> USE DEF TypeOK
<1>1. ASSUME NEW w \in Workers, FinishDispatch(w) \/ CancelIdle(w) \/ CancelDispatch(w)
      PROVE  spc'[i] # "idle"
  BY <1>1 DEF FinishDispatch, CancelIdle, CancelDispatch, Woken
<1>2. ASSUME NEW s \in Stoppers, StopCall(s) \/ StopStep(s) PROVE spc'[i] # "idle"
  BY <1>2 DEF StopCall, StopStep, StopCancel, StopReturn
<1>3. CASE UNCHANGED spc
  BY <1>3
<1> QED
  BY <1>1, <1>2, <1>3
  DEF Next, WorkerStep, WorkerBegin, GetWakes, HandlerEnd, HandlerReturn, HandlerRaise, Subscribe,
      Start, Publish, PublishNowait, PutterWakes, Accept, Refuse, vars

LEMMA ShutdownStep ==
    ASSUME EngineCore, EngineCore', NoOrphans, NoOrphans', ShutdownHeld, [EngineNext]_allVars
    PROVE  /\ ShutdownHeld'
           /\ \A i \in ShutdownCalls :
                 ipc[i] = "bus" /\ FirstDrain => ipc'[i] = "bus" /\ FirstDrain'
<1>0. IndInv /\ IndInv' /\ [Next]_vars /\ EngineTypeOK
  BY EngineStepIsBusStep DEF EngineCore
<1> SUFFICES ASSUME NEW i \in ShutdownCalls
             PROVE  /\ ipc'[i] \notin PastBus /\ CallHeld(i)'
                    /\ ipc'[i] = "bus" => spc'[i] # "idle"
                    /\ ipc[i] = "bus" /\ FirstDrain => ipc'[i] = "bus" /\ FirstDrain'
  BY DEF ShutdownHeld, CallHeld, ShutdownCalls
<1>1. i \in Stoppers /\ i # External
  BY DEF ShutdownCalls
<1>2. CallHeld(i)'
  BY <1>0, CallHeldStep DEF ShutdownHeld, CallHeld
<1>3. ipc'[i] \notin PastBus
  BY <1>1, <1>2 DEF EngineCore, StopOrdered, CallHeld
<1>4. /\ ipc[i] = "bus" => ipc'[i] = "bus"
      /\ ipc'[i] = "bus" => ipc[i] = "bus" \/ StopBus(i)
  <2> DEFINE Goal == /\ ipc[i] = "bus" => ipc'[i] = "bus"
                     /\ ipc'[i] = "bus" => ipc[i] = "bus" \/ StopBus(i)
  <2> USE <1>0, <1>1 DEF EngineTypeOK
  <2>1. CASE StartStep \/ Signal \/ MainStop
    BY <2>1 DEF StartStep, Signal, MainStop, BeginStop, Pinged, RedisAnswers, Prefetched, Served, StartFails
  <2>2. ASSUME NEW j \in Invocations, OnShutdown(j) \/ OnListingEnds(j) \/ OnCritical(j) PROVE Goal
    <3>1. CASE OnShutdown(j)
      BY <3>1 DEF OnShutdown, BeginStop, ShutdownCalls
    <3> QED BY <2>2, <3>1 DEF OnListingEnds, OnCritical, HandlerEnd, engineVars
  <2>3. ASSUME NEW s \in Stoppers, StopStage(s) PROVE Goal
    <3>1. CASE StopNext(s)
      <4>1. PICK x \in {"ws", "cache", "rpc", "redis"} :
                   ipc[s] = x /\ ipc' = [ipc EXCEPT ![s] = After[x]]
        BY <3>1 DEF StopNext, At
      <4>2. After[x] \in {"cache", "rpc", "jito", "health"}
        BY DEF After
      <4>3. ipc[s] # "bus" /\ After[x] # "bus"
        BY <4>1, <4>2
      <4> QED BY <4>1, <4>3
    <3>2. CASE StopBus(s)
      BY <3>2 DEF StopBus, At
    <3>3. CASE StopRedis(s)
      <4>1. s # i
        BY <3>3, PastBusOnlyMain
      <4> QED BY <3>3, <4>1 DEF StopRedis, CloseRedis
    <3>4. CASE StopEnds(s)
      BY <3>4 DEF StopEnds, At
    <3>5. CASE StopBusWoken(s) \/ StopFails(s)
      BY <3>5 DEF StopBusWoken, StopFails, engineVars
    <3> QED BY <2>3, <3>1, <3>2, <3>3, <3>4, <3>5 DEF StopStage
  <2>4. ASSUME NEW x \in Components, Closed(x) PROVE Goal
    BY <2>4 DEF Closed
  <2>5. ASSUME NEW e \in Events,
               WsListing(e) \/ SystemEvent(e) \/ EventPut(e) \/ OnListingConfirmed(e)
        PROVE  Goal
    BY <2>5 DEF WsListing, SystemEvent, EventPut, OnListingConfirmed, engineVars
  <2>6. CASE UNCHANGED allVars \/ \E w \in Workers : Worker(w)
    BY <2>6 DEF allVars, engineVars, Worker
  <2> QED BY <2>1, <2>2, <2>3, <2>4, <2>5, <2>6 DEF EngineNext
<1>5. spc[i] # "idle" \/ StopBus(i) => spc'[i] # "idle"
  <2> USE <1>0, <1>1 DEF IndInv, TypeOK
  <2>1. CASE StopBus(i)
    BY <2>1 DEF StopBus, StopCall
  <2>2. CASE spc[i] # "idle"
    BY <2>2, CallStays
  <2> QED BY <2>1, <2>2
<1>6. ASSUME ipc[i] = "bus", FirstDrain PROVE FirstDrain'
  <2>1. i \in inflight /\ spc[i] = "joining"
    BY <1>6 DEF ShutdownHeld, FirstDrain
  <2> QED BY <1>0, <1>1, <1>6, <2>1, NobodyWoken
<1> QED BY <1>2, <1>3, <1>4, <1>5, <1>6 DEF ShutdownHeld

LEMMA OrphansAndShutdown ==
    ASSUME EngineCore, EngineCore', NoOrphans, ShutdownHeld, [EngineNext]_allVars
    PROVE  /\ NoOrphans' /\ ShutdownHeld'
           /\ \A i \in ShutdownCalls :
                 ipc[i] = "bus" /\ FirstDrain => ipc'[i] = "bus" /\ FirstDrain'
<1>1. NoOrphans'
  BY NoOrphansStep, EngineStepIsBusStep DEF EngineCore
<1> QED BY <1>1, ShutdownStep

(* The inductive invariant of the engine holds of every execution of       *)
(* start(), stop(), the handlers and amain().                              *)
THEOREM EngineInvariance == EngineSpec => []EngineInd
<1>1. EngineInit => NoOrphans /\ ShutdownHeld
  BY DEF EngineInit, Init, NoOrphans, ShutdownHeld, ShutdownCalls, PastBus
<1>2. EngineCore /\ EngineCore' /\ NoOrphans /\ ShutdownHeld /\ [EngineNext]_allVars
      => NoOrphans' /\ ShutdownHeld'
  BY OrphansAndShutdown
<1>3. EngineCore /\ NoOrphans /\ ShutdownHeld => EngineInd
  BY DEF EngineInd
<1> QED BY <1>1, <1>2, <1>3, CoreInvariance, PTL DEF EngineSpec

(* stop() called by the system.shutdown handler never returns: it waits in *)
(* join() for its own event until another stop() cancels it (engine.py     *)
(* lines 85-99, event_bus.py line 64).                                     *)
THEOREM ShutdownNeverReturns == EngineSpec => [](\A i \in ShutdownCalls : ipc[i] \notin PastBus)
<1>1. EngineInd => \A i \in ShutdownCalls : ipc[i] \notin PastBus
  BY DEF EngineInd, ShutdownHeld
<1> QED BY <1>1, EngineInvariance, PTL

(* Nor does any other: from the moment it waits there, amain()'s stop() is *)
(* not woken either, and the process does not end on a signal.             *)
THEOREM ShutdownHoldsAll == EngineSpec => ShutdownHangs
<1>1. EngineInd /\ EngineInd' /\ [EngineNext]_allVars
      => [\A i \in ShutdownCalls : ipc[i] = "bus" /\ FirstDrain
                                   => ipc'[i] = "bus" /\ FirstDrain']_allVars
  BY OrphansAndShutdown DEF EngineInd
<1> QED BY <1>1, EngineInvariance, PTL DEF EngineSpec, ShutdownHangs
=============================================================================
