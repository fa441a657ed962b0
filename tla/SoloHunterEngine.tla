-------------------------- MODULE SoloHunterEngine --------------------------
(***************************************************************************)
(* core/engine.py and main.py over the event bus: ordered start-up, the    *)
(* three handlers the engine subscribes, and stop(), which amain() calls   *)
(* on a signal and the system.shutdown handler calls inside a bus worker.  *)
(*                                                                         *)
(* Every step of the engine is one step of the bus or leaves it alone, so  *)
(* EngineSpec implements the bus's Spec (property BusSpec).  External is   *)
(* amain() as a caller of stop(), and whoever publishes from outside.      *)
(***************************************************************************)
EXTENDS EventBus

CONSTANTS Listing, Shutdown, Critical, Confirmed,     \* the topics
          onListing, onShutdown, onCritical           \* the registrations

ASSUME EngineAssumption ==
    /\ Topics = {Listing, Shutdown, Critical, Confirmed}
    /\ Regs = {onListing, onShutdown, onCritical}
    /\ PatternOf = [r \in Regs |-> CASE r = onListing -> {Listing}
                                     [] r = onShutdown -> {Shutdown}
                                     [] r = onCritical -> {Critical}]
    /\ \A e \in Events :
          IF TopicOf[e] = Confirmed
          THEN \E f \in Events : TopicOf[f] = Listing /\ SourceOf[e] = <<f, onListing>>
          ELSE SourceOf[e] = External
    /\ \A e, f \in Events :
          TopicOf[e] = Confirmed /\ TopicOf[f] = Confirmed /\ SourceOf[e] = SourceOf[f] => e = f
    /\ Listing \notin {Shutdown, Critical, Confirmed} /\ Shutdown \notin {Critical, Confirmed}
    /\ Critical # Confirmed
    /\ onListing \notin {onShutdown, onCritical} /\ onShutdown # onCritical
    /\ Stoppers = {External} \cup {<<e, onShutdown>> : e \in {f \in Events : TopicOf[f] = Shutdown}}

VARIABLES
    state,      \* EngineState
    accepting,  \* _accepting_opportunities
    comp,       \* what start() opens and stop() closes
    mpc,        \* where amain() is suspended
    ipc,        \* the await each call of engine.stop() is suspended at
    signalled   \* stop_event

engineVars == <<state, accepting, comp, mpc, ipc, signalled>>
allVars == <<vars, engineVars>>

Components == {"redis", "rpc", "cache", "ws", "jito", "health"}
Topic(t) == {e \in Events : TopicOf[e] = t}
ShutdownCalls == Stoppers \ {External}

(* Mutant: the RPC pool is closed before the blockhash loop that uses it.  *)
AfterSwapped == [ws |-> "rpc", rpc |-> "cache", cache |-> "jito", redis |-> "health"]

(* What stop() awaits next; the steps to and from the bus are its own.     *)
After == [ws |-> "cache", cache |-> "rpc", rpc |-> "jito", redis |-> "health"]

EngineStates == {"INITIALIZING", "WARMING_UP", "ACTIVE", "DEGRADED", "SHUTDOWN"}

EngineTypeOK ==
    /\ state \in EngineStates
    /\ accepting \in BOOLEAN /\ signalled \in BOOLEAN
    /\ comp \in [Components -> {"none", "up", "closing", "down"}]
    /\ mpc \in {"ping", "prefetch", "serve", "wait", "stop", "exited", "crashed"}
    /\ ipc \in [Stoppers -> {"idle", "ws", "cache", "rpc", "jito", "bus", "redis",
                             "health", "done"}]

(* start() is awaiting its first answer, Redis's to the ping.              *)
EngineInit ==
    /\ Init
    /\ state = "INITIALIZING" /\ accepting = TRUE /\ signalled = FALSE
    /\ comp = [x \in Components |-> IF x = "redis" THEN "up" ELSE "none"]
    /\ mpc = "ping"
    /\ ipc = [s \in Stoppers |-> "idle"]

-----------------------------------------------------------------------------
(* Start-up *)

Opened(X) == [x \in Components |-> IF x \in X THEN "up" ELSE comp[x]]
Alone == UNCHANGED vars

(* RedisCache.ping() has come back, which is all that start() asks of it.  *)
RedisAnswers == mpc = "ping" /\ mpc' = "prefetch"
Pinged ==
    /\ RedisAnswers
    /\ comp' = Opened({"rpc", "cache"})
    /\ Alone /\ UNCHANGED <<state, accepting, ipc, signalled>>

Prefetched ==
    /\ mpc = "prefetch" /\ mpc' = "serve"
    /\ comp' = Opened({"jito", "ws"})
    /\ Start(Regs)
    /\ state' = "WARMING_UP"
    /\ UNCHANGED <<accepting, ipc, signalled>>

Served ==
    /\ mpc = "serve" /\ mpc' = "wait"
    /\ comp' = Opened({"health"})
    /\ state' = "ACTIVE"
    /\ Alone /\ UNCHANGED <<accepting, ipc, signalled>>

(* Redis or the RPC endpoints do not answer, or the health port is taken.  *)
StartFails ==
    /\ mpc \in {"ping", "prefetch", "serve"} /\ mpc' = "crashed"
    /\ Alone /\ UNCHANGED <<state, accepting, comp, ipc, signalled>>

Signal ==
    /\ ~signalled /\ signalled' = TRUE
    /\ Alone /\ UNCHANGED <<state, accepting, comp, mpc, ipc>>

-----------------------------------------------------------------------------
(* stop() *)

Closing(x) == [comp EXCEPT ![x] = IF @ = "up" THEN "closing" ELSE @]

BeginStop(s) ==
    /\ ipc[s] = "idle" /\ Alive(s)
    /\ ipc' = [ipc EXCEPT ![s] = "ws"]
    /\ state' = "SHUTDOWN" /\ accepting' = FALSE
    /\ comp' = Closing("ws")
    /\ Alone /\ UNCHANGED signalled

(* Mutant: the signal runs stop() without waiting for start().             *)
MainStopEarly ==
    mpc \in {"serve", "wait"} /\ signalled /\ BeginStop(External) /\ UNCHANGED mpc
MainStop == mpc = "wait" /\ signalled /\ BeginStop(External) /\ mpc' = "stop"
OnShutdown(i) == i \in ShutdownCalls /\ BeginStop(i) /\ UNCHANGED mpc

(* The tasks or connections of a component that stop() is awaiting end.    *)
Closed(x) ==
    /\ comp[x] = "closing"
    /\ comp' = [comp EXCEPT ![x] = "down"]
    /\ Alone /\ UNCHANGED <<state, accepting, mpc, ipc, signalled>>

At(s, x) == ipc[s] = x /\ Alive(s) /\ (x # "bus" => comp[x] \in {"none", "down"})

StopNext(s) ==
    /\ \E x \in {"ws", "cache", "rpc", "redis"} :
          /\ At(s, x)
          /\ ipc' = [ipc EXCEPT ![s] = After[x]]
          /\ comp' = Closing(After[x])
    /\ Alone /\ UNCHANGED <<state, accepting, mpc, signalled>>

StopBus(s) ==
    /\ At(s, "jito") /\ StopCall(s)
    /\ ipc' = [ipc EXCEPT ![s] = "bus"]
    /\ UNCHANGED <<state, accepting, comp, mpc, signalled>>

StopBusWoken(s) == StopCancel(s) /\ UNCHANGED engineVars

(* RedisCache.close() is called, and its connections are being closed.     *)
CloseRedis == comp' = Closing("redis")

(* Mutant: the bus is stopped by a task that stop() does not await.        *)
StopRedisUnawaited(s) ==
    /\ ipc[s] = "bus" /\ Alive(s)
    /\ ipc' = [ipc EXCEPT ![s] = "redis"]
    /\ CloseRedis
    /\ Alone /\ UNCHANGED <<state, accepting, mpc, signalled>>

StopRedis(s) ==
    /\ At(s, "bus") /\ StopReturn(s)
    /\ ipc' = [ipc EXCEPT ![s] = "redis"]
    /\ CloseRedis
    /\ UNCHANGED <<state, accepting, mpc, signalled>>

(* The caller returns: the process ends, or the handler does.              *)
StopEnds(s) ==
    /\ At(s, "health")
    /\ ipc' = [ipc EXCEPT ![s] = "done"]
    /\ \/ s = External /\ mpc' = "exited" /\ Alone
       \/ s # External /\ UNCHANGED mpc /\ HandlerReturn(s)
    /\ UNCHANGED <<state, accepting, comp, signalled>>

(* A client's close raises, and what comes after it is left as it is.      *)
StopFails(s) ==
    /\ ipc[s] \in {"rpc", "jito", "redis", "health"} /\ Alive(s)
    /\ \/ s = External /\ mpc' = "crashed" /\ Alone
       \/ s # External /\ UNCHANGED mpc /\ HandlerRaise(s)
    /\ UNCHANGED <<state, accepting, comp, ipc, signalled>>

-----------------------------------------------------------------------------
(* The websocket, other publishers, and the handlers *)

(* Mutant: the websocket publishes listings with publish().                *)
WsListingAwaits(e) ==
    /\ e \in Topic(Listing) /\ comp["ws"] = "up"
    /\ Publish(e) /\ UNCHANGED engineVars

WsListing(e) ==
    /\ e \in Topic(Listing) /\ comp["ws"] = "up"
    /\ PublishNowait(e) /\ UNCHANGED engineVars

SystemEvent(e) ==
    /\ e \in Topic(Shutdown) \cup Topic(Critical)
    /\ Publish(e) \/ PublishNowait(e)
    /\ UNCHANGED engineVars

EventPut(e) == PutterWakes(e) /\ UNCHANGED engineVars

(* Evaluation does not suspend; publish() suspends when the queue is full. *)
OnListingConfirmed(e) ==
    /\ e \in Topic(Confirmed) /\ accepting
    /\ Publish(e) /\ UNCHANGED engineVars

OnListingEnds(i) ==
    /\ i[2] = onListing
    /\ \/ HandlerReturn(i)
       \/ /\ accepting /\ \A e \in Events : SourceOf[e] = i => status[e] = "new"
          /\ HandlerRaise(i)
    /\ UNCHANGED engineVars

(* The log call raises when a key of the payload is one of its parameters. *)
OnCritical(i) ==
    /\ i[2] = onCritical /\ HandlerEnd(i)
    /\ state' = "DEGRADED"
    /\ UNCHANGED <<accepting, comp, mpc, ipc, signalled>>

Worker(w) == WorkerStep(w) /\ UNCHANGED engineVars

-----------------------------------------------------------------------------

StartStep == Pinged \/ Prefetched \/ Served \/ StartFails
StopStage(s) ==
    \/ StopNext(s) \/ StopBus(s) \/ StopBusWoken(s) \/ StopRedis(s) \/ StopEnds(s)
    \/ StopFails(s)

(* asyncio.run() ends every task with amain(), and main() the process.     *)
InProcess == mpc \notin {"exited", "crashed"}

EngineNext ==
    /\ InProcess
    /\ \/ StartStep \/ Signal \/ MainStop
       \/ \E s \in Stoppers : StopStage(s)
       \/ \E i \in Invocations : OnShutdown(i) \/ OnListingEnds(i) \/ OnCritical(i)
       \/ \E x \in Components : Closed(x)
       \/ \E e \in Events : WsListing(e) \/ SystemEvent(e) \/ EventPut(e) \/ OnListingConfirmed(e)
       \/ \E w \in Workers : Worker(w)

EngineSpec == EngineInit /\ [][EngineNext]_allVars

(* The loop resumes what can run, started calls are answered and closing   *)
(* connections end; signals, messages and failures need never come.        *)
Live(A) == InProcess /\ A
EngineFairness ==
    /\ WF_allVars(Live(Pinged \/ Prefetched \/ Served)) /\ WF_allVars(Live(MainStop))
    /\ \A s \in Stoppers : WF_allVars(Live(StopStage(s)))
    /\ \A i \in Invocations : WF_allVars(Live(OnShutdown(i) \/ OnListingEnds(i) \/ OnCritical(i)))
    /\ \A x \in Components : WF_allVars(Live(Closed(x)))
    /\ \A e \in Events : WF_allVars(Live(EventPut(e)))
    /\ \A w \in Workers : WF_allVars(Live(Worker(w)))

EngineFairSpec == EngineSpec /\ EngineFairness

-----------------------------------------------------------------------------
(* Properties *)

(* The engine uses the bus as its specification allows: what is proved of  *)
(* the bus holds of the bus inside the engine.                             *)
BusSpec == Spec

(* "Ordered dependency initialization" (README.md:12): the blockhash loop  *)
(* never runs without its RPC pool and Redis, and a live websocket never   *)
(* feeds a bus that does not run, in whatever order two stop()s interleave *)
DependencyOrder ==
    /\ comp["cache"] \in {"up", "closing"} => comp["rpc"] = "up" /\ comp["redis"] = "up"
    /\ comp["ws"] = "up" => running
    /\ comp["redis"] \in {"closing", "down"} => \A w \in Workers : wpc[w] = "exited"

(* A process that exits through stop() has handled every listing the       *)
(* websocket got accepted and every opportunity confirmed from one.        *)
CleanExit ==
    mpc = "exited" => \A e \in Topic(Listing) \cup Topic(Confirmed) :
                          status[e] \in {"new", "dropped", "done"}

(* Nothing is stopped, handled or dispatched before start() gets that far. *)
StartOrdered ==
    /\ comp["redis"] # "none"
    /\ comp["cache"] # "none" => comp["rpc"] # "none"
    /\ mpc \in {"prefetch", "serve", "wait", "stop"} => comp["cache"] # "none"
    /\ mpc \in {"serve", "wait", "stop"} => comp["ws"] # "none"
    /\ mpc \in {"ping", "prefetch"} =>
          /\ inflight = {} /\ ~cancelled
          /\ \A w \in Workers : wpc[w] = "new"
          /\ \A s \in Stoppers : ipc[s] = "idle"
          /\ \A x \in Components : comp[x] \in {"none", "up"}
          /\ comp["ws"] = "none"
    /\ mpc = "ping" => comp["cache"] = "none"

(* A call of stop() has passed only what is down, and what is being closed *)
(* has a call of stop() that has got that far.                             *)
PastWs == {"cache", "rpc", "jito", "bus", "redis", "health", "done"}
PastCache == PastWs \ {"cache"}
PastBus == {"redis", "health", "done"}
StopOrdered ==
    /\ \A s \in Stoppers :
          /\ ipc[s] # "idle" => comp["ws"] \in {"closing", "down"} /\ comp["cache"] # "none"
          /\ ipc[s] \in PastWs => comp["ws"] = "down"
          /\ ipc[s] \in PastCache => comp["cache"] = "down"
          /\ spc[s] # "idle" => ipc[s] \in PastBus \cup {"bus"}
          /\ ipc[s] \in PastBus => spc[s] = "done"
          /\ spc[s] \in {"gathering", "done"} => cancelled
    /\ cancelled => comp["ws"] = "down"
    /\ comp["ws"] = "up" => running
    /\ comp["rpc"] \in {"closing", "down"} => comp["cache"] = "down"
    /\ comp["redis"] \in {"closing", "down"} =>
          comp["cache"] = "down" /\ \A w \in Workers : wpc[w] = "exited"
    /\ mpc = "exited" => ipc[External] = "done"

(* Who handles what: a listing that raised has no handler left, a confirmed *)
(* opportunity that waits for a slot has its handler waiting for it.       *)
HandlersInOrder ==
    /\ \A i \in inflight : TopicOf[i[1]] \in PatternOf[i[2]]
    /\ \A i \in inflight : i[2] = onListing => i[1] \notin raised
    /\ \A e \in raised : status[e] \in {"taken", "done"}
    /\ \A e \in Events : status[e] = "aborted" => cancelled
    /\ \A e \in Topic(Listing) : status[e] # "blocked"
    /\ \A e \in Topic(Confirmed) : status[e] = "blocked" => SourceOf[e] \in inflight

(* Once a first stop() has seen the queue empty, listings are over.        *)
ListingsOver ==
    ~FirstDrain => /\ \A e \in Topic(Listing) \cup Topic(Confirmed) :
                          status[e] \in {"new", "dropped", "done"}
                   /\ \A i \in inflight : i[2] # onListing

(* The order of things in the engine, on top of the invariant of the bus.  *)
EngineCore ==
    EngineTypeOK /\ IndInv /\ StartOrdered /\ StopOrdered /\ HandlersInOrder /\ ListingsOver

(* No handler of the engine has a sibling: one that runs has not raised.   *)
NoOrphans == \A i \in inflight : i[1] \notin raised

(* stop() called by the system.shutdown handler never gets past the bus:   *)
(* its own event is being handled, so the count that join() waits for is   *)
(* not zero before the workers are cancelled, and the handler with them.   *)
ShutdownHeld ==
    \A i \in ShutdownCalls :
        /\ ipc[i] \notin PastBus
        /\ spc[i] \in {"idle", "joining", "woken", "aborted"}
        /\ spc[i] \in {"joining", "woken"} => i \in inflight
        /\ spc[i] \in {"woken", "aborted"} => cancelled
        /\ ipc[i] = "bus" => spc[i] # "idle"

(* The inductive invariant of the engine.                                  *)
EngineInd == EngineCore /\ NoOrphans /\ ShutdownHeld

(* The engine reports ACTIVE again after stop() has begun only if that     *)
(* stop() came from a system.shutdown handler during health.start().       *)
ActiveAfterStop ==
    state = "ACTIVE" /\ ~accepting => /\ ipc[External] = "idle"
                                      /\ \E i \in ShutdownCalls : ipc[i] # "idle"

(* An error.critical that is handled while stop() runs sets DEGRADED over  *)
(* SHUTDOWN (engine.py line 118).  That ends with the bus: once a stop()   *)
(* goes on to Redis no task is left that sets the state, and what is       *)
(* reported stays until the process ends.                                  *)
ReportSettles == [][comp["redis"] \in {"closing", "down"} => state' = state]_allVars

(* A stop() of the system.shutdown handler that has reached the bus holds  *)
(* every other there: from then on none is woken from join(), amain()'s    *)
(* neither, unless one had been woken before (event_bus.py line 64).       *)
ShutdownHangs ==
    [][\A i \in ShutdownCalls :
         ipc[i] = "bus" /\ FirstDrain => ipc'[i] = "bus" /\ FirstDrain']_allVars

(* amain()'s stop() ends the process when the waiting workers can cover    *)
(* the backlog and no system.shutdown handler is in stop() as well.        *)
MainStopEnds ==
    (/\ spc[External] = "joining" /\ Covered
     /\ \A e \in Topic(Shutdown) : status[e] \in {"dropped", "done"})
        ~> mpc \in {"exited", "crashed"}

(* "Gracefully stop accepting opportunities, close positions, and cleanup  *)
(* connections" (line 87): a stop() that the system.shutdown handler has   *)
(* brought as far as the bus goes on to close Redis and the health server. *)
ShutdownEventStops ==
    \A i \in ShutdownCalls : ipc[i] = "bus" ~> (ipc[i] = "done" \/ mpc \in {"exited", "crashed"})
=============================================================================
