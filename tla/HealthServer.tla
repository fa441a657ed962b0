---------------------------- MODULE HealthServer ----------------------------
(***************************************************************************)
(* monitoring/health.py over aiohttp: start() runs once; it is suspended   *)
(* before its port is bound, and again before its site knows the server.   *)
(* Calls of stop() come at any time, several at once.                      *)
(***************************************************************************)
CONSTANT HealthStops     \* calls of stop()

VARIABLES
    runner,      \* _runner: none, up, or cleaned
    site,        \* the site of the runner: none, registered, serving or gone
    start,       \* start(): new, binding, bound, done or raised
    listens,     \* the port is served
    taken,       \* another program has the port
    stops,       \* each stop(): idle, in cleanup() or done
    reply,      \* not in the code: the last answer, and whether a stop() had returned
    overtaken    \* not in the code: a stop() began before start() was done

healthVars == <<runner, site, start, listens, taken, stops, reply, overtaken>>

NoAnswer == [status |-> 0, late |-> FALSE]

HealthInit ==
    /\ runner = "none" /\ site = "none" /\ start = "new"
    /\ listens = FALSE /\ taken \in BOOLEAN
    /\ stops = [s \in HealthStops |-> "idle"]
    /\ reply = NoAnswer /\ overtaken = FALSE

(* Nobody writes to the dictionary.                                        *)
status == [c \in {"rpc", "websocket", "jito", "redis", "wallet"} |-> FALSE]
healthy == \A c \in DOMAIN status : status[c]

Stopped == \E s \in HealthStops : stops[s] = "done"

HealthStarts ==
    /\ start = "new" /\ start' = "binding"
    /\ runner' = "up" /\ site' = "registered"
    /\ UNCHANGED <<listens, taken, stops, reply, overtaken>>

Binds ==
    /\ start = "binding" /\ start' = IF taken THEN "raised" ELSE "bound"
    /\ listens' = ~taken
    /\ UNCHANGED <<runner, site, taken, stops, reply, overtaken>>

(* A site that has been stopped before it knew its server keeps it open.   *)
HealthStarted ==
    /\ start = "bound" /\ start' = "done"
    /\ site' = IF site = "registered" THEN "serving" ELSE site
    /\ UNCHANGED <<runner, listens, taken, stops, reply, overtaken>>

Overtakes == overtaken' = (overtaken \/ start # "done")

(* Mutant: the application is shut down, and its site left as it is.       *)
HealthStopShutdown(s) ==
    /\ stops[s] = "idle"
    /\ stops' = [stops EXCEPT ![s] = IF runner = "none" THEN "done" ELSE "cleanup"]
    /\ Overtakes
    /\ UNCHANGED <<runner, site, start, listens, taken, reply>>

(* cleanup() stops the site, and then waits for its connections.           *)
HealthStop(s) ==
    /\ stops[s] = "idle" /\ Overtakes
    /\ IF runner = "none"
       THEN stops' = [stops EXCEPT ![s] = "done"] /\ UNCHANGED <<site, listens>>
       ELSE /\ stops' = [stops EXCEPT ![s] = "cleanup"]
            /\ site' = "gone"
            /\ listens' = (listens /\ site # "serving")
    /\ UNCHANGED <<runner, start, taken, reply>>

HealthStopped(s) ==
    /\ stops[s] = "cleanup" /\ stops' = [stops EXCEPT ![s] = "done"]
    /\ runner' = "cleaned"
    /\ UNCHANGED <<site, start, listens, taken, reply, overtaken>>

_handle ==
    /\ listens /\ reply' = [status |-> IF healthy THEN 200 ELSE 503, late |-> Stopped]
    /\ UNCHANGED <<runner, site, start, listens, taken, stops, overtaken>>

HealthNext ==
    \/ HealthStarts \/ Binds \/ HealthStarted \/ _handle
    \/ \E s \in HealthStops : HealthStop(s) \/ HealthStopped(s)

HealthSpec == HealthInit /\ [][HealthNext]_healthVars

-----------------------------------------------------------------------------
(* Properties *)

(* A stop() that comes when start() is done frees the port before it       *)
(* returns, whichever other stop() runs with it.  One that comes earlier   *)
(* may not: the server that start() goes on to bind is closed by nobody,   *)
(* and answers requests after stop() (health.py lines 15-27).  Whenever it *)
(* answers, it says that the bot is not healthy (lines 12 and 29-31).      *)
PortFreed ==
    /\ Stopped /\ ~overtaken => ~listens
    /\ reply.late => overtaken
    /\ reply.status # 200
=============================================================================
