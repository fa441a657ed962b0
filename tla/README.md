# Verification of Solo-Hunter Ultra in TLA+

The modules in this directory model `src/solo-hunter-ultra`: its concurrent core (the event
bus, the engine that starts and stops everything, the RPC pool, the blockhash cache, the
websocket manager, the threads of the Rust pipeline) and the tools around it (strategy, circuit
breaker, confirmations, transaction drafts, retried sends, wallet, trading rules, orders, database,
health server, the Rust state cache). TLC checks them on small instances, and TLAPS
proves the safety results for every value of the constants. Paths below are relative to
`src/solo-hunter-ultra`.

The repository holds two programs. The Python one (`main.py`, `core/`, `infrastructure/`,
`strategy/` and others) is a single asyncio process. The Rust one (`rust/crates/`) is a pipeline of
threads. Some forty Python files exist twice, byte for byte (`core/engine.py` and `engine.py`,
`infrastructure/websocket/manager.py` and `core/manager.py`); the modules refer to the copies
that `core/engine.py` imports.

## 1. Inventory

### The Python process

| component | state | operations | what makes it correct |
|---|---|---|---|
| event bus, `core/event_bus.py` | handlers by topic, a bounded `asyncio.Queue` and its count of unfinished tasks, worker tasks, `_running` | `subscribe`, `publish` (waits for a slot), `publish_nowait` (drops), `start`, `stop` (drain, cancel), the worker loop | an accepted event is handled once, to its end; `stop()` loses nothing it owes; the count is exact |
| engine, `core/engine.py`, `main.py` | `EngineState`, `_accepting_opportunities`, its components | `start`, `stop`, handlers of `token.listing.new`, `system.shutdown`, `error.critical`; signals | components close before what they use; a clean exit loses no listing; every `stop()` that can end does |
| RPC pool, `infrastructure/rpc/connection_pool.py` | `healthy`, `failures`, `latency_ms` of each endpoint, `_rr_index`, the health task | `call`, health rounds, `start`, `stop` | dead endpoints leave the rotation, working ones do not, recovered ones return |
| blockhash cache, `infrastructure/rpc/blockhash_cache.py` | a deque of hashes, one Redis key, the refresh task | `start`, `stop`, `latest`, `refresh`, `invalidate_from_slot` | it catches up with the chain whatever fails; `latest()` gives the freshest hash |
| websocket manager, `infrastructure/websocket/manager.py` | a task for each endpoint, its attempt, `connected` | `start`, `stop`, `_run_endpoint` | it connects again and again while the endpoint serves |
| log parsing, `infrastructure/websocket/handlers.py` | none | `parse_program_log` | what it makes of a log is judged by the layers like any payload |
| strategy, `strategy/`, `intelligence/` | a five-second feature cache, the loaded model | the four layers, `extract`, `predict`, `reload`, `evaluate` | the first layer that rejects decides; a score belongs to a listing of the mint that has passed |
| circuit breaker, `core/lifecycle.py` | a failure count, an opening time | `allow_request`, `is_open`, `record_success`, `record_failure` | nothing is sent within the recovery time of the last failure; the engine makes three and asks none |
| execution tools, `execution/` | confirmations, accounts of pools, orders, the day's loss | `wait`, `mark_confirmed`, `build_swap`, `run`, `create`, `transition`, the fail-safes | no confirmation is lost, no transaction sent twice, the loss of a day bounded; only the fail-safes are used, by `stop()` |
| Jito client and tips, `infrastructure/jito/` | an HTTP client | `submit_bundle`, `calculate_tip_lamports`, `close` | a bundle is sent once |
| exit, sizing and timing rules, `strategy/execution/` | none | `should_exit`, `size_position`, `urgency_ms` | the reserve for fees is never invested |
| wallet, `wallet/` | an encrypted file, a rotation, nonces | `store`, `load`, `next_wallet`, `get_nonce`, `set_nonce` | what was stored whole is what is loaded; no nonce is used up twice |
| database, `database/` | an SQLite file | `init_db`, `insert_trade` | the rows are what the callers were told |
| Redis cache, `infrastructure/redis/cache.py` | a client | `get`, `set`, `ping`, `close` | it hands every call on; the engine and the blockhash cache say what they need of it |
| health server, `monitoring/health.py` | an aiohttp runner, a status nobody writes | `start`, `stop`, `_handle` | the port is free after `stop()` |
| metrics, alerts, shims | counters | logging | I/O |

Everything in the process interacts by calls and by events on the bus. `WebSocketManager` publishes
`token.listing.new` with `publish_nowait`. The bus's workers run `_on_listing`, which evaluates the
listing without suspending and may await `publish("opportunity.confirmed")`; to that topic the
engine subscribes nobody. `system.shutdown` and `error.critical` have handlers and no
publisher in the repository, so the model lets anyone outside publish them. asyncio switches tasks only
at an `await`, and the hard behaviours are what can happen there:

* a bounded queue whose consumers are also its producers (a handler that publishes);
* `stop()` called from inside a handler, or twice at once, while events keep coming;
* handlers that raise, siblings that go on running, cancellation of a worker at any await;
* late answers of RPC calls that overtake health checks, and refreshes answered out of order;
* a reconnect loop whose counter is never reset.

### The Rust pipeline, `rust/crates/`

| component | state | operations | what makes it correct |
|---|---|---|---|
| `hunterd` | three threads in a row and the two bounded channels between them | starts the stages and parks | what is submitted was received, once and in order; a stage that ends takes the ones behind it along, and only after its backlog |
| `sh_sniffer` | fragments by slot and index | receives shreds by UDP, joins those of a slot, `try_send` | a signal is made of one slot; a listing gives no more signals than its arrivals explain |
| `filter_stack` | none of its own | judges signals, `try_send` of opportunities | what it lets through some listing of the mint has earned |
| `intelligence` | the feature cache, by mint, five seconds | get or compute, predict | as above |
| `execution` | none of its own | builds, signs, submits, prints | each opportunity it takes is submitted once |
| `state_cache` | a map under a lock | `get_hot`, `insert_hot`, sweep | the sweep removes only what has expired; nobody inserts |
| `tx_builder` | templates, blockhash cell (hash and slot) | `store`, `load`, `build_swap` | every DEX the sniffer detects has a template |
| `rpc_pool`, `wallet`, `metrics` | counters | stubs | none |

The threads share nothing but the channels. What is hard is that each of them drops what the next one
has no room for, that UDP delivers shreds in any order, not at all or twice, and that a thread can end while
the process goes on.

`PROJECT.json` lists every component with its status, and the hazards with their lines.

## 2. The modules

```
 EventDelivery                      (what the bus promises)
      ^ refinement
  EventBus  <--- EXTENDS --- SoloHunterEngine       RpcPool <--- EXTENDS --- BlockhashCache
                (every engine step is a bus step)          (every cache step is a pool step)
  WebSocketManager                             Hunterd  --- refinement --->  LossyPipe

  Strategy  CircuitBreaker  Confirmation  AccountCache  Sends  StateCache  KeyStore  Desk
  Orders  Ledger  HealthServer                      <--- EXTENDS --- MCTools, ToolsProofs

  DataInduction  <--- EXTENDS --- HunterdProofs, ToolsProofs   (induction, sums)
```

The engine composes with the bus, and the cache with the pool, by conjunction: an action of the
larger module is an action of the smaller one, or leaves its variables alone, together with what
it does of its own. `EngineImplementsBus` and `CacheUsesPool` prove that of every step.
The eleven tools share no state with each other or the engine, and stand beside it.

**EventBus** (`core/event_bus.py`). An action is what one task executes from the await that
resumes it to the await that suspends it. `wpc` is where a worker is suspended (`ready`: created and not yet
scheduled, `get`, `dispatch`: in `gather`, `exited`), `held` the local variable `event`, which survives the
iteration and therefore decides, through `'event' in locals()`, whether a worker that is cancelled in `get()` counts an
event a second time (`CancelIdle`). `spc` is where each call of `stop()` is. `inflight` holds the
handlers that run, as pairs of an event and a registration; `raised` the events of which one raised, since
`gather` then returns while the siblings go on (`FinishDispatch`, `Doomed`). `Start` covers
`subscribe` calls in the same step as the engine makes them. Every event is published at most once, by the task
that `SourceOf` names. Abstracted: payloads, identifiers and times; which of several waiting tasks wakes
up first (any may, where asyncio has an order); and an event with no handler, whose dispatch is here over when its worker's
next step comes. Restarting a bus after `stop()` and `stop()` before
`start()` are outside the model: the engine does neither.

**EventDelivery** is the promise: an event is refused, kept waiting or accepted; an accepted one
starts at most once; what is outstanding when a first `stop()` is called is finished before the bus closes, and only a
closed bus loses events. `EventBus!DeliverySpec` is its refinement, with the mapping
`EventStage`, `BusPhase`, `Promised`. "First" matters: calls of `stop()` made after the first
drain was complete owe nothing, because the first call may cancel the workers at any time.

**SoloHunterEngine** (`core/engine.py`, `main.py`). `mpc` is where `amain()` is, `ipc` the await
each call of `engine.stop()` is at, `comp` whether each component is up, closing or down. `stop()` does not
share progress between its calls: each closes what is still up and otherwise waits for it. Every client's `close`
may raise (`StopFails`), and so may each step of `start()` (`StartFails`). The awaits of the prefetch (the RPC request and the
Redis write) are one. The strategy is free to confirm or not, which includes
more than the rules accept: the websocket's own payloads lack fields the tokenomics layer needs, while other
publishers, such as `tests/test_integration.py`, supply them. `_on_critical` may raise after it has set DEGRADED, when a key of
the payload is also a parameter of the log call. `RedisAnswers` and `CloseRedis` are what the engine does with `infrastructure/redis/cache.py`.

**RpcPool** (`infrastructure/rpc/connection_pool.py`). A request is answered when the server
decides (`Answered`, `CheckAnswered`) and applied when its task resumes (`Returns`,
`CheckReturns`); everything may happen in between. Servers answer, err (HTTP 200
with an error or with something that is not JSON) or are down. `failures` stops at the limit of three, with which alone it
is compared, and `_rr_index` is kept modulo 2. Latencies are not modelled: among endpoints of one priority
any order is possible. `start()` is the initial state. That a call fails only because its server does is an assumption about the environment: httpx also
raises, as a failure of the endpoint, when its own connection limit leaves a request waiting too long (`PoolTimeout`), and that is not modelled.

**BlockhashCache** (`infrastructure/rpc/blockhash_cache.py`). `Keeper` is the task that runs
`start()` and then the refresh loop; other tasks call `latest()` and `invalidate_from_slot()` (no
code of the repository does). A blockhash is the slot of its block and each endpoint has its own view of the
chain. Of the Redis client it uses `set` (`Written`) and `get` (`Missing`); a write that fails may have taken effect. The engine stops the pool only when the cache is down,
and so does the model (`PoolSteps`).

**WebSocketManager** (`infrastructure/websocket/manager.py`). One task for each endpoint: `connecting`,
`open`, `sleeping` or ended. A close in good order goes straight to the next attempt; the
exceptions of line 56 sleep first; anything else ends the task (`Dies`): a handshake answered with an
HTTP error (`InvalidStatusCode` of websockets 12 is no `OSError`), or a notification without
the lists the parser expects. `attempt` counts the attempts of the whole life: it is the variable of one `for`, which a connection that worked does not
reset. The task that has used them up returns, and nobody starts it again.

**Hunterd** (`rust/crates`: `hunterd`, `sh_sniffer`, `filter_stack`, `intelligence`, `execution`).
Three threads; a step is what a thread does between two operations on a channel, since nothing else is shared.
A packet is a shred; it belongs to a slot, has an index and perhaps the flag of the last shred, and may carry tags (`MintAt`, `PoolAt`, `LiqAt`) and
program ids (`DexesAt`). `Receive` is `recv_from()`, the prefilter, `parse_packet()` and `try_send()` together: a packet that names no program
(`mentions_supported_program`) is left aside, also when it is the last of its slot. `partial` is the assembler's map, and `Extract` is
`extract_signals_from_entry` on the joined bytes: each tag is sought by itself (`Read`), found in the first fragment that has one and replaced by its default
when none does, and the DEX is the one `detect_dex` tests first among all ids in them. A mint of one listing can so meet the
liquidity of another. What a tag reads depends on the fragment that follows the one it begins in (`After`), because bytes of both may make up a tag, a value or an id;
it does not depend on the one after that, since each fragment holds a whole program id. A signal is the four things read, with the packet its mint tag came from; its slot,
time and signature are not told apart. `FilterJudges` is `evaluate()`: mint and pool have the shape of a key or not, the liquidity gives enough confidence or not, and
`features` decides by mint until it expires. The state cache is filled by no code, so its lookup always misses. `ExecutionPanics` is
`println!()` on a closed standard output. Capacities are at least one (the environment could ask for zero, a channel without a buffer).

**LossyPipe** is what the three stages are together: a pipe that may lose what is in it, and delivers the rest once
and in order. `Hunterd` implements it with `executing \o opps \o judging \o signals` as the pipe.

### The tools

None of these is called by another, and only the strategy, the health server and
`emergency_close_all()` by the engine; their callers are left as free as the operations allow, and what a caller must do that the
repository does not is named in the module's head.

**Strategy** (`strategy/`, `intelligence/feature_engine.py`, `intelligence/predictor.py`, `infrastructure/websocket/handlers.py`). `evaluate()` never suspends and is one
step; between two of them features expire and models are reloaded. A listing is a dict in which any field may be
missing. The fallback score is computed in millionths; a model's score is any. `Evaluate` records what was
scored by what, which `CandidatesEarned` reads.

**CircuitBreaker** (`core/lifecycle.py`) has several requests under way at once, so that answers to what was sent before the breaker opened come in after it.
**Confirmation** (`execution/confirmation.py`): a waiter that is woken and one whose time is over at once may go either
way; it may be cancelled and ask again. **AccountCache** (`execution/transaction_builder.py`, `execution/priority_fees.py`): the
`OrderedDict` is a sequence. `recent` remembers every pool in the order of its last use, and `entered` the token each came into the cache with; a pool
that is found keeps its accounts, so that a draft of another token in it gets the earlier token's. **Sends** (`execution/retry_engine.py`, `infrastructure/jito/`) puts `run()` around the two operations that send, with what
httpx and the servers may do to each, and the engine closing the clients at any point.

**KeyStore** (`wallet/key_manager.py`, and the environment substitution of `core/engine.py`): `write_text()` is an opening that empties the file and a writing;
processes may die between or in the second, and two may write over each other. **Ledger** (`database/`): a
connection for each call, SQLite's one writer, `execute()` and `commit()` as two steps. **HealthServer**: `start()` has two awaits, and aiohttp's site learns of its server only after the
second; `stop()` may come in between.

**Orders** (`execution/order_manager.py`, `wallet/multi_wallet.py`, `wallet/nonce_manager.py`) joins the three by a trader the
repository does not have: it takes the next wallet and its nonce for an order and stores the nonce the chain went on
to. `history` is all orders made. **Desk** (`execution/fail_safes.py`, `strategy/execution/`) has a trader that asks the rules before it acts. **StateCache** (`rust/crates/state_cache`) has the sweep's
two locks as two steps, and any caller inserting.

In each module definitions whose comment begins with "Mutant" are variants of the definition after them with a
plausible bug. No specification uses them: they serve to confirm that the properties can fail.

The `MC*` modules give the constants values; they add no behaviour.

## 3. The runs

| run | instance | shows |
|---|---|---|
| `bus_safety` | 2 workers, queue of 1, 4 events of which 2 are published by handlers, an exact and a wildcard registration, `stop()` from outside and from a handler; symmetric workers | exact count, drain before cancel, no double handling, only siblings of a raising handler outlive `stop()`, a bus that hangs does so for good, refinement of `EventDelivery` |
| `bus_liveness` | 2 workers, queue of 1, 5 events of which handlers publish some, an exact registration, one `stop()`, fair | accepted events are handled while nobody stops the bus and its workers are not all held in `publish()` on the full queue (which happens here); `stop()` returns when the workers in `get()` cover the backlog |
| `bus_stop_hangs` | as before | violation: `stop()` may never return |
| `bus_publish_blocks` | 2 workers, 5 events, nobody stops | violation: `publish()` in handlers may wait for ever |
| `engine_lifecycle` | a listing, the opportunity its handler may confirm, a shutdown and a critical event; 2 workers, queue of 1, fair | dependency order, clean exit, when ACTIVE may follow SHUTDOWN, what is reported settles once Redis closes, a handler's `stop()` gets no further than the bus and holds every other there, the inductive invariant, `amain()`'s stop ends |
| `engine_shutdown_event` | a shutdown and a critical event, fair | violation: the handler's `stop()` never gets past the bus |
| `pool` | 2 endpoints of priorities 1 and 2, 1 call at a time, servers that change at will, fair | no false alarm, a dead endpoint is left alone for good, a recovered one is used again |
| `blockhash` | 1 endpoint, the loop and a caller, `MaxLen` 1, `MaxSlot` 1, fair | the invariant (the pool's inside it), also while `stop()` cancels the loop at each of its awaits; the cache catches up with the chain |
| `blockhash_stale` | 2 endpoints, the loop alone, `MaxLen` 2, `MaxSlot` 1 | violation: `latest()` may give an older hash than the deque holds |
| `websocket` | 2 endpoints, 3 attempts, servers that change at will, fair | an endpoint that keeps serving is connected to again and again, unless its attempts run out or its task dies |
| `hunterd` | 4 shreds in 2 slots, one of which names no program, each up to twice, channels of 1 and 2, fair | at most two bundles for an arrival, tags and DEX read from one slot, every bundle vouched for, stages end drained and one after the other, refinement of `LossyPipe` |
| `tools` | the eleven tools, one of which moves in each behaviour | one property of each, below |

In `tools` the initial state chooses a `part`; the other ten stay in their initial states, so that
the state spaces add up instead of multiplying (some 195,000 states, a quarter of a minute). That is sound
because no two of them share a variable. Its properties:

| property | tool | says |
|---|---|---|
| `ConfirmedRight` (`CandidatesEarned`, `LogsNeverConfirm`) | Strategy | a candidate has passed the layers itself, and was scored by a listing of its mint that had too, within the time to live, with the model the path names unless that one failed to load; nothing that comes from the websocket's parser is ever confirmed |
| `BreakerBlocks` | CircuitBreaker | after a threshold of failures without a success nothing is sent within the recovery time of the last |
| `ConfirmationsKept` | Confirmation | a confirmation that loses its race with a timeout is kept for the next wait; none is invented or slept through |
| `LruExact` | AccountCache | the cache holds the pools used last, in the order of use; the accounts of each, and of the draft, are the pool and the token it last came in with; a fee is never below its base |
| `SentOnce` | Sends | nothing that was accepted is sent again; "failed after retries" means just that |
| `FreshKept` | StateCache | a fresh entry is found, unless it was put in an expired one's place between the sweep's locks |
| `WalletKept` | KeyStore | a store that ran alone to its end is what is loaded, under keys with the same 32 bytes; one that is cut short loses the wallet before it |
| `LossBounded` | Desk | the loss of a day exceeds its limit by no more than what was invested at the last opening |
| `NoncesApart` | Orders | orders share a nonce only when the wallet's turn came round before the first was confirmed; no nonce is confirmed twice; signatures stay with their orders |
| `LedgerExact` | Ledger | a row for each insert that returned, none for one that raised, at most one for one cut short |
| `PortFreed` | HealthServer | `stop()` frees the port unless it has overtaken `start()`; no answer ever says healthy |

Runs whose cfg says `CHECK_DEADLOCK FALSE` model systems that end: a stopped bus, a process that
exits, a closed pool or manager.

### Why the bounds are enough

Bounds are given by the constants, never by a state constraint. Two workers are what it takes for one to wait while another dispatches, and for both
to be held at once; a queue of one is full with one event, so that every publisher meets both cases; four events let both workers dispatch, the queue
be full and a publisher wait, and the five of `bus_liveness` let both workers' handlers wait behind a full queue. Two callers of `stop()` are what the
first and a later call need, one of them inside a handler. In the pool two endpoints make the round robin alternate, and one call in flight is enough
for an answer from before a check to be applied after it, as the next calls are made by the same task; with more calls the proofs take over.
`MaxAttempts` 3 distinguishes the first, an inner and the last attempt. `MaxLen` 1 makes the deque drop with every append, `MaxLen` 2 keeps two hashes
to compare. `MaxSlot` bounds the chain, and the loop must catch up with its last block. In `hunterd` slot 1 has two fragments: the first has no
liquidity tag, so that a join gives its mint the liquidity of the other, and a program id is cut by the boundary between them. The last shred of slot
2 names no program, so that the slot is never joined. One mint has a rich and a poor listing, so that the cache matters; a pool that is no key is
rejected; two copies of each packet repeat a fragment before and after its slot is joined; a channel of one is full with one signal, and the one of
two keeps an order. Symmetry is used in `bus_safety` only: its properties are safety properties and nothing distinguishes the workers.

In `tools` each bound is the least that shows the case. Listings: one good enough, one that passes the layers but not the score, one a dollar short,
one of another mint, others that fail one layer each, and logs that name no pool, no mint or two programs; a model of each kind of file; `FeatureTtl`
1 tells fresh, last second and expired apart. Three requests against a threshold of two let a late failure come in after the opening. Three tasks wait
for two signatures, each again and again. Three pools overflow a cache of two, two tokens of one pool show that its accounts stay those it came with.
`MaxRetries` 2 has a first, an inner and the last attempt, a bundle and a call are both retried; the tip meets its cap. Of three processes two have
different keys with the same 32 bytes and one has none; a short and a long wallet leave a rest behind when written over each other. Three positions
against a limit of two make the count matter, gains of -100, 150 and 300 percent cross the stop, the trailing activation and its distance, and the
loss of 30 can be passed by one position (at most 5 percent of 1000). Four orders over two wallets bring each turn round twice, and two ids are used
again. Four inserts, one of them invalid, race two calls of `init_db()`. Two calls of `stop()` run beside one `start()`.

### The violations

Each is what a docstring says against what the code does; `PROJECT.json` quotes both.

1. `core/event_bus.py:63`: `stop()` clears `_running` before it awaits `queue.join()`. A worker tests
   the flag after each event and leaves, so the first events drain and the rest of the backlog has no worker.
2. `core/event_bus.py:45`: handlers that publish to a full queue wait for a worker to
   take from it, and every worker waits for such a handler.
3. `core/engine.py:115`: the `system.shutdown` handler awaits `stop()`, which waits in
   `queue.join()` for the very event that is being handled.
4. `infrastructure/rpc/blockhash_cache.py:56`: `call()` alternates between the two best endpoints, so an endpoint
   that lags a block behind overwrites the newer hash.

### Fairness, and why the code justifies it

Weak fairness of a task's own steps: the asyncio loop runs every task that is ready. It is stated for each worker, waiting
publisher, handler and call of `stop()`, never for publishing, calling `stop()`, raising, failing or
signalling. Handlers that wait on nothing of the bus are assumed to end, and so are close operations of the engine's components.
Requests of the pool are answered or time out (httpx has a timeout), the health loop's and the cache's sleeps end. Attempts
to connect have an outcome; an open connection may stay open for ever. `RecoveredIsUsed`, `DeadIsLeft` and `CatchesUp`
assume in their premises that servers settle, never in the fairness. The filter and execution threads of `hunterd` run while
they can, as the operating system schedules every thread; no packet need arrive and the sniffer need not end.

## 4. What is proved

`tlapm` checks every leaf; no module has an unproved statement. The assumptions are those the modules name: the
queue has a size of at least one (a `maxsize` of 0 would make it unbounded), workers and endpoints are finite sets, `None` and
`External` are nothing else, and in the engine each event has the topic, publisher and registration the code gives it.

**EventBusProofs**: `Invariance`, and from it `TypeCorrect`, `CountIsExact`, `StopDrains` and
`ExclusiveHandling`, for any number of workers, events, handlers and calls of `stop()`. The count alone is not inductive: it
decreases by one when a worker finishes, so no two workers may hold the same event (`HandledByOneWorker`), which needs that the
queue holds an event once and exactly those not taken (`QueueHoldsQueued`). That the drain is complete follows from the exact
count at the moment `join()` is woken: zero means an empty queue and nobody dispatching, so nothing is
outstanding. For the later steps `JoiningOwes` is needed: before a first drain a call in `join()` has something to wait for, after it
a call owes nothing. After the cancellation a worker may count an event twice, so that the exact count becomes a bound: it is
never above backlog and dispatched events together. The part of `ExclusiveHandling` about handlers that outlive `stop()` (`OrphansOnlyAfterRaise`) needs `HandlersOfTaken`: a handler runs while its event is dispatched, or its
event has a handler that raised.

`BusDelivers` is the refinement, step by step: each action of the bus maps to an action of `EventDelivery` or to a stutter, under
`IndInv`. `HungForGood` is the action property behind violations 1 and 2. A bus is `Hung` when nobody has been woken from `join()`, the count is
above zero and no worker will do anything more: each has left its loop, or gathers only handlers that wait for room in a full queue or in `stop()`. A
handler that waits executes nothing (`WaitingNotFree`), so no worker finishes, so nothing leaves the queue and the count only grows: whatever is
still published, subscribed or stopped, what was accepted is never finished and no `stop()` goes on.

**EngineProofs**: `EngineImplementsBus` shows that each engine action is a bus action, so the bus's invariant holds of
the bus inside the engine (`EngineDrains`). On top of it `CoreInvariance` adds four parts: `StartOrdered`, `StopOrdered`
(a call of `stop()` has passed only what is down, however many calls interleave), `HandlersInOrder` and `ListingsOver` (once a first
drain is complete no listing is outstanding, because the websocket was down before the drain began and no listing handler can
confirm any more). `ComponentsInOrder` and `ExitsClean` follow. `ActiveOnlyByHandler` shows `ActiveAfterStop` from an invariant of its own, `StopsReported`: `amain()` has not called `stop()` while
`start()` runs or the state is ACTIVE, and whenever opportunities are no longer accepted somebody has called it.
`ReportStays` shows `ReportSettles`: a handler of the engine has no sibling that could raise (`NoOrphans`), so that it is cancelled with its worker, a `stop()` inside one never gets past
the bus, and when Redis is closed no handler runs and `amain()` waits for its own call (`Reported`).
`EngineInvariance` adds `NoOrphans` and `ShutdownHeld` to the invariant; from it `ShutdownNeverReturns` and `ShutdownHoldsAll` say for every instance what violation 3 shows of one: a `stop()` inside the `system.shutdown` handler never gets past the
bus, since the event of a handler that runs is counted until the workers are cancelled (`StillCounted`), and then the handler is with them; and while it waits, `amain()`'s
`stop()` is not woken either. A worker cancelled in `get()` may bring the count to zero by counting twice, so that the handler's call can be woken, but only when it is already
cancelled (`ShutdownHeld`).

**RpcPoolProofs**: `PoolInvariance` and `NoFalseAlarms`. What makes `NoFalseAlarm` inductive is that an
answer in flight is tied to the server's past: a check or call that failed was sent to a server that has been down, or to a closed client.

**BlockhashCacheProofs**: `CacheUsesPool`, `CacheInvariance`, and `OneEndpointFreshest`: with one endpoint and no caller besides
the loop, what `Freshest` says does hold, and Redis never holds a newer hash than memory. It needs that the deque is in order and that no hash
on its way is older than the newest one kept. The run `blockhash_stale` shows that a second endpoint is enough to lose it.

**WebSocketProofs**: `TypeCorrect` from `ManagerInvariance`: a task that waits is within its attempts.

**HunterdProofs**: `PipelineInvariance`, and from it `TypeCorrect`, `SlotsApart`, `NothingUnearned` and `StagesDrain`, for any
packets, slots, listings and capacities of at least one. Neither `OfOneSlot` nor `VouchedFor` is inductive: a signal is explained by packets that have arrived only
if the fragments it is joined from have arrived and name a program (`FragmentsArrived`), and an opportunity by a good listing only if every good score in the
cache is (`FeaturesVouched`). `ArrivalsBoundBundles` shows `TwiceAtMost` from `SignalsPaidFor`: the signals of a listing in the channels and threads, with the fragment
that is kept as one more, never exceed what its arrivals have paid for, and joining a slot spends the fragments it joins. `ExtractedSignal` shows that what is extracted from fragments exists: there is a least index (`LeastIndex`) among those that carry a tag, and a
DEX that ranks first among the programs they name (`FragmentsMention`). `OnlyLosses` is the refinement of `LossyPipe`: each step of a thread appends to the pipe, moves something
inside it, loses a part or delivers its head.

**ToolsProofs**: the eleven tools, each for any number of tasks, processes, pools, keys, wallets, positions, rows and seconds.

* `OpensOnTime` and `BlocksWhileFailing`: the breaker's time is the time since the last failure exactly when the threshold is reached. The
  second is an action property and follows from the first by the guard of `Allowed`.
* `ConfirmationsReach` needs `WaitersKnown`: who still waits, waits for an Event that is not set.
* `SendsOnce` needs `SendsTyped`: only what was answered, or answered with an error, goes to sleep, and that was not accepted.
* `FreshEntriesFound` needs `EntriesDated`: what the sweep collected is old, or was made anew since.
* `StoreIsLoaded` needs `StoresKnown`: a store that began alone and met no other has the file to itself, empty or whole.
* `CandidatesAreEarned` from `StrategyInd`: cached features had passed the layers (`FeaturesPassed`), and the loaded model is the one
  the path names or one that a failed load left (`ModelKnown`). That no log is confirmed follows from it, since no parsed log passes the layers (`LogsFail`), and is independent of
  the model and of what else is published.
* `LedgerIsExact` from `LedgerInd`: a call has a row of its own only after its commit, and the ids are the places.
* `PortIsFreed` from `HealthInd`: while no `stop()` has overtaken `start()`, the site knows its server when `start()` is done.
* `NoncesStayApart` from `OrdersInd`: turns follow the list (`TurnsTaken`), no order is ahead of its wallet and a confirmed one is behind it
  (`NoncesBehind`), and only an id's latest order can be under way (`IdsNameLatest`). That turns of one wallet are whole rounds apart is `WholeRounds`.
* `LossIsBounded` from `CapitalKept`: what is invested, what is not and the gains of the day always make up the capital, so that what a position may lose
  is what it cost. The sum over the positions changes by what the one position that moves does (`SumChange`).
* `CacheIsLru`: the cache is the end of the sequence of all pools ordered by their last use, of the cache's length (`Newest`). Moving a pool that is found to the end takes one
  from that rest and puts it back (`FoundMoves`), a pool that comes in pushes the oldest out (`MissingComesIn`). A pool is found exactly if it is among the newest (`NewestCached`), which
  ties the accounts in each entry to the token it last came in with (`entered`).

**DataInduction** holds what `HunterdProofs` and `ToolsProofs` share: the least natural number of a set, from which induction over the naturals and over the subsets of a
finite set follows when it is stated of a set of values and not of an operator (`NatSetInduction`, `SubsetInduction`); and that
`SumFunctionOnSet` over a finite set exists, is an integer, and changes by the difference when one summand does (`SumsExist`, `SumIsOne`, `SumType`, `SumChange`).

### Only model-checked

Liveness under fairness is beyond the prover: `DeliveredUnlessStalled`, `StopReturnsWhenCovered`, `MainStopEnds`,
`DeadIsLeft`, `RecoveredIsUsed`, `CatchesUp`, `RetriesFailures`, `StagesEnd`, and the four violations. Every other property of a passing run is stated by a theorem. What the
safety half of a liveness argument gives is proved where it says something by itself (`HangsForGood`, `ShutdownHangs`).

Some promises are weaker than one would wish, since the code keeps no stronger one. `StopReturnsWhenCovered` and `MainStopEnds` have
`Covered` as a premise, because without it `stop()` may hang (violation 1). `ActiveAfterStop` allows the one case in which
the engine reports ACTIVE after SHUTDOWN: a `system.shutdown` event handled while `start()` awaits the health server. `RetriesFailures` names two
ways in which an endpoint that serves is left: its attempts are used up, of which each
connection that worked costs one (the docstring's "Auto-reconnecting" says nothing of that), or its task died of an exception the code does not name. `DeliveredUnlessStalled` excludes a bus whose
workers are all held by violation 2.
`CatchesUp` assumes that `start()` got as far as the loop, as its first refresh may fail the engine.

### What the models show of the code, besides

These are no violations, since no document of the repository says otherwise; the properties above are worded around them.

* What the websocket's parser makes of a log has no supply and a liquidity of zero, so that the layers reject every one of them (`LogsNeverConfirm`):
  on its own the Python program confirms nothing.
* The websocket's attempts are never reset: an endpoint that serves all the time is given up after `max_attempts` connections, however good each was (`infrastructure/websocket/manager.py:45`).
* An `error.critical` that is handled late leaves DEGRADED over SHUTDOWN; `start()` sets ACTIVE over it in one case.
* `reload()` of a missing file keeps the old model under the new path; a model whose warm-up raises is already in place.
* `submit_bundle()` answers "{}" for a bundle that was refused (`RunReturns`). A closed client's `RuntimeError` is retried, httpx's own errors are not.
* The accounts cached for a pool keep the token it came in with, also in drafts of another token (`LruExact`).
* A signal may take its mint from one listing and its liquidity from another of the slot, so that a bundle may be submitted for a mint none of whose own listings was rich (`VouchedFor`).
* `emergency_close_all()` clears the count and sells nothing. The exit plan's levels for taking profit are read by nobody.
* `write_text()` empties the wallet's file before the new text is in it. A variable that is not set leaves its placeholder in the settings, which is then the key.
* `get_nonce()` hands out the same nonce until another is stored.
* `/health` answers 503 for ever, as no code writes its status. A `stop()` that overtakes `start()` leaves the port served.
* `insert_trade()` fills four columns; prices, profit and signature stay NULL, and the other two tables have no writer.

## 5. What is not modelled, and why

* Metrics, alerts and logging, and the modules that stand in for `numpy`, `structlog` and `prometheus_client`: output and imports, on which no behaviour depends.
* `blockchain/solana_client.py`, `intelligence/wallet_profiler.py`: a call of the pool and a constant, without a caller. `database/cache_layer.py` is a skeleton.
* `hunterd`'s configuration and start, its blockhash refresh thread (the slot it stores is read by nobody, the hash is a constant of the stub) and its counters;
  `tx_builder` (a template for each DEX the sniffer detects, so that it cannot fail), `rpc_pool`, `wallet` and `metrics` of the Rust program (stubs that answer constants and count).
* Models: any score is possible. Floating point is modelled by integers, so that rounding is not.
* AES-GCM, msgpack, Redis's insides, SQLite's file format, aiohttp's and httpx's insides: by what they do to their callers.
* The connection limit of httpx and the latencies of the pool: they change which endpoint of equal priority comes first, and when.
* The close positions part of `stop()`: the code has none.
* The second copies of some forty Python files, which the engine does not import.

## 6. Plan

Done, in this order: bus, delivery promise, engine; pool and cache over it; websocket manager; the Rust pipeline over its lossy
pipe; the tools around the engine; the theorems above.

What could still be added: the safety half of more liveness properties (that what a `stop()` covers stays covered, that an endpoint given up stays so); what
`Freshest` still guarantees with several endpoints; and the tools inside the engine, once the program calls them.
