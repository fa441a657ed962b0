--------------------------- MODULE BlockhashCache ---------------------------
(***************************************************************************)
(* infrastructure/rpc/blockhash_cache.py over the RPC pool it fetches      *)
(* from: hashes are kept in memory and in Redis under one key.             *)
(*                                                                         *)
(* Keeper is the task that runs start() and then the refresh loop; other   *)
(* tasks call latest() or invalidate_from_slot().  A blockhash is the slot *)
(* of its block.  Endpoints follow the chain each at its own pace.         *)
(***************************************************************************)
EXTENDS RpcPool, Sequences

CONSTANTS Keeper,
          MaxLen,     \* of the deque: 100 in the code
          MaxSlot,    \* bound on the chain of a run
          NoHash

ASSUME CacheAssumption ==
    Keeper \in Calls /\ MaxLen \in Nat \ {0} /\ MaxSlot \in Nat /\ NoHash \notin Nat

VARIABLES
    hashes,   \* the deque _hashes
    redis,    \* the key blockhash:latest
    view,     \* the newest block of each endpoint
    bpc,      \* the await each task is suspended at
    val,      \* the hash its request was answered with
    mode      \* how far start() and stop() are

cacheVars == <<hashes, redis, view, bpc, val, mode>>
bhVars == <<poolVars, cacheVars>>

Slots == 0..MaxSlot

(* The types of the variables, and that a task waits for the pool exactly  *)
(* while the pool has a call of its.                                       *)
CacheTypeOK ==
    /\ hashes \in Seq(Slots) /\ Len(hashes) <= MaxLen
    /\ redis \in Slots \cup {NoHash}
    /\ view \in [Endpoints -> Slots]
    /\ bpc \in [Calls -> {"idle", "get", "rpc", "set"}]
    /\ val \in [Calls -> Slots \cup {NoHash}]
    /\ mode \in {"starting", "looping", "stopping", "stopped", "crashed"}
    /\ \A t \in Calls : bpc[t] = "rpc" <=> cpc[t] # "idle"

(* The pool has been started; Redis may hold a hash of an earlier run.     *)
CacheInit ==
    /\ PoolInit
    /\ hashes = <<>> /\ redis \in {NoHash, 0}
    /\ view \in [Endpoints -> Slots \cap {0, 1}]
    /\ bpc = [t \in Calls |-> "idle"]
    /\ val = [t \in Calls |-> NoHash]
    /\ mode = "starting"

-----------------------------------------------------------------------------

Newest == hashes[Len(hashes)]
At(t, pc) == bpc' = [bpc EXCEPT ![t] = pc]
Alone == UNCHANGED poolVars

Kept(h) == IF Len(hashes) < MaxLen THEN Append(hashes, h) ELSE Append(Tail(hashes), h)

(* When Keeper may refresh: first in start(), then after each sleep.       *)
MayRefresh(t) == t = Keeper => mode \in {"starting", "looping"}

(* Mutant: the refresh loop ends with the first exception.                 *)
RaisesFatally(t) ==
    /\ At(t, "idle")
    /\ mode' = IF t = Keeper THEN "crashed" ELSE mode

(* start() passes an exception on to the engine, which ends; the refresh   *)
(* loop logs it; the other tasks are given it.                             *)
Raises(t) ==
    /\ At(t, "idle")
    /\ mode' = IF t = Keeper /\ mode = "starting" THEN "crashed" ELSE mode

(* refresh() up to its first await, or to the exception of a pool without  *)
(* a healthy endpoint or with a closed client.                             *)
Request(t) ==
    \/ Send(t) /\ At(t, "rpc") /\ UNCHANGED mode
    \/ SendClosed(t) /\ Raises(t)
    \/ Healthy = {} /\ Alone /\ Raises(t)

Refresh(t) ==
    /\ bpc[t] = "idle" /\ MayRefresh(t) /\ Request(t)
    /\ UNCHANGED <<hashes, redis, view, val>>

Served(t) ==
    /\ Answered(t)
    /\ val' = [val EXCEPT ![t] = IF cpc'[t] = "ok" THEN view[cto[t]] ELSE NoHash]
    /\ UNCHANGED <<hashes, redis, view, bpc, mode>>

Fetched(t) ==
    /\ cpc[t] = "ok" /\ Returns(t)
    /\ hashes' = Kept(val[t])
    /\ At(t, "set")
    /\ UNCHANGED <<redis, view, val, mode>>

FetchFails(t) ==
    /\ cpc[t] \in {"error", "garbled", "failed"} /\ Returns(t)
    /\ Raises(t)
    /\ UNCHANGED <<hashes, redis, view, val>>

(* RedisCache.set() writes the key, RedisCache.get() finds nothing there.  *)
Written(t) == redis' = val[t]
Missing == redis = NoHash

(* start() goes on to create the loop; the loop sleeps.                    *)
Stored(t) ==
    /\ bpc[t] = "set" /\ At(t, "idle")
    /\ Written(t)
    /\ val' = [val EXCEPT ![t] = NoHash]
    /\ mode' = IF t = Keeper /\ mode = "starting" THEN "looping" ELSE mode
    /\ Alone /\ UNCHANGED <<hashes, view>>

(* A write that fails may have reached Redis.                              *)
StoreFails(t) ==
    /\ bpc[t] = "set" /\ Raises(t)
    /\ UNCHANGED redis \/ Written(t)
    /\ val' = [val EXCEPT ![t] = NoHash]
    /\ Alone /\ UNCHANGED <<hashes, view>>

(* latest() suspends only when the memory is empty.                        *)
Latest(t) ==
    /\ t # Keeper /\ bpc[t] = "idle" /\ hashes = <<>>
    /\ At(t, "get")
    /\ Alone /\ UNCHANGED <<hashes, redis, view, val, mode>>

(* The shared hash is returned, or Redis's error raised.                   *)
LatestReturns(t) ==
    /\ bpc[t] = "get" /\ At(t, "idle")
    /\ Alone /\ UNCHANGED <<hashes, redis, view, val, mode>>

LatestMiss(t) ==
    /\ bpc[t] = "get" /\ Missing /\ Request(t)
    /\ UNCHANGED <<hashes, redis, view, val>>

(* stop() cancels the loop wherever it is: asleep, in call() or in set().  *)
CacheStop ==
    /\ mode = "looping" /\ mode' = "stopping"
    /\ Alone /\ UNCHANGED <<hashes, redis, view, bpc, val>>

(* Mutant: stop() leaves the call of a refresh in flight.                  *)
CacheStoppedLeaking ==
    /\ mode = "stopping" /\ mode' = "stopped"
    /\ At(Keeper, "idle")
    /\ val' = [val EXCEPT ![Keeper] = NoHash]
    /\ Alone /\ UNCHANGED <<hashes, redis, view>>

CacheStopped ==
    /\ mode = "stopping" /\ mode' = "stopped"
    /\ At(Keeper, "idle")
    /\ val' = [val EXCEPT ![Keeper] = NoHash]
    /\ \/ Cancelled(Keeper) /\ UNCHANGED redis
       \/ /\ cpc[Keeper] = "idle" /\ Alone
          /\ redis' \in {redis} \cup (IF bpc[Keeper] = "set" THEN {val[Keeper]} ELSE {})
    /\ UNCHANGED <<hashes, view>>

-----------------------------------------------------------------------------
(* The surroundings: Redis's expiry, the chain, and the pool's own steps   *)

Expires ==
    /\ redis # NoHash /\ redis' = NoHash
    /\ Alone /\ UNCHANGED <<hashes, view, bpc, val, mode>>

Advances(e) ==
    /\ view[e] < MaxSlot /\ view' = [view EXCEPT ![e] = @ + 1]
    /\ Alone /\ UNCHANGED <<hashes, redis, bpc, val, mode>>

(* The engine stops the pool when the cache is down.                       *)
PoolSteps ==
    /\ \/ HealthStep \/ \E e \in Endpoints : CheckAnswered(e)
       \/ \E e \in Endpoints, s \in Servers : ServerBecomes(e, s)
       \/ mode = "stopped" /\ (PoolStop \/ PoolClose)
    /\ UNCHANGED cacheVars

(* The steps of a task that waits for nothing but an answer.               *)
Resumes(t) ==
    /\ t = Keeper => mode \in {"starting", "looping"}
    /\ \/ Fetched(t) \/ FetchFails(t) \/ Stored(t) \/ StoreFails(t)
       \/ LatestReturns(t) \/ LatestMiss(t)

CacheNext ==
    /\ mode # "crashed"
    /\ \/ \E t \in Calls : Refresh(t) \/ Served(t) \/ Resumes(t) \/ Latest(t)
       \/ CacheStop \/ CacheStopped
       \/ Expires \/ \E e \in Endpoints : Advances(e)
       \/ PoolSteps

CacheSpec == CacheInit /\ [][CacheNext]_bhVars

(* As for the pool; the loop's sleep ends.                                 *)
Running(A) == mode # "crashed" /\ A
CacheFairness ==
    /\ WF_bhVars(Running(Refresh(Keeper))) /\ WF_bhVars(Running(CacheStopped))
    /\ \A t \in Calls : WF_bhVars(Running(Served(t))) /\ WF_bhVars(Running(Resumes(t)))
    /\ \A e \in Endpoints :
          /\ WF_bhVars(Running(CheckAnswered(e) /\ UNCHANGED cacheVars))
          /\ WF_bhVars(Running(CheckReturns(e) /\ UNCHANGED cacheVars))
    /\ WF_bhVars(Running(RoundBegins /\ UNCHANGED cacheVars))
    /\ WF_bhVars(Running(RoundEnds /\ UNCHANGED cacheVars))

CacheFairSpec == CacheSpec /\ CacheFairness

-----------------------------------------------------------------------------
(* Properties *)

(* The pool inside the cache is the pool of its specification.             *)
PoolRefined == PoolSpec

(* "Return the freshest cached blockhash" (line 42): latest() returns the  *)
(* last element, which is to be the newest one of the deque.               *)
Freshest ==
    hashes # <<>> => \A i \in DOMAIN hashes : hashes[i] <= Newest

(* The inductive invariant: a task that has been answered with a hash, or  *)
(* is writing one, has it at hand.                                         *)
CacheInd ==
    /\ CacheTypeOK /\ PoolInd
    /\ \A t \in Calls : cpc[t] = "ok" \/ bpc[t] = "set" => val[t] \in Slots

(* "Keeps the latest Solana blockhashes warm" (line 18): once the servers  *)
(* have settled and one of them answers, latest() ends up with the newest  *)
(* hash of a server that does, whatever failed after start() and before.   *)
CatchesUp ==
    (/\ <>(mode = "looping") /\ [](mode \notin {"stopping", "stopped"})
     /\ \A e \in Endpoints : <>[](server[e] = "up") \/ <>[](server[e] = "down")
     /\ \E e \in Endpoints : <>[](server[e] = "up"))
    => <>[](hashes # <<>> /\ \E e \in Endpoints : server[e] = "up" /\ Newest = view[e])
=============================================================================
