------------------------ MODULE BlockhashCacheProofs ------------------------
(***************************************************************************)
(* The blockhash cache uses the pool as the pool's specification allows,   *)
(* so the pool's invariant is a part of the cache's; and with one endpoint *)
(* and the refresh loop alone latest() gives the freshest hash.            *)
(***************************************************************************)
EXTENDS BlockhashCache, RpcPoolProofs

(* Every step of the cache is a step of the pool or leaves it alone.       *)
LEMMA CacheStepsPool == CacheNext => [PoolNext]_poolVars
  <1> SUFFICES ASSUME CacheNext PROVE [PoolNext]_poolVars
    OBVIOUS
  <1>1. ASSUME NEW t \in Calls, Request(t) PROVE [PoolNext]_poolVars
    BY <1>1 DEF Request, Alone, PoolNext
  <1>2. ASSUME NEW t \in Calls, Refresh(t) \/ Served(t) \/ Resumes(t) \/ Latest(t)
        PROVE  [PoolNext]_poolVars
    <2>1. CASE Refresh(t) \/ LatestMiss(t)
      BY <1>1, <2>1 DEF Refresh, LatestMiss
    <2>2. CASE Served(t) \/ Fetched(t) \/ FetchFails(t)
      BY <2>2 DEF Served, Fetched, FetchFails, PoolNext
    <2>3. CASE Stored(t) \/ StoreFails(t) \/ LatestReturns(t) \/ Latest(t)
      BY <2>3 DEF Stored, StoreFails, Written, LatestReturns, Latest, Alone
    <2> QED
      BY <1>2, <2>1, <2>2, <2>3 DEF Resumes
  <1>3. CASE CacheStop \/ CacheStopped
    BY <1>3, CacheAssumption DEF CacheStop, CacheStopped, Alone, PoolNext
  <1>4. CASE Expires \/ \E e \in Endpoints : Advances(e)
    BY <1>4 DEF Expires, Advances, Alone
  <1>5. CASE PoolSteps
    BY <1>5 DEF PoolSteps, PoolNext
  <1> QED
    BY <1>2, <1>3, <1>4, <1>5 DEF CacheNext

(* The pool inside the cache is the pool of its specification.             *)
THEOREM CacheUsesPool == CacheSpec => PoolRefined
  <1>1. CacheInit => PoolInit
    BY DEF CacheInit
  <1>2. [CacheNext]_bhVars => [PoolNext]_poolVars
    BY CacheStepsPool DEF bhVars, poolVars
  <1> QED
    BY <1>1, <1>2, PTL DEF CacheSpec, PoolSpec, PoolRefined

-----------------------------------------------------------------------------
(* The deque *)

(* Appending to a deque keeps the order of what it keeps, and the new hash *)
(* comes last.                                                             *)
LEMMA KeptEffect ==
    ASSUME hashes \in Seq(Slots), Len(hashes) <= MaxLen, NEW h \in Slots
    PROVE  /\ Kept(h) \in Seq(Slots) /\ Len(Kept(h)) <= MaxLen
           /\ Kept(h) # <<>> /\ Kept(h)[Len(Kept(h))] = h
           /\ \A i, j \in DOMAIN Kept(h) : i <= j /\ j < Len(Kept(h)) =>
                 \E k, l \in DOMAIN hashes : k <= l /\ Kept(h)[i] = hashes[k]
                                                    /\ Kept(h)[j] = hashes[l]
  <1>0. MaxLen \in Nat /\ MaxLen > 0
    BY CacheAssumption
  <1>1. CASE Len(hashes) < MaxLen
    <2>1. /\ Kept(h) = Append(hashes, h)
          /\ Len(Kept(h)) = Len(hashes) + 1
          /\ \A i \in 1..Len(hashes) : Kept(h)[i] = hashes[i]
          /\ Kept(h)[Len(hashes) + 1] = h
      BY <1>0, <1>1 DEF Kept
    <2>2. \A i, j \in DOMAIN Kept(h) : i <= j /\ j < Len(Kept(h)) =>
             i \in DOMAIN hashes /\ j \in DOMAIN hashes
      BY <1>0, <2>1
    <2> QED
      BY <1>0, <1>1, <2>1, <2>2
  <1>2. CASE Len(hashes) = MaxLen
    <2>1. /\ Kept(h) = Append(Tail(hashes), h)
          /\ Tail(hashes) \in Seq(Slots) /\ Len(Tail(hashes)) = Len(hashes) - 1
          /\ \A i \in 1..(Len(hashes) - 1) : Tail(hashes)[i] = hashes[i + 1]
      BY <1>0, <1>2 DEF Kept
    <2>2. /\ Kept(h) \in Seq(Slots) /\ Len(Kept(h)) = Len(hashes)
          /\ \A i \in 1..(Len(hashes) - 1) : Kept(h)[i] = hashes[i + 1]
          /\ Kept(h)[Len(hashes)] = h
      BY <1>0, <1>2, <2>1
    <2>3. \A i, j \in DOMAIN Kept(h) : i <= j /\ j < Len(Kept(h)) =>
             /\ i + 1 \in DOMAIN hashes /\ j + 1 \in DOMAIN hashes /\ i + 1 <= j + 1
             /\ Kept(h)[i] = hashes[i + 1] /\ Kept(h)[j] = hashes[j + 1]
      BY <1>0, <2>2
    <2> QED
      BY <1>0, <1>2, <2>2, <2>3
  <1> QED
    BY <1>0, <1>1, <1>2

-----------------------------------------------------------------------------
(* Types *)

LEMMA CacheInitHolds == CacheInit => CacheInd
  <1> SUFFICES ASSUME CacheInit PROVE CacheInd
    OBVIOUS
  <1>1. PoolInd
    BY PoolInitHolds DEF CacheInit
  <1>2. CacheTypeOK
    <2>1. MaxLen \in Nat /\ 0 \in Slots /\ Slots \cap {0, 1} \subseteq Slots
      BY CacheAssumption DEF Slots
    <2>2. hashes \in Seq(Slots) /\ Len(hashes) <= MaxLen
      BY <2>1 DEF CacheInit
    <2>3. view \in [Endpoints -> Slots]
      BY <2>1 DEF CacheInit
    <2> QED
      BY <2>1, <2>2, <2>3 DEF CacheInit, CacheTypeOK, PoolInit
  <1> QED
    BY <1>1, <1>2 DEF CacheInit, CacheInd, PoolInit

(* refresh() up to its first await, wherever it is called from.            *)
LEMMA RequestStep ==
    ASSUME CacheInd, PoolInd', NEW t \in Calls, bpc[t] \in {"idle", "get"}, Request(t),
           UNCHANGED <<hashes, redis, view, val>>
    PROVE  CacheInd'
  <1>1. cpc[t] = "idle"
    BY DEF CacheInd, CacheTypeOK
  <1>2. CASE Send(t) /\ At(t, "rpc") /\ UNCHANGED mode
    <2>1. cpc' = [cpc EXCEPT ![t] = "sent"]
      BY <1>2 DEF Send
    <2> QED
      BY <1>1, <1>2, <2>1 DEF At, CacheInd, CacheTypeOK, PoolInd, PoolTypeOK
  <1>3. CASE SendClosed(t) /\ Raises(t)
    BY <1>1, <1>3 DEF SendClosed, Raises, At, CacheInd, CacheTypeOK
  <1>4. CASE Alone /\ Raises(t)
    BY <1>1, <1>4 DEF Alone, poolVars, Raises, At, CacheInd, CacheTypeOK
  <1> QED
    BY <1>2, <1>3, <1>4 DEF Request

LEMMA ServedStep ==
    ASSUME CacheInd, PoolInd', NEW t \in Calls, Served(t)
    PROVE  CacheInd'
  <1>1. PICK a \in Answers(cto[t]) : cpc' = [cpc EXCEPT ![t] = a]
    BY DEF Served, Answered
  <1>2. cpc[t] = "sent" /\ a # "idle" /\ cto[t] \in Endpoints
    BY DEF Served, Answered, Answers, CacheInd, PoolInd, PoolTypeOK
  <1>3. cpc'[t] = a /\ \A u \in Calls \ {t} : cpc'[u] = cpc[u]
    BY <1>1 DEF CacheInd, PoolInd, PoolTypeOK
  <1>4. view[cto[t]] \in Slots
    BY <1>2 DEF CacheInd, CacheTypeOK
  <1>5. /\ val' \in [Calls -> Slots \cup {NoHash}]
        /\ a = "ok" => val'[t] \in Slots
        /\ \A u \in Calls \ {t} : val'[u] = val[u]
    BY <1>3, <1>4 DEF Served, CacheInd, CacheTypeOK
  <1>6. bpc[t] = "rpc"
    BY <1>2 DEF CacheInd, CacheTypeOK
  <1>7. CacheTypeOK'
    BY <1>2, <1>3, <1>5, <1>6 DEF Served, CacheInd, CacheTypeOK
  <1> QED
    BY <1>3, <1>5, <1>6, <1>7 DEF Served, CacheInd

LEMMA FetchedStep ==
    ASSUME CacheInd, PoolInd', NEW t \in Calls, Fetched(t)
    PROVE  CacheInd'
  <1>1. val[t] \in Slots
    BY DEF Fetched, CacheInd
  <1>2. hashes' \in Seq(Slots) /\ Len(hashes') <= MaxLen
    BY <1>1, KeptEffect DEF Fetched, CacheInd, CacheTypeOK
  <1>3. cpc' = [cpc EXCEPT ![t] = "idle"] /\ bpc' = [bpc EXCEPT ![t] = "set"]
    BY DEF Fetched, Returns, At
  <1> QED
    BY <1>1, <1>2, <1>3 DEF Fetched, CacheInd, CacheTypeOK, PoolInd, PoolTypeOK

LEMMA FetchFailsStep ==
    ASSUME CacheInd, PoolInd', NEW t \in Calls, FetchFails(t)
    PROVE  CacheInd'
  <1>1. cpc' = [cpc EXCEPT ![t] = "idle"] /\ bpc' = [bpc EXCEPT ![t] = "idle"]
    BY DEF FetchFails, Returns, Raises, At
  <1> QED
    BY <1>1 DEF FetchFails, Raises, CacheInd, CacheTypeOK, PoolInd, PoolTypeOK

LEMMA StoreStep ==
    ASSUME CacheInd, PoolInd', NEW t \in Calls, Stored(t) \/ StoreFails(t)
    PROVE  CacheInd'
  <1>1. /\ bpc[t] = "set" /\ bpc' = [bpc EXCEPT ![t] = "idle"]
        /\ val' = [val EXCEPT ![t] = NoHash] /\ redis' \in {redis, val[t]}
        /\ UNCHANGED <<hashes, view, cpc>>
        /\ mode' \in {mode, "looping", "crashed"}
    BY DEF Stored, StoreFails, Written, Raises, At, Alone, poolVars
  <1>2. cpc[t] = "idle" /\ val[t] \in Slots
    BY <1>1 DEF CacheInd, CacheTypeOK, PoolInd, PoolTypeOK
  <1> QED
    BY <1>1, <1>2 DEF CacheInd, CacheTypeOK

LEMMA LatestStep ==
    ASSUME CacheInd, PoolInd', NEW t \in Calls, Latest(t) \/ LatestReturns(t)
    PROVE  CacheInd'
  <1>1. /\ bpc[t] \in {"idle", "get"}
        /\ bpc' = [bpc EXCEPT ![t] = "get"] \/ bpc' = [bpc EXCEPT ![t] = "idle"]
        /\ UNCHANGED <<hashes, redis, view, val, mode, cpc>>
    BY DEF Latest, LatestReturns, At, Alone, poolVars
  <1> QED
    BY <1>1 DEF CacheInd, CacheTypeOK

LEMMA CacheStopStep ==
    ASSUME CacheInd, PoolInd', CacheStop \/ CacheStopped
    PROVE  CacheInd'
  <1>1. CASE CacheStop
    BY <1>1 DEF CacheStop, Alone, poolVars, CacheInd, CacheTypeOK
  <1>2. CASE CacheStopped
    <2>1. Keeper \in Calls
      BY CacheAssumption
    <2>2. /\ cpc'[Keeper] = "idle" /\ \A u \in Calls \ {Keeper} : cpc'[u] = cpc[u]
          /\ redis' \in Slots \cup {NoHash}
      BY <1>2, <2>1 DEF CacheStopped, Cancelled, Alone, poolVars, CacheInd, CacheTypeOK,
                        PoolInd, PoolTypeOK
    <2> QED
      BY <1>2, <2>1, <2>2 DEF CacheStopped, At, CacheInd, CacheTypeOK
  <1> QED
    BY <1>1, <1>2

LEMMA OutsideStep ==
    ASSUME CacheInd, PoolInd',
           Expires \/ (\E e \in Endpoints : Advances(e)) \/ PoolSteps
    PROVE  CacheInd'
  <1>1. CASE Expires
    BY <1>1 DEF Expires, Alone, poolVars, CacheInd, CacheTypeOK
  <1>2. ASSUME NEW e \in Endpoints, Advances(e) PROVE CacheInd'
    <2>1. view[e] + 1 \in Slots
      BY <1>2, CacheAssumption DEF Advances, Slots, CacheInd, CacheTypeOK
    <2> QED
      BY <1>2, <2>1 DEF Advances, Alone, poolVars, CacheInd, CacheTypeOK
  <1>3. CASE PoolSteps
    <2>1. UNCHANGED <<cpc, cto>>
      BY <1>3 DEF PoolSteps, HealthStep, RoundBegins, RoundEnds, CheckReturns,
                  CheckAnswered, PoolStop, PoolClose, ServerBecomes
    <2> QED
      BY <1>3, <2>1 DEF PoolSteps, cacheVars, CacheInd, CacheTypeOK
  <1> QED
    BY <1>1, <1>2, <1>3

LEMMA CacheStep ==
    ASSUME CacheInd, [CacheNext]_bhVars
    PROVE  CacheInd'
  <1>1. PoolInd'
    BY CacheStepsPool, PoolStep DEF CacheInd, bhVars, poolVars
  <1>2. CASE UNCHANGED bhVars
    BY <1>1, <1>2 DEF bhVars, poolVars, cacheVars, CacheInd, CacheTypeOK
  <1>3. ASSUME NEW t \in Calls, Refresh(t) \/ Served(t) \/ Resumes(t) \/ Latest(t)
        PROVE  CacheInd'
    <2>1. CASE Refresh(t) \/ LatestMiss(t)
      BY <1>1, <2>1, RequestStep DEF Refresh, LatestMiss
    <2> QED
      BY <1>1, <1>3, <2>1, ServedStep, FetchedStep, FetchFailsStep, StoreStep, LatestStep
      DEF Resumes
  <1> QED
    BY <1>1, <1>2, <1>3, CacheStopStep, OutsideStep DEF CacheNext

(* The inductive invariant holds in every reachable state.                 *)
THEOREM CacheInvariance == CacheSpec => []CacheInd
  BY CacheInitHolds, CacheStep, PTL DEF CacheSpec

-----------------------------------------------------------------------------
(* One endpoint, the loop alone *)

(* "Redis sharing" (README.md:16): while the loop alone refreshes from one *)
(* endpoint, no other process is given a fresher hash than latest() gives  *)
(* this one, whichever write or cancellation fails (lines 56-58).          *)
MemoryFirst ==
    redis \notin {NoHash, 0} => hashes # <<>> /\ redis <= Newest

(* With one endpoint and the loop alone, hashes are asked for, answered,   *)
(* kept and shared in the order of the chain: the inductive strengthening  *)
(* of Freshest and MemoryFirst.                                            *)
InOrder ==
    /\ \A i, j \in DOMAIN hashes : i <= j => hashes[i] <= hashes[j]
    /\ hashes # <<>> => \A e \in Endpoints : Newest <= view[e]
    /\ \A t \in Calls : cpc[t] = "ok" =>
          /\ \A e \in Endpoints : val[t] <= view[e]
          /\ hashes # <<>> => Newest <= val[t]
    /\ \A t \in Calls : bpc[t] = "set" => hashes # <<>> /\ val[t] = Newest
    /\ MemoryFirst

(* Steps that keep the deque and leave the loop without a hash in hand.    *)
LEMMA QuietStep ==
    ASSUME CacheInd, InOrder, Calls = {Keeper},
           UNCHANGED <<hashes, view>>,
           redis' \in {redis, NoHash} \/ (bpc[Keeper] = "set" /\ redis' = val[Keeper]),
           cpc'[Keeper] # "ok", bpc'[Keeper] # "set"
    PROVE  InOrder'
  <1>1. bpc[Keeper] = "set" => hashes # <<>> /\ val[Keeper] = Newest
    BY DEF InOrder
  <1>2. Newest' = Newest
    BY DEF Newest
  <1>3. hashes # <<>> => Newest \in Nat
    BY CacheAssumption DEF Newest, CacheInd, CacheTypeOK, Slots
  <1>4. MemoryFirst'
    BY <1>1, <1>2, <1>3 DEF InOrder, MemoryFirst
  <1> QED
    BY <1>2, <1>4 DEF InOrder

LEMMA FetchedInOrder ==
    ASSUME CacheInd, InOrder, Calls = {Keeper}, NEW e, Endpoints = {e}, Fetched(Keeper)
    PROVE  InOrder'
  <1> DEFINE h == val[Keeper]
  <1>1. /\ cpc[Keeper] = "ok" /\ h \in Slots /\ hashes' = Kept(h)
        /\ cpc'[Keeper] # "ok" /\ UNCHANGED <<redis, view, val>>
    BY DEF Fetched, Returns, CacheInd, PoolInd, PoolTypeOK
  <1>2. h <= view[e] /\ (hashes # <<>> => Newest <= h)
    BY <1>1 DEF InOrder
  <1>3. /\ hashes' # <<>> /\ Newest' = h
        /\ hashes' \in Seq(Slots)
        /\ \A i, j \in DOMAIN hashes' : i <= j /\ j < Len(hashes') =>
              \E k, l \in DOMAIN hashes : k <= l /\ hashes'[i] = hashes[k] /\ hashes'[j] = hashes[l]
    BY <1>1, KeptEffect DEF CacheInd, CacheTypeOK, Newest
  <1>4. \A k \in DOMAIN hashes : hashes[k] <= h
    <2> SUFFICES ASSUME NEW k \in DOMAIN hashes PROVE hashes[k] <= h
      OBVIOUS
    <2>1. k <= Len(hashes) /\ Len(hashes) \in DOMAIN hashes /\ hashes # <<>>
      BY DEF CacheInd, CacheTypeOK
    <2>2. hashes[k] <= Newest
      BY <2>1 DEF InOrder, Newest
    <2>3. hashes[k] \in Nat /\ Newest \in Nat /\ h \in Nat
      BY <1>1, <2>1, CacheAssumption DEF CacheInd, CacheTypeOK, Newest, Slots
    <2> QED
      BY <1>2, <2>1, <2>2, <2>3
  <1>5. ASSUME NEW i \in DOMAIN hashes', NEW j \in DOMAIN hashes', i <= j
        PROVE  hashes'[i] <= hashes'[j]
    <2>1. i \in Nat /\ j \in Nat /\ j <= Len(hashes') /\ Len(hashes') \in Nat
      BY <1>3
    <2>2. CASE j < Len(hashes')
      BY <1>3, <1>5, <2>2 DEF InOrder
    <2>3. CASE j = Len(hashes') /\ i < Len(hashes')
      <3>1. \E k \in DOMAIN hashes : hashes'[i] = hashes[k]
        BY <1>3, <2>1, <2>3
      <3> QED
        BY <1>3, <1>4, <2>3, <3>1 DEF Newest
    <2>4. CASE i = Len(hashes')
      <3>1. i = j /\ hashes'[i] \in Nat
        BY <1>3, <1>5, <2>1, <2>4, CacheAssumption DEF Slots
      <3> QED
        BY <3>1
    <2> QED
      BY <1>5, <2>1, <2>2, <2>3, <2>4
  <1>6. MemoryFirst'
    <2>1. redis \notin {NoHash, 0} => hashes # <<>> /\ redis <= Newest
      BY DEF InOrder, MemoryFirst
    <2>2. hashes # <<>> => Newest \in Nat
      BY CacheAssumption DEF Newest, CacheInd, CacheTypeOK, Slots
    <2>3. h \in Nat /\ (redis = NoHash \/ redis \in Nat)
      BY <1>1, CacheAssumption DEF Slots, CacheInd, CacheTypeOK
    <2> QED
      BY <1>1, <1>2, <1>3, <2>1, <2>2, <2>3 DEF MemoryFirst
  <1> QED
    BY <1>1, <1>2, <1>3, <1>5, <1>6 DEF InOrder

LEMMA ServedInOrder ==
    ASSUME CacheInd, InOrder, Calls = {Keeper}, NEW e, Endpoints = {e}, Served(Keeper)
    PROVE  InOrder'
  <1>1. /\ cpc[Keeper] = "sent" /\ UNCHANGED <<hashes, redis, view, bpc>>
        /\ cto[Keeper] = e
    BY DEF Served, Answered, Answers, CacheInd, PoolInd, PoolTypeOK
  <1>2. bpc[Keeper] = "rpc"
    BY <1>1 DEF CacheInd, CacheTypeOK
  <1>3. cpc'[Keeper] = "ok" => val'[Keeper] = view[e]
    BY <1>1 DEF Served, CacheInd, CacheTypeOK
  <1>4. view[e] \in Nat /\ Newest' = Newest
    BY <1>1, CacheAssumption DEF CacheInd, CacheTypeOK, Slots, Newest
  <1> QED
    BY <1>1, <1>2, <1>3, <1>4 DEF InOrder, MemoryFirst

LEMMA AdvancesInOrder ==
    ASSUME CacheInd, InOrder, Calls = {Keeper}, NEW e, Endpoints = {e}, Advances(e)
    PROVE  InOrder'
  <1>1. /\ UNCHANGED <<hashes, redis, bpc, val, cpc>>
        /\ view'[e] = view[e] + 1
    BY DEF Advances, Alone, poolVars, CacheInd, CacheTypeOK
  <1>2. /\ view[e] \in Nat /\ Newest' = Newest
        /\ hashes # <<>> => Newest \in Nat
        /\ cpc[Keeper] = "ok" => val[Keeper] \in Nat
    BY <1>1, CacheAssumption DEF CacheInd, CacheTypeOK, Slots, Newest
  <1> QED
    BY <1>1, <1>2 DEF InOrder, MemoryFirst

LEMMA InOrderStep ==
    ASSUME CacheInd, InOrder, Calls = {Keeper}, NEW e, Endpoints = {e}, [CacheNext]_bhVars
    PROVE  InOrder'
  <1>1. CASE UNCHANGED bhVars
    BY <1>1 DEF bhVars, poolVars, cacheVars, InOrder, MemoryFirst, Newest
  <1>2. CASE Refresh(Keeper) \/ LatestMiss(Keeper)
    <2>1. /\ UNCHANGED <<hashes, redis, view>> /\ cpc[Keeper] = "idle" /\ Request(Keeper)
      BY <1>2 DEF Refresh, LatestMiss, CacheInd, CacheTypeOK
    <2>2. cpc'[Keeper] # "ok" /\ bpc'[Keeper] # "set"
      BY <2>1 DEF Request, Send, SendClosed, Alone, poolVars, Raises, At,
                  CacheInd, CacheTypeOK, PoolInd, PoolTypeOK
    <2> QED
      BY <2>1, <2>2, QuietStep
  <1>3. CASE FetchFails(Keeper) \/ Stored(Keeper) \/ StoreFails(Keeper) \/ LatestReturns(Keeper)
    <2>1. UNCHANGED <<hashes, view>>
      BY <1>3 DEF FetchFails, Stored, StoreFails, Written, LatestReturns
    <2>2. redis' = redis \/ (bpc[Keeper] = "set" /\ redis' = val[Keeper])
      BY <1>3 DEF FetchFails, Stored, StoreFails, Written, LatestReturns
    <2>3. cpc'[Keeper] # "ok" /\ bpc'[Keeper] # "set"
      BY <1>3 DEF FetchFails, Returns, Stored, StoreFails, Written, LatestReturns, Alone, poolVars, Raises,
                  At, CacheInd, CacheTypeOK, PoolInd, PoolTypeOK
    <2> QED
      BY <2>1, <2>2, <2>3, QuietStep
  <1>4. CASE Latest(Keeper)
    BY <1>4 DEF Latest
  <1>5. CASE CacheStopped
    <2>1. UNCHANGED <<hashes, view>>
      BY <1>5 DEF CacheStopped
    <2>2. redis' = redis \/ (bpc[Keeper] = "set" /\ redis' = val[Keeper])
      BY <1>5 DEF CacheStopped
    <2>3. cpc'[Keeper] # "ok" /\ bpc'[Keeper] # "set"
      BY <1>5, CacheAssumption DEF CacheStopped, Cancelled, Alone, poolVars, At,
                  CacheInd, CacheTypeOK, PoolInd, PoolTypeOK
    <2> QED
      BY <2>1, <2>2, <2>3, QuietStep
  <1>6. CASE CacheStop
    BY <1>6 DEF CacheStop, Alone, poolVars, InOrder, MemoryFirst, Newest
  <1>7. CASE Expires
    BY <1>7 DEF Expires, Alone, poolVars, InOrder, MemoryFirst, Newest
  <1>8. CASE PoolSteps
    <2>1. UNCHANGED <<cpc, hashes, redis, view, bpc, val>>
      BY <1>8 DEF PoolSteps, cacheVars, HealthStep, RoundBegins, RoundEnds, CheckReturns,
                  CheckAnswered, PoolStop, PoolClose, ServerBecomes
    <2> QED
      BY <2>1 DEF InOrder, MemoryFirst, Newest
  <1> QED
    BY <1>1, <1>2, <1>3, <1>4, <1>5, <1>6, <1>7, <1>8,
       FetchedInOrder, ServedInOrder, AdvancesInOrder DEF CacheNext, Resumes

(* With one endpoint and no refresh but the loop's, latest() gives the     *)
(* freshest hash of the deque, and Redis never a fresher one: two          *)
(* endpoints, or a second refresher, are what it takes to break line 42.   *)
THEOREM OneEndpointFreshest ==
    ASSUME NEW e, Endpoints = {e}, Calls = {Keeper}
    PROVE  CacheSpec => [](Freshest /\ MemoryFirst)
  <1>1. CacheInit => InOrder
    BY DEF CacheInit, PoolInit, InOrder, MemoryFirst
  <1>2. CacheInd /\ InOrder /\ [CacheNext]_bhVars => InOrder'
    BY InOrderStep
  <1>3. CacheInd /\ InOrder => Freshest /\ MemoryFirst
    BY DEF CacheInd, CacheTypeOK, InOrder, Freshest, Newest
  <1> QED
    BY <1>1, <1>2, <1>3, CacheInvariance, PTL DEF CacheSpec
=============================================================================
