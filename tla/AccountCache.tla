---------------------------- MODULE AccountCache ----------------------------
(***************************************************************************)
(* execution/transaction_builder.py: drafts of swaps, whose accounts come  *)
(* from a cache of the pools used last.  An opportunity is a record of its *)
(* pool and its token; the developer's wallet goes with the token.  The    *)
(* caller has the fee estimated, by execution/priority_fees.py.            *)
(***************************************************************************)
EXTENDS Integers, SequencesExt

CONSTANTS Pools, Tokens, CacheSize,
          BaseFee, Congestions     \* in percent

ASSUME AccountAssumption == CacheSize \in Nat /\ BaseFee \in Nat /\ Congestions \subseteq Int

VARIABLES
    cache,    \* _account_meta_cache, the pool used last at the end: pools with their accounts
    recent,   \* not in the code: all pools used, in the order of their last use
    entered,  \* not in the code: the token each was used with when it last came in anew
    draft     \* the draft made last: its pool, its token, its accounts and its fee

accountVars == <<cache, recent, entered, draft>>

Opportunities == [pool : Pools, token : Tokens]
NoDraft == [pool |-> "none", token |-> "none", accounts |-> {}, fee |-> 0]

AccountInit ==
    /\ cache = <<>> /\ draft = NoDraft
    /\ recent = <<>> /\ entered = [p \in Pools |-> NoDraft.token]

Find(p) == {i \in DOMAIN cache : cache[i].pool = p}

(* Mutant: a pool that is found stays where it is.                         *)
MoveToEndNot(i) == cache

(* move_to_end() of a pool that is found.                                  *)
MoveToEnd(i) == Append(RemoveAt(cache, i), cache[i])

(* The pool is added, and the one used longest ago goes if it is too many. *)
Added(x) ==
    LET longer == Append(cache, x)
    IN IF Len(longer) > CacheSize THEN Tail(longer) ELSE longer

estimate_priority_fee_lamports(c) == (BaseFee * (100 + IF c > 0 THEN c ELSE 0)) \div 100

(* The reference: what a cache of this size must hold is told by the order *)
(* of use alone, and a pool comes in anew if it is not among them.         *)
Newest(s, n) == SubSeq(s, IF Len(s) <= n THEN 1 ELSE Len(s) - n + 1, Len(s))
AmongNewest(p) == \E i \in DOMAIN Newest(recent, CacheSize) : Newest(recent, CacheSize)[i] = p

build_swap(o, fee) ==
    /\ recent' = Append(RemoveFirst(recent, o.pool), o.pool)
    /\ entered' = IF AmongNewest(o.pool) THEN entered ELSE [entered EXCEPT ![o.pool] = o.token]
    /\ \/ \E i \in Find(o.pool) :
             /\ cache' = MoveToEnd(i)
             /\ draft' = [pool |-> o.pool, token |-> o.token, accounts |-> cache[i].accounts,
                          fee |-> fee]
       \/ /\ Find(o.pool) = {}
          /\ cache' = Added([pool |-> o.pool, accounts |-> {o.pool, o.token}])
          /\ draft' = [pool |-> o.pool, token |-> o.token, accounts |-> {o.pool, o.token},
                       fee |-> fee]

AccountNext ==
    \E o \in Opportunities, c \in Congestions : build_swap(o, estimate_priority_fee_lamports(c))
AccountSpec == AccountInit /\ [][AccountNext]_accountVars

-----------------------------------------------------------------------------
(* Properties *)

Pool(s) == [i \in DOMAIN s |-> s[i].pool]

(* The cache holds the pools used last, as many as it may hold, each once  *)
(* and in the order of their last use.  The accounts of a pool, those in   *)
(* the draft made last among them, are its own and that of the token it    *)
(* was used with when it was last used without being one of these: a draft *)
(* is built from another token's accounts just when its pool has not been  *)
(* out of use for as many others since that token's, and never from those  *)
(* of a token whose turn has passed.  A fee is never below its base        *)
(* (transaction_builder.py lines 47-55, priority_fees.py line 8).          *)
LruExact ==
    /\ Pool(cache) = Newest(recent, CacheSize)
    /\ \A i \in DOMAIN cache : cache[i].accounts = {cache[i].pool, entered[cache[i].pool]}
    /\ draft # NoDraft => /\ draft.accounts = {draft.pool, entered[draft.pool]}
                          /\ draft.fee >= BaseFee
=============================================================================
