------------------------------ MODULE Indexer -------------------------------
(***************************************************************************)
(* indexer.rs: the background task that discovers pools, keeps the liquid  *)
(* ones in the shared ReserveCache and their object coordinates in the     *)
(* LiveRegistry, and evicts the ones that left.  It works DEX by DEX:      *)
(*                                                                         *)
(*   turn -> read (one RPC per batch) -> load (ticks) -> publish           *)
(*        -> install (evict under the registry lock) -> next DEX           *)
(*                                                                         *)
(* and every await lets the chain move and every lock release lets the     *)
(* scanner and the executor look.  Only the reads and the RPC failures are *)
(* someone else's; a batch here holds one id.  Creation events are paged   *)
(* oldest first and no further than a cap, so a DEX with more pools than   *)
(* that never shows its newest ones.                                       *)
(***************************************************************************)
EXTENDS Integers, Sequences, FiniteSets, Functions

CONSTANTS
  Pool,
  Adapters,      \* the configured quotable adapters, a sequence of DEX names
  DexOf,         \* the DEX each pool belongs to
  TickPools,     \* pools with a tick source, when indexer_load_ticks is on
  Level,         \* 1 + what liquidity_of can return; 0 is a pool that does not decode
  MinLiquidity,  \* 1 + config.indexer_min_liquidity
  MaxPools,      \* config.indexer_max_pools, per DEX
  MaxDiscover,   \* MAX_DISCOVER: paging stops once a DEX has that many ids
  EventPage,     \* creation events the node returns per page
  Histories,     \* what each DEX may have announced before the start
  Liquidities,   \* and the Level of each pool object then
  MaxMoves,      \* bound on chain changes
  MaxFailures,   \* bound on failed RPCs
  None

ASSUME IndexerAssumption ==
  /\ Adapters \in Seq({DexOf[p] : p \in Pool}) \ {<<>>}   \* without any, the task returns
  /\ TickPools \subseteq Pool
  /\ Level \subseteq Nat /\ Liquidities \subseteq [Pool -> Level] /\ MinLiquidity \in Nat \ {0}
  /\ MaxDiscover \in Nat \ {0} /\ EventPage \in Nat \ {0}
  /\ MaxPools \in Nat \ {0} /\ MaxMoves \in Nat /\ MaxFailures \in Nat
  /\ None \notin Pool

VARIABLES
  chain,       \* liquidity of each pool object
  listed,      \* the pools each DEX announced, in the order of their creation events
  candidates,  \* ids discovered, per DEX
  active,      \* the authoritative active set, per DEX
  cache,       \* ReserveCache: the state last published of each pool it holds
  registry,    \* LiveRegistry: pools the executor can resolve
  tickCache,   \* pools whose ticks are cached
  round,       \* "discovery" | "fast"
  at,          \* position in Adapters
  phase,       \* "idle" | "turn" | "read" | "load" | "publish" | "evict"
  todo,        \* pools the phase has still to deal with
  cursor,      \* the pool between its two publishing writes, or None
  seen,        \* what the reads of this sync decoded
  complete,    \* FALSE once a batch read of this sync failed
  new,         \* the active set this sync is building
  moves, failures

env == <<chain, listed, moves>>
sets == <<candidates, active, tickCache>>
shared == <<cache, registry>>
sync == <<seen, complete, new>>
control == <<round, at, phase, todo, cursor>>
vars == <<env, sets, shared, sync, control, failures>>

Dex == {Adapters[i] : i \in 1 .. Len(Adapters)}
Cur == Adapters[at]
OfDex(d) == {p \in Pool : DexOf[p] = d}

Announced(d) == Range(listed[d])

\* discover_ids reads whole pages, oldest first, and stops after the one that brings
\* it to MAX_DISCOVER ids.
Reach == EventPage * ((MaxDiscover + EventPage - 1) \div EventPage)
Discovered(d) == {listed[d][i] : i \in {j \in DOMAIN listed[d] : j <= Reach}}

\* A DEX announces its own pools, each once.
ASSUME HistoriesAssumption ==
  \A f \in Histories :
    f \in [Dex -> Seq(Pool)] /\ \A d \in Dex : f[d] \in Seq(OfDex(d)) /\ IsInjective(f[d])

\* Partial functions on pools: seen and cache.
NoPools == [p \in {} |-> 0]
Put(f, p, v) == [q \in DOMAIN f \union {p} |-> IF q = p THEN v ELSE f[q]]
Drop(f, p) == [q \in DOMAIN f \ {p} |-> f[q]]

TypeOK ==
  /\ chain \in [Pool -> Level]
  /\ listed \in [Dex -> Seq(Pool)] /\ \A d \in Dex : Range(listed[d]) \subseteq OfDex(d)
  /\ candidates \in [Dex -> SUBSET Pool] /\ active \in [Dex -> SUBSET Pool]
  /\ DOMAIN cache \subseteq Pool /\ \A p \in DOMAIN cache : cache[p] \in Level
  /\ DOMAIN seen \subseteq Pool /\ \A p \in DOMAIN seen : seen[p] \in Level \union {0}
  /\ registry \subseteq Pool /\ tickCache \subseteq TickPools
  /\ round \in {"discovery", "fast"} /\ at \in 1 .. Len(Adapters)
  /\ phase \in {"idle", "turn", "read", "load", "publish", "evict"}
  /\ todo \subseteq Pool /\ new \subseteq Pool /\ cursor \in Pool \union {None}
  /\ complete \in BOOLEAN /\ moves \in 0 .. MaxMoves /\ failures \in 0 .. MaxFailures

-----------------------------------------------------------------------------
Init ==
  /\ chain \in Liquidities /\ listed \in Histories
  /\ candidates = [d \in Dex |-> {}] /\ active = [d \in Dex |-> {}]
  /\ cache = NoPools /\ registry = {} /\ tickCache = {}
  /\ round = "discovery" /\ at = 1 /\ phase = "turn"
  /\ todo = {} /\ cursor = None /\ seen = NoPools /\ complete = TRUE /\ new = {}
  /\ moves = 0 /\ failures = 0

\* A loop iteration: re-discovery when indexer_discovery_secs have gone by, else the
\* fast refresh.
StartRound(kind) ==
  /\ phase = "idle"
  /\ round' = kind /\ at' = 1 /\ phase' = "turn"
  /\ UNCHANGED <<env, sets, shared, sync, todo, cursor, failures>>

StartSync(ids) ==
  /\ phase' = "read" /\ todo' = ids
  /\ seen' = NoPools /\ complete' = TRUE /\ new' = {}

NextDex ==
  IF at < Len(Adapters) THEN at' = at + 1 /\ phase' = "turn"
                        ELSE at' = at /\ phase' = "idle"

\* An RPC that errors, as often as the exploration allows.
Failure == failures < MaxFailures /\ failures' = failures + 1

\* Mutant: the pages asked for in descending order, newest first.
DiscoverNewest ==
  LET n == Len(listed[Cur])
      newest == {listed[Cur][i] : i \in {j \in 1 .. n : n - j < Reach}}
  IN
  /\ phase = "turn" /\ round = "discovery"
  /\ \/ candidates' = [candidates EXCEPT ![Cur] = newest] /\ UNCHANGED failures
     \/ UNCHANGED candidates /\ Failure
  /\ StartSync(candidates'[Cur])
  /\ UNCHANGED <<env, active, tickCache, shared, round, at, cursor>>

\* discover_ids pages the creation events as far as it reaches; on an error the old
\* candidates are kept.
Discover ==
  /\ phase = "turn" /\ round = "discovery"
  /\ \/ /\ candidates' = [candidates EXCEPT ![Cur] = Discovered(Cur)]
        /\ UNCHANGED failures
     \/ UNCHANGED candidates /\ Failure
  /\ StartSync(candidates'[Cur])
  /\ UNCHANGED <<env, active, tickCache, shared, round, at, cursor>>

\* The fast path skips a DEX whose active set is empty.
FastTurn ==
  /\ phase = "turn" /\ round = "fast"
  /\ IF active[Cur] = {} THEN NextDex /\ UNCHANGED <<sync, todo>>
                         ELSE StartSync(active[Cur]) /\ at' = at
  /\ UNCHANGED <<env, sets, shared, round, cursor, failures>>

-----------------------------------------------------------------------------
(* sync_pools *)

ReadBatch(p) ==
  /\ phase = "read" /\ p \in todo
  /\ todo' = todo \ {p}
  /\ \/ seen' = Put(seen, p, chain[p]) /\ UNCHANGED <<complete, failures>>
     \/ seen' = Put(seen, p, 0) /\ UNCHANGED complete /\ Failure   \* this object errors
     \/ complete' = FALSE /\ UNCHANGED seen /\ Failure             \* the batch errors
  /\ UNCHANGED <<env, sets, shared, new, round, at, phase, cursor>>

\* The pools that pass the filters, by what the reads said.
Kept == {p \in DOMAIN seen : seen[p] >= MinLiquidity}

\* sort_by_key(Reverse(liquidity)), truncate(cap); ties fall as the batches landed.
Select(top) ==
  /\ phase = "read" /\ todo = {}
  /\ top \subseteq Kept
  /\ \A p \in top, q \in Kept \ top : seen[p] >= seen[q]
  /\ Cardinality(top) = IF Cardinality(Kept) <= MaxPools THEN Cardinality(Kept) ELSE MaxPools
  /\ todo' = top /\ phase' = "load"
  /\ UNCHANGED <<env, sets, shared, sync, round, at, cursor, failures>>

\* Mutant: the tick source not asked for.
NeedsTicksAnyPool(p) == ~(round = "fast" /\ p \in tickCache)

\* No tick source, or a fast refresh with a warm tick cache: no RPC.
NeedsTicks(p) == p \in TickPools /\ ~(round = "fast" /\ p \in tickCache)

\* Mutant: a pool whose ticks failed to load is kept without any.
LoadTicksOrNone(p) ==
  /\ phase = "load" /\ p \in todo
  /\ todo' = todo \ {p} /\ new' = new \union {p}
  /\ \/ /\ tickCache' = IF NeedsTicks(p) THEN tickCache \union {p} ELSE tickCache
        /\ UNCHANGED failures
     \/ NeedsTicks(p) /\ Failure /\ UNCHANGED tickCache
  /\ UNCHANGED <<env, candidates, active, shared, seen, complete, round, at, phase, cursor>>

\* When all the retries fail, or no tick comes back, stale ticks are reused; without
\* any the pool is dropped rather than quoted on an empty set.
LoadTicks(p) ==
  /\ phase = "load" /\ p \in todo
  /\ todo' = todo \ {p}
  /\ \/ /\ tickCache' = IF NeedsTicks(p) THEN tickCache \union {p} ELSE tickCache
        /\ new' = new \union {p}
        /\ UNCHANGED failures
     \/ /\ NeedsTicks(p) /\ Failure
        /\ new' = IF p \in tickCache THEN new \union {p} ELSE new
        /\ UNCHANGED tickCache
  /\ UNCHANGED <<env, candidates, active, shared, seen, complete, round, at, phase, cursor>>

StartPublish ==
  /\ phase = "load" /\ todo = {}
  /\ todo' = new /\ phase' = "publish"
  /\ UNCHANGED <<env, sets, shared, sync, round, at, cursor, failures>>

\* The live ref first, then the state: two locks, taken one after the other.
PublishRef(p) ==
  /\ phase = "publish" /\ cursor = None /\ p \in todo
  /\ registry' = registry \union {p}
  /\ cursor' = p
  /\ UNCHANGED <<env, sets, cache, sync, round, at, phase, todo, failures>>

\* Mutant: entry().or_insert instead of insert.
UpsertOnlyNew ==
  /\ phase = "publish" /\ cursor # None
  /\ cache' = IF cursor \in DOMAIN cache THEN cache ELSE Put(cache, cursor, seen[cursor])
  /\ todo' = todo \ {cursor} /\ cursor' = None
  /\ UNCHANGED <<env, sets, registry, sync, round, at, phase, failures>>

UpsertState ==
  /\ phase = "publish" /\ cursor # None
  /\ cache' = Put(cache, cursor, seen[cursor])
  /\ todo' = todo \ {cursor} /\ cursor' = None
  /\ UNCHANGED <<env, sets, registry, sync, round, at, phase, failures>>

-----------------------------------------------------------------------------
(* install_active_set *)

Synced == phase = "publish" /\ todo = {}
Leaving == active[Cur] \ new

\* After a partial failure the previous membership stays.
Preserve ==
  /\ Synced /\ ~complete /\ active[Cur] # {}
  /\ NextDex
  /\ UNCHANGED <<env, sets, shared, sync, round, todo, cursor, failures>>

Install ==
  /\ Synced /\ (complete \/ active[Cur] = {})
  /\ Leaving = {}
  /\ active' = [active EXCEPT ![Cur] = new]
  /\ NextDex
  /\ UNCHANGED <<env, candidates, tickCache, shared, sync, round, todo, cursor, failures>>

\* Mutant: the early return on an incomplete refresh left out.
StartEvictAnyway ==
  /\ Synced /\ Leaving # {}
  /\ phase' = "evict" /\ todo' = Leaving
  /\ UNCHANGED <<env, sets, shared, sync, round, at, cursor, failures>>

\* Mutant: the refs removed first, and the lock not held over the cache removals.
StartEvictRefsFirst ==
  /\ Synced /\ (complete \/ active[Cur] = {})
  /\ Leaving # {}
  /\ phase' = "evict" /\ todo' = Leaving
  /\ registry' = registry \ Leaving
  /\ UNCHANGED <<env, sets, cache, sync, round, at, cursor, failures>>

\* Take the registry's write lock; then remove from the cache one by one.
StartEvict ==
  /\ Synced /\ (complete \/ active[Cur] = {})
  /\ Leaving # {}
  /\ phase' = "evict" /\ todo' = Leaving
  /\ UNCHANGED <<env, sets, shared, sync, round, at, cursor, failures>>

EvictState(p) ==
  /\ phase = "evict" /\ p \in todo
  /\ cache' = Drop(cache, p)
  /\ todo' = todo \ {p}
  /\ UNCHANGED <<env, sets, registry, sync, round, at, phase, cursor, failures>>

\* The lock is released: only now does the executor see the refs gone.
EndEvict ==
  /\ phase = "evict" /\ todo = {}
  /\ registry' = registry \ Leaving
  /\ active' = [active EXCEPT ![Cur] = new]
  /\ NextDex
  /\ UNCHANGED <<env, candidates, tickCache, cache, sync, round, todo, cursor, failures>>

-----------------------------------------------------------------------------
(* The chain *)

\* Trades, deposits and withdrawals change what a pool's object says.
Move(p, level) ==
  /\ moves < MaxMoves /\ moves' = moves + 1
  /\ chain' = [chain EXCEPT ![p] = level]
  /\ UNCHANGED <<listed, sets, shared, sync, control, failures>>

\* A factory creates a pool; its event is the DEX's latest.
List(p) ==
  /\ DexOf[p] \in Dex /\ p \notin Announced(DexOf[p])
  /\ listed' = [listed EXCEPT ![DexOf[p]] = Append(@, p)]
  /\ UNCHANGED <<chain, moves, sets, shared, sync, control, failures>>

Sync ==
  \/ Discover \/ FastTurn \/ StartPublish \/ UpsertState
  \/ Preserve \/ Install \/ StartEvict \/ EndEvict
  \/ \E p \in Pool : ReadBatch(p) \/ LoadTicks(p) \/ PublishRef(p) \/ EvictState(p)
  \/ \E top \in SUBSET Kept : Select(top)

Next ==
  \/ Sync
  \/ \E kind \in {"discovery", "fast"} : StartRound(kind)
  \/ \E p \in Pool : List(p) \/ \E level \in Level : Move(p, level)

\* The task runs (a tokio interval), its RPCs return, and the discovery clock, which
\* only a discovery round resets, makes one round in so many a discovery.
Fairness ==
  /\ WF_vars(Sync \/ \E kind \in {"discovery", "fast"} : StartRound(kind))
  /\ SF_vars(StartRound("discovery"))

Spec == Init /\ [][Next]_vars /\ Fairness

-----------------------------------------------------------------------------
(* Properties *)

\* At every moment a scanner's snapshot is resolvable: no pool is offered to the
\* scanner before its live ref is there or after it is gone (registry written
\* before cache on publish, cache emptied under the registry lock on eviction).
CacheInRegistry == DOMAIN cache \subseteq registry

\* Outside a sync of its DEX, an active pool is on offer, with ticks if it needs them.
ActiveOnOffer ==
  \A d \in Dex : \A p \in active[d] :
    /\ p \in DOMAIN cache \/ (phase = "evict" /\ Cur = d)
    /\ p \in TickPools => p \in tickCache

\* A pool is evicted only on the evidence of this sync: it was read, and found
\* wanting or outranked.  Neither a failed batch, nor a tick load, nor an old
\* discovery evicts (an object the node answers with an error counts as read, and
\* as not decodable: see ReadBatch).
EvictionJustified ==
  phase = "evict" => \A p \in Leaving :
    /\ p \in DOMAIN seen
    /\ \/ seen[p] < MinLiquidity
       \/ Cardinality({q \in DOMAIN seen \ {p} : seen[q] >= seen[p]}) >= MaxPools

\* The active set is fresh again and again: once the chain is quiet, what the
\* scanner is offered of an active pool is what the chain says.
ActiveCatchesUp ==
  \A p \in Pool : []<>(p \in active[DexOf[p]] => p \in DOMAIN cache /\ cache[p] = chain[p])

\* Liquid, and not outranked within S.
Eligible(p, S) ==
  /\ p \in S /\ chain[p] >= MinLiquidity
  /\ Cardinality({q \in S \ {p} : chain[q] >= chain[p]}) < MaxPools

\* Of the pools discovery reaches, one that is liquid and not outranked gets on offer,
\* and what is created beyond its reach does not keep it from that.
ListingsJoin ==
  \A p \in Pool : DexOf[p] \in Dex =>
    []<>(Eligible(p, Discovered(DexOf[p])) => p \in active[DexOf[p]])
=============================================================================
