--------------------------- MODULE IndexerProofs ----------------------------
(***************************************************************************)
(* Proofs about Indexer, for every set of pools, adapters and bounds: what *)
(* the scanner sees in the ReserveCache the executor can resolve in the    *)
(* LiveRegistry, although the two are updated under different locks; an    *)
(* active pool is on offer with its ticks; and nothing is evicted without  *)
(* the evidence of a complete sync.                                        *)
(*                                                                         *)
(* CacheInRegistry is not inductive: that the upsert keeps it rests on the *)
(* ref published just before (cursor), and that the end of an eviction     *)
(* keeps it on the cache having been emptied of every leaving pool first.  *)
(* ActiveOnOffer and EvictionJustified hold at the end of a sync because   *)
(* of what is known within it (MInv): which ids are owed a read, what was  *)
(* selected, and that only what has been published gets installed.         *)
(***************************************************************************)
EXTENDS Indexer, FiniteSetTheorems, SequenceTheorems, TLAPS

\* Between its two publishing writes a pool already has its ref.
RefBeforeState ==
  cursor # None => phase = "publish" /\ cursor \in todo /\ cursor \in registry

\* While the registry lock is held, a leaving pool still cached is still to do.
StateBeforeRef ==
  phase = "evict" => todo \subseteq Leaving /\ DOMAIN cache \intersect Leaving \subseteq todo

IInv == CacheInRegistry /\ RefBeforeState /\ StateBeforeRef

-----------------------------------------------------------------------------
\* Put adds one pool to a partial function, Drop removes one.
LEMMA PutDomain ==
  ASSUME NEW f, NEW p, NEW v
  PROVE  DOMAIN Put(f, p, v) = DOMAIN f \union {p}
  BY DEF Put

\* Dropping removes exactly the pool dropped.
LEMMA DropDomain ==
  ASSUME NEW f, NEW p
  PROVE  DOMAIN Drop(f, p) = DOMAIN f \ {p}
  BY DEF Drop

\* Nothing is published at the start.
LEMMA InitIInv == Init => IInv
  BY DEF Init, NoPools, IInv, CacheInRegistry, RefBeforeState, StateBeforeRef

\* Steps that write neither shared structure and do not enter an eviction: the turn,
\* the reads, the selection, the ticks, the chain.
LEMMA QuietIInv ==
  ASSUME IInv, UNCHANGED <<cache, registry>>, phase' # "evict",
         \/ cursor = None /\ cursor' = None
         \/ UNCHANGED <<phase, todo, cursor>>
  PROVE  IInv'
  BY DEF IInv, CacheInRegistry, RefBeforeState, StateBeforeRef

\* The ref comes first.
LEMMA PublishRefIInv ==
  ASSUME IInv, NEW p \in Pool, PublishRef(p)
  PROVE  IInv'
  BY DEF IInv, CacheInRegistry, RefBeforeState, StateBeforeRef, PublishRef

\* The state follows for a pool whose ref is there.
LEMMA UpsertStateIInv ==
  ASSUME IInv, UpsertState
  PROVE  IInv'
<1>1. DOMAIN cache' = DOMAIN cache \union {cursor} /\ registry' = registry
  BY PutDomain DEF UpsertState
<1>2. cursor \in registry /\ cursor' = None /\ phase' = "publish"
  BY DEF IInv, RefBeforeState, UpsertState
<1> QED
  BY <1>1, <1>2 DEF IInv, CacheInRegistry, RefBeforeState, StateBeforeRef

\* An eviction starts with every leaving pool still to do.
LEMMA StartEvictIInv ==
  ASSUME IInv, StartEvict
  PROVE  IInv'
<1>1. cursor = None /\ cursor' = None
  BY DEF IInv, RefBeforeState, StartEvict, Synced
<1>2. Leaving' = Leaving /\ todo' = Leaving /\ UNCHANGED <<cache, registry>>
  BY DEF StartEvict, Leaving, Cur, sets, shared, sync
<1> QED
  BY <1>1, <1>2 DEF IInv, CacheInRegistry, RefBeforeState, StateBeforeRef

\* The state leaves first.
LEMMA EvictStateIInv ==
  ASSUME IInv, NEW p \in Pool, EvictState(p)
  PROVE  IInv'
<1>1. DOMAIN cache' = DOMAIN cache \ {p} /\ registry' = registry
  BY DropDomain DEF EvictState
<1>2. phase = "evict" /\ todo' = todo \ {p} /\ Leaving' = Leaving /\ cursor' = None
  BY DEF IInv, RefBeforeState, EvictState, Leaving, Cur, sets, sync
<1> QED
  BY <1>1, <1>2 DEF IInv, CacheInRegistry, RefBeforeState, StateBeforeRef

\* The lock is released once the cache holds no leaving pool.
LEMMA EndEvictIInv ==
  ASSUME IInv, EndEvict
  PROVE  IInv'
<1>1. DOMAIN cache \intersect Leaving = {} /\ cursor = None
  BY DEF IInv, RefBeforeState, StateBeforeRef, EndEvict
<1>2. /\ cache' = cache /\ registry' = registry \ Leaving
      /\ cursor' = None /\ phase' \in {"turn", "idle"}
  BY <1>1 DEF EndEvict, NextDex
<1> QED
  BY <1>1, <1>2 DEF IInv, CacheInRegistry, RefBeforeState, StateBeforeRef

\* The invariant survives every step of a round.
LEMMA SyncIInv == IInv /\ Sync => IInv'
<1> SUFFICES ASSUME IInv, Sync PROVE IInv'
  OBVIOUS
<1>1. CASE Discover
  BY <1>1, QuietIInv DEF Discover, StartSync, shared, IInv, RefBeforeState
<1>2. CASE FastTurn
  BY <1>2, QuietIInv DEF FastTurn, StartSync, NextDex, shared, sync, IInv, RefBeforeState
<1>3. CASE StartPublish
  BY <1>3, QuietIInv DEF StartPublish, shared, IInv, RefBeforeState
<1>4. CASE UpsertState
  BY <1>4, UpsertStateIInv
<1>5. CASE Preserve \/ Install
  <2>1. cursor = None /\ cursor' = None
    BY <1>5 DEF Preserve, Install, Synced, IInv, RefBeforeState
  <2> QED
    BY <1>5, <2>1, QuietIInv DEF Preserve, Install, NextDex, shared
<1>6. CASE StartEvict
  BY <1>6, StartEvictIInv
<1>7. CASE EndEvict
  BY <1>7, EndEvictIInv
<1>8. ASSUME NEW p \in Pool, ReadBatch(p) \/ LoadTicks(p) PROVE IInv'
  BY <1>8, QuietIInv DEF ReadBatch, LoadTicks, shared, IInv, RefBeforeState
<1>9. ASSUME NEW p \in Pool, PublishRef(p) \/ EvictState(p) PROVE IInv'
  BY <1>9, PublishRefIInv, EvictStateIInv
<1>10. ASSUME NEW top \in SUBSET Kept, Select(top) PROVE IInv'
  BY <1>10, QuietIInv DEF Select, shared, IInv, RefBeforeState
<1> QED
  BY <1>1, <1>2, <1>3, <1>4, <1>5, <1>6, <1>7, <1>8, <1>9, <1>10 DEF Sync

\* The invariant survives every step.
LEMMA NextIInv == IInv /\ [Next]_vars => IInv'
<1> SUFFICES ASSUME IInv, [Next]_vars PROVE IInv'
  OBVIOUS
<1>1. CASE Sync
  BY <1>1, SyncIInv
<1>2. ASSUME NEW kind \in {"discovery", "fast"}, StartRound(kind) PROVE IInv'
  BY <1>2, QuietIInv DEF StartRound, shared, IInv, RefBeforeState
<1>3. CASE \/ \E p \in Pool : List(p) \/ \E level \in Level : Move(p, level)
           \/ UNCHANGED vars
  <2>1. UNCHANGED <<shared, sets, sync, control>>
    BY <1>3 DEF List, Move, vars
  <2> QED
    BY <2>1 DEF shared, sets, sync, control, IInv, CacheInRegistry, RefBeforeState,
       StateBeforeRef, Leaving, Cur
<1> QED
  BY <1>1, <1>2, <1>3 DEF Next

\* At every reachable state of every instance, whatever fails, a cached pool has its
\* live ref: sync_pools writes the registry before the cache, install_active_set
\* empties the cache before it lets go of the registry lock.
THEOREM CacheResolvable == Spec => []CacheInRegistry
<1>1. Init => IInv
  BY InitIInv
<1>2. IInv /\ [Next]_vars => IInv'
  BY NextIInv
<1>3. IInv => CacheInRegistry
  BY DEF IInv
<1> QED
  BY <1>1, <1>2, <1>3, PTL DEF Spec

-----------------------------------------------------------------------------
(* Membership: what a sync knows of its pools, and what it owes them *)

\* What TypeOK says of the creation events.
ListedType ==
  listed \in [Dex -> Seq(Pool)] /\ \A d \in Dex : Range(listed[d]) \subseteq OfDex(d)

\* Oldest first: what discovery reaches only grows.
StillDiscovered == \A d \in Dex : Discovered(d) \subseteq Discovered(d)'

\* Discoveries only grow, and every active pool was discovered.
Membership ==
  \A d \in Dex : active[d] \subseteq candidates[d] /\ candidates[d] \subseteq Discovered(d) \intersect OfDex(d)

InSync == phase \in {"read", "load", "publish", "evict"}

\* The pools this sync reads.
Ids == IF round = "discovery" THEN candidates[Cur] ELSE active[Cur]

\* As long as no batch has failed, every pool was read or is still to be.
Reads ==
  InSync =>
    /\ IsFiniteSet(DOMAIN seen) /\ DOMAIN seen \subseteq Ids
    /\ phase = "read" => new = {} /\ todo \subseteq Ids
    /\ complete => Ids \subseteq DOMAIN seen \union (IF phase = "read" THEN todo ELSE {})

HasTicks(p) == p \in TickPools => p \in tickCache

Outranked(p) ==
  \/ seen[p] < MinLiquidity
  \/ Cardinality({q \in DOMAIN seen \ {p} : seen[q] >= seen[p]}) >= MaxPools

\* A pool that was active stays, unless the reads speak against it.
Selected ==
  /\ phase \in {"load", "publish", "evict"} =>
       /\ new \subseteq Kept /\ \A p \in new : HasTicks(p)
       /\ \A p \in DOMAIN seen \intersect active[Cur] :
            p \in new \/ (phase = "load" /\ p \in todo) \/ Outranked(p)
  /\ phase = "load" => todo \subseteq Kept
  /\ phase = "publish" => todo \subseteq new /\ new \ todo \subseteq DOMAIN cache
  /\ phase = "evict" => complete /\ new \subseteq DOMAIN cache

MInv == TypeOK /\ Membership /\ Reads /\ Selected /\ ActiveOnOffer

\* What discovery reaches of a DEX are pools of it.
LEMMA DiscoveredType ==
  ASSUME ListedType, NEW d \in Dex
  PROVE  Discovered(d) \subseteq OfDex(d) /\ Discovered(d) \subseteq Pool
<1>1. Discovered(d) \subseteq Range(listed[d])
  BY DEF Discovered, Range
<1> QED
  BY <1>1 DEF ListedType, OfDex

\* A creation comes last, so it moves none of the earlier ones.
LEMMA ListDiscovers ==
  ASSUME ListedType, NEW p \in Pool, List(p)
  PROVE  ListedType' /\ StillDiscovered
<1> DEFINE d == DexOf[p]
<1>1. /\ d \in Dex /\ listed \in [Dex -> Seq(Pool)] /\ listed[d] \in Seq(Pool)
      /\ listed' = [listed EXCEPT ![d] = Append(listed[d], p)]
  BY DEF List, ListedType
<1> HIDE DEF d
<1>2. /\ Append(listed[d], p) \in Seq(Pool)
      /\ Len(Append(listed[d], p)) = Len(listed[d]) + 1
      /\ \A i \in 1 .. Len(listed[d]) : Append(listed[d], p)[i] = listed[d][i]
      /\ Append(listed[d], p)[Len(listed[d]) + 1] = p
  BY <1>1, AppendProperties
<1>3. /\ listed' \in [Dex -> Seq(Pool)]
      /\ listed'[d] = Append(listed[d], p)
      /\ \A e \in Dex \ {d} : listed'[e] = listed[e]
  BY <1>1, <1>2
<1>4. /\ Len(listed[d]) \in Nat
      /\ DOMAIN listed[d] = 1 .. Len(listed[d])
      /\ DOMAIN Append(listed[d], p) = 1 .. (Len(listed[d]) + 1)
  BY <1>1, <1>2, LenProperties
<1>5. \A i \in DOMAIN listed[d] :
        i \in DOMAIN Append(listed[d], p) /\ Append(listed[d], p)[i] = listed[d][i]
  BY <1>2, <1>4
<1>6. ASSUME NEW e \in Dex PROVE Discovered(e) \subseteq Discovered(e)'
  <2>1. CASE e = d
    BY <1>3, <1>5, <2>1 DEF Discovered
  <2>2. CASE e # d
    BY <1>3, <2>2 DEF Discovered
  <2> QED
    BY <2>1, <2>2
<1>7. ASSUME NEW e \in Dex PROVE Range(listed'[e]) \subseteq OfDex(e)
  <2>1. CASE e = d
    <3>1. \A i \in DOMAIN Append(listed[d], p) :
            Append(listed[d], p)[i] = p \/ (i \in DOMAIN listed[d] /\
              Append(listed[d], p)[i] = listed[d][i])
      BY <1>2, <1>4
    <3>2. Range(listed'[e]) \subseteq Range(listed[e]) \union {p}
      BY <1>3, <2>1, <3>1 DEF Range
    <3>3. p \in OfDex(e)
      BY <2>1 DEF OfDex, d
    <3> QED
      BY <3>2, <3>3 DEF ListedType
  <2>2. CASE e # d
    BY <1>3, <2>2 DEF ListedType
  <2> QED
    BY <2>1, <2>2
<1> QED
  BY <1>3, <1>6, <1>7 DEF ListedType, StillDiscovered

\* Nothing is created while the events stay as they are.
LEMMA SameListed ==
  ASSUME ListedType, UNCHANGED listed
  PROVE  ListedType' /\ StillDiscovered
  BY DEF ListedType, StillDiscovered, Discovered

\* The turn is always some adapter of the list.
LEMMA CurIsDex ==
  ASSUME TypeOK
  PROVE  /\ Len(Adapters) \in Nat \ {0} /\ at \in 1 .. Len(Adapters) /\ Cur \in Dex
         /\ candidates[Cur] \subseteq Pool /\ active[Cur] \subseteq Pool
         /\ candidates \in [Dex -> SUBSET Pool] /\ active \in [Dex -> SUBSET Pool]
<1>1. Len(Adapters) \in Nat \ {0}
  BY IndexerAssumption, EmptySeq, LenProperties DEF IndexerAssumption
<1>2. Cur \in Dex
  BY DEF TypeOK, Dex, Cur
<1> QED
  BY <1>1, <1>2 DEF TypeOK

\* The turn passes to the next adapter, or the round ends.
LEMMA NextDexTypes ==
  ASSUME TypeOK, NextDex
  PROVE  at' \in 1 .. Len(Adapters) /\ phase' \in {"idle", "turn"}
  BY CurIsDex DEF NextDex

\* Between two syncs nothing is owed.
LEMMA IdleMInv ==
  ASSUME MInv, TypeOK', Membership', phase' \in {"idle", "turn"}, ActiveOnOffer'
  PROVE  MInv'
  BY DEF MInv, Reads, Selected, InSync

\* Failures stay counted.
LEMMA FailureType ==
  ASSUME TypeOK, Failure \/ UNCHANGED failures
  PROVE  failures' \in 0 .. MaxFailures
  BY IndexerAssumption DEF TypeOK, Failure, IndexerAssumption

\* Nothing is active at the start.
LEMMA InitMInv == Init => MInv
<1> SUFFICES ASSUME Init PROVE MInv
  OBVIOUS
<1>1. 1 \in 1 .. Len(Adapters)
  BY IndexerAssumption, EmptySeq, LenProperties DEF IndexerAssumption
<1>2. ListedType
  <2>1. \A d \in Dex : listed[d] \in Seq(OfDex(d))
    BY HistoriesAssumption DEF Init
  <2>2. ASSUME NEW d \in Dex PROVE listed[d] \in Seq(Pool) /\ Range(listed[d]) \subseteq OfDex(d)
    <3>1. /\ Len(listed[d]) \in Nat /\ DOMAIN listed[d] = 1 .. Len(listed[d])
          /\ \A i \in 1 .. Len(listed[d]) : listed[d][i] \in OfDex(d)
          /\ listed[d] \in [1 .. Len(listed[d]) -> OfDex(d)]
      BY <2>1, <2>2, LenProperties, ElementOfSeq
    <3>2. OfDex(d) \subseteq Pool
      BY DEF OfDex
    <3>3. listed[d] \in Seq(Pool)
      <4>1. listed[d] \in [1 .. Len(listed[d]) -> Pool]
        BY <3>1, <3>2
      <4> QED
        BY <3>1, <4>1, SeqDef
    <3> QED
      BY <3>1, <3>3 DEF Range
  <2>3. DOMAIN listed = Dex /\ listed = [d \in Dex |-> listed[d]]
    BY HistoriesAssumption DEF Init
  <2> QED
    BY <2>2, <2>3 DEF ListedType
<1>3. TypeOK
  BY <1>1, <1>2, IndexerAssumption
  DEF Init, TypeOK, ListedType, NoPools, IndexerAssumption
<1> QED
  BY <1>3 DEF Init, MInv, Membership, Reads, Selected, InSync, ActiveOnOffer

\* A round starts with the first adapter.
LEMMA StartRoundMInv ==
  ASSUME MInv, NEW kind \in {"discovery", "fast"}, StartRound(kind)
  PROVE  MInv'
<1>1. phase = "idle" /\ phase' = "turn" /\ at' = 1 /\ round' = kind
      /\ UNCHANGED <<env, sets, shared, sync, todo, cursor, failures>>
  BY DEF StartRound
<1>2. TypeOK'
  BY <1>1, CurIsDex DEF MInv, TypeOK, env, sets, shared, sync
<1>3. Membership' /\ ActiveOnOffer'
  BY <1>1 DEF MInv, Membership, ActiveOnOffer, env, sets, shared
<1> QED
  BY <1>1, <1>2, <1>3, IdleMInv

\* The chain and the announcements move on under a running sync.
LEMMA ChainMInv ==
  ASSUME MInv, chain' \in [Pool -> Level], ListedType', StillDiscovered,
         moves' \in 0 .. MaxMoves, UNCHANGED <<sets, shared, sync, control, failures>>
  PROVE  MInv'
<1>1. TypeOK'
  BY DEF MInv, TypeOK, ListedType, sets, shared, sync, control
<1>2. Membership'
  BY DEF MInv, Membership, StillDiscovered, sets
<1>3. Reads' /\ Selected' /\ ActiveOnOffer'
  BY DEF MInv, Reads, Selected, ActiveOnOffer, InSync, Ids, HasTicks, Outranked, Kept, Cur,
     sets, shared, sync, control
<1> QED
  BY <1>1, <1>2, <1>3 DEF MInv

\* A sync begins with nothing read.
LEMMA StartSyncMInv ==
  ASSUME MInv, TypeOK', Membership', ActiveOnOffer',
         StartSync(Ids'), cursor' = cursor
  PROVE  MInv'
<1>1. phase' = "read" /\ todo' = Ids' /\ seen' = NoPools /\ complete' = TRUE /\ new' = {}
  BY DEF StartSync
<1>2. DOMAIN seen' = {} /\ IsFiniteSet(DOMAIN seen')
  BY <1>1, FS_EmptySet DEF NoPools
<1>3. Reads'
  BY <1>1, <1>2 DEF Reads
<1>4. Selected'
  BY <1>1 DEF Selected
<1> QED
  BY <1>3, <1>4 DEF MInv

\* A discovery replaces the candidates, never what is active.
LEMMA DiscoverMInv ==
  ASSUME MInv, Discover
  PROVE  MInv'
<1>1. /\ phase = "turn" /\ round = "discovery" /\ StartSync(candidates'[Cur])
      /\ UNCHANGED <<env, active, tickCache, shared, round, at, cursor>>
  BY DEF Discover
<1>2. /\ candidates' \in [Dex -> SUBSET Pool] /\ failures' \in 0 .. MaxFailures
      /\ \A d \in Dex : /\ candidates[d] \subseteq candidates'[d]
                        /\ candidates'[d] \subseteq Discovered(d) \intersect OfDex(d)
  <2>1. Discovered(Cur) \subseteq OfDex(Cur) \intersect Pool
    BY DiscoveredType, CurIsDex DEF MInv, TypeOK, ListedType
  <2>2. CASE candidates' = candidates /\ Failure
    BY <2>2, IndexerAssumption DEF MInv, TypeOK, Membership, Failure, IndexerAssumption
  <2>3. CASE candidates' = [candidates EXCEPT ![Cur] = Discovered(Cur)]
             /\ UNCHANGED failures
    BY <2>1, <2>3, CurIsDex DEF MInv, TypeOK, Membership
  <2> QED
    BY <2>2, <2>3 DEF Discover
<1>3. Ids' = candidates'[Cur] /\ Ids' \subseteq Pool
  BY <1>1, <1>2, CurIsDex DEF Ids, Cur, MInv
<1>4. TypeOK'
  BY <1>1, <1>2, <1>3 DEF StartSync, NoPools, MInv, TypeOK, env, shared
<1>5. Membership'
  BY <1>1, <1>2 DEF MInv, Membership, env
<1>6. ActiveOnOffer'
  BY <1>1 DEF StartSync, MInv, ActiveOnOffer, shared
<1> QED
  BY <1>1, <1>3, <1>4, <1>5, <1>6, StartSyncMInv

\* A fast turn reads what is active.
LEMMA FastTurnMInv ==
  ASSUME MInv, FastTurn
  PROVE  MInv'
<1>1. /\ phase = "turn" /\ round = "fast"
      /\ UNCHANGED <<env, sets, shared, round, cursor, failures>>
  BY DEF FastTurn
<1>2. CASE active[Cur] = {}
  <2>1. NextDex /\ UNCHANGED <<sync, todo>>
    BY <1>2 DEF FastTurn
  <2>2. TypeOK'
    BY <1>1, <2>1, NextDexTypes DEF MInv, TypeOK, env, sets, shared, sync
  <2>3. Membership' /\ ActiveOnOffer'
    BY <1>1 DEF MInv, Membership, ActiveOnOffer, env, sets, shared
  <2> QED
    BY <2>1, <2>2, <2>3, NextDexTypes, IdleMInv DEF MInv
<1>3. CASE active[Cur] # {}
  <2>1. StartSync(active[Cur]) /\ at' = at
    BY <1>3 DEF FastTurn
  <2>2. Ids' = active[Cur]
    BY <1>1, <2>1 DEF Ids, Cur, sets
  <2>3. TypeOK'
    BY <1>1, <2>1, CurIsDex DEF StartSync, NoPools, MInv, TypeOK, env, sets, shared
  <2>4. Membership' /\ ActiveOnOffer'
    BY <1>1, <2>1 DEF StartSync, MInv, Membership, ActiveOnOffer, env, sets, shared
  <2> QED
    BY <1>1, <2>1, <2>2, <2>3, <2>4, StartSyncMInv
<1> QED
  BY <1>2, <1>3

\* Adding one value keeps the type of a partial function.
LEMMA PutTypes ==
  ASSUME NEW f, NEW p \in Pool, NEW v, NEW V, DOMAIN f \subseteq Pool,
         \A q \in DOMAIN f : f[q] \in V, v \in V
  PROVE  DOMAIN Put(f, p, v) \subseteq Pool /\ \A q \in DOMAIN Put(f, p, v) : Put(f, p, v)[q] \in V
  BY DEF Put

\* A batch adds what decoded, or marks the sync incomplete.
LEMMA ReadBatchMInv ==
  ASSUME MInv, NEW p \in Pool, ReadBatch(p)
  PROVE  MInv'
<1>1. /\ phase = "read" /\ p \in todo /\ todo' = todo \ {p}
      /\ UNCHANGED <<env, sets, shared, new, round, at, phase, cursor>>
  BY DEF ReadBatch
<1>2. \/ seen' = Put(seen, p, chain[p]) /\ UNCHANGED <<complete, failures>>
      \/ seen' = Put(seen, p, 0) /\ UNCHANGED complete /\ Failure
      \/ complete' = FALSE /\ UNCHANGED seen /\ Failure
  BY DEF ReadBatch
<1>3. failures' \in 0 .. MaxFailures /\ complete' \in BOOLEAN
  <2>1. Failure \/ UNCHANGED failures
    BY <1>2
  <2>2. complete' = complete \/ complete' = FALSE
    BY <1>2
  <2>3. complete' \in BOOLEAN
    BY <2>2 DEF MInv, TypeOK
  <2> QED
    BY <2>1, <2>3, FailureType DEF MInv
<1>4. /\ DOMAIN seen' \subseteq Pool /\ \A q \in DOMAIN seen' : seen'[q] \in Level \union {0}
      /\ \/ DOMAIN seen' = DOMAIN seen \union {p} /\ complete' = complete
         \/ DOMAIN seen' = DOMAIN seen /\ complete' = FALSE
  <2>1. DOMAIN seen \subseteq Pool /\ (\A q \in DOMAIN seen : seen[q] \in Level \union {0})
        /\ chain[p] \in Level \union {0} /\ 0 \in Level \union {0}
    BY DEF MInv, TypeOK
  <2>2. ASSUME NEW v \in Level \union {0}, seen' = Put(seen, p, v)
        PROVE  /\ DOMAIN seen' \subseteq Pool /\ \A q \in DOMAIN seen' : seen'[q] \in Level \union {0}
               /\ DOMAIN seen' = DOMAIN seen \union {p}
    BY <2>1, <2>2, PutTypes, PutDomain
  <2> QED
    BY <1>2, <2>1, <2>2
<1>5. TypeOK'
  BY <1>1, <1>3, <1>4 DEF MInv, TypeOK, env, sets, shared
<1>6. Membership' /\ ActiveOnOffer'
  BY <1>1 DEF MInv, Membership, ActiveOnOffer, Cur, env, sets, shared
<1>7. Reads'
  <2>1. Ids' = Ids /\ p \in Ids
    BY <1>1 DEF Ids, Cur, sets, MInv, Reads, InSync
  <2>2. IsFiniteSet(DOMAIN seen') /\ DOMAIN seen' \subseteq Ids
    BY <1>1, <1>4, <2>1, FS_AddElement DEF MInv, Reads, InSync
  <2> QED
    BY <1>1, <1>4, <2>1, <2>2 DEF MInv, Reads, InSync
<1>8. Selected'
  BY <1>1 DEF Selected
<1> QED
  BY <1>5, <1>6, <1>7, <1>8 DEF MInv

\* Whatever the selection leaves out has been outranked.
LEMMA SelectOutranks ==
  ASSUME MInv, NEW top \in SUBSET Kept, Select(top), NEW p \in DOMAIN seen, p \notin top
  PROVE  Outranked(p)
<1>1. /\ IsFiniteSet(DOMAIN seen) /\ MaxPools \in Nat \ {0} /\ MinLiquidity \in Nat
      /\ \A q \in DOMAIN seen : seen[q] \in Nat
  <2>1. IsFiniteSet(DOMAIN seen)
    BY DEF MInv, Reads, InSync, Select
  <2>2. Level \subseteq Nat /\ MaxPools \in Nat \ {0} /\ MinLiquidity \in Nat
    BY IndexerAssumption DEF IndexerAssumption
  <2>3. \A q \in DOMAIN seen : seen[q] \in Level \union {0}
    BY DEF MInv, TypeOK
  <2>4. \A q \in DOMAIN seen : seen[q] \in Nat
    <3>1. Level \union {0} \subseteq Nat
      BY <2>2
    <3> QED
      BY <2>3, <3>1
  <2> QED
    BY <2>1, <2>2, <2>4
<1>2. CASE p \notin Kept
  BY <1>1, <1>2 DEF Kept, Outranked
<1>3. CASE p \in Kept
  <2>1. IsFiniteSet(Kept) /\ IsFiniteSet(top) /\ Cardinality(Kept) \in Nat
    <3>1. Kept \subseteq DOMAIN seen
      BY DEF Kept
    <3> QED
      BY <1>1, <3>1, FS_Subset, FS_CardinalityType
  <2>2. Cardinality(top) < Cardinality(Kept)
    <3>1. top # Kept
      BY <1>3
    <3>2. Cardinality(top) <= Cardinality(Kept) /\ Cardinality(top) # Cardinality(Kept)
      BY <2>1, <3>1, FS_Subset
    <3> QED
      BY <2>1, <3>2, FS_CardinalityType
  <2>3. Cardinality(top) = MaxPools
    BY <2>1, <2>2 DEF Select
  <2> DEFINE above == {q \in DOMAIN seen \ {p} : seen[q] >= seen[p]}
  <2>4. top \subseteq above /\ above \subseteq DOMAIN seen
    BY <1>1, <1>3 DEF Select, Kept
  <2>5. IsFiniteSet(above) /\ Cardinality(above) \in Nat
    BY <1>1, <2>4, FS_Subset, FS_CardinalityType
  <2> HIDE DEF above
  <2>6. Cardinality(top) <= Cardinality(above)
    BY <2>4, <2>5, FS_Subset
  <2>7. Cardinality(above) >= MaxPools
    BY <1>1, <2>3, <2>5, <2>6
  <2> QED
    BY <2>7 DEF above, Outranked
<1> QED
  BY <1>2, <1>3

\* What is selected was read, is liquid and fits the cap.
LEMMA SelectMInv ==
  ASSUME MInv, NEW top \in SUBSET Kept, Select(top)
  PROVE  MInv'
<1>1. /\ phase = "read" /\ todo = {} /\ todo' = top /\ phase' = "load"
      /\ UNCHANGED <<env, sets, shared, sync, round, at, cursor, failures>>
  BY DEF Select
<1>2. Kept \subseteq DOMAIN seen
  BY DEF Kept
<1>3. TypeOK'
  BY <1>1, <1>2 DEF MInv, TypeOK, env, sets, shared, sync
<1>4. Membership' /\ ActiveOnOffer'
  BY <1>1 DEF MInv, Membership, ActiveOnOffer, Cur, env, sets, shared
<1>5. Reads'
  BY <1>1 DEF MInv, Reads, InSync, Ids, Cur, sets, sync
<1>6. Selected'
  <2>1. new' = {} /\ Kept' = Kept /\ (DOMAIN seen \intersect active[Cur])' = DOMAIN seen \intersect active[Cur]
        /\ \A q : Outranked(q)' = Outranked(q)
    BY <1>1 DEF MInv, Reads, InSync, Kept, Cur, Outranked, sets, sync
  <2>2. \A q \in DOMAIN seen : q \in top \/ Outranked(q)
    BY SelectOutranks
  <2> QED
    BY <1>1, <2>1, <2>2 DEF Selected
<1> QED
  BY <1>3, <1>4, <1>5, <1>6 DEF MInv

\* An active pool has ticks, so that a tick load that fails does not drop it.
LEMMA LoadTicksMInv ==
  ASSUME MInv, NEW p \in Pool, LoadTicks(p)
  PROVE  MInv'
<1>1. /\ phase = "load" /\ p \in todo /\ todo' = todo \ {p}
      /\ UNCHANGED <<env, candidates, active, shared, seen, complete, round, at, phase, cursor>>
  BY DEF LoadTicks
<1>2. /\ tickCache \subseteq tickCache' /\ tickCache' \subseteq TickPools
      /\ new' \in {new, new \union {p}} /\ failures' \in 0 .. MaxFailures
      /\ p \in new' \/ (p \in TickPools /\ p \notin tickCache)
      /\ p \in new' => (p \in TickPools => p \in tickCache')
  <2>1. CASE /\ tickCache' = IF NeedsTicks(p) THEN tickCache \union {p} ELSE tickCache
             /\ new' = new \union {p} /\ UNCHANGED failures
    <3>1. tickCache \subseteq TickPools /\ failures \in 0 .. MaxFailures
      BY DEF MInv, TypeOK
    <3> QED
      BY <2>1, <3>1 DEF NeedsTicks
  <2>2. CASE /\ NeedsTicks(p) /\ Failure /\ UNCHANGED tickCache
             /\ new' = IF p \in tickCache THEN new \union {p} ELSE new
    <3>1. tickCache \subseteq TickPools /\ failures' \in 0 .. MaxFailures
      BY <2>2, FailureType DEF MInv, TypeOK
    <3>2. p \in new' \/ p \notin tickCache
      BY <2>2
    <3>3. p \in new' => p \in tickCache \/ p \in new
      BY <2>2
    <3> QED
      BY <1>1, <2>2, <3>1, <3>2, <3>3 DEF NeedsTicks, MInv, Selected, HasTicks
  <2> QED
    BY <2>1, <2>2 DEF LoadTicks
<1>3. TypeOK'
  BY <1>1, <1>2 DEF MInv, TypeOK, env, shared
<1>4. Membership' /\ ActiveOnOffer'
  BY <1>1, <1>2 DEF MInv, Membership, ActiveOnOffer, Cur, env, shared
<1>5. Reads'
  BY <1>1 DEF MInv, Reads, InSync, Ids, Cur
<1>6. Selected'
  <2>1. Kept' = Kept /\ Cur' = Cur /\ \A q : Outranked(q)' = Outranked(q)
    BY <1>1 DEF Kept, Cur, Outranked
  <2>2. new' \subseteq Kept /\ \A q \in new' : HasTicks(q)'
    BY <1>1, <1>2 DEF MInv, Selected, HasTicks
  <2>3. p \in active[Cur] => p \in new'
    BY <1>2, CurIsDex DEF MInv, ActiveOnOffer
  <2>4. ASSUME NEW q \in DOMAIN seen \intersect active[Cur]
        PROVE  q \in new' \/ q \in todo' \/ Outranked(q)
    BY <1>1, <1>2, <2>3, <2>4 DEF MInv, Selected
  <2> QED
    BY <1>1, <2>1, <2>2, <2>4 DEF MInv, Selected
<1> QED
  BY <1>3, <1>4, <1>5, <1>6 DEF MInv

\* What is published was selected and has its ticks.
LEMMA StartPublishMInv ==
  ASSUME MInv, StartPublish
  PROVE  MInv'
<1>1. /\ phase = "load" /\ todo = {} /\ todo' = new /\ phase' = "publish"
      /\ UNCHANGED <<env, sets, shared, sync, round, at, cursor, failures>>
  BY DEF StartPublish
<1>2. TypeOK'
  BY <1>1 DEF MInv, TypeOK, env, sets, shared, sync
<1>3. Membership' /\ ActiveOnOffer'
  BY <1>1 DEF MInv, Membership, ActiveOnOffer, Cur, env, sets, shared
<1>4. Reads'
  BY <1>1 DEF MInv, Reads, InSync, Ids, Cur, sets, sync
<1>5. Selected'
  <2>1. Kept' = Kept /\ Cur' = Cur /\ \A q : Outranked(q)' = Outranked(q) /\ HasTicks(q)' = HasTicks(q)
    BY <1>1 DEF Kept, Cur, Outranked, HasTicks, sets, sync
  <2> QED
    BY <1>1, <2>1 DEF MInv, Selected, sets, sync
<1> QED
  BY <1>2, <1>3, <1>4, <1>5 DEF MInv

\* Publishing a ref changes nothing on offer.
LEMMA PublishRefMInv ==
  ASSUME MInv, NEW p \in Pool, PublishRef(p)
  PROVE  MInv'
<1>1. /\ phase = "publish" /\ registry' = registry \union {p} /\ cursor' = p
      /\ UNCHANGED <<env, sets, cache, sync, round, at, phase, todo, failures>>
  BY DEF PublishRef
<1>2. TypeOK'
  BY <1>1 DEF MInv, TypeOK, env, sets, sync
<1>3. Membership' /\ ActiveOnOffer'
  BY <1>1 DEF MInv, Membership, ActiveOnOffer, Cur, env, sets
<1>4. Reads' /\ Selected'
  BY <1>1 DEF MInv, Reads, Selected, InSync, Ids, HasTicks, Outranked, Kept, Cur, sets, sync
<1> QED
  BY <1>2, <1>3, <1>4 DEF MInv

\* Publishing a state puts what was read on offer.
LEMMA UpsertStateMInv ==
  ASSUME MInv, IInv, UpsertState
  PROVE  MInv'
<1>1. /\ phase = "publish" /\ cursor \in todo /\ cache' = Put(cache, cursor, seen[cursor])
      /\ todo' = todo \ {cursor} /\ cursor' = None
      /\ UNCHANGED <<env, sets, registry, sync, round, at, phase, failures>>
  BY DEF UpsertState, IInv, RefBeforeState
<1>2. cursor \in Pool /\ seen[cursor] \in Level
  <2>1. cursor \in Kept
    BY <1>1 DEF MInv, Selected
  <2>2. cursor \in DOMAIN seen /\ seen[cursor] >= MinLiquidity /\ seen[cursor] \in Level \union {0}
    BY <2>1 DEF Kept, MInv, TypeOK
  <2>3. seen[cursor] # 0
    BY <2>2, IndexerAssumption DEF IndexerAssumption
  <2> QED
    BY <2>2, <2>3 DEF MInv, TypeOK
<1>3. /\ DOMAIN cache' \subseteq Pool /\ \A q \in DOMAIN cache' : cache'[q] \in Level
      /\ DOMAIN cache' = DOMAIN cache \union {cursor}
  <2>1. DOMAIN cache \subseteq Pool /\ \A q \in DOMAIN cache : cache[q] \in Level
    BY DEF MInv, TypeOK
  <2> QED
    BY <1>1, <1>2, <2>1, PutTypes, PutDomain
<1>4. TypeOK'
  BY <1>1, <1>3 DEF MInv, TypeOK, env, sets, sync
<1>5. Membership' /\ ActiveOnOffer'
  BY <1>1, <1>3 DEF MInv, Membership, ActiveOnOffer, Cur, env, sets
<1>6. Reads'
  BY <1>1 DEF MInv, Reads, InSync, Ids, Cur, sets, sync
<1>7. Selected'
  <2>1. Kept' = Kept /\ Cur' = Cur /\ \A q : Outranked(q)' = Outranked(q) /\ HasTicks(q)' = HasTicks(q)
    BY <1>1 DEF Kept, Cur, Outranked, HasTicks, sets, sync
  <2> QED
    BY <1>1, <1>3, <2>1 DEF MInv, Selected, sets, sync
<1> QED
  BY <1>4, <1>5, <1>6, <1>7 DEF MInv

\* An incomplete sync leaves the active set alone.
LEMMA PreserveMInv ==
  ASSUME MInv, Preserve
  PROVE  MInv'
<1>1. NextDex /\ phase = "publish" /\ UNCHANGED <<env, sets, shared, sync, round, todo, cursor, failures>>
  BY DEF Preserve, Synced
<1>2. TypeOK'
  BY <1>1, NextDexTypes DEF MInv, TypeOK, env, sets, shared, sync
<1>3. Membership' /\ ActiveOnOffer'
  BY <1>1 DEF MInv, Membership, ActiveOnOffer, env, sets, shared
<1> QED
  BY <1>1, <1>2, <1>3, NextDexTypes, IdleMInv DEF MInv

\* The set of the sync becomes the active set: it was published, with ticks, and it is
\* of what this DEX was known to have.
LEMMA NewActive ==
  ASSUME MInv, phase \in {"publish", "evict"}, phase = "publish" => todo = {},
         active' = [active EXCEPT ![Cur] = new],
         UNCHANGED <<env, candidates, tickCache, cache>>, phase' \in {"idle", "turn"}
  PROVE  Membership' /\ ActiveOnOffer'
<1>1. active \in [Dex -> SUBSET Pool] /\ Cur \in Dex
  BY CurIsDex DEF MInv
<1>2. active'[Cur] = new /\ \A d \in Dex \ {Cur} : active'[d] = active[d]
  BY <1>1
<1>3. new \subseteq Ids /\ Ids \subseteq candidates[Cur]
  BY <1>1 DEF MInv, Selected, Reads, InSync, Kept, Ids, Membership
<1>4. Membership'
  BY <1>2, <1>3 DEF MInv, Membership, env
<1>5. ASSUME NEW d \in Dex, NEW p \in active'[d]
      PROVE  p \in DOMAIN cache /\ (p \in TickPools => p \in tickCache)
  <2>1. CASE d = Cur
    BY <1>2, <1>5, <2>1 DEF MInv, Selected, HasTicks
  <2>2. CASE d # Cur
    BY <1>2, <1>5, <2>2 DEF MInv, ActiveOnOffer
  <2> QED
    BY <2>1, <2>2
<1> QED
  BY <1>4, <1>5 DEF ActiveOnOffer

\* What is installed has been published; an incomplete sync installs over nothing only.
LEMMA InstallMInv ==
  ASSUME MInv, Install
  PROVE  MInv'
<1>1. /\ NextDex /\ phase = "publish" /\ todo = {} /\ active' = [active EXCEPT ![Cur] = new]
      /\ UNCHANGED <<env, candidates, tickCache, shared, sync, round, todo, cursor, failures>>
  BY DEF Install, Synced
<1>2. TypeOK'
  BY <1>1, NextDexTypes, CurIsDex DEF MInv, TypeOK, env, shared, sync
<1>3. Membership' /\ ActiveOnOffer'
  BY <1>1, NextDexTypes, NewActive DEF MInv, shared
<1> QED
  BY <1>1, <1>2, <1>3, NextDexTypes, IdleMInv DEF MInv

\* What is to leave is in the old active set and not in the new one.
LEMMA StartEvictMInv ==
  ASSUME MInv, StartEvict
  PROVE  MInv'
<1>1. /\ phase = "publish" /\ todo = {} /\ phase' = "evict" /\ todo' = Leaving /\ complete = TRUE
      /\ UNCHANGED <<env, sets, shared, sync, round, at, cursor, failures>>
  BY DEF StartEvict, Synced, Leaving, MInv, TypeOK
<1>2. TypeOK'
  BY <1>1, CurIsDex DEF MInv, TypeOK, Leaving, env, sets, shared, sync
<1>3. Membership' /\ ActiveOnOffer'
  BY <1>1 DEF MInv, Membership, ActiveOnOffer, Cur, env, sets, shared
<1>4. Reads'
  BY <1>1 DEF MInv, Reads, InSync, Ids, Cur, sets, sync
<1>5. Selected'
  <2>1. Kept' = Kept /\ Cur' = Cur /\ \A q : Outranked(q)' = Outranked(q) /\ HasTicks(q)' = HasTicks(q)
    BY <1>1 DEF Kept, Cur, Outranked, HasTicks, sets, sync
  <2> QED
    BY <1>1, <2>1 DEF MInv, Selected, sets, shared, sync
<1> QED
  BY <1>2, <1>3, <1>4, <1>5 DEF MInv

\* Eviction empties the cache of this DEX's leaving pools, which no other DEX has.
LEMMA EvictStateMInv ==
  ASSUME MInv, IInv, NEW p \in Pool, EvictState(p)
  PROVE  MInv'
<1>1. /\ phase = "evict" /\ cache' = Drop(cache, p) /\ todo' = todo \ {p} /\ p \in Leaving
      /\ UNCHANGED <<env, sets, registry, sync, round, at, phase, cursor, failures>>
  BY DEF EvictState, IInv, StateBeforeRef
<1>2. DOMAIN cache' = DOMAIN cache \ {p} /\ \A q \in DOMAIN cache' : cache'[q] = cache[q]
  BY <1>1 DEF Drop
<1>3. p \in active[Cur] /\ p \notin new
  BY <1>1 DEF Leaving
<1>4. TypeOK'
  BY <1>1, <1>2 DEF MInv, TypeOK, env, sets, sync
<1>5. Membership'
  BY <1>1 DEF MInv, Membership, env, sets
<1>6. ASSUME NEW d \in Dex, d # Cur PROVE p \notin active[d]
  <2>1. DexOf[p] = Cur
    BY <1>3, CurIsDex DEF MInv, Membership, OfDex
  <2> QED
    BY <1>6, <2>1 DEF MInv, Membership, OfDex
<1>7. ActiveOnOffer'
  BY <1>1, <1>2, <1>6 DEF MInv, ActiveOnOffer, Cur, sets
<1>8. Reads'
  BY <1>1 DEF MInv, Reads, InSync, Ids, Cur, sets, sync
<1>9. Selected'
  <2>1. Kept' = Kept /\ Cur' = Cur /\ \A q : Outranked(q)' = Outranked(q) /\ HasTicks(q)' = HasTicks(q)
    BY <1>1 DEF Kept, Cur, Outranked, HasTicks, sets, sync
  <2> QED
    BY <1>1, <1>2, <1>3, <2>1 DEF MInv, Selected, sets, sync
<1> QED
  BY <1>4, <1>5, <1>7, <1>8, <1>9 DEF MInv

\* Once the evicted are gone, the new set is the active one.
LEMMA EndEvictMInv ==
  ASSUME MInv, EndEvict
  PROVE  MInv'
<1>1. /\ NextDex /\ phase = "evict" /\ active' = [active EXCEPT ![Cur] = new]
      /\ registry' = registry \ Leaving
      /\ UNCHANGED <<env, candidates, tickCache, cache, sync, round, todo, cursor, failures>>
  BY DEF EndEvict
<1>2. TypeOK'
  BY <1>1, NextDexTypes, CurIsDex DEF MInv, TypeOK, env, sync
<1>3. Membership' /\ ActiveOnOffer'
  BY <1>1, NextDexTypes, NewActive DEF MInv
<1> QED
  BY <1>1, <1>2, <1>3, NextDexTypes, IdleMInv DEF MInv

\* The invariant survives every step.
LEMMA NextMInv == MInv /\ IInv /\ [Next]_vars => MInv'
<1> SUFFICES ASSUME MInv, IInv, [Next]_vars PROVE MInv'
  OBVIOUS
<1>1. CASE Discover \/ FastTurn \/ StartPublish \/ UpsertState
  BY <1>1, DiscoverMInv, FastTurnMInv, StartPublishMInv, UpsertStateMInv
<1>2. CASE Preserve \/ Install \/ StartEvict \/ EndEvict
  BY <1>2, PreserveMInv, InstallMInv, StartEvictMInv, EndEvictMInv
<1>3. ASSUME NEW p \in Pool, ReadBatch(p) \/ LoadTicks(p) \/ PublishRef(p) \/ EvictState(p)
      PROVE  MInv'
  BY <1>3, ReadBatchMInv, LoadTicksMInv, PublishRefMInv, EvictStateMInv
<1>4. ASSUME NEW top \in SUBSET Kept, Select(top) PROVE MInv'
  BY <1>4, SelectMInv
<1>5. ASSUME NEW kind \in {"discovery", "fast"}, StartRound(kind) PROVE MInv'
  BY <1>5, StartRoundMInv
<1>6. ASSUME NEW p \in Pool, List(p) PROVE MInv'
  <2>1. /\ chain' \in [Pool -> Level] /\ ListedType' /\ StillDiscovered
        /\ moves' \in 0 .. MaxMoves /\ UNCHANGED <<sets, shared, sync, control, failures>>
    BY <1>6, ListDiscovers DEF List, MInv, TypeOK, ListedType
  <2> QED
    BY <2>1, ChainMInv
<1>7. ASSUME NEW p \in Pool, NEW level \in Level, Move(p, level) PROVE MInv'
  <2>1. /\ chain' \in [Pool -> Level] /\ ListedType' /\ StillDiscovered
        /\ moves' \in 0 .. MaxMoves /\ UNCHANGED <<sets, shared, sync, control, failures>>
    BY <1>7, SameListed, IndexerAssumption
    DEF Move, MInv, TypeOK, ListedType, IndexerAssumption
  <2> QED
    BY <2>1, ChainMInv
<1>8. CASE UNCHANGED vars
  <2>1. /\ chain' \in [Pool -> Level] /\ ListedType' /\ StillDiscovered
        /\ moves' \in 0 .. MaxMoves /\ UNCHANGED <<sets, shared, sync, control, failures>>
    BY <1>8, SameListed DEF vars, env, MInv, TypeOK, ListedType
  <2> QED
    BY <2>1, ChainMInv
<1> QED
  BY <1>1, <1>2, <1>3, <1>4, <1>5, <1>6, <1>7, <1>8 DEF Next, Sync

\* What leaves was read and filtered out or outranked, in a complete sync.
LEMMA EvictionsJustified == MInv => EvictionJustified
<1> SUFFICES ASSUME MInv, phase = "evict", NEW p \in Leaving
             PROVE  p \in DOMAIN seen /\ Outranked(p)
  BY DEF EvictionJustified, Outranked
<1>1. p \in active[Cur] /\ p \notin new
  BY DEF Leaving
<1>2. active[Cur] \subseteq Ids
  BY CurIsDex DEF MInv, Membership, Ids
<1>3. p \in DOMAIN seen
  BY <1>1, <1>2 DEF MInv, Selected, Reads, InSync
<1> QED
  BY <1>1, <1>3 DEF MInv, Selected

\* Both invariants hold in every reachable state.
LEMMA IndexerInvariant == Spec => [](MInv /\ IInv)
<1>1. Init => MInv /\ IInv
  BY InitMInv, InitIInv
<1>2. MInv /\ IInv /\ [Next]_vars => (MInv /\ IInv)'
  BY NextMInv, NextIInv
<1> QED
  BY <1>1, <1>2, PTL DEF Spec

\* The indexer's records keep their types: above all, what is published was decoded and
\* passed the liquidity filter (indexer.rs, sync_pools).
THEOREM IndexerTypeCorrect == Spec => []TypeOK
  BY IndexerInvariant, PTL DEF MInv

\* An active pool is on offer, with the ticks it needs, whatever RPC fails and however the
\* syncs of the DEXes follow each other (indexer.rs, sync_pools and install_active_set).
THEOREM ActiveOffered == Spec => []ActiveOnOffer
  BY IndexerInvariant, PTL DEF MInv

\* No pool is evicted but on the evidence of a complete read of its DEX
\* (indexer.rs, install_active_set): a failed batch, a failed tick load or an old
\* discovery does not evict.
THEOREM EvictionsOnEvidence == Spec => []EvictionJustified
  BY IndexerInvariant, EvictionsJustified, PTL
=============================================================================
