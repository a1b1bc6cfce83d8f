------------------------------ MODULE PoolFeed ------------------------------
(***************************************************************************)
(* The ingestion of a configured set of pools: ws::bootstrap_pools, then   *)
(* one of two refresh tasks, ws::run ("poll": re-read every pool at each   *)
(* tick) or ingest::run_checkpoint_diff ("checkpoint": read when the chain *)
(* has a new checkpoint, publish the pools whose version advanced).  The   *)
(* fullnode behind the RPC may lag the chain, calls fail, and the chain    *)
(* moves between a read and the publication of what it returned.           *)
(*                                                                         *)
(* The cache is keyed by the id of the object that was read (PoolState.id, *)
(* ObjectID::to_string), the registry by the id as ARB_TRACKED_POOLS       *)
(* spells it, and the executor looks the cache's id up in the registry.    *)
(***************************************************************************)
EXTENDS Naturals

CONSTANTS
  Pool,          \* the tracked pools, each by its canonical id; one entry each
  Spelling,      \* the id each pool's entry of ARB_TRACKED_POOLS gives it
  Decodable,     \* those decode_pool understands: a tracked amm_v2 pool is not
  MaxVersion,    \* bound: how often each pool object changes
  MaxFailures,   \* bound: calls that fail, or answer without an object's data
  None

ASSUME PoolFeedAssumption ==
  /\ Decodable \subseteq Pool
  /\ DOMAIN Spelling = Pool /\ \A p \in Pool : Spelling[p] \notin Pool \ {p}
  /\ MaxVersion \in [Pool -> Nat] /\ MaxFailures \in Nat /\ None \notin Nat \union Pool

VARIABLES
  ver,        \* the version of each pool on the chain
  lagging,    \* the oldest version a fullnode still serves
  newCp,      \* the chain has a checkpoint past the task's last_cp
  mode,       \* config.ingest_mode
  stage,      \* where the feed is
  booted,     \* bootstrap_pools has returned
  batch,      \* the versions of the last multi_get_object still to be published
  at,         \* the pool in the cache whose registry entry is being written
  seen,       \* the checkpoint task's versions
  cache,      \* the version of the snapshot in the reserve cache
  registry,   \* the ids the live registry has coordinates for
  refreshed,  \* history: the pools the refresh task has published
  failures    \* calls that failed so far

chain == <<ver, lagging>>
vars == <<ver, lagging, newCp, mode, stage, booted, batch, at, seen, cache,
          registry, refreshed, failures>>

VersionOrNone == Nat \union {None}
Ids == Pool \union {Spelling[p] : p \in Pool}
Nothing == [p \in Pool |-> None]
Stages == {"boot", "connect", "idle", "read", "decode", "register", "dead"}

TypeOK ==
  /\ ver \in [Pool -> Nat] /\ lagging \in [Pool -> Nat]
  /\ newCp \in BOOLEAN /\ mode \in {"poll", "checkpoint"}
  /\ stage \in Stages /\ booted \in BOOLEAN
  /\ batch \in [Pool -> VersionOrNone]
  /\ at \in Decodable \union {None}
  /\ seen \in [Pool -> VersionOrNone]
  /\ cache \in [Pool -> VersionOrNone]
  /\ registry \subseteq Ids /\ refreshed \subseteq Pool
  /\ failures \in 0 .. MaxFailures

Init ==
  /\ ver = [p \in Pool |-> 0] /\ lagging = ver
  /\ newCp = TRUE /\ mode \in {"poll", "checkpoint"}
  /\ stage = "boot" /\ booted = FALSE
  /\ batch = Nothing /\ at = None
  /\ seen = Nothing /\ cache = Nothing
  /\ registry = {} /\ refreshed = {} /\ failures = 0

-----------------------------------------------------------------------------
(* The chain and the fullnodes *)

Trade(p) ==
  /\ ver[p] < MaxVersion[p]
  /\ ver' = [ver EXCEPT ![p] = @ + 1]
  /\ UNCHANGED <<lagging, newCp, mode, stage, booted, batch, at, seen, cache,
                 registry, refreshed, failures>>

NewCheckpoint ==
  /\ newCp' = TRUE
  /\ UNCHANGED <<chain, mode, stage, booted, batch, at, seen, cache,
                 registry, refreshed, failures>>

\* The slowest fullnode executes one more transaction on p.
NodeCatchesUp(p) ==
  /\ lagging[p] < ver[p]
  /\ lagging' = [lagging EXCEPT ![p] = @ + 1]
  /\ UNCHANGED <<ver, newCp, mode, stage, booted, batch, at, seen, cache,
                 registry, refreshed, failures>>

-----------------------------------------------------------------------------
(* The feed *)

\* Mutant: a version read before counts as an advance.
ChangedSinceAny(b) == {p \in Pool : b[p] # None /\ b[p] # seen[p]}

\* A version at or below the last one seen (a lagging fullnode) is unchanged.
ChangedSince(b) == {p \in Pool : b[p] # None /\ (seen[p] = None \/ seen[p] < b[p])}

Fail ==
  /\ failures < MaxFailures
  /\ failures' = failures + 1

\* The calls of the bootstrap, and the connection ws::run makes before its loop:
\* an error is propagated, and ends the process or the task.
CallDies ==
  /\ Fail
  /\ stage \in {"boot", "connect"} /\ stage' = "dead"
  /\ UNCHANGED <<chain, newCp, mode, booted, batch, at, seen, cache,
                 registry, refreshed>>

\* ws::run has a client of its own; the checkpoint task shares the executor's.
Connect ==
  /\ stage = "connect" /\ stage' = "idle"
  /\ UNCHANGED <<chain, newCp, mode, booted, batch, at, seen, cache, registry,
                 refreshed, failures>>

\* A tick.  The checkpoint task reads only past its cursor, and moves the
\* cursor to the tip it was told, perhaps not the chain's newest.
Tick ==
  /\ stage = "idle" /\ (mode = "checkpoint" => newCp)
  /\ stage' = "read"
  /\ newCp' \in (IF mode = "checkpoint" THEN {FALSE, newCp} ELSE {newCp})
  /\ UNCHANGED <<chain, mode, booted, batch, at, seen, cache, registry,
                 refreshed, failures>>

\* Mutant: the error of a call is propagated.
CallFailsFatally ==
  /\ Fail
  /\ stage = "read" \/ (stage = "idle" /\ mode = "checkpoint")
  /\ stage' = "dead"
  /\ UNCHANGED <<chain, newCp, mode, booted, batch, at, seen, cache, registry,
                 refreshed>>

\* The tip poll or the batched read fails: the loop goes on to the next tick.
CallFails ==
  /\ Fail
  /\ stage = "read" \/ (stage = "idle" /\ mode = "checkpoint")
  /\ stage' = "idle"
  /\ UNCHANGED <<chain, newCp, mode, booted, batch, at, seen, cache,
                 registry, refreshed>>

\* What a fullnode may answer: of each pool a version it still serves, or nothing.
Answers ==
  {b \in [Pool -> UNION {lagging[p] .. ver[p] : p \in Pool} \union {None}] :
     \A p \in Pool : b[p] # None => b[p] \in lagging[p] .. ver[p]}

\* The batched read.  An object may come back without data; the checkpoint task
\* notes the versions it will publish before it decodes them.
Read ==
  /\ stage \in {"boot", "read"}
  /\ \E b \in Answers :
       /\ IF \E p \in Pool : b[p] = None THEN Fail ELSE failures' = failures
       /\ IF booted /\ mode = "checkpoint"
            THEN /\ batch' = [p \in Pool |-> IF p \in ChangedSince(b) THEN b[p] ELSE None]
                 /\ seen' = [p \in Pool |-> IF p \in ChangedSince(b) THEN b[p] ELSE seen[p]]
            ELSE batch' = b /\ seen' = seen
  /\ stage' = "decode"
  /\ UNCHANGED <<chain, newCp, mode, booted, at, cache, registry, refreshed>>

\* Mutant: an object whose fields are missing is published all the same.
UpsertAny(p) ==
  /\ stage = "decode" /\ batch[p] # None
  /\ cache' = [cache EXCEPT ![p] = batch[p]]
  /\ batch' = [batch EXCEPT ![p] = None]
  /\ at' = p /\ stage' = "register"
  /\ refreshed' = IF booted THEN refreshed \union {p} ELSE refreshed
  /\ UNCHANGED <<chain, newCp, mode, booted, seen, registry, failures>>

\* decode_pool and cache.upsert of one pool.
Upsert(p) ==
  /\ stage = "decode" /\ p \in Decodable /\ batch[p] # None
  /\ cache' = [cache EXCEPT ![p] = batch[p]]
  /\ batch' = [batch EXCEPT ![p] = None]
  /\ at' = p /\ stage' = "register"
  /\ refreshed' = IF booted THEN refreshed \union {p} ELSE refreshed
  /\ UNCHANGED <<chain, newCp, mode, booted, seen, registry, failures>>

\* Mutant: the registry entry only for a pool of the bootstrap.
RegisterAtBoot ==
  /\ stage = "register"
  /\ registry' = IF booted THEN registry ELSE registry \union {Spelling[at]}
  /\ at' = None /\ stage' = "decode"
  /\ UNCHANGED <<chain, newCp, mode, booted, batch, seen, cache, refreshed, failures>>

\* registry.insert of that pool, under the id its entry gives it.
Register ==
  /\ stage = "register"
  /\ registry' = registry \union {Spelling[at]}
  /\ at' = None /\ stage' = "decode"
  /\ UNCHANGED <<chain, newCp, mode, booted, batch, seen, cache, refreshed, failures>>

\* decode_pool refuses the object: a venue whose fields it does not find.
DecodeFails(p) ==
  /\ stage = "decode" /\ p \in Pool \ Decodable /\ batch[p] # None
  /\ batch' = [batch EXCEPT ![p] = None]
  /\ UNCHANGED <<chain, newCp, mode, stage, booted, at, seen, cache, registry,
                 refreshed, failures>>

\* Mutant: the loop over the batch ends with the first pool published.
BatchCutShort ==
  /\ stage = "decode" /\ (batch = Nothing \/ (booted /\ refreshed # {}))
  /\ batch' = Nothing /\ stage' = "idle" /\ booted' = TRUE
  /\ UNCHANGED <<chain, newCp, mode, at, seen, cache, registry, refreshed, failures>>

\* The batch is done: back to the ticker; after the bootstrap, the refresh task
\* and the scanner start.
BatchDone ==
  /\ stage = "decode" /\ batch = Nothing
  /\ stage' = IF ~booted /\ mode = "poll" THEN "connect" ELSE "idle"
  /\ booted' = TRUE
  /\ UNCHANGED <<chain, newCp, mode, batch, at, seen, cache, registry,
                 refreshed, failures>>

Feed ==
  \/ Connect \/ Tick \/ Read \/ Register \/ BatchDone
  \/ \E p \in Pool : Upsert(p) \/ DecodeFails(p)

Next ==
  \/ \E p \in Pool : Trade(p) \/ NodeCatchesUp(p)
  \/ NewCheckpoint \/ CallDies \/ CallFails \/ Feed

\* The ticker and the awaited calls come back, checkpoints keep coming, and a
\* fullnode keeps executing them; nobody has to trade.
Fairness ==
  /\ WF_vars(Feed) /\ WF_vars(NewCheckpoint)
  /\ \A p \in Pool : WF_vars(NodeCatchesUp(p))

Spec == Init /\ [][Next]_vars /\ Fairness

-----------------------------------------------------------------------------
(* Properties *)

\* Between two rounds of the checkpoint task, the cache shows of every pool it
\* understands exactly the newest version the task has seen (ingest.rs notes a
\* version as seen before it is published, and never publishes it again).
SeenIsCached ==
  stage = "idle" /\ mode = "checkpoint" =>
    \A p \in Decodable : seen[p] # None => cache[p] = seen[p] /\ Spelling[p] \in registry

\* The checkpoint task never replaces one of its own snapshots by an older one,
\* whatever fullnode answers; only the bootstrap's may be (seen starts empty).
NeverBackwards ==
  [][mode = "checkpoint" => \A p \in refreshed : cache'[p] >= cache[p]]_vars

\* Whether an entry spells its pool's id the way the chain does; an upper-case,
\* abbreviated or prefix-less id is parsed all the same.
Canonical(p) == Spelling[p] = p

\* try_execute's registry lookup of a pool the cache offered.
Resolvable(p) == p \in registry

\* Of the pools configured in canonical form, a cached one that cannot be resolved
\* (a scan may pick it, the PTB builder cannot) is the one being published.
CachedHasRef ==
  \A p \in Pool : cache[p] # None => Resolvable(p) \/ p = at \/ ~Canonical(p)

\* A failed call delays the feed, it loses nothing: once the pools rest, the cache
\* comes to show every decodable pool as it is on the chain, and one configured in
\* canonical form can be resolved.  The one way out is the process ending in its
\* bootstrap, or the polling task failing to connect after it.
FeedCatchesUp ==
  \/ <>(stage = "dead" /\ refreshed = {} /\ (booted => mode = "poll"))
  \/ <>[](\A p \in Decodable : cache[p] = ver[p] /\ (Canonical(p) => Resolvable(p)))
=============================================================================
