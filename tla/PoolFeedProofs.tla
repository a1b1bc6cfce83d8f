--------------------------- MODULE PoolFeedProofs ---------------------------
(***************************************************************************)
(* What the ingestion of a configured pool set keeps, for every set of     *)
(* pools and every number of versions and failures.                        *)
(***************************************************************************)
EXTENDS PoolFeed, TLAPS

\* A pool is being registered only just after its upsert.
AtRegistering ==
  IF stage = "register" THEN at \in Decodable /\ cache[at] # None ELSE at = None

\* Nothing of a batch is left over, and the refresh task starts from nothing.
BatchInHand ==
  /\ stage \notin {"decode", "register"} => batch = Nothing
  /\ ~booted => seen = Nothing /\ refreshed = {}

\* What the checkpoint task has seen of a pool is in its hands or published.
SeenPending ==
  mode = "checkpoint" =>
    \A p \in Pool :
      /\ booted /\ batch[p] # None => batch[p] = seen[p]
      /\ p \in Decodable /\ seen[p] # None /\ batch[p] = None =>
           cache[p] = seen[p] /\ (Spelling[p] \in registry \/ p = at)
      /\ p \in refreshed => cache[p] \in Nat /\ seen[p] \in Nat /\ cache[p] <= seen[p]

FeedInv == TypeOK /\ AtRegistering /\ BatchInHand /\ SeenPending /\ CachedHasRef

\* The initial state satisfies the invariant.
LEMMA InitFeedInv == Init => FeedInv
<1> SUFFICES ASSUME Init PROVE FeedInv
  OBVIOUS
<1>1. TypeOK
  <2>1. [p \in Pool |-> 0] \in [Pool -> Nat] /\ 0 \in 0 .. MaxFailures
    BY PoolFeedAssumption DEF PoolFeedAssumption
  <2> QED
    BY <2>1 DEF Init, TypeOK, Nothing, Stages, VersionOrNone
<1>2. AtRegistering /\ BatchInHand
  BY DEF Init, AtRegistering, BatchInHand
<1>3. SeenPending /\ CachedHasRef
  BY DEF Init, SeenPending, CachedHasRef, Resolvable, Canonical, Nothing
<1> QED
  BY <1>1, <1>2, <1>3 DEF FeedInv

\* Every step preserves the type invariant.
LEMMA TypeStep == FeedInv /\ [Next]_vars => TypeOK'
<1> SUFFICES ASSUME FeedInv, [Next]_vars PROVE TypeOK'
  OBVIOUS
<1> USE PoolFeedAssumption
    DEF PoolFeedAssumption, FeedInv, TypeOK, Stages, VersionOrNone, chain, Ids
<1>1. ASSUME NEW p \in Pool, Trade(p) PROVE TypeOK'
  BY <1>1 DEF Trade
<1>2. ASSUME NEW p \in Pool, NodeCatchesUp(p) PROVE TypeOK'
  BY <1>2 DEF NodeCatchesUp
<1>3. CASE NewCheckpoint
  BY <1>3 DEF NewCheckpoint
<1>4. CASE CallDies
  BY <1>4 DEF CallDies, Fail
<1>5. CASE CallFails
  BY <1>5 DEF CallFails, Fail
<1>6. CASE Connect
  BY <1>6 DEF Connect
<1>7. CASE Tick
  BY <1>7 DEF Tick
<1>8. CASE Read
  <2>1. PICK b \in Answers :
          /\ IF \E p \in Pool : b[p] = None THEN Fail ELSE failures' = failures
          /\ IF booted /\ mode = "checkpoint"
               THEN /\ batch' = [p \in Pool |-> IF p \in ChangedSince(b) THEN b[p] ELSE None]
                    /\ seen' = [p \in Pool |-> IF p \in ChangedSince(b) THEN b[p] ELSE seen[p]]
               ELSE batch' = b /\ seen' = seen
    BY <1>8 DEF Read
  <2>2. b \in [Pool -> Nat \union {None}]
    <3>1. \A p \in Pool : lagging[p] .. ver[p] \subseteq Nat
      OBVIOUS
    <3> QED
      BY <3>1 DEF Answers
  <2>3. failures' \in 0 .. MaxFailures
    BY <2>1 DEF Fail
  <2>4. batch' \in [Pool -> Nat \union {None}] /\ seen' \in [Pool -> Nat \union {None}]
    BY <2>1, <2>2
  <2> QED
    BY <1>8, <2>3, <2>4 DEF Read
<1>9. ASSUME NEW p \in Pool, Upsert(p) PROVE TypeOK'
  BY <1>9 DEF Upsert
<1>10. CASE Register
  BY <1>10 DEF Register, AtRegistering
<1>11. ASSUME NEW p \in Pool, DecodeFails(p) PROVE TypeOK'
  BY <1>11 DEF DecodeFails
<1>12. CASE BatchDone
  BY <1>12 DEF BatchDone
<1>13. CASE UNCHANGED vars
  BY <1>13 DEF vars
<1> QED
  BY <1>1, <1>2, <1>3, <1>4, <1>5, <1>6, <1>7, <1>8, <1>9, <1>10, <1>11, <1>12, <1>13
  DEF Next, Feed

\* The steps that leave the feed's own data alone.
LEMMA QuietStep ==
  ASSUME FeedInv, UNCHANGED <<mode, booted, batch, at, seen, cache, registry, refreshed>>,
         stage' = stage \/ (stage \notin {"decode", "register"}
                            /\ stage' \notin {"decode", "register"})
  PROVE  AtRegistering' /\ BatchInHand' /\ SeenPending' /\ CachedHasRef'
  BY DEF FeedInv, AtRegistering, BatchInHand, SeenPending, CachedHasRef, Resolvable,
     Canonical, Nothing

\* Every step preserves the rest of the invariant.
LEMMA FeedStep ==
  FeedInv /\ [Next]_vars => AtRegistering' /\ BatchInHand' /\ SeenPending' /\ CachedHasRef'
<1> SUFFICES ASSUME FeedInv, [Next]_vars
             PROVE  AtRegistering' /\ BatchInHand' /\ SeenPending' /\ CachedHasRef'
  OBVIOUS
<1>0. TypeOK /\ AtRegistering /\ BatchInHand /\ SeenPending /\ CachedHasRef
  BY DEF FeedInv
<1> USE PoolFeedAssumption DEF PoolFeedAssumption
<1>1. ASSUME NEW p \in Pool, Trade(p) \/ NodeCatchesUp(p)
      PROVE  AtRegistering' /\ BatchInHand' /\ SeenPending' /\ CachedHasRef'
  BY <1>1, QuietStep DEF Trade, NodeCatchesUp
<1>2. CASE NewCheckpoint \/ CallDies \/ CallFails \/ Connect \/ Tick
  BY <1>2, QuietStep DEF NewCheckpoint, CallDies, CallFails, Connect, Tick
<1>3. CASE Read
  <2>1. PICK b \in Answers :
          IF booted /\ mode = "checkpoint"
            THEN /\ batch' = [p \in Pool |-> IF p \in ChangedSince(b) THEN b[p] ELSE None]
                 /\ seen' = [p \in Pool |-> IF p \in ChangedSince(b) THEN b[p] ELSE seen[p]]
            ELSE batch' = b /\ seen' = seen
    BY <1>3 DEF Read
  <2>2. /\ stage' = "decode" /\ stage \in {"boot", "read"}
        /\ UNCHANGED <<mode, booted, at, cache, registry, refreshed>>
    BY <1>3 DEF Read
  <2>3. batch = Nothing /\ at = None
    BY <1>0, <2>2 DEF BatchInHand, AtRegistering
  <2>4. AtRegistering' /\ BatchInHand' /\ CachedHasRef'
    BY <1>0, <2>1, <2>2, <2>3
  DEF AtRegistering, BatchInHand, CachedHasRef, Resolvable, Canonical, Nothing
  <2>5. CASE booted /\ mode = "checkpoint"
    <3> SUFFICES ASSUME NEW p \in Pool
                 PROVE  /\ batch'[p] # None => batch'[p] = seen'[p]
                        /\ p \in Decodable /\ seen'[p] # None /\ batch'[p] = None =>
                             cache'[p] = seen'[p] /\ (Spelling[p] \in registry' \/ p = at')
                        /\ p \in refreshed' =>
                             cache'[p] \in Nat /\ seen'[p] \in Nat /\ cache'[p] <= seen'[p]
      BY <2>4 DEF SeenPending
    <3>1. CASE p \in ChangedSince(b)
      <4>1. batch'[p] = b[p] /\ seen'[p] = b[p] /\ b[p] # None
        BY <2>1, <2>5, <3>1 DEF ChangedSince
      <4>2. b[p] \in Nat
        <5>1. \A q \in Pool : lagging[q] .. ver[q] \subseteq Nat
          BY <1>0 DEF TypeOK
        <5> QED
          BY <4>1, <5>1 DEF Answers
      <4>3. seen[p] # None => seen[p] \in Nat /\ seen[p] < b[p]
        BY <1>0, <3>1 DEF ChangedSince, TypeOK, VersionOrNone
      <4>4. p \in refreshed => cache[p] \in Nat /\ seen[p] \in Nat /\ cache[p] <= seen[p]
        BY <1>0, <2>5 DEF SeenPending
      <4> QED
        BY <2>2, <4>1, <4>2, <4>3, <4>4
    <3>2. CASE p \notin ChangedSince(b)
      <4>1. batch'[p] = None /\ seen'[p] = seen[p] /\ batch[p] = None
        BY <2>1, <2>3, <2>5, <3>2 DEF Nothing
      <4> QED
        BY <1>0, <2>2, <2>5, <4>1 DEF SeenPending
    <3> QED
      BY <3>1, <3>2
  <2>6. CASE ~(booted /\ mode = "checkpoint")
    <3>1. CASE mode # "checkpoint"
      BY <2>2, <2>4, <3>1 DEF SeenPending
    <3>2. CASE ~booted
      <4>1. refreshed' = {} /\ ~booted' /\ \A p \in Pool : seen'[p] = None
        BY <1>0, <2>1, <2>2, <3>2 DEF BatchInHand, Nothing
      <4> QED
        BY <2>4, <4>1 DEF SeenPending
    <3> QED
      BY <2>6, <3>1, <3>2
  <2> QED
    BY <2>4, <2>5, <2>6
<1>4. ASSUME NEW q \in Pool, Upsert(q)
      PROVE  AtRegistering' /\ BatchInHand' /\ SeenPending' /\ CachedHasRef'
  <2>1. /\ stage = "decode" /\ stage' = "register" /\ at' = q /\ at = None
        /\ q \in Decodable /\ batch[q] # None
        /\ refreshed' = IF booted THEN refreshed \union {q} ELSE refreshed
        /\ UNCHANGED <<mode, booted, seen, registry>>
    BY <1>0, <1>4 DEF Upsert, AtRegistering
  <2>2. /\ \A p \in Pool : cache'[p] = IF p = q THEN batch[q] ELSE cache[p]
        /\ \A p \in Pool : batch'[p] = IF p = q THEN None ELSE batch[p]
    BY <1>0, <1>4 DEF Upsert, TypeOK
  <2>3. batch[q] \in Nat
    BY <1>0, <2>1 DEF TypeOK, VersionOrNone
  <2>4. AtRegistering' /\ BatchInHand' /\ CachedHasRef'
    <3>1. AtRegistering'
      BY <2>1, <2>2 DEF AtRegistering
    <3>2. BatchInHand'
      BY <1>0, <2>1 DEF BatchInHand
    <3>3. CachedHasRef'
      BY <1>0, <2>1, <2>2 DEF CachedHasRef, Resolvable, Canonical
    <3> QED
      BY <3>1, <3>2, <3>3
  <2>5. SeenPending'
    <3> SUFFICES ASSUME mode = "checkpoint", NEW p \in Pool
                 PROVE  /\ booted' /\ batch'[p] # None => batch'[p] = seen'[p]
                        /\ p \in Decodable /\ seen'[p] # None /\ batch'[p] = None =>
                             cache'[p] = seen'[p] /\ (Spelling[p] \in registry' \/ p = at')
                        /\ p \in refreshed' =>
                             cache'[p] \in Nat /\ seen'[p] \in Nat /\ cache'[p] <= seen'[p]
      BY <2>1 DEF SeenPending
    <3>1. CASE p = q /\ booted
      <4>1. seen[q] = batch[q]
        BY <1>0, <2>1, <3>1 DEF SeenPending
      <4> QED
        BY <2>1, <2>2, <2>3, <3>1, <4>1
    <3>2. CASE p = q /\ ~booted
      BY <1>0, <2>1, <2>2, <3>2 DEF BatchInHand, Nothing
    <3>3. CASE p # q
      BY <1>0, <2>1, <2>2, <3>3 DEF SeenPending
    <3> QED
      BY <3>1, <3>2, <3>3
  <2> QED
    BY <2>4, <2>5
<1>5. CASE Register
  BY <1>0, <1>5
  DEF Register, AtRegistering, BatchInHand, SeenPending, CachedHasRef, Resolvable,
      Canonical, Nothing
<1>6. ASSUME NEW q \in Pool, DecodeFails(q)
      PROVE  AtRegistering' /\ BatchInHand' /\ SeenPending' /\ CachedHasRef'
  <2>1. \A p \in Pool : batch'[p] = IF p = q THEN None ELSE batch[p]
    BY <1>0, <1>6 DEF DecodeFails, TypeOK
  <2> QED
    BY <1>0, <1>6, <2>1
    DEF DecodeFails, AtRegistering, BatchInHand, SeenPending, CachedHasRef, Resolvable,
        Canonical
<1>7. CASE BatchDone
  BY <1>0, <1>7
  DEF BatchDone, AtRegistering, BatchInHand, SeenPending, CachedHasRef, Resolvable,
      Canonical, Nothing
<1>8. CASE UNCHANGED vars
  BY <1>8, QuietStep DEF vars
<1> QED
  BY <1>1, <1>2, <1>3, <1>4, <1>5, <1>6, <1>7, <1>8 DEF Next, Feed

\* The invariant holds in every reachable state.
LEMMA FeedInvariant == Spec => []FeedInv
<1>1. FeedInv /\ [Next]_vars => FeedInv'
  BY TypeStep, FeedStep DEF FeedInv
<1> QED
  BY <1>1, InitFeedInv, PTL DEF Spec

\* Type correctness of the ingestion.
THEOREM FeedTypeCorrect == Spec => []TypeOK
  BY FeedInvariant, PTL DEF FeedInv

\* Between two rounds of the checkpoint task the cache and the registry hold what
\* the task has seen of every decodable pool.
THEOREM SeenCached == Spec => []SeenIsCached
<1>1. FeedInv => SeenIsCached
  BY PoolFeedAssumption
  DEF PoolFeedAssumption, FeedInv, AtRegistering, BatchInHand, SeenPending, SeenIsCached,
      Nothing
<1> QED
  BY <1>1, FeedInvariant, PTL

\* Of the pools configured in canonical form, only the one being published is offered
\* by the cache while the executor cannot resolve it: every write of the cache is
\* followed by the registry's, under the same id, and nothing is ever removed.
THEOREM CachedRegistered == Spec => []CachedHasRef
  BY FeedInvariant, PTL DEF FeedInv

\* The checkpoint task never replaces a snapshot of its own by an older one.
THEOREM FeedMonotone == Spec => NeverBackwards
<1> DEFINE Kept == mode = "checkpoint" => \A p \in refreshed : cache'[p] >= cache[p]
<1>1. FeedInv /\ [Next]_vars => Kept \/ UNCHANGED vars
  <2> SUFFICES ASSUME FeedInv, Next PROVE Kept
    BY DEF FeedInv
  <2> SUFFICES ASSUME mode = "checkpoint", NEW p \in refreshed PROVE cache'[p] >= cache[p]
    OBVIOUS
  <2>1. p \in Pool /\ cache[p] \in Nat /\ seen[p] \in Nat /\ cache[p] <= seen[p]
    BY DEF FeedInv, TypeOK, SeenPending
  <2>2. booted
    BY DEF FeedInv, BatchInHand
  <2>3. ASSUME NEW q \in Pool, Upsert(q) PROVE cache'[p] >= cache[p]
    <3>1. q = p => batch[q] = seen[p]
      BY <2>2, <2>3 DEF FeedInv, SeenPending, Upsert
    <3>2. cache'[p] = IF q = p THEN batch[q] ELSE cache[p]
      BY <2>1, <2>3 DEF FeedInv, TypeOK, Upsert
    <3> QED
      BY <2>1, <3>1, <3>2
  <2>4. CASE UNCHANGED cache
    BY <2>1, <2>4
  <2> QED
    BY <2>3, <2>4
    DEF Next, Feed, Trade, NodeCatchesUp, NewCheckpoint, CallDies, CallFails, Connect, Tick,
        Read, Register, DecodeFails, BatchDone
<1> QED
  BY <1>1, FeedInvariant, PTL DEF Spec, NeverBackwards
=============================================================================
