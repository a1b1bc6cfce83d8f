---------------------------- MODULE Obligations ----------------------------
(***************************************************************************)
(* The obligation index (liquidation/index.rs): one task seeds it from the *)
(* history of opened obligations, then, every 15 s, discovers the latest   *)
(* and re-reads all it knows.  An obligation is read with separate calls   *)
(* for its two tables, while its owner goes on using it; a call may fail.  *)
(***************************************************************************)
EXTENDS LiqMath, SequencesExt

CONSTANTS
  Obligation,
  Histories,       \* the obligations opened before the bot starts
  OpensAs,         \* the position each is opened with
  Positions,       \* the positions an owner may move to
  SeedPage, RecentPage,      \* 200 and 50 events in the code
  MaxFailures, MaxEvents     \* bounds: failing calls; those and changes on chain together

ASSUME ObligationsAssumption ==
  /\ Histories \subseteq Seq(Obligation) /\ \A h \in Histories : IsInjective(h)
  /\ OpensAs \in [Obligation -> Positions]
  /\ Positions \subseteq [coll : [Coin -> 0 .. U64Max], debt : [Coin -> 0 .. U64Max]]
  /\ {SeedPage, RecentPage} \subseteq Nat \ {0}
  /\ {MaxFailures, MaxEvents} \subseteq Nat

VARIABLES
  opened,     \* the obligations on chain, in the order of their events
  ob,         \* their positions
  changes,    \* on chain so far, of any kind
  index,      \* ObligationIndex: None for an id it does not have
  phase,      \* of the task: "seed" | "discover" | "reconcile" | "dead"
  cursor,     \* events the seeding has consumed
  more,       \* has_next_page
  todo,       \* ids still to read in this phase
  reading,    \* the one being read, its collaterals at hand; or None
  failures

chainObs  == <<opened, ob>>
indexVars == <<index, phase, cursor, more, todo, reading>>
obVars    == <<chainObs, changes, indexVars, failures>>

Phase == {"seed", "discover", "reconcile", "dead"}
Balances(side) == {p[side] : p \in Positions} \union {NoPosition}
Entry == [coll : Balances("coll"), debt : Balances("debt")]
Known == {o \in Obligation : index[o] # None}

ObligationsTypeOK ==
  /\ opened \in Seq(Obligation) /\ IsInjective(opened)
  /\ ob \in [Obligation -> Positions] /\ changes \in 0 .. MaxEvents
  /\ index \in [Obligation -> Entry \union {None}]
  /\ phase \in Phase /\ cursor \in 0 .. Len(opened) /\ more \in BOOLEAN
  /\ todo \subseteq Range(opened) /\ failures \in 0 .. MaxFailures
  /\ reading \in [id : todo, coll : Balances("coll")] \union {None}
  /\ (phase = "dead") => todo = {}

ObligationsInit ==
  /\ opened \in Histories
  /\ ob = OpensAs /\ changes = 0
  /\ index = [o \in Obligation |-> None]
  /\ phase = "seed" /\ cursor = 0 /\ more = TRUE /\ todo = {} /\ reading = None
  /\ failures = 0

-----------------------------------------------------------------------------
(* The chain. *)

Room == changes + failures < MaxEvents

OpenObligation(o) ==
  /\ Room /\ o \notin Range(opened)
  /\ opened' = Append(opened, o) /\ changes' = changes + 1
  /\ UNCHANGED <<ob, indexVars, failures>>

\* Its owner deposits, withdraws, borrows or repays; or somebody liquidates it.
MovePosition(o, p) ==
  /\ Room /\ o \in Range(opened) /\ ob[o] # p
  /\ ob' = [ob EXCEPT ![o] = p] /\ changes' = changes + 1
  /\ UNCHANGED <<opened, indexVars, failures>>

-----------------------------------------------------------------------------
(* bootstrap and run *)

CallFails == Room /\ failures < MaxFailures /\ failures' = failures + 1
PhaseOver == todo = {} /\ reading = None

\* The next page of the history, oldest first.
SeedQuery ==
  /\ phase = "seed" /\ PhaseOver /\ more
  /\ cursor' = Least(cursor + SeedPage, Len(opened))
  /\ todo' = Range(SubSeq(opened, cursor + 1, cursor'))
  /\ more' = (cursor' < Len(opened))
  /\ UNCHANGED <<chainObs, changes, index, phase, reading, failures>>

\* Only warned of: what was not seeded yet is left to discovery.
SeedFails ==
  /\ phase = "seed" /\ PhaseOver /\ more /\ CallFails
  /\ more' = FALSE
  /\ UNCHANGED <<chainObs, changes, index, phase, cursor, todo, reading>>

\* run builds its own client; when it cannot, the task exits for good.
StartRun ==
  /\ phase = "seed" /\ PhaseOver /\ ~more
  /\ \/ phase' = "reconcile" /\ UNCHANGED failures
     \/ phase' = "dead" /\ CallFails
  /\ UNCHANGED <<chainObs, changes, index, cursor, more, todo, reading>>

Latest == Range(SubSeq(opened, Len(opened) - Least(RecentPage, Len(opened)) + 1, Len(opened)))

\* The tick, and the last page of events: those it does not know yet.  When the
\* query fails there are none.
Discover ==
  /\ phase = "reconcile" /\ PhaseOver
  /\ phase' = "discover"
  /\ \/ todo' = Latest \ Known /\ UNCHANGED failures
     \/ todo' = {} /\ CallFails
  /\ UNCHANGED <<chainObs, changes, index, cursor, more, reading>>

\* Mutant: nothing that is known is read again.
ReconcileNothing ==
  /\ phase = "discover" /\ PhaseOver
  /\ phase' = "reconcile" /\ todo' = {}
  /\ UNCHANGED <<chainObs, changes, index, cursor, more, reading, failures>>

Reconcile ==
  /\ phase = "discover" /\ PhaseOver
  /\ phase' = "reconcile" /\ todo' = Known
  /\ UNCHANGED <<chainObs, changes, index, cursor, more, reading, failures>>

-----------------------------------------------------------------------------
(* refresh_obligation: decode_obligation, then the insertion *)

\* The object and its collaterals.  A table that cannot be read counts as empty.
ReadCollaterals(o) ==
  /\ reading = None /\ o \in todo
  /\ \/ reading' = [id |-> o, coll |-> ob[o].coll] /\ UNCHANGED failures
     \/ reading' = [id |-> o, coll |-> NoPosition] /\ CallFails
  /\ UNCHANGED <<chainObs, changes, index, phase, cursor, more, todo>>

\* The object itself cannot be read: the entry stays as it is.
SkipObligation(o) ==
  /\ reading = None /\ o \in todo /\ CallFails
  /\ todo' = todo \ {o}
  /\ UNCHANGED <<chainObs, changes, index, phase, cursor, more, reading>>

\* The debts, and the entry is replaced.
ReadDebts(o) ==
  /\ reading # None /\ reading.id = o
  /\ \/ index' = [index EXCEPT ![o] = [coll |-> reading.coll, debt |-> ob[o].debt]]
        /\ UNCHANGED failures
     \/ index' = [index EXCEPT ![o] = [coll |-> reading.coll, debt |-> NoPosition]]
        /\ CallFails
  /\ todo' = todo \ {o} /\ reading' = None
  /\ UNCHANGED <<chainObs, changes, phase, cursor, more>>

IndexStep ==
  \/ SeedQuery \/ SeedFails \/ StartRun \/ Discover \/ Reconcile
  \/ \E o \in Obligation : ReadCollaterals(o) \/ SkipObligation(o) \/ ReadDebts(o)

PositionStep ==
  \E o \in Obligation : OpenObligation(o) \/ \E p \in Positions : MovePosition(o, p)

-----------------------------------------------------------------------------
(* Unless the task could not start, the entry of every obligation that is  *)
(* indexed or among the latest is in the end the obligation's, whatever    *)
(* was torn, failed or missed on the way (index.rs run).                   *)
IndexCatchesUp ==
  \/ <>[](phase = "dead")
  \/ <>[](\A o \in Known \union Latest : index[o] = ob[o])
=============================================================================
