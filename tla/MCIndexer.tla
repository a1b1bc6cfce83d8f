----------------------------- MODULE MCIndexer ------------------------------
(* Small instances of Indexer for TLC. *)
EXTENDS Indexer, TLC

CONSTANTS c1, c2, c3, t1

MCDexOf == [p \in {c1, c2, c3} |-> "cetus"] @@ (t1 :> "turbos")
MCAdapters == <<"cetus", "turbos">>

\* Of the pools of "cetus" two are within reach: the one with ticks may be among them,
\* come to be, or be past it.
MCHistories == {("cetus" :> <<c2>>) @@ ("turbos" :> <<>>),
                ("cetus" :> <<c1, c2>>) @@ ("turbos" :> <<t1>>),
                ("cetus" :> <<c2, c3, c1>>) @@ ("turbos" :> <<t1>>)}

\* The pools that can outrank each other start even or not; anything may fall later.
MCLiquidities == {l \in [Pool -> {1, 2}] : l[c3] = 2 /\ l[t1] = 1}
=============================================================================
