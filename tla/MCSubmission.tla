---------------------------- MODULE MCSubmission ----------------------------
(* Small instances of Submission for TLC. *)
EXTENDS Submission, TLC

MCQuotes == {(1 :> 2) @@ (3 :> 4), (1 :> 2) @@ (3 :> 1), (1 :> -1) @@ (3 :> 2)}
FlashQuote == {1 :> 2}
\* Executed at a profit, executed at the gate's floor with more gas than foreseen,
\* and reverted.
MCResults == {[base |-> 3, gas |-> 1], [base |-> 1, gas |-> 2], [base |-> 0, gas |-> 2]}
=============================================================================
