------------------------------ MODULE MCLedger ------------------------------
(***************************************************************************)
(* The two halves of the coins view, one at a time: "coins" is CoinsCache  *)
(* with two outpoints, one of them on the invalid list, and two coins (the *)
(* original and the one of a competing transaction); "sapling" is          *)
(* SaplingCache with one nullifier and two commitments, that is two        *)
(* competing blocks with different trees, and chains of up to three blocks.*)
(***************************************************************************)
EXTENDS CoinsCache, SaplingCache, TLC

CONSTANTS o1, o2, c1, c2, n1, k1, k2

VARIABLE part

ASSUME SaplingConstants == ConstantsOK

\* The code never tells one commitment from another.
Symmetry == Permutations({k1, k2})

MCInit ==
    /\ part \in {"coins", "sapling"}
    /\ CoinsInit /\ Init
    /\ part = "sapling" => db = [o \in Outpoints |-> Spent]

MCNext ==
    \/ part = "coins" /\ CoinsNext /\ UNCHANGED <<part, vars>>
    \/ part = "sapling" /\ Next /\ UNCHANGED <<part, coinsVars>>

MCSpec == MCInit /\ [][MCNext]_<<part, coinsVars, vars>>
=============================================================================
