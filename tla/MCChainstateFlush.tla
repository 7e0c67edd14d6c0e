------------------------- MODULE MCChainstateFlush -------------------------
(***************************************************************************)
(* A tree with a fork after its second block.  Both branches spend the     *)
(* output x of a1 and create y, at different heights; on one of them y is  *)
(* spent in the block that creates it.                                     *)
(*                                                                         *)
(*     g --- a1 --- a2                                                     *)
(*             \                                                           *)
(*              --- b1 --- b2                                              *)
(***************************************************************************)
EXTENDS ChainstateFlush

CONSTANTS g, a1, a2, b1, b2, x, y, z, w, n

MCBlocks == {g, a1, a2, b1, b2}

MCParent ==
    [b \in MCBlocks \ {g} |->
        CASE b = a1 -> g [] b \in {a2, b1} -> a1 [] b = b2 -> b1]

MCnHeight ==
    [b \in MCBlocks |->
        CASE b = g -> 0 [] b = a1 -> 1 [] b \in {a2, b1} -> 2 [] b = b2 -> 3]

Tx(vin, vout, ns) == [vin |-> vin, vout |-> vout, nfs |-> ns]

MCTxs ==
    [b \in MCBlocks |->
        CASE b = g  -> << >>
          [] b = a1 -> <<Tx({}, {x}, {})>>
          [] b = a2 -> <<Tx({x}, {y}, {}), Tx({y}, {z}, {n})>>
          [] b = b1 -> <<Tx({}, {w}, {})>>
          [] b = b2 -> <<Tx({x}, {y}, {n})>>]

MCNotes == {a1, a2, b2}

MCOutpoints == {x, y, z, w}
=============================================================================
