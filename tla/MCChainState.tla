---------------------------- MODULE MCChainState ----------------------------
(* Instances of ChainState: two branches that leave the chain at a1.       *)
EXTENDS ChainState

\* g - a1 - a2 - a3 and a1 - b2 - b3.  The branches tie at a2 and b2, and a3 has
\* more work than b3: a node on b3 reorganises when a3 arrives, through a2, which
\* is worse than b3.  r1 is a sibling of a1.
CONSTANTS g, a1, a2, a3, b2, b3, r1

MCBlocks == {g, a1, a2, a3, b2, b3, r1}
MCParent == [b \in MCBlocks \ {g} |->
                CASE b \in {a1, r1} -> g [] b \in {a2, b2} -> a1 [] b = a3 -> a2 [] b = b3 -> b2]
MCWork == [b \in MCBlocks |->
                CASE b = g -> 0 [] b \in {a1, r1} -> 1 [] b \in {a2, b2} -> 2 [] b = b3 -> 3
                  [] b = a3 -> 4]
MCAddr == [b \in MCBlocks |->
                CASE b = g -> 1 [] b = b2 -> 2 [] b = a1 -> 3 [] b = a2 -> 4
                  [] b = b3 -> 5 [] b = a3 -> 6 [] b = r1 -> 7]

\* When the operator's calls come: only while no activation runs, or at any time
\* cs_main is free.
Idle == {"idle"}
Anywhere == {"idle", "unlocked"}
=============================================================================
