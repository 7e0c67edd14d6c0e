------------------------------ MODULE ChainState ------------------------------
(***************************************************************************)
(* The block index and the choice of the active chain (validation.cpp):    *)
(* AcceptBlock and ReceivedBlockTransactions fill mapBlockIndex,           *)
(* setBlockIndexCandidates and mapBlocksUnlinked; ActivateBestChain moves  *)
(* chainActive towards the best candidate; InvalidateBlock and             *)
(* ReconsiderBlock are the operator's RPC calls; a restart rebuilds        *)
(* everything from the block tree database.                                *)
(*                                                                         *)
(* Two locks matter.  cs_main protects all of the state below and is held  *)
(* for the whole of AcceptBlock, InvalidateBlock and ReconsiderBlock, so   *)
(* each is one step.  m_cs_chainstate admits one ActivateBestChain at a    *)
(* time, and ActivateBestChain RELEASES cs_main between two rounds while   *)
(* it keeps its local pindexMostWork: `pc' says where that one activation  *)
(* is, and cs_main is free exactly when pc is "idle" or "unlocked".        *)
(***************************************************************************)
EXTENDS Naturals, FiniteSets, Functions

CONSTANTS
    Blocks,         \* every block that can arrive
    Genesis,        \* the genesis block
    Parent,         \* hashPrevBlock of every block but the genesis block
    Work,           \* nChainWork, the work of the chain that ends in a block
    Addr,           \* the address of a block's index entry, the last tie breaker
    Bad,            \* the blocks ConnectBlock finds invalid
    Rejected,       \* the blocks ContextualCheckBlock refuses
    Stalled,        \* the blocks whose stake inputs may be unavailable at first
    Operated,       \* the blocks the operator invalidates
    Reconsidered,   \* the blocks the operator reconsiders
    OperatorPoints, \* the values of pc at which the operator's calls come
    Restarts,       \* whether the node is restarted
    None            \* the null pointer

VARIABLES
    mapBlockIndex,           \* the blocks with an index entry
    haveData,                \* BLOCK_HAVE_DATA (and BLOCK_VALID_TRANSACTIONS)
    linked,                  \* nChainTx # 0
    nSequenceId,             \* the order in which blocks were linked
    nBlockSequenceId,        \* the next such number
    failedValid,             \* BLOCK_FAILED_VALID
    failedChild,             \* BLOCK_FAILED_CHILD
    unsaved,                 \* FAILED_CHILD flags not entered in setDirtyBlockIndex
    setBlockIndexCandidates, \* the tips worth trying
    mapBlocksUnlinked,       \* blocks with data that wait for their parent
    tip,                     \* chainActive.Tip()
    pending,                 \* some thread is about to call ActivateBestChain
    pc,                      \* where the running ActivateBestChain is
    pindexMostWork,          \* its target, kept while cs_main is released
    startingTip,             \* starting_tip of the current round
    pindexOldTip,            \* pindexOldTip of the current ActivateBestChainStep
    blocksConnected          \* blocks_connected of the current round

indexVars == <<mapBlockIndex, haveData, linked, nSequenceId, nBlockSequenceId>>
flagVars == <<failedValid, failedChild, unsaved>>
abcVars == <<pc, pindexMostWork, startingTip, pindexOldTip, blocksConnected>>
vars == <<indexVars, flagVars, setBlockIndexCandidates, mapBlocksUnlinked, tip,
          pending, abcVars>>

ASSUME TreeAssumption ==
    /\ IsFiniteSet(Blocks) /\ Genesis \in Blocks /\ None \notin Blocks
    /\ Parent \in [Blocks \ {Genesis} -> Blocks]
    /\ Work \in [Blocks -> Nat]
    /\ \A b \in Blocks \ {Genesis} : Work[b] > Work[Parent[b]]
    /\ Addr \in [Blocks -> Nat]
    /\ \A b, c \in Blocks : Addr[b] = Addr[c] => b = c
    /\ Bad \cup Rejected \cup Operated \subseteq Blocks \ {Genesis}
    /\ Reconsidered \subseteq Blocks
    /\ OperatorPoints \subseteq {"idle", "unlocked"}

-------------------------------------------------------------------------------
\* A set of blocks that holds the parent of each of its blocks.
HasParents(S) == \A c \in S \ {Genesis} : Parent[c] \in S

\* The block and its ancestors, down to the genesis block: the least set of blocks
\* that following pprev from b does not leave.
Chain ==
    [b \in Blocks |->
        {a \in Blocks : \A S \in SUBSET Blocks : b \in S /\ HasParents(S) => a \in S}]

\* The operator leaves a running activation alone, and reconsiders no block that has
\* another block under it which was refused, found invalid or invalidated.
QuietOperator ==
    /\ OperatorPoints \subseteq {"idle"}
    /\ \A b \in Reconsidered : Chain[b] \cap (Bad \cup Rejected \cup Operated) \subseteq {b}

nHeight(b) == Cardinality(Chain[b])

Descends(b, a) == a \in Chain[b]

Failed == failedValid \cup failedChild

CsMainFree == pc \in {"idle", "unlocked"}

\* CBlockIndexWorkComparator: a sorts before b, with nSequenceId given by seq.
WorseBy(seq, a, b) ==
    \/ Work[a] < Work[b]
    \/ Work[a] = Work[b] /\ seq[a] > seq[b]
    \/ Work[a] = Work[b] /\ seq[a] = seq[b] /\ Addr[a] > Addr[b]

Worse(a, b) == WorseBy(nSequenceId, a, b)

Init ==
    /\ mapBlockIndex = {Genesis} /\ haveData = {Genesis} /\ linked = {Genesis}
    /\ nSequenceId = [b \in Blocks |-> IF b = Genesis THEN 1 ELSE 0]
    /\ nBlockSequenceId = 2
    /\ failedValid = {} /\ failedChild = {} /\ unsaved = {}
    /\ setBlockIndexCandidates = {Genesis} /\ mapBlocksUnlinked = {}
    /\ tip = Genesis
    /\ pending = FALSE
    /\ pc = "idle" /\ pindexMostWork = None /\ startingTip = None
    /\ pindexOldTip = None /\ blocksConnected = FALSE

-------------------------------------------------------------------------------
\* GetPrevIndex: the parent must be known and not marked as failed.
GetPrevIndex(b) == Parent[b] \in mapBlockIndex /\ Parent[b] \notin Failed

\* AcceptBlockHeader: a known block is refused when it is marked as failed.
AcceptBlockHeader(b) == b \notin Failed /\ mapBlockIndex' = mapBlockIndex \cup {b}

\* The blocks ReceivedBlockTransactions links when b's data arrives: b and the
\* waiting blocks that descend from it through waiting blocks only.
NewlyLinked(b) ==
    {b} \cup {c \in mapBlocksUnlinked :
                Descends(c, b) /\ Chain[c] \ (Chain[b] \cup mapBlocksUnlinked) = {}}

\* The places the blocks L may get in its queue, which is breadth first.
QueuePlaces(L) ==
    {place \in Bijection(L, 1..Cardinality(L)) :
        \A c, d \in L : nHeight(c) < nHeight(d) => place[c] < place[d]}

\* Mutant: only the block that arrived becomes a candidate, not what waited for it.
CandidatesAfterLinkFirst(L, seq) ==
    setBlockIndexCandidates \cup {c \in L : Parent[c] \notin L /\ ~WorseBy(seq, c, tip)}

\* The candidates after the blocks L were linked: those no worse than the tip.
CandidatesAfterLink(L, seq) ==
    setBlockIndexCandidates \cup {c \in L : ~WorseBy(seq, c, tip)}

\* ReceivedBlockTransactions.
ReceivedBlockTransactions(b) ==
    /\ haveData' = haveData \cup {b}
    /\ \/ /\ Parent[b] \in linked
          /\ \E place \in QueuePlaces(NewlyLinked(b)) :
                nSequenceId' = [c \in Blocks |-> IF c \in NewlyLinked(b)
                                                 THEN nBlockSequenceId - 1 + place[c]
                                                 ELSE nSequenceId[c]]
          /\ nBlockSequenceId' = nBlockSequenceId + Cardinality(NewlyLinked(b))
          /\ linked' = linked \cup NewlyLinked(b)
          /\ setBlockIndexCandidates' = CandidatesAfterLink(NewlyLinked(b), nSequenceId')
          /\ mapBlocksUnlinked' = mapBlocksUnlinked \ NewlyLinked(b)
       \/ /\ Parent[b] \notin linked
          /\ mapBlocksUnlinked' = mapBlocksUnlinked \cup {b}
          /\ UNCHANGED <<linked, nSequenceId, nBlockSequenceId, setBlockIndexCandidates>>

\* AcceptBlock stores the block; ProcessNewBlock then calls ActivateBestChain.
AcceptBlock(b) ==
    /\ CsMainFree
    /\ GetPrevIndex(b)
    /\ AcceptBlockHeader(b)
    /\ b \notin haveData /\ b \notin Rejected
    /\ ReceivedBlockTransactions(b)
    /\ pending' = TRUE
    /\ UNCHANGED <<flagVars, tip, abcVars>>

\* AcceptBlock of a block whose data is there already answers true, and
\* ProcessNewBlock calls ActivateBestChain all the same.
AcceptDuplicate(b) ==
    /\ CsMainFree
    /\ GetPrevIndex(b)
    /\ b \in haveData \ Failed
    /\ pending' = TRUE
    /\ UNCHANGED <<indexVars, flagVars, setBlockIndexCandidates, mapBlocksUnlinked,
                   tip, abcVars>>

\* AcceptBlock fails after AcceptBlockHeader has entered the block in the index:
\* an invalid block is marked, one whose stake inputs are unavailable is not.
AcceptBlockFails(b) ==
    /\ CsMainFree
    /\ GetPrevIndex(b)
    /\ AcceptBlockHeader(b)
    /\ b \notin haveData
    /\ \/ b \in Rejected /\ failedValid' = failedValid \cup {b}
       \/ b \in Stalled \ mapBlockIndex /\ UNCHANGED failedValid
    /\ UNCHANGED <<haveData, linked, nSequenceId, nBlockSequenceId, failedChild, unsaved,
                   setBlockIndexCandidates, mapBlocksUnlinked, tip, pending, abcVars>>

-------------------------------------------------------------------------------
\* ActivateBestChain takes m_cs_chainstate; nothing is chosen yet.
Begin ==
    /\ pc = "idle" /\ pending
    /\ pending' = FALSE
    /\ pc' = "unlocked"
    /\ pindexMostWork' = None
    /\ UNCHANGED <<indexVars, flagVars, setBlockIndexCandidates, mapBlocksUnlinked, tip,
                   startingTip, pindexOldTip, blocksConnected>>

\* A round starts: cs_main is taken and starting_tip read.
LockCsMain ==
    /\ pc = "unlocked" /\ pindexMostWork # tip
    /\ pc' = "find"
    /\ startingTip' = tip
    /\ blocksConnected' = FALSE
    /\ UNCHANGED <<indexVars, flagVars, setBlockIndexCandidates, mapBlocksUnlinked, tip,
                   pending, pindexMostWork, pindexOldTip>>

\* The outer loop ends when its target is the tip.
Finish ==
    /\ pc = "unlocked" /\ pindexMostWork = tip
    /\ pc' = "idle"
    /\ UNCHANGED <<indexVars, flagVars, setBlockIndexCandidates, mapBlocksUnlinked, tip,
                   pending, pindexMostWork, startingTip, pindexOldTip, blocksConnected>>

\* The last element of setBlockIndexCandidates.
BestCandidate ==
    CHOOSE c \in setBlockIndexCandidates :
        \A d \in setBlockIndexCandidates \ {c} : Worse(d, c)

\* Mutant: only the candidate's own flags are examined.
FailedOnPathTop(b) == ({b} \ Chain[tip]) \cap Failed

\* The blocks between the active chain and b that are marked as failed.
FailedOnPath(b) == (Chain[b] \ Chain[tip]) \cap Failed

\* FindMostWorkChain discards the best candidate: its chain, down to the first
\* failed block, leaves the set and what is above that block is marked.
DiscardCandidate(b) ==
    LET test == CHOOSE f \in FailedOnPath(b) : FailedOnPath(b) \subseteq Chain[f]
        above == Chain[b] \ Chain[test]
    IN  /\ failedChild' = failedChild \cup above
        /\ unsaved' = unsaved \cup (above \ failedChild)
        /\ setBlockIndexCandidates' = setBlockIndexCandidates \ (above \cup {test})

\* One iteration of FindMostWorkChain that finds a failed candidate.
FindDiscards ==
    /\ pc = "find" /\ pindexMostWork = None
    /\ setBlockIndexCandidates # {}
    /\ FailedOnPath(BestCandidate) # {}
    /\ DiscardCandidate(BestCandidate)
    /\ UNCHANGED <<indexVars, failedValid, mapBlocksUnlinked, tip, pending, abcVars>>

\* What FindMostWorkChain returns when it does not discard another candidate.
MostWork == IF setBlockIndexCandidates = {} THEN None ELSE BestCandidate

\* FindMostWorkChain returns, or the target of the last round is used again: a
\* step towards it starts, or there is nothing to do.
Find ==
    /\ pc = "find"
    /\ \/ pindexMostWork # None /\ UNCHANGED pindexMostWork
       \/ /\ pindexMostWork = None
          /\ setBlockIndexCandidates # {} => FailedOnPath(BestCandidate) = {}
          /\ pindexMostWork' = MostWork
    /\ IF pindexMostWork' \in {None, tip}
       THEN /\ pc' = IF blocksConnected THEN "unlocked" ELSE "idle"
            /\ UNCHANGED pindexOldTip
       ELSE /\ pc' = "disconnect"
            /\ pindexOldTip' = tip
    /\ UNCHANGED <<indexVars, flagVars, setBlockIndexCandidates, mapBlocksUnlinked, tip,
                   pending, startingTip, blocksConnected>>

\* DisconnectTip, until the tip is an ancestor of the target.
Disconnect ==
    /\ pc = "disconnect"
    /\ IF Descends(pindexMostWork, tip)
       THEN pc' = "connect" /\ UNCHANGED tip
       ELSE tip' = Parent[tip] /\ UNCHANGED pc
    /\ UNCHANGED <<indexVars, flagVars, setBlockIndexCandidates, mapBlocksUnlinked, pending,
                   pindexMostWork, startingTip, pindexOldTip, blocksConnected>>

\* The next block on the way to the target.
NextToConnect ==
    CHOOSE b \in Chain[pindexMostWork] : b # Genesis /\ Parent[b] = tip

\* Mutant: cs_main is released after every step.
AfterStepAlways(newTip) == "unlocked"

\* The inner loop of ActivateBestChain goes on while the tip is worse than it was.
AfterStep(newTip) == IF Worse(newTip, startingTip) THEN "find" ELSE "unlocked"

\* Mutant: nothing is pruned.
PruneNothing(newTip) == setBlockIndexCandidates

\* PruneBlockIndexCandidates with newTip as the tip.
PruneBlockIndexCandidates(newTip) ==
    {c \in setBlockIndexCandidates : ~Worse(c, newTip)}

\* ConnectTip of a valid block, and the end of the step when the tip is now better
\* than when the step started, or is the target.
ConnectTip ==
    /\ pc = "connect"
    /\ NextToConnect \notin Bad
    /\ tip' = NextToConnect
    /\ setBlockIndexCandidates' = PruneBlockIndexCandidates(tip')
    /\ IF Work[tip'] > Work[pindexOldTip] \/ tip' = pindexMostWork
       THEN pc' = AfterStep(tip') /\ blocksConnected' = TRUE
       ELSE UNCHANGED <<pc, blocksConnected>>
    /\ UNCHANGED <<indexVars, flagVars, mapBlocksUnlinked, pending, pindexMostWork,
                   startingTip, pindexOldTip>>

\* ConnectTip of an invalid block: InvalidBlockFound marks it, and the target is
\* forgotten.
ConnectFails ==
    /\ pc = "connect"
    /\ NextToConnect \in Bad
    /\ failedValid' = failedValid \cup {NextToConnect}
    /\ unsaved' = unsaved \ {NextToConnect}
    /\ setBlockIndexCandidates' = setBlockIndexCandidates \ {NextToConnect}
    /\ pindexMostWork' = None
    /\ pc' = AfterStep(tip) /\ blocksConnected' = TRUE
    /\ UNCHANGED <<indexVars, failedChild, mapBlocksUnlinked, tip, pending,
                   startingTip, pindexOldTip>>

-------------------------------------------------------------------------------
\* The blocks InvalidateBlock(b) disconnects: the tip down to b.
Disconnected(b) == IF Descends(tip, b) THEN (Chain[tip] \ Chain[b]) \cup {b} ELSE {}

\* InvalidateBlock(b), and the ActivateBestChain its RPC command calls next.
InvalidateBlock(b) ==
    /\ pc \in OperatorPoints
    /\ b \in mapBlockIndex
    /\ failedValid' = failedValid \cup {b}
    /\ failedChild' = failedChild \cup Disconnected(b)
    /\ unsaved' = unsaved \ (Disconnected(b) \cup {b})
    /\ tip' = IF Descends(tip, b) THEN Parent[b] ELSE tip
    /\ setBlockIndexCandidates' =
           (setBlockIndexCandidates \ (Disconnected(b) \cup {b}))
               \cup {c \in linked : /\ c \notin failedValid' \cup failedChild'
                                    /\ ~Worse(c, tip')}
    /\ pending' = TRUE
    /\ UNCHANGED <<indexVars, mapBlocksUnlinked, abcVars>>

\* The failed blocks whose flags ReconsiderBlock(b) clears: the descendants of b,
\* whose better ones become candidates again, and its ancestors.
FailedDescendants(b) == {c \in Failed : Descends(c, b)}

\* ReconsiderBlock(b), and the ActivateBestChain its RPC command calls next.
ReconsiderBlock(b) ==
    LET cleared == FailedDescendants(b) \cup Chain[b]
    IN  /\ pc \in OperatorPoints
        /\ b \in mapBlockIndex
        /\ failedValid' = failedValid \ cleared
        /\ failedChild' = failedChild \ cleared
        /\ unsaved' = unsaved \ cleared
        /\ setBlockIndexCandidates' =
               setBlockIndexCandidates
                   \cup {c \in FailedDescendants(b) \cap linked : Worse(tip, c)}
        /\ pending' = TRUE
        /\ UNCHANGED <<indexVars, mapBlocksUnlinked, tip, abcVars>>

-------------------------------------------------------------------------------
\* nSequenceId is not stored: LoadBlockIndexDB leaves it 0 in every entry.
NoSequence == [b \in Blocks |-> 0]

\* The candidates LoadBlockIndexDB collects and LoadChainTip then prunes.
LoadedCandidates(failed) ==
    {c \in linked : c \notin failed /\ ~WorseBy(NoSequence, c, tip)}

\* The node is shut down, which flushes the dirty entries and the coins, and
\* started: LoadBlockIndexDB, LoadChainTip, ActivateBestChain in ThreadImport.  A
\* FAILED_CHILD flag that nobody entered in setDirtyBlockIndex is on disk only if
\* the entry was written for another reason.
Restart ==
    /\ Restarts /\ CsMainFree
    /\ \E lost \in SUBSET unsaved :
          /\ failedChild' = failedChild \ lost
          /\ setBlockIndexCandidates' = LoadedCandidates(failedValid \cup failedChild')
    /\ unsaved' = {}
    /\ nSequenceId' = NoSequence
    /\ nBlockSequenceId' = 1
    /\ mapBlocksUnlinked' = {b \in haveData \ {Genesis} : Parent[b] \notin linked}
    /\ pending' = TRUE
    /\ pc' = "idle"
    /\ UNCHANGED <<mapBlockIndex, haveData, linked, failedValid, tip, pindexMostWork,
                   startingTip, pindexOldTip, blocksConnected>>

-------------------------------------------------------------------------------
Receive == \E b \in Blocks \ {Genesis} :
              AcceptBlock(b) \/ AcceptDuplicate(b) \/ AcceptBlockFails(b)

Operator == \/ \E b \in Operated : InvalidateBlock(b)
            \/ \E b \in Reconsidered : ReconsiderBlock(b)

ActivateBestChain ==
    Begin \/ LockCsMain \/ Finish \/ FindDiscards \/ Find \/ Disconnect \/ ConnectTip
          \/ ConnectFails

Next == Receive \/ Operator \/ ActivateBestChain \/ Restart

Spec == Init /\ [][Next]_vars

\* A thread that calls ActivateBestChain goes on with it.
FairSpec == Spec /\ WF_vars(ActivateBestChain)

-------------------------------------------------------------------------------
(* Properties *)

\* Type correctness.
TypeOK ==
    /\ mapBlockIndex \subseteq Blocks
    /\ linked \subseteq haveData /\ haveData \subseteq mapBlockIndex
    /\ nSequenceId \in [Blocks -> Nat] /\ nBlockSequenceId \in Nat \ {0}
    /\ Failed \subseteq mapBlockIndex /\ unsaved \subseteq failedChild
    /\ setBlockIndexCandidates \subseteq linked
    /\ mapBlocksUnlinked \subseteq haveData \ linked
    /\ tip \in linked
    /\ pending \in BOOLEAN /\ blocksConnected \in BOOLEAN
    /\ pc \in {"idle", "unlocked", "find", "disconnect", "connect"}
    /\ {pindexMostWork, startingTip, pindexOldTip} \subseteq linked \cup {None}

HasInvalid(b) == Chain[b] \cap failedValid # {}
HasMissing(b) == ~(Chain[b] \subseteq haveData)

\* A block is marked as failed only when it or an ancestor was found invalid.
FailedMaskJustified(b) == b \in Failed => HasInvalid(b)

\* What CheckBlockIndex asserts of every index entry whenever cs_main is free.
CheckBlockIndex ==
    CsMainFree =>
        \A b \in mapBlockIndex :
            /\ b \notin linked => nSequenceId[b] = 0
            /\ HasMissing(b) <=> b \notin linked
            /\ FailedMaskJustified(b)
            /\ IF Worse(b, tip) \/ HasMissing(b)
               THEN b \notin setBlockIndexCandidates
               ELSE HasInvalid(b) \/ b \in setBlockIndexCandidates
            /\ IF b \in haveData /\ HasMissing(b)
               THEN HasInvalid(b) \/ b \in mapBlocksUnlinked
               ELSE b \notin mapBlocksUnlinked

\* No block of the active chain is marked as failed: FindMostWorkChain stops its
\* search at the active chain because all blocks in it are valid already.  (With no
\* candidate left the assertion of PruneBlockIndexCandidates has ended the node.)
ActiveChainValid ==
    CsMainFree /\ setBlockIndexCandidates # {} => Chain[tip] \cap Failed = {}

\* A round of ActivateBestChain that ends never leaves a worse tip than it found,
\* even when the reorganisation it tried ran into an invalid block.
NoLosingReorg == [][~CsMainFree /\ CsMainFree' => ~Worse(tip', startingTip)]_vars

\* The blocks that have all data and no invalid ancestor.
Eligible == {b \in linked : Chain[b] \cap (Bad \cup failedValid) = {}}

\* Unless restarts and the operator's calls go on for ever, every such block is
\* sooner or later matched by the work of the active chain, or invalidated.
BestChainWins ==
    <>[][~Restart /\ ~Operator]_vars =>
        \A b \in Blocks : []<>(b \notin Eligible \/ Work[tip] >= Work[b])
===============================================================================
