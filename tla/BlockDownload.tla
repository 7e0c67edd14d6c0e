---------------------------- MODULE BlockDownload ----------------------------
(***************************************************************************)
(* The validation side's bookkeeping about peers (CNodeState and the       *)
(* globals next to it in net_processing.cpp): who is asked for which       *)
(* missing block, who stalls the download window, and the counters that    *)
(* decide whom to sync from.  All of it is guarded by cs_main.             *)
(*                                                                         *)
(* Blocks are heights of one chain.  A block enters the index when its     *)
(* parent is there; its data may be refused at first (AcceptBlock returns  *)
(* after AcceptBlockHeader), which is what leaves a block to be fetched.   *)
(***************************************************************************)
EXTENDS Integers, Sequences, FiniteSets, FiniteSetsExt, SequencesExt

CONSTANTS
    Peers, NoPeer,
    Preferred,   \* outbound or whitelisted peers that serve blocks
    MaxHeight,
    Window,      \* BLOCK_DOWNLOAD_WINDOW
    MaxTransit,  \* MAX_BLOCKS_IN_TRANSIT_PER_PEER
    MaxSessions  \* bound: connections made in all

Heights == 1 .. MaxHeight

(* NoPeer is told from the peers, and the limits are numbers.              *)
ConstantsOK ==
    /\ IsFiniteSet(Peers) /\ NoPeer \notin Peers /\ Preferred \subseteq Peers
    /\ MaxHeight \in Nat /\ Window \in Nat /\ MaxTransit \in Nat

VARIABLES
    mapNodeState, fDisconnect, fSyncStarted, fPreferredDownload, \* sets of peers
    nStallingSince,       \* the peers for which it is not 0
    pindexBestKnownBlock, hashLastUnknownBlock, pindexLastCommonBlock, \* heights, 0: none
    vBlocksInFlight,      \* per peer, in the order of the requests
    mapBlocksInFlight,    \* the peer a block was requested from, or NoPeer
    nQueuedValidatedHeaders, nSyncStarted, nPreferredDownload,
    index, data,          \* blocks in mapBlockIndex, and those with BLOCK_HAVE_DATA
    sessions,             \* connections made
    leaked                \* history: flights ended by FinalizeNode

vars == <<mapNodeState, fDisconnect, fSyncStarted, fPreferredDownload, nStallingSince,
          pindexBestKnownBlock, hashLastUnknownBlock, pindexLastCommonBlock,
          vBlocksInFlight, mapBlocksInFlight, nQueuedValidatedHeaders, nSyncStarted,
          nPreferredDownload, index, data, sessions, leaked>>
known == <<pindexBestKnownBlock, hashLastUnknownBlock, pindexLastCommonBlock>>
flights == <<vBlocksInFlight, mapBlocksInFlight, nQueuedValidatedHeaders, nStallingSince>>
counted == <<fSyncStarted, fPreferredDownload, nSyncStarted, nPreferredDownload>>
chain == <<index, data>>

Init ==
    /\ mapNodeState = {} /\ fDisconnect = {} /\ fSyncStarted = {}
    /\ fPreferredDownload = {} /\ nStallingSince = {}
    /\ pindexBestKnownBlock = [p \in Peers |-> 0]
    /\ hashLastUnknownBlock = [p \in Peers |-> 0]
    /\ pindexLastCommonBlock = [p \in Peers |-> 0]
    /\ vBlocksInFlight = [p \in Peers |-> << >>]
    /\ mapBlocksInFlight = [b \in Heights |-> NoPeer]
    /\ nQueuedValidatedHeaders = 0 /\ nSyncStarted = 0 /\ nPreferredDownload = 0
    /\ index = {} /\ data = {}
    /\ sessions = 0 /\ leaked = 0

\* The active tip, which is also the last block whose nChainTx is set.
Tip == Max({h \in 0 .. MaxHeight : 1 .. h \subseteq data})

-----------------------------------------------------------------------------
(* Connections. *)

\* InitializeNode, and UpdatePreferredDownload on the peer's version.
InitializeNode(p) ==
    /\ p \notin mapNodeState /\ sessions < MaxSessions
    /\ sessions' = sessions + 1
    /\ mapNodeState' = mapNodeState \cup {p}
    /\ fPreferredDownload' = fPreferredDownload \cup (Preferred \cap {p})
    /\ nPreferredDownload' = nPreferredDownload + Cardinality(Preferred \cap {p})
    /\ UNCHANGED <<fDisconnect, fSyncStarted, nSyncStarted, known, flights, chain, leaked>>

\* The peer hangs up, or is made to by some other part of the program.
Leave(p) ==
    /\ p \in mapNodeState \ fDisconnect
    /\ fDisconnect' = fDisconnect \cup {p}
    /\ UNCHANGED <<mapNodeState, counted, known, flights, chain, sessions, leaked>>

\* mutant: the flights of the peer stay in the map
FlightsKept(p) == mapBlocksInFlight

FlightsWithout(p) ==
    [b \in Heights |-> IF mapBlocksInFlight[b] = p THEN NoPeer ELSE mapBlocksInFlight[b]]

PreferredAfter(p) == nPreferredDownload - Cardinality(fPreferredDownload \cap {p})

\* FinalizeNode erases what the peer owes from the map, but leaves
\* nQueuedValidatedHeaders as it is.
FinalizeNode(p) ==
    /\ p \in mapNodeState \cap fDisconnect
    /\ nSyncStarted' = nSyncStarted - Cardinality(fSyncStarted \cap {p})
    /\ mapBlocksInFlight' = FlightsWithout(p)
    /\ leaked' = leaked + Len(vBlocksInFlight[p])
    /\ nPreferredDownload' = PreferredAfter(p)
    /\ mapNodeState' = mapNodeState \ {p} /\ fDisconnect' = fDisconnect \ {p}
    /\ fSyncStarted' = fSyncStarted \ {p} /\ nStallingSince' = nStallingSince \ {p}
    /\ fPreferredDownload' = fPreferredDownload \ {p}
    /\ vBlocksInFlight' = [vBlocksInFlight EXCEPT ![p] = << >>]
    /\ pindexBestKnownBlock' = [pindexBestKnownBlock EXCEPT ![p] = 0]
    /\ hashLastUnknownBlock' = [hashLastUnknownBlock EXCEPT ![p] = 0]
    /\ pindexLastCommonBlock' = [pindexLastCommonBlock EXCEPT ![p] = 0]
    /\ UNCHANGED <<nQueuedValidatedHeaders, chain, sessions>>

-----------------------------------------------------------------------------
(* Messages. *)

\* ProcessBlockAvailability: the last unknown announcement is looked up
\* again; what it then is known to be.
BestAfterLookup(p) ==
    IF hashLastUnknownBlock[p] \in index
    THEN Max({hashLastUnknownBlock[p], pindexBestKnownBlock[p]})
    ELSE pindexBestKnownBlock[p]

UnknownAfterLookup(p) ==
    IF hashLastUnknownBlock[p] \in index THEN 0 ELSE hashLastUnknownBlock[p]

\* INV of a block: UpdateBlockAvailability.  (The getdata it may cause is
\* answered by ReceiveBlock at any later time.)
ReceiveInv(p, b) ==
    /\ p \in mapNodeState \ fDisconnect
    /\ pindexBestKnownBlock' = [pindexBestKnownBlock EXCEPT ![p] =
           IF b \in index THEN Max({b, BestAfterLookup(p)}) ELSE BestAfterLookup(p)]
    /\ hashLastUnknownBlock' = [hashLastUnknownBlock EXCEPT ![p] =
           IF b \in index THEN UnknownAfterLookup(p) ELSE b]
    /\ UNCHANGED <<mapNodeState, fDisconnect, counted, pindexLastCommonBlock, flights, chain,
                   sessions, leaked>>

MarkBlockAsReceived(b) ==
    LET p == mapBlocksInFlight[b]
    IN  IF p = NoPeer
        THEN UNCHANGED flights
        ELSE /\ nQueuedValidatedHeaders' = nQueuedValidatedHeaders - 1
             /\ vBlocksInFlight' = [vBlocksInFlight EXCEPT ![p] =
                    RemoveAt(@, CHOOSE i \in DOMAIN @ : @[i] = b)]
             /\ nStallingSince' = nStallingSince \ {p}
             /\ mapBlocksInFlight' = [mapBlocksInFlight EXCEPT ![b] = NoPeer]

\* BLOCK: a block already in the index is skipped, one without its parent
\* in the index is answered with getblocks, which BlockSync is about.
ReceiveBlock(p, b) ==
    /\ p \in mapNodeState \ fDisconnect
    /\ b \notin index /\ (b = 1 \/ b - 1 \in index)
    /\ MarkBlockAsReceived(b)
    /\ index' = index \cup {b}
    /\ data' \in {data, data \cup {b}}
    /\ UNCHANGED <<mapNodeState, fDisconnect, counted, known, sessions, leaked>>

\* A block that was refused is stored after all: it was submitted locally.
StoreBlock(b) ==
    /\ b \in index \ data
    /\ data' = data \cup {b}
    /\ UNCHANGED <<mapNodeState, fDisconnect, counted, known, flights, index, sessions, leaked>>

-----------------------------------------------------------------------------
(* SendMessages. *)

Fetches(p) == p \in fPreferredDownload \/ nPreferredDownload = 0

\* The getblocks that starts a sync; "recent" stands for a best header of
\* the last six hours.
StartSync(p) ==
    /\ p \in mapNodeState \ (fDisconnect \cup fSyncStarted)
    /\ \E recent \in BOOLEAN : recent \/ (nSyncStarted = 0 /\ Fetches(p))
    /\ fSyncStarted' = fSyncStarted \cup {p}
    /\ nSyncStarted' = nSyncStarted + 1
    /\ UNCHANGED <<mapNodeState, fDisconnect, fPreferredDownload, nPreferredDownload, known,
                   flights, chain, sessions, leaked>>

\* mutant: a block that is overdue does not matter
OverdueStalling(p) == p \in nStallingSince

\* A peer is disconnected when it has been stalling for too long, or when
\* the oldest block it owes is overdue.
Overdue(p) == p \in nStallingSince \/ vBlocksInFlight[p] # << >>

Timeout(p) ==
    /\ p \in mapNodeState \ fDisconnect
    /\ Overdue(p)
    /\ fDisconnect' = fDisconnect \cup {p}
    /\ UNCHANGED <<mapNodeState, counted, known, flights, chain, sessions, leaked>>

\* FindNextBlocksToDownload on one chain.  Common is the guess the walk
\* starts from, Walk the heights it may look at: one more than the window.
Common(p) ==
    IF pindexLastCommonBlock[p] = 0
    THEN Min({BestAfterLookup(p), Tip})
    ELSE Min({pindexLastCommonBlock[p], BestAfterLookup(p)})

WindowEnd(p) == Common(p) + Window
Walk(p) == Common(p) + 1 .. Min({BestAfterLookup(p), WindowEnd(p) + 1})
Wanted(p) == {b \in Walk(p) : b \notin data /\ mapBlocksInFlight[b] = NoPeer}

\* The first blocks within the window.
ToDownload(p) ==
    LET inWindow == {b \in Wanted(p) : b <= WindowEnd(p)}
        count == MaxTransit - Len(vBlocksInFlight[p])
    IN  {b \in inWindow : Cardinality({c \in inWindow : c < b}) < count}

\* Blocks in the order of the chain, in which they are asked for.
InOrder(S) ==
    {q \in Bijection(1 .. Cardinality(S), S) : \A i, j \in DOMAIN q : i < j => q[i] < q[j]}

\* The peer that holds up the window: nothing within it is left to ask for,
\* something just beyond it is, and the first block that is in flight comes
\* from another peer.
Staller(p) ==
    LET flying == {b \in Walk(p) : b \notin data /\ mapBlocksInFlight[b] # NoPeer
                                   /\ b < WindowEnd(p) + 1}
    IN  IF ToDownload(p) = {} /\ WindowEnd(p) + 1 \in Wanted(p) /\ flying # {}
        THEN {mapBlocksInFlight[Min(flying)]} \ {p}
        ELSE {}

FetchBlocks(p) ==
    /\ p \in mapNodeState \ fDisconnect
    /\ Fetches(p)
    /\ Len(vBlocksInFlight[p]) < MaxTransit
    /\ pindexBestKnownBlock' = [pindexBestKnownBlock EXCEPT ![p] = BestAfterLookup(p)]
    /\ hashLastUnknownBlock' = [hashLastUnknownBlock EXCEPT ![p] = UnknownAfterLookup(p)]
    /\ IF BestAfterLookup(p) = 0 \/ BestAfterLookup(p) < Tip
       THEN UNCHANGED <<pindexLastCommonBlock, flights>>
       ELSE /\ pindexLastCommonBlock' = [pindexLastCommonBlock EXCEPT ![p] =
                   Max({Common(p), Min({Tip, BestAfterLookup(p), WindowEnd(p) + 1})})]
            /\ \E vToDownload \in InOrder(ToDownload(p)) :
                  vBlocksInFlight' = [vBlocksInFlight EXCEPT ![p] = @ \o vToDownload]
            /\ mapBlocksInFlight' = [b \in Heights |-> IF b \in ToDownload(p)
                                                       THEN p ELSE mapBlocksInFlight[b]]
            /\ nQueuedValidatedHeaders' = nQueuedValidatedHeaders + Cardinality(ToDownload(p))
            /\ nStallingSince' = IF vBlocksInFlight'[p] = << >>
                                 THEN nStallingSince \cup Staller(p) ELSE nStallingSince
    /\ UNCHANGED <<mapNodeState, fDisconnect, counted, chain, sessions, leaked>>

Next ==
    \/ \E p \in Peers : InitializeNode(p) \/ Leave(p) \/ FinalizeNode(p) \/ StartSync(p)
                        \/ Timeout(p) \/ FetchBlocks(p)
    \/ \E p \in Peers, b \in Heights : ReceiveInv(p, b) \/ ReceiveBlock(p, b)
    \/ \E b \in Heights : StoreBlock(b)

\* The message thread visits every peer again and again, and clocks move on.
Fairness == \A p \in Peers : WF_vars(Timeout(p)) /\ WF_vars(FinalizeNode(p))

Spec == Init /\ [][Next]_vars /\ Fairness

-----------------------------------------------------------------------------
TypeOK ==
    /\ mapNodeState \subseteq Peers
    /\ UNION {fDisconnect, fSyncStarted, fPreferredDownload, nStallingSince}
          \subseteq mapNodeState
    /\ vBlocksInFlight \in [Peers -> Seq(Heights)]
    /\ mapBlocksInFlight \in [Heights -> Peers \cup {NoPeer}]
    /\ \A k \in {pindexBestKnownBlock, hashLastUnknownBlock, pindexLastCommonBlock} :
          k \in [Peers -> 0 .. MaxHeight]
    /\ nQueuedValidatedHeaders \in Nat
    /\ data \subseteq index /\ index \subseteq Heights

\* The records of the flights agree, whatever the order of versions, syncs,
\* blocks and disconnections: the global map and the lists of the peers list
\* the same flights, so that a block is owed by at most one peer, once, and
\* never by one that is gone (State() of the staller and of the owner is
\* dereferenced unchecked); the counters that decide whom to sync and download
\* from are exact; nQueuedValidatedHeaders counts the flights, and those that
\* were under way when FinalizeNode was called for their peer.
FlightsAgree ==
    /\ \A b \in Heights, p \in Peers :
          Cardinality({i \in DOMAIN vBlocksInFlight[p] : vBlocksInFlight[p][i] = b})
              = IF mapBlocksInFlight[b] = p THEN 1 ELSE 0
    /\ \A b \in Heights : mapBlocksInFlight[b] \in mapNodeState \cup {NoPeer}
    /\ nSyncStarted = Cardinality(fSyncStarted)
    /\ nPreferredDownload = Cardinality(fPreferredDownload)
    /\ nQueuedValidatedHeaders
          = Cardinality({b \in Heights : mapBlocksInFlight[b] # NoPeer}) + leaked

\* A block does not stay in flight for ever: it arrives, or the peer that
\* owes it is disconnected and the block can be asked for again.
FlightEnds == \A b \in Heights : []<>(mapBlocksInFlight[b] = NoPeer)
=============================================================================
