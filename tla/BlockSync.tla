------------------------------ MODULE BlockSync ------------------------------
(***************************************************************************)
(* How a node catches up with its peers: the getblocks / inv / getdata /   *)
(* block conversation of net_processing.cpp, over the connections to one   *)
(* or more peers that share one growing chain.  A block is its height.     *)
(* (The headers branches are dead: HeadersFirstSyncingActive is constant   *)
(* false in chainparams.cpp.)                                              *)
(*                                                                         *)
(* The client's block index is always a prefix of the chain, because the   *)
(* BLOCK handler drops a block whose parent is not in the index.  Both     *)
(* directions of a connection are FIFO, and connections are not lost.      *)
(***************************************************************************)
EXTENDS Integers, Sequences, FiniteSets, SequencesExt

CONSTANTS
    Peers,
    StartHeight,  \* the peers' tip when the client connects
    MaxHeight,    \* bound: blocks found in all
    Recent,       \* height from which blocks are less than six hours old
    Limit         \* nLimit: blocks announced per getblocks (500)

NoHash == 0   \* the null hash; nobody asks for genesis

VARIABLES
    tip,          \* height of the peers' chain
    have,         \* height of the client's chain
    fSyncStarted, \* peers the client has asked for blocks
    vBlockRequested, \* per peer: hashes the client has asked getblocks up to
    toPeer,       \* messages on their way to the peer
    toClient,     \* messages on their way to the client
    vRecvGetData, \* per peer: blocks still to be served
    vInventoryBlockToSend, \* per peer: announcements to be sent
    hashContinue  \* per peer: the block whose request triggers the next batch

vars == <<tip, have, fSyncStarted, vBlockRequested, toPeer, toClient, vRecvGetData,
          vInventoryBlockToSend, hashContinue>>
serving == <<vRecvGetData, vInventoryBlockToSend, hashContinue>>

Init ==
    /\ tip = StartHeight
    /\ have = 0
    /\ fSyncStarted = {}
    /\ vBlockRequested = [p \in Peers |-> {}]
    /\ toPeer = [p \in Peers |-> << >>]
    /\ toClient = [p \in Peers |-> << >>]
    /\ vRecvGetData = [p \in Peers |-> << >>]
    /\ vInventoryBlockToSend = [p \in Peers |-> << >>]
    /\ hashContinue = [p \in Peers |-> NoHash]

GetBlocks(stop) == [type |-> "getblocks", from |-> have, stop |-> stop]
Inv(bs) == [type |-> "inv", blocks |-> bs]
GetData(bs) == [type |-> "getdata", blocks |-> bs]
Block(b) == [type |-> "block", blocks |-> <<b>>]

PushMessage(ch, p, m) == [ch EXCEPT ![p] = Append(@, m)]
Pop(ch, p) == [ch EXCEPT ![p] = Tail(@)]

-----------------------------------------------------------------------------
(* The client. *)

\* mutant: only one peer is ever asked
StartOnlyOne(p) == fSyncStarted = {}

\* One peer at first; every other one once the best block is recent.
StartSync(p) == fSyncStarted = {} \/ have >= Recent

SendGetBlocks(p) ==
    /\ p \notin fSyncStarted
    /\ StartSync(p)
    /\ fSyncStarted' = fSyncStarted \cup {p}
    /\ toPeer' = PushMessage(toPeer, p, GetBlocks(NoHash))
    /\ UNCHANGED <<tip, have, vBlockRequested, toClient, serving>>

\* INV: everything not in the block index is requested.
ReceiveInv(p) ==
    /\ toClient[p] # << >> /\ Head(toClient[p]).type = "inv"
    /\ LET vToFetch == SelectSeq(Head(toClient[p]).blocks, LAMBDA b : b > have)
       IN  toPeer' = IF vToFetch = << >> THEN toPeer
                                         ELSE PushMessage(toPeer, p, GetData(vToFetch))
    /\ toClient' = Pop(toClient, p)
    /\ UNCHANGED <<tip, have, fSyncStarted, vBlockRequested, serving>>

\* The block up to which the client asks for announcements when the parent
\* of b is unknown to it: b, and the parent when b was asked for before.
SyncTo(p, b) == IF b \in vBlockRequested[p] THEN b - 1 ELSE b

\* BLOCK: a successor of the tip is connected (ProcessNewBlock), one that
\* is in the index already is skipped, any other is dropped for a getblocks.
ReceiveBlock(p) ==
    /\ toClient[p] # << >> /\ Head(toClient[p]).type = "block"
    /\ toClient' = Pop(toClient, p)
    /\ LET b == Head(toClient[p]).blocks[1]
       IN  IF b - 1 <= have
           THEN /\ have' = IF b > have THEN b ELSE have
                /\ UNCHANGED <<toPeer, vBlockRequested>>
           ELSE /\ toPeer' = PushMessage(toPeer, p, GetBlocks(SyncTo(p, b)))
                /\ vBlockRequested' = [vBlockRequested EXCEPT ![p] = @ \cup {SyncTo(p, b)}]
                /\ UNCHANGED have
    /\ UNCHANGED <<tip, fSyncStarted, serving>>

-----------------------------------------------------------------------------
(* A peer. *)

\* GETBLOCKS answers from the block after the fork with the locator, up to
\* and without hashStop, at most Limit blocks.
AnnouncedLast(m) ==
    LET last == IF m.stop > m.from /\ m.stop <= tip THEN m.stop - 1 ELSE tip
    IN  IF last > m.from + Limit THEN m.from + Limit ELSE last

\* mutant: no batch is continued
ContinueNever(p, m) == hashContinue[p]

\* The last block of a full batch is remembered.
ContinueAt(p, m) ==
    IF AnnouncedLast(m) = m.from + Limit THEN AnnouncedLast(m) ELSE hashContinue[p]

ReceiveGetBlocks(p) ==
    /\ vRecvGetData[p] = << >>
    /\ toPeer[p] # << >> /\ Head(toPeer[p]).type = "getblocks"
    /\ LET m == Head(toPeer[p])
       IN  /\ vInventoryBlockToSend' =
                  [vInventoryBlockToSend EXCEPT ![p] =
                      @ \o [i \in 1 .. (AnnouncedLast(m) - m.from) |-> m.from + i]]
           /\ hashContinue' = [hashContinue EXCEPT ![p] = ContinueAt(p, m)]
    /\ toPeer' = Pop(toPeer, p)
    /\ UNCHANGED <<tip, have, fSyncStarted, vBlockRequested, toClient, vRecvGetData>>

ReceiveGetData(p) ==
    /\ vRecvGetData[p] = << >>
    /\ toPeer[p] # << >> /\ Head(toPeer[p]).type = "getdata"
    /\ vRecvGetData' = [vRecvGetData EXCEPT ![p] = Head(toPeer[p]).blocks]
    /\ toPeer' = Pop(toPeer, p)
    /\ UNCHANGED <<tip, have, fSyncStarted, vBlockRequested, toClient,
                   vInventoryBlockToSend, hashContinue>>

\* ProcessGetData serves one block per call; the one that ends a batch is
\* followed by an announcement of the tip.
ProcessGetData(p) ==
    /\ vRecvGetData[p] # << >>
    /\ LET b == Head(vRecvGetData[p])
       IN  IF b = hashContinue[p]
           THEN /\ toClient' = [toClient EXCEPT ![p] = @ \o <<Block(b), Inv(<<tip>>)>>]
                /\ hashContinue' = [hashContinue EXCEPT ![p] = NoHash]
           ELSE /\ toClient' = PushMessage(toClient, p, Block(b))
                /\ UNCHANGED hashContinue
    /\ vRecvGetData' = Pop(vRecvGetData, p)
    /\ UNCHANGED <<tip, have, fSyncStarted, vBlockRequested, toPeer, vInventoryBlockToSend>>

\* SendMessages flushes the announcements.
SendInv(p) ==
    /\ vInventoryBlockToSend[p] # << >>
    /\ toClient' = PushMessage(toClient, p, Inv(vInventoryBlockToSend[p]))
    /\ vInventoryBlockToSend' = [vInventoryBlockToSend EXCEPT ![p] = << >>]
    /\ UNCHANGED <<tip, have, fSyncStarted, vBlockRequested, toPeer, vRecvGetData,
                   hashContinue>>

\* The peers find a block and UpdatedBlockTip queues its announcement.
NewBlock ==
    /\ tip < MaxHeight
    /\ tip' = tip + 1
    /\ vInventoryBlockToSend' = [p \in Peers |-> Append(vInventoryBlockToSend[p], tip + 1)]
    /\ UNCHANGED <<have, fSyncStarted, vBlockRequested, toPeer, toClient, vRecvGetData,
                   hashContinue>>

Client(p) == SendGetBlocks(p) \/ ReceiveInv(p) \/ ReceiveBlock(p)
Peer(p) == ReceiveGetBlocks(p) \/ ReceiveGetData(p) \/ ProcessGetData(p) \/ SendInv(p)

Next == NewBlock \/ \E p \in Peers : Client(p) \/ Peer(p)

\* Each of these is one node visited by a message thread that visits all
\* its nodes for ever.
Fairness == \A p \in Peers : /\ WF_vars(Client(p))
                             /\ WF_vars(SendInv(p))
                             /\ WF_vars(ReceiveGetBlocks(p) \/ ReceiveGetData(p) \/ ProcessGetData(p))

Spec == Init /\ [][Next]_vars /\ Fairness

-----------------------------------------------------------------------------
Messages == [type : {"inv", "getdata", "block"}, blocks : Seq(1 .. MaxHeight)]
              \cup [type : {"getblocks"}, from : 0 .. MaxHeight, stop : 0 .. MaxHeight]

TypeOK ==
    /\ tip \in StartHeight .. MaxHeight
    /\ have \in 0 .. tip
    /\ fSyncStarted \subseteq Peers
    /\ vBlockRequested \in [Peers -> SUBSET (1 .. MaxHeight)]
    /\ \A p \in Peers : Range(toPeer[p]) \cup Range(toClient[p]) \subseteq Messages
    /\ vRecvGetData \in [Peers -> Seq(1 .. MaxHeight)]
    /\ vInventoryBlockToSend \in [Peers -> Seq(1 .. MaxHeight)]
    /\ hashContinue \in [Peers -> 0 .. MaxHeight]

\* Nothing is under way on any connection.
Quiet ==
    \A p \in Peers : /\ toPeer[p] = << >> /\ toClient[p] = << >>
                     /\ vRecvGetData[p] = << >> /\ vInventoryBlockToSend[p] = << >>

\* However announcements and batches interleave, a conversation that
\* has come to rest has left the client at most two blocks behind: the
\* getblocks of the BLOCK handler stop before the block they are sent for,
\* and before its parent the second time.
RestsNearTip == Quiet /\ fSyncStarted # {} => tip - have <= 2

\* Once no more blocks are found the client ends on its peers' tip, provided
\* there are two or more and the blocks of the recent past fit into one
\* batch: those peers are asked without a block to stop at (the condition
\* in SendMessages for starting a sync with a further peer).
CatchesUp == <>[](have = tip)
=============================================================================
