--------------------------- MODULE NodeLifecycle ---------------------------
(***************************************************************************)
(* The life of a peer (CNode) in the connection manager: how it enters     *)
(* vNodes, how the socket thread and the message thread share it through   *)
(* reference counts, how it is disconnected, parked in vNodesDisconnected  *)
(* and deleted, and what happens to the outbound slot, to the queue of     *)
(* received messages and to the validation-side CNodeState it owns.        *)
(*                                                                         *)
(* Threads: the socket handler (net.cpp:1073), the message handler         *)
(* (net.cpp:1845), one thread that opens outbound connections and the RPC  *)
(* threads.  A step is what a thread does under one hold of cs_vNodes, or  *)
(* between two points where another thread can change fDisconnect.         *)
(***************************************************************************)
EXTENDS Integers, FiniteSets, Sequences

CONSTANTS
    Nodes,       \* the peers that may ever connect; an identifier is used once
    Listed,      \* those whose address we know, and may connect to
    NoNode,      \* no peer (a model value)
    MaxOutbound, \* the initial value of semOutbound
    MaxInbound,  \* nMaxConnections - MAX_OUTBOUND_CONNECTIONS
    Flood        \* nReceiveFloodSize, in messages

ASSUME NodesAssumption ==
    /\ IsFiniteSet(Nodes) /\ NoNode \notin Nodes /\ Listed \subseteq Nodes
    /\ MaxOutbound \in Nat /\ MaxInbound \in Nat /\ Flood \in Nat

Threads == {"socket", "message"}

\* Where they can be in their loops.
Places == {"disconnect", "delete", "accept", "service", "copy", "loop", "block", "send", "exited"}

\* What a received message can do to fDisconnect: a new block ends in
\* DisconnectOldProtocol, any other message may be a reason to hang up.
Messages == {"block", "other"}

VARIABLES
    where,       \* where a CNode is: not yet created, in a list, or deleted
    nRefCount,
    fDisconnect,
    fInbound,    \* the nodes that connected to us
    open,        \* the nodes with a valid hSocket
    vProcessMsg, \* received messages waiting for the message thread
    fPauseRecv,
    grantOutbound, \* the nodes that own a slot of semOutbound
    semOutbound,
    opener,      \* the opening thread: waiting, or holding a slot of its own
    mapNodeState,  \* the nodes with an entry in net_processing's map
    pc,          \* where each of the two threads is in its loop
    held,        \* vNodesCopy of each thread: the nodes it holds references to
    todo,        \* the part of the copy still to be visited
    current,     \* the node the message thread is working on, or NoNode
    interrupted, \* flagInterruptMsgProc and interruptNet
    revived      \* history: nodes whose fDisconnect has been cleared again

vars == <<where, nRefCount, fDisconnect, fInbound, open, vProcessMsg, fPauseRecv,
          grantOutbound, semOutbound, opener, mapNodeState, pc, held, todo,
          current, interrupted, revived>>

slots == <<grantOutbound, semOutbound, opener>>
recvQueue == <<vProcessMsg, fPauseRecv>>

vNodes == {n \in Nodes : where[n] = "vNodes"}
vNodesDisconnected == {n \in Nodes : where[n] = "disconnected"}

Init ==
    /\ where = [n \in Nodes |-> "none"]
    /\ nRefCount = [n \in Nodes |-> 0]
    /\ fDisconnect = [n \in Nodes |-> FALSE]
    /\ fInbound = {}
    /\ open = {}
    /\ vProcessMsg = [n \in Nodes |-> << >>]
    /\ fPauseRecv = [n \in Nodes |-> FALSE]
    /\ grantOutbound = {}
    /\ semOutbound = MaxOutbound
    /\ opener = "waiting"
    /\ mapNodeState = {}
    /\ pc = [t \in Threads |-> IF t = "socket" THEN "disconnect" ELSE "copy"]
    /\ held = [t \in Threads |-> {}]
    /\ todo = [t \in Threads |-> {}]
    /\ current = NoNode
    /\ interrupted = FALSE
    /\ revived = {}

Goto(t, l) == pc' = [pc EXCEPT ![t] = l]

-----------------------------------------------------------------------------
(* Creation. *)

\* A new CNode with its first reference, InitializeNode, and the entry in
\* vNodes; nobody else knows the node before the last of these.
Enter(n) ==
    /\ where' = [where EXCEPT ![n] = "vNodes"]
    /\ nRefCount' = [nRefCount EXCEPT ![n] = @ + 1]
    /\ open' = open \cup {n}
    /\ mapNodeState' = mapNodeState \cup {n}

\* Peers AttemptToEvictConnection may choose from; which of them are
\* protected depends on ping times and network groups, left open here.
EvictionCandidates == {n \in vNodes \cap fInbound : ~fDisconnect[n]}

\* mutant: one peer too many before an eviction is due
FullLate == Cardinality(vNodes \cap fInbound) > MaxInbound

\* Every inbound peer in vNodes counts, also those about to leave it.
Full == Cardinality(vNodes \cap fInbound) >= MaxInbound

\* AcceptConnection: a full node evicts an inbound peer or drops the new
\* connection (the latter changes nothing).
AcceptConnection(n) ==
    /\ pc["socket"] = "accept" /\ ~interrupted
    /\ where[n] = "none"
    /\ \/ ~Full /\ UNCHANGED fDisconnect
       \/ /\ Full
          /\ \E e \in EvictionCandidates :
                fDisconnect' = [fDisconnect EXCEPT ![e] = TRUE]
    /\ Enter(n)
    /\ fInbound' = fInbound \cup {n}
    /\ UNCHANGED <<slots, recvQueue, pc, held, todo, current, interrupted, revived>>

\* CSemaphore::wait
SlotFree == semOutbound >= 1

\* The threads that open connections wait for a slot first.
AcquireGrant ==
    /\ opener = "waiting" /\ SlotFree /\ ~interrupted
    /\ semOutbound' = semOutbound - 1
    /\ opener' = "granted"
    /\ UNCHANGED <<fInbound, where, nRefCount, fDisconnect, open, recvQueue, grantOutbound,
                   mapNodeState, pc, held, todo, current, interrupted, revived>>

\* OpenNetworkConnection succeeds: the slot moves into the node.
OpenNetworkConnection(n) ==
    /\ opener = "granted"
    /\ n \in Listed /\ where[n] = "none"
    /\ Enter(n)
    /\ grantOutbound' = grantOutbound \cup {n}
    /\ opener' = "waiting"
    /\ UNCHANGED <<fDisconnect, fInbound, recvQueue, semOutbound, pc, held, todo, current,
                   interrupted, revived>>

\* No address, no connection or a shutdown: the grant's destructor returns
\* the slot.
OpenFails ==
    /\ opener = "granted"
    /\ semOutbound' = semOutbound + 1
    /\ opener' = "waiting"
    /\ UNCHANGED <<fInbound, where, nRefCount, fDisconnect, open, recvQueue, grantOutbound,
                   mapNodeState, pc, held, todo, current, interrupted, revived>>

-----------------------------------------------------------------------------
(* What both threads do with the list of nodes. *)

\* Copy vNodes and take a reference to each, under cs_vNodes.
CopyNodes(t, next) ==
    /\ held' = [held EXCEPT ![t] = vNodes]
    /\ todo' = [todo EXCEPT ![t] = vNodes]
    /\ nRefCount' = [n \in Nodes |-> nRefCount[n] + (IF n \in vNodes THEN 1 ELSE 0)]
    /\ Goto(t, next)

\* The nodes of the copy, wherever they are by now.
Released(t) == held[t]

\* Give the references back once every node of the copy has been visited.
ReleaseNodes(t, next) ==
    /\ todo[t] = {}
    /\ nRefCount' = [n \in Nodes |-> nRefCount[n] - (IF n \in Released(t) THEN 1 ELSE 0)]
    /\ held' = [held EXCEPT ![t] = {}]
    /\ Goto(t, next)
    /\ UNCHANGED todo

Visited(t, n) == todo' = [todo EXCEPT ![t] = @ \ {n}]

-----------------------------------------------------------------------------
(* The socket handler. *)

\* mutant: a node whose socket is closed already is left alone
MarkedOpen == {n \in vNodes : fDisconnect[n] /\ n \in open}

Marked == {n \in vNodes : fDisconnect[n]}

\* mutant: the semaphore is posted for inbound nodes too
SlotsOfAll(N) == Cardinality(N)

\* CSemaphoreGrant::Release posts only what the node owns.
SlotsOf(N) == Cardinality(grantOutbound \cap N)

\* Nodes marked fDisconnect leave vNodes, give their slot back, lose their
\* socket and the reference vNodes held.
DisconnectNodes ==
    /\ pc["socket"] = "disconnect" /\ ~interrupted
    /\ LET gone == Marked
       IN  /\ where' = [n \in Nodes |-> IF n \in gone THEN "disconnected" ELSE where[n]]
           /\ semOutbound' = semOutbound + SlotsOf(gone)
           /\ grantOutbound' = grantOutbound \ gone
           /\ open' = open \ gone
           /\ nRefCount' = [n \in Nodes |-> nRefCount[n] - (IF n \in gone THEN 1 ELSE 0)]
    /\ Goto("socket", "delete")
    /\ UNCHANGED <<fInbound, fDisconnect, recvQueue, opener, mapNodeState, held, todo, current,
                   interrupted, revived>>

\* mutant: the reference count is not looked at
DeletableAny == vNodesDisconnected

\* Nodes nobody holds a reference to.  (The two locks of net.cpp:1110 are
\* only ever held by a thread that holds a reference or finds the node in
\* vNodes, so that the attempts to take them succeed here.)
Deletable == {n \in vNodesDisconnected : nRefCount[n] <= 0}

\* The fields of a destroyed node are gone; the model resets them.
Destroy(N) ==
    /\ fDisconnect' = [n \in Nodes |-> IF n \in N THEN FALSE ELSE fDisconnect[n]]
    /\ fInbound' = fInbound \ N
    /\ vProcessMsg' = [n \in Nodes |-> IF n \in N THEN << >> ELSE vProcessMsg[n]]
    /\ fPauseRecv' = [n \in Nodes |-> IF n \in N THEN FALSE ELSE fPauseRecv[n]]

\* DeleteNode: FinalizeNode, then the destructor.
DeleteNodes ==
    /\ pc["socket"] = "delete"
    /\ where' = [n \in Nodes |-> IF n \in Deletable THEN "deleted" ELSE where[n]]
    /\ mapNodeState' = mapNodeState \ Deletable
    /\ Destroy(Deletable)
    /\ Goto("socket", "accept")
    /\ UNCHANGED <<nRefCount, open, slots, held, todo, current, interrupted, revived>>

SocketCopy ==
    /\ pc["socket"] = "accept" /\ ~interrupted
    /\ CopyNodes("socket", "service")
    /\ UNCHANGED <<fInbound, where, fDisconnect, open, recvQueue, slots, mapNodeState, current,
                   interrupted, revived>>

\* The pause flag is recomputed whenever the queue changes, by the thread
\* that adds to it and by the thread that takes from it.
PauseRecv(n, q) == Len(q) > Flood

SetQueue(n, q) ==
    /\ vProcessMsg' = [vProcessMsg EXCEPT ![n] = q]
    /\ fPauseRecv' = [fPauseRecv EXCEPT ![n] = PauseRecv(n, q)]

\* One node of the copy.  A closed socket is skipped.  Otherwise nothing is
\* ready; or a message is complete, unless reading is paused; or the peer
\* has gone or sends rubbish (CloseSocketDisconnect); or it has been silent
\* for too long, which only sets the mark.
Service(n) ==
    /\ pc["socket"] = "service" /\ ~interrupted /\ n \in todo["socket"]
    /\ Visited("socket", n)
    /\ \/ UNCHANGED <<fDisconnect, open, recvQueue>>
       \/ /\ n \in open /\ ~fPauseRecv[n]
          /\ \E msg \in Messages : SetQueue(n, Append(vProcessMsg[n], msg))
          /\ UNCHANGED <<fDisconnect, open>>
       \/ /\ n \in open
          /\ open' = open \ {n}
          /\ fDisconnect' = [fDisconnect EXCEPT ![n] = TRUE]
          /\ UNCHANGED recvQueue
       \/ /\ n \in open
          /\ fDisconnect' = [fDisconnect EXCEPT ![n] = TRUE]
          /\ UNCHANGED <<open, recvQueue>>
    /\ UNCHANGED <<fInbound, where, nRefCount, slots, mapNodeState, pc, held, current, interrupted,
                   revived>>

SocketRelease ==
    /\ pc["socket"] = "service" /\ ~interrupted
    /\ ReleaseNodes("socket", "disconnect")
    /\ UNCHANGED <<fInbound, where, fDisconnect, open, recvQueue, slots, mapNodeState, current,
                   interrupted, revived>>

-----------------------------------------------------------------------------
(* The message handler. *)

MessageCopy ==
    /\ pc["message"] = "copy" /\ ~interrupted
    /\ CopyNodes("message", "loop")
    /\ UNCHANGED <<fInbound, where, fDisconnect, open, recvQueue, slots, mapNodeState, current,
                   interrupted, revived>>

SkipNode(n) ==
    /\ pc["message"] = "loop" /\ ~interrupted /\ n \in todo["message"] /\ fDisconnect[n]
    /\ Visited("message", n)
    /\ UNCHANGED <<fInbound, where, nRefCount, fDisconnect, open, recvQueue, slots,
                   mapNodeState, pc, held, current, interrupted, revived>>

\* Reasons to hang up met by the message thread: all but one only set the
\* mark; SocketSendData may also find the socket dead.
HangUp(n) ==
    \/ UNCHANGED <<fDisconnect, open>>
    \/ /\ fDisconnect' = [fDisconnect EXCEPT ![n] = TRUE]
       /\ open' \in {open, open \ {n}}

\* SendMessages is the last thing done to a node of the copy; it does
\* nothing to one that is marked.  It dereferences State(pto->GetId()).
SendMessages(n) ==
    /\ n \in mapNodeState
    /\ IF fDisconnect[n] THEN UNCHANGED <<fDisconnect, open>> ELSE HangUp(n)
    /\ Visited("message", n)

\* ProcessMessages with nothing to process, then SendMessages.
NoMessage(n) ==
    /\ pc["message"] = "loop" /\ ~interrupted /\ n \in todo["message"]
    /\ ~fDisconnect[n] /\ vProcessMsg[n] = << >>
    /\ SendMessages(n)
    /\ UNCHANGED <<fInbound, where, nRefCount, recvQueue, slots, mapNodeState, pc, held,
                   current, interrupted, revived>>

\* ProcessMessages takes one message, which may be a reason to hang up.
\* The work on a block takes long and ends in a step of its own.
TakeMessage(n) ==
    /\ pc["message"] = "loop" /\ ~interrupted /\ n \in todo["message"]
    /\ ~fDisconnect[n] /\ vProcessMsg[n] # << >>
    /\ current' = n
    /\ SetQueue(n, Tail(vProcessMsg[n]))
    /\ \/ /\ Head(vProcessMsg[n]) = "block"
          /\ Goto("message", "block")
          /\ UNCHANGED <<fDisconnect, open>>
       \/ /\ Head(vProcessMsg[n]) = "other"
          /\ Goto("message", "send")
          /\ HangUp(n)
    /\ UNCHANGED <<fInbound, where, nRefCount, slots, mapNodeState, held, todo, interrupted,
                   revived>>

\* The end of the BLOCK handler: DisconnectOldProtocol clears the mark and
\* sets it again only for a peer that is too old.
EndOfBlock ==
    /\ pc["message"] = "block"
    /\ \E old \in BOOLEAN :
          /\ fDisconnect' = [fDisconnect EXCEPT ![current] = old]
          /\ revived' = IF fDisconnect[current] /\ ~old THEN revived \cup {current}
                                                        ELSE revived
    /\ Goto("message", "send")
    /\ UNCHANGED <<fInbound, where, nRefCount, open, recvQueue, slots, mapNodeState, held,
                   todo, current, interrupted>>

EndOfMessage ==
    /\ pc["message"] = "send" /\ ~interrupted
    /\ SendMessages(current)
    /\ Goto("message", "loop")
    /\ current' = NoNode
    /\ UNCHANGED <<fInbound, where, nRefCount, recvQueue, slots, mapNodeState, held,
                   interrupted, revived>>

MessageRelease ==
    /\ pc["message"] = "loop" /\ ~interrupted
    /\ ReleaseNodes("message", "copy")
    /\ UNCHANGED <<fInbound, where, fDisconnect, open, recvQueue, slots, mapNodeState, current,
                   interrupted, revived>>

-----------------------------------------------------------------------------
(* RPC threads and shutdown. *)

\* DisconnectNode, and setban.
DisconnectNode(n) ==
    /\ n \in vNodes /\ ~fDisconnect[n] /\ ~interrupted
    /\ fDisconnect' = [fDisconnect EXCEPT ![n] = TRUE]
    /\ UNCHANGED <<fInbound, where, nRefCount, open, recvQueue, slots, mapNodeState, pc, held, todo,
                   current, interrupted, revived>>

\* CConnman::Interrupt also posts the semaphore, to wake the openers.
Interrupt ==
    /\ ~interrupted
    /\ interrupted' = TRUE
    /\ semOutbound' = semOutbound + MaxOutbound
    /\ UNCHANGED <<fInbound, where, nRefCount, fDisconnect, open, recvQueue, grantOutbound, opener,
                   mapNodeState, pc, held, todo, current, revived>>

\* A thread sees the flag and returns, its references not given back.
ThreadExits(t) ==
    /\ interrupted
    /\ pc[t] \in {"disconnect", "accept", "service", "copy", "loop", "send"}
    /\ Goto(t, "exited")
    /\ todo' = [todo EXCEPT ![t] = {}]
    /\ current' = IF t = "message" THEN NoNode ELSE current
    /\ UNCHANGED <<fInbound, where, nRefCount, fDisconnect, open, recvQueue, slots,
                   mapNodeState, held, interrupted, revived>>

\* CConnman::Stop joins the threads first.
Joined == (\A t \in Threads : pc[t] = "exited") /\ opener = "waiting"

\* Every node is closed and deleted; the semaphore goes with its grants.
Stop ==
    /\ interrupted /\ Joined
    /\ vNodes \cup vNodesDisconnected # {}
    /\ LET all == vNodes \cup vNodesDisconnected
       IN  /\ where' = [n \in Nodes |-> IF n \in all THEN "deleted" ELSE where[n]]
           /\ Destroy(all)
           /\ open' = open \ all
           /\ mapNodeState' = mapNodeState \ all
           /\ grantOutbound' = {}
           /\ semOutbound' = semOutbound + SlotsOf(all)
    /\ UNCHANGED <<nRefCount, opener, pc, held, todo, current, interrupted, revived>>

SocketThread ==
    \/ DisconnectNodes \/ DeleteNodes \/ SocketCopy \/ SocketRelease
    \/ \E n \in Nodes : Service(n)
    \/ ThreadExits("socket")

MessageThread ==
    \/ MessageCopy \/ MessageRelease \/ EndOfBlock \/ EndOfMessage
    \/ \E n \in Nodes : SkipNode(n) \/ NoMessage(n) \/ TakeMessage(n)
    \/ ThreadExits("message")

Environment ==
    \/ \E n \in Nodes : AcceptConnection(n) \/ OpenNetworkConnection(n) \/ DisconnectNode(n)
    \/ AcquireGrant \/ OpenFails \/ Interrupt

Next == SocketThread \/ MessageThread \/ Environment \/ Stop

\* Both loops are run by threads of their own that never block for ever:
\* select has a timeout of 50 ms and the handler waits at most 100 ms.
Fairness ==
    /\ WF_vars(SocketThread) /\ WF_vars(MessageThread)
    /\ WF_vars(OpenFails) /\ WF_vars(Stop)

Spec == Init /\ [][Next]_vars /\ Fairness

-----------------------------------------------------------------------------
\* The fields of the nodes and the lists of CConnman hold what their types say.
TypeOK ==
    /\ where \in [Nodes -> {"none", "vNodes", "disconnected", "deleted"}]
    /\ nRefCount \in [Nodes -> Int]
    /\ fDisconnect \in [Nodes -> BOOLEAN]
    /\ open \subseteq Nodes
    /\ vProcessMsg \in [Nodes -> Seq(Messages)]
    /\ fPauseRecv \in [Nodes -> BOOLEAN]
    /\ grantOutbound \subseteq Nodes
    /\ semOutbound \in Nat
    /\ opener \in {"waiting", "granted"}
    /\ mapNodeState \subseteq Nodes
    /\ pc \in [Threads -> Places]
    /\ held \in [Threads -> SUBSET Nodes]
    /\ todo \in [Threads -> SUBSET Nodes]
    /\ current \in Nodes \cup {NoNode}
    /\ fInbound \subseteq Nodes
    /\ interrupted \in BOOLEAN
    /\ revived \subseteq Nodes

One(b) == IF b THEN 1 ELSE 0

\* The count of a living node is the entry in vNodes plus one for each
\* thread whose copy holds it (AddRef and Release of net.cpp and net.h).
RefCountExact ==
    \A n \in vNodes \cup vNodesDisconnected :
        nRefCount[n] = One(where[n] = "vNodes") + One(n \in held["socket"])
                                                + One(n \in held["message"])

\* A thread that can still run never holds a deleted node in its copy, nor
\* works on one (the deletion at net.cpp:1120 and in Stop).
NoUseAfterDelete ==
    /\ \A t \in Threads : pc[t] # "exited" =>
          \A n \in held[t] : where[n] \in {"vNodes", "disconnected"}
    /\ pc["message"] \in {"block", "send"} =>
          where[current] \in {"vNodes", "disconnected"}

\* InitializeNode and FinalizeNode are called once per node, so that the
\* validation side knows exactly the nodes that exist; a second
\* FinalizeNode would dereference a null state.
NodeStateMatches == mapNodeState = vNodes \cup vNodesDisconnected

\* Outbound slots are neither lost nor duplicated until Interrupt posts
\* extra ones: free, held by an opener, or owned by a node in vNodes.
SlotsConserved ==
    /\ ~interrupted =>
          semOutbound + Cardinality(grantOutbound) + One(opener = "granted") = MaxOutbound
    /\ grantOutbound \subseteq vNodes

\* What peers can take of a node is limited: the queue of unprocessed messages
\* stays one message above the flood limit, however slow the message thread is
\* (fPauseRecv, net.cpp:1281), and evictions keep the inbound peers that are
\* not on their way out within the limit, until DisconnectOldProtocol brings
\* one back (AcceptConnection).
LimitsHold ==
    /\ \A n \in Nodes : /\ Len(vProcessMsg[n]) <= Flood + 1
                        /\ fPauseRecv[n] <=> Len(vProcessMsg[n]) > Flood
    /\ revived = {} => Cardinality(EvictionCandidates) <= MaxInbound

\* A peer whose connection is closed is eventually deleted and its slot
\* returned, unless DisconnectOldProtocol cleared the mark after the socket
\* was closed: then the socket handler skips it for ever (net.cpp:1247).
ClosedNodeDeleted ==
    \A n \in Nodes :
        []<>(where[n] \in {"none", "deleted"} \/ n \in open \/ n \in revived)
=============================================================================
