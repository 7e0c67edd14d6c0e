------------------------ MODULE NodeLifecycleProofs ------------------------
(***************************************************************************)
(* For any number of peers: references are counted exactly, so that no     *)
(* thread keeps a node that has been deleted; outbound slots are neither   *)
(* lost nor duplicated; and the limits on inbound peers and on received    *)
(* messages hold.                                                          *)
(***************************************************************************)
EXTENDS NodeLifecycle, FiniteSetTheorems, TLAPS

(* The places where a thread has no copy of vNodes.                        *)
NoCopy ==
  /\ pc["socket"] \in {"disconnect", "delete", "accept"} => held["socket"] = {}
  /\ pc["message"] = "copy" => held["message"] = {}

(* A node that was not created yet is known to nobody.                     *)
Fresh ==
  \A n \in Nodes : where[n] = "none" =>
    nRefCount[n] = 0 /\ \A t \in Threads : n \notin held[t]

(* The node the message thread works on is one of its copy.                *)
Working ==
  /\ \A t \in Threads : todo[t] \subseteq held[t]
  /\ pc["message"] \in {"block", "send"} => current \in held["message"]

(* The part of the invariant about references.                             *)
References ==
  /\ RefCountExact /\ NoUseAfterDelete /\ NodeStateMatches
  /\ NoCopy /\ Fresh /\ Working

(* Only a node that was created is inbound.                                *)
InboundCreated == \A n \in fInbound : where[n] # "none"

(* The inductive invariant.                                                *)
IInv == TypeOK /\ References /\ InboundCreated /\ SlotsConserved /\ LimitsHold

-----------------------------------------------------------------------------
(* The names of the two threads differ.                                    *)
LEMMA TwoThreads == "socket" \in Threads /\ "message" \in Threads /\ "socket" # "message"
BY DEF Threads

(* Sets of nodes are finite.                                               *)
LEMMA NodeSets ==
  ASSUME NEW S \in SUBSET Nodes
  PROVE  IsFiniteSet(S) /\ Cardinality(S) \in Nat
BY NodesAssumption, FS_Subset, FS_CardinalityType

LEMMA InitHolds == Init => IInv
<1> SUFFICES ASSUME Init PROVE IInv
  OBVIOUS
<1>1. TypeOK
  <2>1. << >> \in Seq(Messages)
    OBVIOUS
  <2>2. vProcessMsg \in [Nodes -> Seq(Messages)]
    BY <2>1 DEF Init
  <2>3. pc \in [Threads -> Places]
    BY DEF Init, Places
  <2>4. held \in [Threads -> SUBSET Nodes] /\ todo \in [Threads -> SUBSET Nodes]
    BY DEF Init
  <2>5. /\ where \in [Nodes -> {"none", "vNodes", "disconnected", "deleted"}]
        /\ nRefCount \in [Nodes -> Int] /\ semOutbound \in Nat
    BY NodesAssumption DEF Init
  <2>6. fDisconnect \in [Nodes -> BOOLEAN] /\ fPauseRecv \in [Nodes -> BOOLEAN]
    BY DEF Init
  <2>7. /\ open \subseteq Nodes /\ grantOutbound \subseteq Nodes /\ mapNodeState \subseteq Nodes
        /\ fInbound \subseteq Nodes /\ revived \subseteq Nodes
    BY DEF Init
  <2>8. opener \in {"waiting", "granted"} /\ current \in Nodes \cup {NoNode} /\ interrupted \in BOOLEAN
    BY DEF Init
  <2> QED BY <2>2, <2>3, <2>4, <2>5, <2>6, <2>7, <2>8 DEF TypeOK
<1>2. vNodes = {} /\ vNodesDisconnected = {}
  BY DEF Init, vNodes, vNodesDisconnected
<1>3. References
  BY <1>2, TwoThreads DEF Init, References, RefCountExact, NoUseAfterDelete, NodeStateMatches, NoCopy,
     Fresh, Working
<1>4. SlotsConserved
  BY <1>2, FS_EmptySet, NodesAssumption DEF Init, SlotsConserved, One
<1>5. LimitsHold
  <2>1. EvictionCandidates = {}
    BY <1>2 DEF EvictionCandidates
  <2> QED BY <2>1, FS_EmptySet, NodesAssumption DEF Init, LimitsHold
<1>6. InboundCreated
  BY DEF Init, InboundCreated
<1> QED BY <1>1, <1>3, <1>4, <1>5, <1>6 DEF IInv

-----------------------------------------------------------------------------
(* Types.                                                                  *)

LEMMA QueueTypes ==
  ASSUME TypeOK, NEW n \in Nodes, NEW q \in Seq(Messages), SetQueue(n, q)
  PROVE  vProcessMsg' \in [Nodes -> Seq(Messages)] /\ fPauseRecv' \in [Nodes -> BOOLEAN]
<1>1. vProcessMsg' \in [Nodes -> Seq(Messages)]
  BY DEF TypeOK, SetQueue
<1>2. PauseRecv(n, q) \in BOOLEAN
  BY DEF PauseRecv
<1>3. fPauseRecv' \in [Nodes -> BOOLEAN]
  BY <1>2 DEF TypeOK, SetQueue
<1> QED BY <1>1, <1>3

LEMMA DestroyTypes ==
  ASSUME TypeOK, NEW N \in SUBSET Nodes, Destroy(N)
  PROVE  /\ vProcessMsg' \in [Nodes -> Seq(Messages)] /\ fPauseRecv' \in [Nodes -> BOOLEAN]
         /\ fDisconnect' \in [Nodes -> BOOLEAN] /\ fInbound' \subseteq Nodes
<1>1. << >> \in Seq(Messages)
  OBVIOUS
<1>2. vProcessMsg' \in [Nodes -> Seq(Messages)]
  BY <1>1 DEF TypeOK, Destroy
<1>3. fPauseRecv' \in [Nodes -> BOOLEAN] /\ fDisconnect' \in [Nodes -> BOOLEAN]
  BY DEF TypeOK, Destroy
<1>4. fInbound' \subseteq Nodes
  BY DEF TypeOK, Destroy
<1> QED BY <1>2, <1>3, <1>4

LEMMA SocketTypes ==
  ASSUME IInv, SocketThread
  PROVE  TypeOK'
<1> USE TwoThreads DEF IInv, Goto, Places, vNodes
<1>1. CASE DisconnectNodes
  <2>1. SlotsOf(Marked) \in Nat
    BY NodeSets DEF SlotsOf, TypeOK
  <2> QED BY <1>1, <2>1 DEF DisconnectNodes, TypeOK, recvQueue
<1>2. CASE DeleteNodes
  BY <1>2, DestroyTypes DEF DeleteNodes, TypeOK, slots, Deletable, vNodesDisconnected
<1>3. CASE SocketCopy
  BY <1>3 DEF SocketCopy, CopyNodes, TypeOK, slots, recvQueue
<1>4. CASE SocketRelease
  BY <1>4 DEF SocketRelease, ReleaseNodes, TypeOK, slots, recvQueue
<1>5. ASSUME NEW n \in Nodes, Service(n)
      PROVE  TypeOK'
  <2>1. vProcessMsg' \in [Nodes -> Seq(Messages)] /\ fPauseRecv' \in [Nodes -> BOOLEAN]
    <3>1. CASE UNCHANGED recvQueue
      BY <3>1 DEF recvQueue, TypeOK
    <3>2. ASSUME NEW msg \in Messages, SetQueue(n, Append(vProcessMsg[n], msg))
          PROVE  vProcessMsg' \in [Nodes -> Seq(Messages)] /\ fPauseRecv' \in [Nodes -> BOOLEAN]
      <4>1. Append(vProcessMsg[n], msg) \in Seq(Messages)
        BY DEF TypeOK
      <4> QED BY <3>2, <4>1, QueueTypes
    <3> QED BY <1>5, <3>1, <3>2 DEF Service, recvQueue
  <2>2. fDisconnect' \in [Nodes -> BOOLEAN] /\ open' \subseteq Nodes
    BY <1>5 DEF Service, TypeOK
  <2>3. todo' \in [Threads -> SUBSET Nodes]
    BY <1>5 DEF Service, Visited, TypeOK
  <2> QED BY <1>5, <2>1, <2>2, <2>3 DEF Service, TypeOK, slots
<1>6. CASE ThreadExits("socket")
  BY <1>6 DEF ThreadExits, TypeOK, slots, recvQueue
<1> QED BY <1>1, <1>2, <1>3, <1>4, <1>5, <1>6 DEF SocketThread

LEMMA MessageTypes ==
  ASSUME IInv, MessageThread
  PROVE  TypeOK'
<1> USE TwoThreads DEF IInv, Goto, Places, vNodes
<1>1. CASE MessageCopy
  BY <1>1 DEF MessageCopy, CopyNodes, TypeOK, slots, recvQueue
<1>2. CASE MessageRelease
  BY <1>2 DEF MessageRelease, ReleaseNodes, TypeOK, slots, recvQueue
<1>3. CASE EndOfBlock
  BY <1>3 DEF EndOfBlock, TypeOK, slots, recvQueue, References, Working
<1>4. CASE EndOfMessage
  BY <1>4 DEF EndOfMessage, SendMessages, HangUp, Visited, TypeOK, slots, recvQueue
<1>5. ASSUME NEW n \in Nodes, SkipNode(n)
      PROVE  TypeOK'
  BY <1>5 DEF SkipNode, Visited, TypeOK, slots, recvQueue
<1>6. ASSUME NEW n \in Nodes, NoMessage(n)
      PROVE  TypeOK'
  BY <1>6 DEF NoMessage, SendMessages, HangUp, Visited, TypeOK, slots, recvQueue
<1>7. ASSUME NEW n \in Nodes, TakeMessage(n)
      PROVE  TypeOK'
  <2>1. vProcessMsg[n] \in Seq(Messages) /\ vProcessMsg[n] # << >>
    BY <1>7 DEF TakeMessage, TypeOK
  <2>2. Tail(vProcessMsg[n]) \in Seq(Messages)
    BY <2>1
  <2>3. vProcessMsg' \in [Nodes -> Seq(Messages)] /\ fPauseRecv' \in [Nodes -> BOOLEAN]
    BY <1>7, <2>2, QueueTypes DEF TakeMessage
  <2>4. fDisconnect' \in [Nodes -> BOOLEAN] /\ open' \subseteq Nodes
    BY <1>7 DEF TakeMessage, HangUp, TypeOK
  <2>5. pc' \in [Threads -> Places]
    BY <1>7 DEF TakeMessage, TypeOK
  <2> QED BY <1>7, <2>3, <2>4, <2>5 DEF TakeMessage, TypeOK, slots
<1>8. CASE ThreadExits("message")
  BY <1>8 DEF ThreadExits, TypeOK, slots, recvQueue
<1> QED BY <1>1, <1>2, <1>3, <1>4, <1>5, <1>6, <1>7, <1>8 DEF MessageThread

LEMMA OtherTypes ==
  ASSUME IInv, Environment \/ Stop
  PROVE  TypeOK'
<1> USE DEF IInv, slots, recvQueue
<1>1. ASSUME NEW n \in Nodes, AcceptConnection(n)
      PROVE  TypeOK'
  <2>1. fDisconnect' \in [Nodes -> BOOLEAN]
    BY <1>1 DEF AcceptConnection, TypeOK
  <2>2. /\ Enter(n) /\ fInbound' = fInbound \cup {n}
        /\ UNCHANGED <<slots, recvQueue, pc, held, todo, current, interrupted, revived>>
    BY <1>1 DEF AcceptConnection
  <2> QED BY <2>1, <2>2 DEF Enter, TypeOK
<1>2. ASSUME NEW n \in Nodes, OpenNetworkConnection(n)
      PROVE  TypeOK'
  BY <1>2 DEF OpenNetworkConnection, Enter, TypeOK
<1>3. ASSUME NEW n \in Nodes, DisconnectNode(n)
      PROVE  TypeOK'
  BY <1>3 DEF DisconnectNode, TypeOK
<1>4. CASE AcquireGrant
  BY <1>4 DEF AcquireGrant, SlotFree, TypeOK
<1>5. CASE OpenFails
  BY <1>5 DEF OpenFails, TypeOK
<1>6. CASE Interrupt
  BY <1>6, NodesAssumption DEF Interrupt, TypeOK
<1>7. CASE Stop
  <2> DEFINE all == vNodes \cup vNodesDisconnected
  <2>1. all \in SUBSET Nodes
    BY DEF vNodes, vNodesDisconnected
  <2>2. SlotsOf(all) \in Nat
    BY NodeSets DEF SlotsOf, TypeOK
  <2>3. Destroy(all) /\ semOutbound' = semOutbound + SlotsOf(all)
    BY <1>7 DEF Stop
  <2>4. /\ vProcessMsg' \in [Nodes -> Seq(Messages)] /\ fPauseRecv' \in [Nodes -> BOOLEAN]
        /\ fDisconnect' \in [Nodes -> BOOLEAN] /\ fInbound' \subseteq Nodes
    BY <2>1, <2>3, DestroyTypes
  <2> QED BY <1>7, <2>2, <2>3, <2>4 DEF Stop, TypeOK
<1> QED BY <1>1, <1>2, <1>3, <1>4, <1>5, <1>6, <1>7 DEF Environment

-----------------------------------------------------------------------------
(* References.                                                             *)

(* The definitions that say which nodes exist.                             *)
LEMMA Alive ==
  ASSUME References, NEW n \in Nodes
  PROVE  /\ where[n] \in {"vNodes", "disconnected"} =>
              /\ nRefCount[n] = One(where[n] = "vNodes") + One(n \in held["socket"])
                                                        + One(n \in held["message"])
              /\ n \in mapNodeState
         /\ n \in mapNodeState => where[n] \in {"vNodes", "disconnected"}
BY DEF References, RefCountExact, NodeStateMatches, vNodes, vNodesDisconnected

(* A step that moves the threads along and leaves the nodes alone.         *)
LEMMA SameReferences ==
  ASSUME TypeOK, References, NoCopy', Working',
         UNCHANGED <<where, nRefCount, held, mapNodeState>>,
         \A t \in Threads : pc[t] = "exited" => pc'[t] = "exited"
  PROVE  References'
<1>1. RefCountExact' /\ NodeStateMatches' /\ Fresh'
  BY DEF References, RefCountExact, NodeStateMatches, Fresh, vNodes, vNodesDisconnected
<1>2. NoUseAfterDelete'
  BY TwoThreads DEF References, NoUseAfterDelete, Working
<1> QED BY <1>1, <1>2 DEF References

(* A new node.                                                             *)
LEMMA EnterReferences ==
  ASSUME TypeOK, References, NEW n \in Nodes, where[n] = "none", Enter(n),
         UNCHANGED <<held, pc, todo, current>>
  PROVE  References'
<1>1. /\ where'[n] = "vNodes" /\ \A m \in Nodes \ {n} : where'[m] = where[m]
      /\ nRefCount'[n] = nRefCount[n] + 1 /\ \A m \in Nodes \ {n} : nRefCount'[m] = nRefCount[m]
  BY DEF Enter, TypeOK
<1>2. nRefCount[n] = 0 /\ n \notin held["socket"] /\ n \notin held["message"]
  BY TwoThreads DEF References, Fresh
<1>3. RefCountExact'
  BY <1>1, <1>2 DEF References, RefCountExact, vNodes, vNodesDisconnected, One
<1>4. NodeStateMatches'
  BY <1>1 DEF References, NodeStateMatches, vNodes, vNodesDisconnected, Enter
<1>5. NoUseAfterDelete'
  <2>1. \A m \in Nodes : where[m] \in {"vNodes", "disconnected"} => where'[m] = where[m]
    BY <1>1
  <2>2. \A t \in Threads : held[t] \subseteq Nodes
    BY DEF TypeOK
  <2>3. pc["message"] \in {"block", "send"} => current \in Nodes
    BY <2>2, TwoThreads DEF References, Working
  <2> QED BY <2>1, <2>2, <2>3 DEF References, NoUseAfterDelete
<1>6. Fresh' /\ NoCopy' /\ Working'
  BY <1>1 DEF References, Fresh, NoCopy, Working
<1> QED BY <1>3, <1>4, <1>5, <1>6 DEF References

(* A thread takes a copy of vNodes.                                        *)
LEMMA CopyReferences ==
  ASSUME TypeOK, References, NEW t \in Threads, NEW l \in Places, CopyNodes(t, l), held[t] = {},
         pc[t] # "exited", l \in {"service", "loop"}, UNCHANGED <<where, mapNodeState, current>>
  PROVE  References'
<1>1. /\ held'[t] = vNodes /\ todo'[t] = vNodes /\ pc'[t] = l
      /\ \A u \in Threads \ {t} : held'[u] = held[u] /\ todo'[u] = todo[u] /\ pc'[u] = pc[u]
      /\ \A n \in Nodes : nRefCount'[n] = nRefCount[n] + (IF n \in vNodes THEN 1 ELSE 0)
  BY DEF CopyNodes, Goto, TypeOK
<1>2. vNodes' = vNodes /\ vNodesDisconnected' = vNodesDisconnected
  BY DEF vNodes, vNodesDisconnected
<1>3. RefCountExact'
  <2> SUFFICES ASSUME NEW n \in vNodes \cup vNodesDisconnected
               PROVE  nRefCount'[n] = One(where[n] = "vNodes") + One(n \in held'["socket"])
                                                             + One(n \in held'["message"])
    BY <1>2 DEF RefCountExact
  <2>1. n \in Nodes /\ (n \in vNodes <=> where[n] = "vNodes")
    BY DEF vNodes, vNodesDisconnected
  <2>2. nRefCount[n] = One(where[n] = "vNodes") + One(n \in held["socket"]) + One(n \in held["message"])
    BY DEF References, RefCountExact
  <2>3. CASE t = "socket"
    BY <1>1, <2>1, <2>2, <2>3, TwoThreads DEF One
  <2>4. CASE t = "message"
    BY <1>1, <2>1, <2>2, <2>4, TwoThreads DEF One
  <2> QED BY <2>3, <2>4 DEF Threads
<1>4. NodeStateMatches'
  BY <1>2 DEF References, NodeStateMatches
<1>5. NoUseAfterDelete'
  BY <1>1 DEF References, NoUseAfterDelete, vNodes, Threads
<1>6. Fresh' /\ NoCopy' /\ Working'
  BY <1>1 DEF References, Fresh, NoCopy, Working, vNodes, Threads
<1> QED BY <1>3, <1>4, <1>5, <1>6 DEF References

(* A thread gives the references of its copy back.                         *)
LEMMA ReleaseReferences ==
  ASSUME TypeOK, References, NEW t \in Threads, NEW l \in {"disconnect", "copy"}, ReleaseNodes(t, l),
         pc[t] # "exited", UNCHANGED <<where, mapNodeState, current>>
  PROVE  References'
<1>1. /\ held'[t] = {} /\ todo'[t] = {} /\ pc'[t] = l
      /\ \A u \in Threads \ {t} : held'[u] = held[u] /\ todo'[u] = todo[u] /\ pc'[u] = pc[u]
      /\ \A n \in Nodes : nRefCount'[n] = nRefCount[n] - (IF n \in held[t] THEN 1 ELSE 0)
  BY DEF ReleaseNodes, Released, Goto, TypeOK
<1>2. vNodes' = vNodes /\ vNodesDisconnected' = vNodesDisconnected
  BY DEF vNodes, vNodesDisconnected
<1>3. RefCountExact'
  <2> SUFFICES ASSUME NEW n \in vNodes \cup vNodesDisconnected
               PROVE  nRefCount'[n] = One(where[n] = "vNodes") + One(n \in held'["socket"])
                                                             + One(n \in held'["message"])
    BY <1>2 DEF RefCountExact
  <2>1. n \in Nodes
    BY DEF vNodes, vNodesDisconnected
  <2>2. nRefCount[n] = One(where[n] = "vNodes") + One(n \in held["socket"]) + One(n \in held["message"])
    BY DEF References, RefCountExact
  <2>3. CASE t = "socket"
    BY <1>1, <2>1, <2>2, <2>3, TwoThreads DEF One
  <2>4. CASE t = "message"
    BY <1>1, <2>1, <2>2, <2>4, TwoThreads DEF One
  <2> QED BY <2>3, <2>4 DEF Threads
<1>4. NodeStateMatches'
  BY <1>2 DEF References, NodeStateMatches
<1>5. NoUseAfterDelete'
  BY <1>1 DEF References, NoUseAfterDelete, Threads
<1>6. Fresh' /\ NoCopy' /\ Working'
  BY <1>1 DEF References, Fresh, NoCopy, Working, Threads
<1> QED BY <1>3, <1>4, <1>5, <1>6 DEF References

(* The nodes that are marked move from one list to the other, and lose the *)
(* reference of vNodes.                                                    *)
LEMMA DisconnectReferences ==
  ASSUME TypeOK, References, DisconnectNodes
  PROVE  References'
<1>1. /\ \A n \in Nodes : where'[n] = IF n \in Marked THEN "disconnected" ELSE where[n]
      /\ \A n \in Nodes : nRefCount'[n] = nRefCount[n] - (IF n \in Marked THEN 1 ELSE 0)
      /\ pc["socket"] = "disconnect" /\ pc'["socket"] = "delete" /\ pc'["message"] = pc["message"]
      /\ UNCHANGED <<mapNodeState, held, todo, current>>
  BY TwoThreads DEF DisconnectNodes, Goto, TypeOK
<1>2. Marked \subseteq Nodes /\ \A n \in Marked : where[n] = "vNodes"
  BY DEF Marked, vNodes
<1>3. vNodes' \cup vNodesDisconnected' = vNodes \cup vNodesDisconnected
  BY <1>1, <1>2 DEF vNodes, vNodesDisconnected
<1>4. RefCountExact'
  <2> SUFFICES ASSUME NEW n \in vNodes \cup vNodesDisconnected
               PROVE  nRefCount'[n] = One(where'[n] = "vNodes") + One(n \in held["socket"])
                                                              + One(n \in held["message"])
    BY <1>1, <1>3 DEF RefCountExact
  <2>1. n \in Nodes
    BY DEF vNodes, vNodesDisconnected
  <2>2. nRefCount[n] = One(where[n] = "vNodes") + One(n \in held["socket"]) + One(n \in held["message"])
    BY DEF References, RefCountExact
  <2> QED BY <1>1, <1>2, <2>1, <2>2 DEF One
<1>5. NodeStateMatches'
  BY <1>1, <1>3 DEF References, NodeStateMatches
<1>6. NoUseAfterDelete'
  <2>1. \A m \in Nodes : where[m] \in {"vNodes", "disconnected"} => where'[m] \in {"vNodes", "disconnected"}
    BY <1>1
  <2>2. \A t \in Threads : held[t] \subseteq Nodes
    BY DEF TypeOK
  <2>3. pc["message"] \in {"block", "send"} => current \in Nodes
    BY <2>2, TwoThreads DEF References, Working
  <2> QED BY <1>1, <2>1, <2>2, <2>3 DEF References, NoUseAfterDelete, Threads
<1>7. Fresh' /\ NoCopy' /\ Working'
  BY <1>1, <1>2 DEF References, Fresh, NoCopy, Working
<1> QED BY <1>4, <1>5, <1>6, <1>7 DEF References

(* A node without references is in nobody's copy and can be deleted.       *)
LEMMA DeleteReferences ==
  ASSUME TypeOK, References, DeleteNodes
  PROVE  References'
<1>1. /\ \A n \in Nodes : where'[n] = IF n \in Deletable THEN "deleted" ELSE where[n]
      /\ pc["socket"] = "delete" /\ pc'["socket"] = "accept" /\ pc'["message"] = pc["message"]
      /\ mapNodeState' = mapNodeState \ Deletable
      /\ UNCHANGED <<nRefCount, held, todo, current>>
  BY TwoThreads DEF DeleteNodes, Goto, TypeOK
<1>2. \A n \in Deletable : n \in Nodes /\ where[n] = "disconnected" /\ nRefCount[n] <= 0
  BY DEF Deletable, vNodesDisconnected
<1>3. \A n \in Deletable : n \notin held["socket"] /\ n \notin held["message"]
  BY <1>2 DEF References, RefCountExact, vNodesDisconnected, One
<1>4. RefCountExact'
  BY <1>1 DEF References, RefCountExact, vNodes, vNodesDisconnected
<1>5. NodeStateMatches'
  BY <1>1, <1>2 DEF References, NodeStateMatches, vNodes, vNodesDisconnected
<1>6. NoUseAfterDelete'
  <2>1. \A t \in Threads : held[t] \subseteq Nodes
    BY DEF TypeOK
  <2>2. \A t \in Threads : \A n \in held[t] : where'[n] = where[n]
    BY <1>1, <1>3, <2>1 DEF Threads
  <2>3. pc["message"] \in {"block", "send"} => current \in held["message"]
    BY DEF References, Working
  <2> QED BY <1>1, <2>2, <2>3, TwoThreads DEF References, NoUseAfterDelete, Threads
<1>7. Fresh' /\ NoCopy' /\ Working'
  BY <1>1 DEF References, Fresh, NoCopy, Working
<1> QED BY <1>4, <1>5, <1>6, <1>7 DEF References

(* A thread that stops keeps its references and uses them no more.         *)
LEMMA ExitReferences ==
  ASSUME TypeOK, References, NEW t \in Threads, ThreadExits(t)
  PROVE  References'
<1>1. /\ pc'[t] = "exited" /\ todo'[t] = {}
      /\ \A u \in Threads \ {t} : pc'[u] = pc[u] /\ todo'[u] = todo[u]
      /\ t # "message" => current' = current
      /\ UNCHANGED <<where, nRefCount, held, mapNodeState>>
  BY DEF ThreadExits, Goto, TypeOK
<1>2. NoCopy' /\ Working'
  BY <1>1, TwoThreads DEF References, NoCopy, Working, Threads
<1> QED BY <1>1, <1>2, SameReferences

(* The shutdown deletes every node once both threads have stopped.         *)
LEMMA StopReferences ==
  ASSUME TypeOK, References, Stop
  PROVE  References'
<1>1. /\ \A n \in Nodes : where'[n] = IF n \in vNodes \cup vNodesDisconnected THEN "deleted" ELSE where[n]
      /\ mapNodeState' = mapNodeState \ (vNodes \cup vNodesDisconnected)
      /\ UNCHANGED <<nRefCount, pc, held, todo, current>>
      /\ pc["socket"] = "exited" /\ pc["message"] = "exited"
  BY TwoThreads DEF Stop, Joined, TypeOK
<1>2. vNodes' = {} /\ vNodesDisconnected' = {}
  BY <1>1 DEF vNodes, vNodesDisconnected
<1>3. RefCountExact' /\ NodeStateMatches'
  BY <1>1, <1>2 DEF References, RefCountExact, NodeStateMatches
<1>4. NoUseAfterDelete'
  BY <1>1 DEF NoUseAfterDelete, Threads
<1>5. Fresh' /\ NoCopy' /\ Working'
  BY <1>1 DEF References, Fresh, NoCopy, Working
<1> QED BY <1>3, <1>4, <1>5 DEF References

(* The steps of the socket thread.                                         *)
LEMMA SocketReferences ==
  ASSUME IInv, SocketThread
  PROVE  References'
<1> USE TwoThreads DEF IInv
<1>1. CASE DisconnectNodes
  BY <1>1, DisconnectReferences
<1>2. CASE DeleteNodes
  BY <1>2, DeleteReferences
<1>3. CASE SocketCopy
  <2>1. CopyNodes("socket", "service") /\ pc["socket"] = "accept"
    BY <1>3 DEF SocketCopy
  <2>2. UNCHANGED <<where, mapNodeState, current>>
    BY <1>3 DEF SocketCopy
  <2>3. held["socket"] = {}
    BY <2>1 DEF References, NoCopy
  <2> QED BY <2>1, <2>2, <2>3, CopyReferences DEF Places
<1>4. CASE SocketRelease
  <2>1. ReleaseNodes("socket", "disconnect") /\ pc["socket"] = "service"
    BY <1>4 DEF SocketRelease
  <2>2. UNCHANGED <<where, mapNodeState, current>>
    BY <1>4 DEF SocketRelease
  <2> QED BY <2>1, <2>2, ReleaseReferences
<1>5. ASSUME NEW n \in Nodes, Service(n)
      PROVE  References'
  <2>1. UNCHANGED <<where, nRefCount, held, mapNodeState, pc, current>> /\ Visited("socket", n)
    BY <1>5 DEF Service
  <2>2. \A t \in Threads : todo'[t] \subseteq todo[t]
    BY <2>1 DEF Visited, TypeOK
  <2>3. NoCopy' /\ Working'
    BY <2>1, <2>2 DEF References, NoCopy, Working
  <2> QED BY <2>1, <2>3, SameReferences
<1>6. CASE ThreadExits("socket")
  BY <1>6, ExitReferences
<1> QED BY <1>1, <1>2, <1>3, <1>4, <1>5, <1>6 DEF SocketThread

(* The steps of the message thread.                                        *)
LEMMA MessageReferences ==
  ASSUME IInv, MessageThread
  PROVE  References'
<1> USE TwoThreads DEF IInv
<1>1. CASE MessageCopy
  <2>1. CopyNodes("message", "loop") /\ pc["message"] = "copy"
    BY <1>1 DEF MessageCopy
  <2>2. UNCHANGED <<where, mapNodeState, current>>
    BY <1>1 DEF MessageCopy
  <2>3. held["message"] = {}
    BY <2>1 DEF References, NoCopy
  <2> QED BY <2>1, <2>2, <2>3, CopyReferences DEF Places
<1>2. CASE MessageRelease
  <2>1. ReleaseNodes("message", "copy") /\ pc["message"] = "loop"
    BY <1>2 DEF MessageRelease
  <2>2. UNCHANGED <<where, mapNodeState, current>>
    BY <1>2 DEF MessageRelease
  <2> QED BY <2>1, <2>2, ReleaseReferences
<1>3. CASE EndOfBlock
  <2>1. /\ UNCHANGED <<where, nRefCount, held, mapNodeState, todo, current>>
        /\ pc["message"] = "block" /\ pc'["message"] = "send" /\ pc'["socket"] = pc["socket"]
    BY <1>3 DEF EndOfBlock, Goto, TypeOK
  <2>2. NoCopy' /\ Working'
    BY <2>1 DEF References, NoCopy, Working
  <2> QED BY <2>1, <2>2, SameReferences DEF Threads
<1>4. CASE EndOfMessage
  <2>1. /\ UNCHANGED <<where, nRefCount, held, mapNodeState>> /\ Visited("message", current)
        /\ pc["message"] = "send" /\ pc'["message"] = "loop" /\ pc'["socket"] = pc["socket"]
    BY <1>4 DEF EndOfMessage, SendMessages, Goto, TypeOK
  <2>2. \A t \in Threads : todo'[t] \subseteq todo[t]
    BY <2>1 DEF Visited, TypeOK
  <2>3. NoCopy' /\ Working'
    BY <2>1, <2>2 DEF References, NoCopy, Working
  <2> QED BY <2>1, <2>3, SameReferences DEF Threads
<1>5. ASSUME NEW n \in Nodes, SkipNode(n) \/ NoMessage(n)
      PROVE  References'
  <2>1. UNCHANGED <<where, nRefCount, held, mapNodeState, pc, current>> /\ Visited("message", n)
    BY <1>5 DEF SkipNode, NoMessage, SendMessages
  <2>2. \A t \in Threads : todo'[t] \subseteq todo[t]
    BY <2>1 DEF Visited, TypeOK
  <2>3. NoCopy' /\ Working'
    BY <2>1, <2>2 DEF References, NoCopy, Working
  <2> QED BY <2>1, <2>3, SameReferences
<1>6. ASSUME NEW n \in Nodes, TakeMessage(n)
      PROVE  References'
  <2>1. /\ UNCHANGED <<where, nRefCount, held, mapNodeState, todo>> /\ current' = n
        /\ n \in todo["message"] /\ pc["message"] = "loop"
    BY <1>6 DEF TakeMessage
  <2>2. pc'["message"] \in {"block", "send"} /\ pc'["socket"] = pc["socket"]
    BY <1>6 DEF TakeMessage, Goto, TypeOK
  <2>3. NoCopy' /\ Working'
    BY <2>1, <2>2 DEF References, NoCopy, Working
  <2> QED BY <2>1, <2>2, <2>3, SameReferences DEF Threads
<1>7. CASE ThreadExits("message")
  BY <1>7, ExitReferences
<1> QED BY <1>1, <1>2, <1>3, <1>4, <1>5, <1>6, <1>7 DEF MessageThread

(* The other threads and the shutdown.                                     *)
LEMMA OtherReferences ==
  ASSUME IInv, Environment \/ Stop
  PROVE  References'
<1> USE DEF IInv
<1>1. ASSUME NEW n \in Nodes, AcceptConnection(n) \/ OpenNetworkConnection(n)
      PROVE  References'
  <2>1. /\ where[n] = "none" /\ Enter(n)
        /\ UNCHANGED <<held, pc, todo, current>>
    BY <1>1 DEF AcceptConnection, OpenNetworkConnection
  <2> QED BY <2>1, EnterReferences
<1>2. ASSUME \/ \E n \in Nodes : DisconnectNode(n)
             \/ AcquireGrant \/ OpenFails \/ Interrupt
      PROVE  References'
  <2>1. UNCHANGED <<where, nRefCount, held, mapNodeState, pc, todo, current>>
    BY <1>2 DEF DisconnectNode, AcquireGrant, OpenFails, Interrupt
  <2>2. NoCopy' /\ Working'
    BY <2>1 DEF References, NoCopy, Working
  <2> QED BY <2>1, <2>2, SameReferences
<1>3. CASE Stop
  BY <1>3, StopReferences
<1> QED BY <1>1, <1>2, <1>3 DEF Environment

-----------------------------------------------------------------------------
(* Outbound slots.                                                         *)

(* The steps that leave the slots and the list of nodes alone.             *)
LEMMA SameSlots ==
  ASSUME SlotsConserved, UNCHANGED <<slots, interrupted>>, vNodes \subseteq vNodes'
  PROVE  SlotsConserved'
BY DEF SlotsConserved, slots, One

LEMMA SlotsKept ==
  ASSUME IInv, Next
  PROVE  SlotsConserved'
<1> USE DEF IInv
<1>1. ASSUME UNCHANGED <<slots, interrupted, where>>
      PROVE  SlotsConserved'
  BY <1>1, SameSlots DEF vNodes
<1>2. CASE DisconnectNodes
  <2>1. /\ semOutbound' = semOutbound + Cardinality(grantOutbound \cap Marked)
        /\ grantOutbound' = grantOutbound \ Marked
        /\ UNCHANGED <<opener, interrupted>>
    BY <1>2 DEF DisconnectNodes, SlotsOf
  <2>2. IsFiniteSet(grantOutbound) /\ Cardinality(grantOutbound) \in Nat
    BY NodeSets DEF TypeOK
  <2>3. Cardinality(grantOutbound \cap Marked) \in Nat
    BY NodeSets DEF TypeOK
  <2>4. Cardinality(grantOutbound \ Marked) = Cardinality(grantOutbound) - Cardinality(grantOutbound \cap Marked)
    BY <2>2, FS_Difference
  <2>5. grantOutbound \ Marked \subseteq vNodes'
    BY <1>2 DEF DisconnectNodes, SlotsConserved, vNodes, Marked
  <2> QED BY <2>1, <2>2, <2>3, <2>4, <2>5, NodesAssumption DEF SlotsConserved, One, TypeOK
<1>3. CASE DeleteNodes
  <2>1. vNodes \subseteq vNodes'
    BY <1>3 DEF DeleteNodes, Deletable, vNodes, vNodesDisconnected
  <2> QED BY <1>3, <2>1, SameSlots DEF DeleteNodes
<1>4. ASSUME NEW n \in Nodes, AcceptConnection(n)
      PROVE  SlotsConserved'
  <2>1. vNodes \subseteq vNodes'
    BY <1>4 DEF AcceptConnection, Enter, vNodes, TypeOK
  <2> QED BY <1>4, <2>1, SameSlots DEF AcceptConnection
<1>5. ASSUME NEW n \in Nodes, OpenNetworkConnection(n)
      PROVE  SlotsConserved'
  <2>1. /\ opener = "granted" /\ opener' = "waiting" /\ where[n] = "none"
        /\ grantOutbound' = grantOutbound \cup {n} /\ where' = [where EXCEPT ![n] = "vNodes"]
        /\ UNCHANGED <<semOutbound, interrupted>>
    BY <1>5 DEF OpenNetworkConnection, Enter
  <2>2. IsFiniteSet(grantOutbound) /\ Cardinality(grantOutbound) \in Nat
    BY NodeSets DEF TypeOK
  <2>3. n \notin grantOutbound
    BY <2>1 DEF SlotsConserved, vNodes
  <2>4. Cardinality(grantOutbound \cup {n}) = Cardinality(grantOutbound) + 1
    BY <2>2, <2>3, FS_AddElement
  <2>5. grantOutbound \cup {n} \subseteq vNodes'
    BY <2>1 DEF SlotsConserved, vNodes, TypeOK
  <2>6. One(opener = "granted") = 1 /\ One(opener' = "granted") = 0
    BY <2>1 DEF One
  <2>7. semOutbound \in Nat
    BY DEF TypeOK
  <2>8. ~interrupted => semOutbound + Cardinality(grantOutbound) + 1 = MaxOutbound
    BY <2>6 DEF SlotsConserved
  <2>9. ~interrupted' => semOutbound' + Cardinality(grantOutbound') + 0 = MaxOutbound
    BY <2>1, <2>2, <2>4, <2>7, <2>8
  <2> QED BY <2>1, <2>5, <2>6, <2>9 DEF SlotsConserved
<1>6. CASE AcquireGrant \/ OpenFails
  <2>1. Cardinality(grantOutbound) \in Nat
    BY NodeSets DEF TypeOK
  <2>2. vNodes' = vNodes /\ UNCHANGED <<grantOutbound, interrupted>>
    BY <1>6 DEF AcquireGrant, OpenFails, vNodes
  <2> QED BY <1>6, <2>1, <2>2, NodesAssumption DEF AcquireGrant, OpenFails, SlotsConserved, One, TypeOK
<1>7. CASE Interrupt
  BY <1>7 DEF Interrupt, SlotsConserved, vNodes
<1>8. CASE Stop
  BY <1>8 DEF Stop, SlotsConserved
<1>9. CASE \/ SocketCopy \/ SocketRelease \/ \E t \in Threads : ThreadExits(t)
           \/ \E n \in Nodes : Service(n)
  BY <1>1, <1>9 DEF SocketCopy, SocketRelease, ThreadExits, Service
<1>10. CASE \/ MessageCopy \/ MessageRelease \/ EndOfBlock \/ EndOfMessage
            \/ \E n \in Nodes : SkipNode(n) \/ NoMessage(n) \/ TakeMessage(n)
  BY <1>1, <1>10 DEF MessageCopy, MessageRelease, EndOfBlock, EndOfMessage, SkipNode, NoMessage, TakeMessage
<1>11. ASSUME NEW n \in Nodes, DisconnectNode(n)
       PROVE  SlotsConserved'
  BY <1>1, <1>11 DEF DisconnectNode
<1> QED BY <1>2, <1>3, <1>4, <1>5, <1>6, <1>7, <1>8, <1>9, <1>10, <1>11, TwoThreads
        DEF Next, SocketThread, MessageThread, Environment

-----------------------------------------------------------------------------
(* Limits.                                                                 *)

Queues ==
  \A n \in Nodes : /\ Len(vProcessMsg[n]) <= Flood + 1
                   /\ fPauseRecv[n] <=> Len(vProcessMsg[n]) > Flood

Inbound == revived = {} => Cardinality(EvictionCandidates) <= MaxInbound

(* A queue that is set anew obeys the limit if the new content does.       *)
LEMMA SetQueues ==
  ASSUME TypeOK, Queues, NEW n \in Nodes, NEW q \in Seq(Messages), SetQueue(n, q), Len(q) <= Flood + 1
  PROVE  Queues'
<1>1. /\ vProcessMsg'[n] = q /\ fPauseRecv'[n] = (Len(q) > Flood)
      /\ \A m \in Nodes \ {n} : vProcessMsg'[m] = vProcessMsg[m] /\ fPauseRecv'[m] = fPauseRecv[m]
  BY DEF SetQueue, PauseRecv, TypeOK
<1> QED BY <1>1 DEF Queues

LEMMA DestroyQueues ==
  ASSUME TypeOK, Queues, NEW N \in SUBSET Nodes, Destroy(N)
  PROVE  Queues'
<1> SUFFICES ASSUME NEW n \in Nodes
             PROVE  /\ Len(vProcessMsg'[n]) <= Flood + 1
                    /\ fPauseRecv'[n] <=> Len(vProcessMsg'[n]) > Flood
  BY DEF Queues
<1>1. CASE n \in N
  <2>1. vProcessMsg'[n] = << >> /\ fPauseRecv'[n] = FALSE
    BY <1>1 DEF Destroy
  <2> QED BY <2>1, NodesAssumption
<1>2. CASE n \notin N
  <2>1. vProcessMsg'[n] = vProcessMsg[n] /\ fPauseRecv'[n] = fPauseRecv[n]
    BY <1>2 DEF Destroy
  <2> QED BY <2>1 DEF Queues
<1> QED BY <1>1, <1>2

LEMMA QueuesKept ==
  ASSUME IInv, Next
  PROVE  Queues'
<1> USE DEF IInv
<1>1. Queues
  BY DEF LimitsHold, Queues
<1>2. ASSUME UNCHANGED recvQueue
      PROVE  Queues'
  BY <1>1, <1>2 DEF recvQueue, Queues
<1>3. ASSUME NEW n \in Nodes, Service(n)
      PROVE  Queues'
  <2>1. CASE UNCHANGED recvQueue
    BY <1>2, <2>1
  <2>2. ASSUME ~fPauseRecv[n], NEW msg \in Messages, SetQueue(n, Append(vProcessMsg[n], msg))
        PROVE  Queues'
    <3>1. vProcessMsg[n] \in Seq(Messages)
      BY DEF TypeOK
    <3>2. Len(vProcessMsg[n]) \in Nat /\ Len(vProcessMsg[n]) <= Flood
      BY <1>1, <2>2, <3>1, NodesAssumption DEF Queues
    <3>3. /\ Append(vProcessMsg[n], msg) \in Seq(Messages)
          /\ Len(Append(vProcessMsg[n], msg)) = Len(vProcessMsg[n]) + 1
      BY <3>1
    <3>4. Len(Append(vProcessMsg[n], msg)) <= Flood + 1
      BY <3>2, <3>3, NodesAssumption
    <3> QED BY <1>1, <2>2, <3>3, <3>4, SetQueues
  <2> QED BY <1>3, <2>1, <2>2 DEF Service, recvQueue
<1>4. ASSUME NEW n \in Nodes, TakeMessage(n)
      PROVE  Queues'
  <2>1. vProcessMsg[n] \in Seq(Messages) /\ vProcessMsg[n] # << >> /\ SetQueue(n, Tail(vProcessMsg[n]))
    BY <1>4 DEF TakeMessage, TypeOK
  <2>2. /\ Tail(vProcessMsg[n]) \in Seq(Messages)
        /\ Len(Tail(vProcessMsg[n])) = Len(vProcessMsg[n]) - 1 /\ Len(vProcessMsg[n]) \in Nat
    BY <2>1
  <2>3. Len(Tail(vProcessMsg[n])) <= Flood + 1
    BY <1>1, <2>2, NodesAssumption DEF Queues
  <2> QED BY <1>1, <2>1, <2>2, <2>3, SetQueues
<1>5. CASE DeleteNodes
  BY <1>1, <1>5, DestroyQueues DEF DeleteNodes, Deletable, vNodesDisconnected
<1>6. CASE Stop
  <2>1. Destroy(vNodes \cup vNodesDisconnected)
    BY <1>6 DEF Stop
  <2> QED BY <1>1, <2>1, DestroyQueues DEF vNodes, vNodesDisconnected
<1>7. CASE \/ DisconnectNodes \/ SocketCopy \/ SocketRelease \/ \E t \in Threads : ThreadExits(t)
  BY <1>2, <1>7 DEF DisconnectNodes, SocketCopy, SocketRelease, ThreadExits
<1>8. CASE \/ MessageCopy \/ MessageRelease \/ EndOfBlock \/ EndOfMessage
           \/ \E n \in Nodes : SkipNode(n) \/ NoMessage(n)
  BY <1>2, <1>8 DEF MessageCopy, MessageRelease, EndOfBlock, EndOfMessage, SkipNode, NoMessage
<1>9. CASE Environment
  BY <1>2, <1>9 DEF Environment, AcceptConnection, OpenNetworkConnection, DisconnectNode, AcquireGrant,
     OpenFails, Interrupt
<1> QED BY <1>3, <1>4, <1>5, <1>6, <1>7, <1>8, <1>9, TwoThreads DEF Next, SocketThread, MessageThread

(* A node that was created stays created, and only a new one becomes       *)
(* inbound.                                                                *)
LEMMA CreatedKept ==
  ASSUME IInv, Next
  PROVE  InboundCreated'
<1> USE DEF IInv
<1>1. fInbound \subseteq Nodes
  BY DEF TypeOK
<1>2. ASSUME UNCHANGED <<fInbound, where>>
      PROVE  InboundCreated'
  BY <1>2 DEF InboundCreated
<1>3. CASE DisconnectNodes
  BY <1>1, <1>3 DEF DisconnectNodes, InboundCreated
<1>4. CASE DeleteNodes
  BY <1>1, <1>4 DEF DeleteNodes, Destroy, InboundCreated
<1>5. CASE Stop
  BY <1>1, <1>5 DEF Stop, Destroy, InboundCreated
<1>6. ASSUME NEW n \in Nodes, AcceptConnection(n) \/ OpenNetworkConnection(n)
      PROVE  InboundCreated'
  <2>1. /\ fInbound' \subseteq fInbound \cup {n}
        /\ where' = [where EXCEPT ![n] = "vNodes"]
    BY <1>6 DEF AcceptConnection, OpenNetworkConnection, Enter
  <2> QED BY <1>1, <2>1 DEF InboundCreated, TypeOK
<1>7. CASE \/ SocketCopy \/ SocketRelease \/ \E t \in Threads : ThreadExits(t)
           \/ \E n \in Nodes : Service(n)
  BY <1>2, <1>7 DEF SocketCopy, SocketRelease, ThreadExits, Service
<1>8. CASE \/ MessageCopy \/ MessageRelease \/ EndOfBlock \/ EndOfMessage
           \/ \E n \in Nodes : SkipNode(n) \/ NoMessage(n) \/ TakeMessage(n)
  BY <1>2, <1>8 DEF MessageCopy, MessageRelease, EndOfBlock, EndOfMessage, SkipNode, NoMessage, TakeMessage
<1>9. CASE \/ \E n \in Nodes : DisconnectNode(n)
           \/ AcquireGrant \/ OpenFails \/ Interrupt
  BY <1>2, <1>9 DEF DisconnectNode, AcquireGrant, OpenFails, Interrupt
<1> QED BY <1>3, <1>4, <1>5, <1>6, <1>7, <1>8, <1>9, TwoThreads
        DEF Next, SocketThread, MessageThread, Environment

(* Inbound peers can only leave, or be marked.                             *)
LEMMA FewerInbound ==
  ASSUME TypeOK, Inbound, revived \subseteq revived', EvictionCandidates' \subseteq EvictionCandidates
  PROVE  Inbound'
<1>1. EvictionCandidates \in SUBSET Nodes
  BY DEF EvictionCandidates, vNodes
<1>2. IsFiniteSet(EvictionCandidates) /\ Cardinality(EvictionCandidates) \in Nat
  BY <1>1, NodeSets
<1>3. Cardinality(EvictionCandidates') \in Nat /\ Cardinality(EvictionCandidates') <= Cardinality(EvictionCandidates)
  BY <1>2, FS_Subset, FS_CardinalityType
<1>4. revived' = {} => revived = {}
  OBVIOUS
<1> QED BY <1>2, <1>3, <1>4, NodesAssumption DEF Inbound

(* A new inbound peer takes a free place, or the place of the one evicted. *)
LEMMA AcceptInbound ==
  ASSUME IInv, Inbound, NEW n \in Nodes, AcceptConnection(n)
  PROVE  Inbound'
<1> DEFINE peers == vNodes \cap fInbound
<1> USE DEF IInv
<1>1. /\ where' = [where EXCEPT ![n] = "vNodes"] /\ where[n] = "none"
      /\ fInbound' = fInbound \cup {n} /\ UNCHANGED revived
  BY DEF AcceptConnection, Enter
<1>2. n \notin peers /\ vNodes' = vNodes \cup {n} /\ peers \in SUBSET Nodes
  BY <1>1 DEF vNodes, TypeOK
<1>3. IsFiniteSet(peers) /\ Cardinality(peers) \in Nat
  BY <1>2, NodeSets
<1>4. CASE ~Full /\ UNCHANGED fDisconnect
  <2>1. EvictionCandidates' \subseteq peers \cup {n}
    BY <1>1, <1>2 DEF EvictionCandidates
  <2>2. IsFiniteSet(peers \cup {n}) /\ Cardinality(peers \cup {n}) = Cardinality(peers) + 1
    BY <1>2, <1>3, FS_AddElement
  <2>3. Cardinality(EvictionCandidates') \in Nat /\ Cardinality(EvictionCandidates') <= Cardinality(peers \cup {n})
    BY <2>1, <2>2, FS_Subset, FS_CardinalityType
  <2>4. Cardinality(peers) < MaxInbound
    BY <1>3, <1>4, NodesAssumption DEF Full
  <2> QED BY <1>3, <2>2, <2>3, <2>4, NodesAssumption DEF Inbound
<1>5. ASSUME NEW e \in EvictionCandidates, fDisconnect' = [fDisconnect EXCEPT ![e] = TRUE]
      PROVE  Inbound'
  <2> DEFINE left == EvictionCandidates \ {e}
  <2>1. EvictionCandidates \in SUBSET Nodes
    BY DEF EvictionCandidates, vNodes
  <2>2. IsFiniteSet(EvictionCandidates) /\ Cardinality(EvictionCandidates) \in Nat
    BY <2>1, NodeSets
  <2>3. IsFiniteSet(left) /\ Cardinality(left) = Cardinality(EvictionCandidates) - 1
    BY <2>2, FS_RemoveElement
  <2>4. n \notin left
    BY <1>2 DEF EvictionCandidates
  <2>5. IsFiniteSet(left \cup {n}) /\ Cardinality(left \cup {n}) = Cardinality(left) + 1
    BY <2>3, <2>4, FS_AddElement
  <2>6. EvictionCandidates' \subseteq left \cup {n}
    <3> SUFFICES ASSUME NEW m \in vNodes' \cap fInbound', ~fDisconnect'[m], m # n
                 PROVE  m \in left
      BY DEF EvictionCandidates
    <3>1. m \in peers /\ m \in Nodes
      BY <1>1, <1>2
    <3>2. m # e /\ ~fDisconnect[m]
      BY <1>5, <2>1, <3>1 DEF TypeOK
    <3> QED BY <3>1, <3>2 DEF EvictionCandidates
  <2>7. Cardinality(EvictionCandidates') \in Nat /\ Cardinality(EvictionCandidates') <= Cardinality(left \cup {n})
    BY <2>5, <2>6, FS_Subset, FS_CardinalityType
  <2> QED BY <1>1, <2>2, <2>3, <2>5, <2>7, NodesAssumption DEF Inbound
<1> QED BY <1>4, <1>5 DEF AcceptConnection

LEMMA InboundKept ==
  ASSUME IInv, Next
  PROVE  Inbound'
<1> USE DEF IInv
<1>1. Inbound
  BY DEF LimitsHold, Inbound
<1>2. fInbound \subseteq Nodes
  BY DEF TypeOK
<1>3. ASSUME vNodes' \subseteq vNodes, fInbound' \subseteq fInbound, revived \subseteq revived',
             \A n \in vNodes' \cap fInbound' : fDisconnect[n] => fDisconnect'[n]
      PROVE  Inbound'
  <2>1. EvictionCandidates' \subseteq EvictionCandidates
    BY <1>3 DEF EvictionCandidates
  <2> QED BY <1>1, <2>1, <1>3, FewerInbound
<1>4. ASSUME UNCHANGED <<where, fInbound, revived>>,
             \A n \in Nodes : fDisconnect[n] => fDisconnect'[n]
      PROVE  Inbound'
  <2>1. vNodes' = vNodes
    BY <1>4 DEF vNodes
  <2> QED BY <1>2, <1>3, <1>4, <2>1
<1>5. CASE DisconnectNodes
  <2>1. vNodes' \subseteq vNodes
    BY <1>5 DEF DisconnectNodes, vNodes
  <2> QED BY <1>3, <1>5, <2>1 DEF DisconnectNodes
<1>6. ASSUME NEW N \in SUBSET Nodes, where' = [n \in Nodes |-> IF n \in N THEN "deleted" ELSE where[n]],
             Destroy(N), UNCHANGED revived
      PROVE  Inbound'
  <2>1. vNodes' \subseteq vNodes /\ vNodes' \cap N = {} /\ vNodes' \subseteq Nodes
    BY <1>6 DEF vNodes
  <2>2. fInbound' \subseteq fInbound /\ \A n \in Nodes \ N : fDisconnect'[n] = fDisconnect[n]
    BY <1>6 DEF Destroy
  <2> QED BY <1>3, <1>6, <2>1, <2>2
<1>7. CASE DeleteNodes
  BY <1>6, <1>7 DEF DeleteNodes, Deletable, vNodesDisconnected
<1>8. CASE Stop
  <2> DEFINE all == vNodes \cup vNodesDisconnected
  <2>1. /\ where' = [n \in Nodes |-> IF n \in all THEN "deleted" ELSE where[n]]
        /\ Destroy(all) /\ UNCHANGED revived
    BY <1>8 DEF Stop
  <2>2. all \in SUBSET Nodes
    BY DEF vNodes, vNodesDisconnected
  <2> HIDE DEF all
  <2> QED BY <1>6, <2>1, <2>2
<1>9. ASSUME NEW n \in Nodes, AcceptConnection(n)
      PROVE  Inbound'
  BY <1>1, <1>9, AcceptInbound
<1>10. ASSUME NEW n \in Nodes, OpenNetworkConnection(n)
       PROVE  Inbound'
  <2>1. /\ where' = [where EXCEPT ![n] = "vNodes"] /\ where[n] = "none"
        /\ UNCHANGED <<fInbound, fDisconnect, revived>>
    BY <1>10 DEF OpenNetworkConnection, Enter
  <2>2. n \notin fInbound
    BY <2>1 DEF InboundCreated
  <2>3. EvictionCandidates' \subseteq EvictionCandidates
    BY <2>1, <2>2 DEF EvictionCandidates, vNodes, TypeOK
  <2> QED BY <1>1, <2>1, <2>3, FewerInbound
<1>11. ASSUME NEW n \in Nodes, Service(n)
       PROVE  Inbound'
  <2>1. \A m \in Nodes : fDisconnect[m] => fDisconnect'[m]
    BY <1>11 DEF Service, TypeOK
  <2> QED BY <1>4, <1>11, <2>1 DEF Service
<1>12. CASE EndOfBlock
  <2>1. current \in Nodes
    BY <1>12, TwoThreads DEF EndOfBlock, References, Working, TypeOK
  <2>2. PICK old \in BOOLEAN :
          /\ fDisconnect' = [fDisconnect EXCEPT ![current] = old]
          /\ revived' = IF fDisconnect[current] /\ ~old THEN revived \cup {current} ELSE revived
    BY <1>12 DEF EndOfBlock
  <2>3. CASE fDisconnect[current] /\ ~old
    BY <2>2, <2>3 DEF Inbound
  <2>4. CASE ~fDisconnect[current] \/ old
    <3>1. \A m \in Nodes : fDisconnect[m] => fDisconnect'[m]
      BY <2>1, <2>2, <2>4 DEF TypeOK
    <3>2. revived' = revived
      BY <2>2, <2>4
    <3> QED BY <1>4, <1>12, <3>1, <3>2 DEF EndOfBlock
  <2> QED BY <2>3, <2>4
<1>13. CASE EndOfMessage \/ \E n \in Nodes : NoMessage(n) \/ TakeMessage(n)
  <2>1. PICK n \in Nodes \cup {NoNode} :
          \/ UNCHANGED fDisconnect
          \/ fDisconnect' = [fDisconnect EXCEPT ![n] = TRUE]
    BY <1>13 DEF EndOfMessage, NoMessage, TakeMessage, SendMessages, HangUp, TypeOK
  <2>2. \A m \in Nodes : fDisconnect[m] => fDisconnect'[m]
    BY <2>1 DEF TypeOK
  <2> QED BY <1>4, <1>13, <2>2 DEF EndOfMessage, NoMessage, TakeMessage
<1>14. ASSUME NEW n \in Nodes, DisconnectNode(n)
       PROVE  Inbound'
  <2>1. \A m \in Nodes : fDisconnect[m] => fDisconnect'[m]
    BY <1>14 DEF DisconnectNode, TypeOK
  <2> QED BY <1>4, <1>14, <2>1 DEF DisconnectNode
<1>15. CASE \/ SocketCopy \/ SocketRelease \/ \E t \in Threads : ThreadExits(t)
            \/ MessageCopy \/ MessageRelease \/ \E n \in Nodes : SkipNode(n)
            \/ AcquireGrant \/ OpenFails \/ Interrupt
  BY <1>4, <1>15 DEF SocketCopy, SocketRelease, ThreadExits, MessageCopy, MessageRelease, SkipNode,
     AcquireGrant, OpenFails, Interrupt
<1> QED BY <1>5, <1>7, <1>8, <1>9, <1>10, <1>11, <1>12, <1>13, <1>14, <1>15, TwoThreads
        DEF Next, SocketThread, MessageThread, Environment

-----------------------------------------------------------------------------
(* The theorems.                                                           *)

LEMMA NextKeeps == IInv /\ [Next]_vars => IInv'
<1>1. ASSUME IInv, Next PROVE IInv'
  <2>1. TypeOK'
    BY <1>1, SocketTypes, MessageTypes, OtherTypes DEF Next
  <2>2. References'
    BY <1>1, SocketReferences, MessageReferences, OtherReferences DEF Next
  <2>3. InboundCreated' /\ SlotsConserved'
    BY <1>1, CreatedKept, SlotsKept
  <2>4. Queues' /\ Inbound'
    BY <1>1, QueuesKept, InboundKept
  <2>5. LimitsHold'
    BY <2>4 DEF Queues, Inbound, LimitsHold
  <2> QED BY <2>1, <2>2, <2>3, <2>5 DEF IInv
<1>2. ASSUME IInv, UNCHANGED vars PROVE IInv'
  <2> USE <1>2 DEF IInv, vars
  <2>1. TypeOK'
    BY DEF TypeOK
  <2>2. vNodes' = vNodes /\ vNodesDisconnected' = vNodesDisconnected
    BY DEF vNodes, vNodesDisconnected
  <2>3. References'
    <3>1. NoCopy' /\ Working'
      BY DEF References, NoCopy, Working
    <3> QED BY <3>1, SameReferences
  <2>4. InboundCreated' /\ SlotsConserved'
    BY <2>2 DEF InboundCreated, SlotsConserved
  <2>5. EvictionCandidates' = EvictionCandidates
    BY <2>2 DEF EvictionCandidates
  <2>6. LimitsHold'
    BY <2>5 DEF LimitsHold
  <2> QED BY <2>1, <2>3, <2>4, <2>6
<1> QED BY <1>1, <1>2

LEMMA AlwaysIInv == Spec => []IInv
BY InitHolds, NextKeeps, PTL DEF Spec

(* The variables keep their types: CNode and the lists of CConnman.        *)
THEOREM TypeCorrect == Spec => []TypeOK
<1>1. IInv => TypeOK
  BY DEF IInv
<1> QED BY <1>1, AlwaysIInv, PTL

(* The reference count of a living node is exactly the number of its       *)
(* holders: AddRef and Release are paired in both loops (net.cpp).         *)
THEOREM ReferencesExact == Spec => []RefCountExact
<1>1. IInv => RefCountExact
  BY DEF IInv, References
<1> QED BY <1>1, AlwaysIInv, PTL

(* No thread that still runs holds or works on a deleted node, however     *)
(* many peers come and go (DisconnectNodes, DeleteNodes and Stop).         *)
THEOREM NodesOutliveTheirUsers == Spec => []NoUseAfterDelete
<1>1. IInv => NoUseAfterDelete
  BY DEF IInv, References
<1> QED BY <1>1, AlwaysIInv, PTL

(* net_processing keeps a CNodeState for exactly the nodes that exist, so  *)
(* that State() never returns null to a handler (InitializeNode and        *)
(* FinalizeNode).                                                          *)
THEOREM StateKnown == Spec => []NodeStateMatches
<1>1. IInv => NodeStateMatches
  BY DEF IInv, References
<1> QED BY <1>1, AlwaysIInv, PTL

(* Outbound slots are neither lost nor duplicated, whatever the number of  *)
(* slots and peers (CSemaphoreGrant).                                      *)
THEOREM SlotsNeverLost == Spec => []SlotsConserved
<1>1. IInv => SlotsConserved
  BY DEF IInv
<1> QED BY <1>1, AlwaysIInv, PTL

(* The limits on received messages and on inbound peers hold for every     *)
(* size of them (fPauseRecv, AcceptConnection).                            *)
THEOREM LimitsKept == Spec => []LimitsHold
<1>1. IInv => LimitsHold
  BY DEF IInv
<1> QED BY <1>1, AlwaysIInv, PTL

=============================================================================
