---------------------------- MODULE MCThreads ----------------------------
(***************************************************************************)
(* Threads of a node that wait for others, one at a time: "checks" is      *)
(* CheckQueue with two workers, the master and two checks per block;       *)
(* "masternodes" is MasternodeSync with three peers of a network that has  *)
(* masternodes and winners and no budget; "requests" is TxRequests with an *)
(* honest peer and a silent one.                                           *)
(***************************************************************************)
EXTENDS CheckQueue, Sequences

CONSTANTS w1, w2, m, c1, c2

VARIABLE part

checksFair == \A t \in Threads : WF_vars(part = "checks" /\ LoopStep(t))

-----------------------------------------------------------------------------
CONSTANTS peer1, peer2, peer3

VARIABLES
    RequestedMasternodeAssets, RequestedMasternodeAttempt, started, last, items, fulfilled,
    lastFailure, fBlockchainSynced, asleep, enabled, events

syncVars ==
    <<RequestedMasternodeAssets, RequestedMasternodeAttempt, started, last, items, fulfilled,
      lastFailure, fBlockchainSynced, asleep, enabled, events>>

SyncPeers == <<peer1, peer2, peer3>>

Sync == INSTANCE MasternodeSync WITH
    Peers <- SyncPeers, Known <- {"LIST", "MNW"}, Enforced <- TRUE, MaxItems <- 1, MaxEvents <- 1

syncFair ==
    /\ WF_syncVars(part = "masternodes" /\ Sync!Process(TRUE))
    /\ \A a \in {"LIST", "MNW"} :
           SF_syncVars(part = "masternodes" /\ RequestedMasternodeAssets = a /\ Sync!Added(a))

-----------------------------------------------------------------------------
CONSTANTS tx1, tx2

VARIABLES
    mapAlreadyAskedFor, mapAskFor, requested, received, announced, connected, since, forgotten

requestVars ==
    <<mapAlreadyAskedFor, mapAskFor, requested, received, announced, connected, since, forgotten>>

AskedPeers == {peer1, peer2}
RequestTxs == {tx1, tx2}

Requests == INSTANCE TxRequests WITH
    Peers <- AskedPeers, Honest <- {peer1}, Txs <- RequestTxs, Retry <- 2, MaxAsked <- 2,
    MaxAskFor <- 1, MaxInv <- 1, have <- received

ASSUME RequestConstants == Requests!ConstantsOK

requestFair ==
    /\ WF_requestVars(part = "requests" /\ Requests!Tick)
    /\ \A p \in AskedPeers : WF_requestVars(part = "requests" /\ Requests!SendMessages(p))
    /\ \A p \in {peer1}, t \in RequestTxs :
           WF_requestVars(part = "requests" /\ Requests!ReceiveTx(p, t))

-----------------------------------------------------------------------------
MCInit ==
    part \in {"checks", "masternodes", "requests"} /\ Init /\ Sync!Init /\ Requests!Init

MCNext ==
    /\ \/ part = "checks" /\ Next /\ UNCHANGED <<syncVars, requestVars>>
       \/ part = "masternodes" /\ Sync!Next /\ UNCHANGED <<vars, requestVars>>
       \/ part = "requests" /\ Requests!Next /\ UNCHANGED <<vars, syncVars>>
    /\ UNCHANGED part

MCSpec ==
    /\ MCInit /\ [][MCNext]_<<part, vars, syncVars, requestVars>>
    /\ checksFair /\ syncFair /\ requestFair

-----------------------------------------------------------------------------
(* The properties of MasternodeSync and TxRequests.                        *)

\* The synchronisation ends, again and again (CMasternodeSync::Process).
Finishes == part = "masternodes" => Sync!Finishes

\* A transaction is not requested again within two minutes of the last request (AskFor).
RequestsSpaced == [][part = "requests" => Requests!RequestsSpaced]_requestVars

\* A transaction an honest peer was put down for arrives (AskFor, SendMessages).
Arrives == part = "requests" => Requests!Arrives
=============================================================================
