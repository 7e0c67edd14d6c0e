------------------------------ MODULE MCRelay ------------------------------
(***************************************************************************)
(* The protocols by which blocks come from the peers, one at a time:       *)
(* "alone" and "two" are BlockSync with a single peer, and with two whose  *)
(* recent blocks fit into one batch (MaxHeight - Recent <= Limit, which    *)
(* CatchesUp needs); "download" is BlockDownload with two peers, one of    *)
(* them preferred, and a window of one block.                              *)
(***************************************************************************)
EXTENDS BlockDownload

CONSTANTS peer1, peer2

ASSUME DownloadConstants == ConstantsOK

VARIABLE part

-----------------------------------------------------------------------------
VARIABLES
    tip, have, syncStarted, vBlockRequested, toPeer, toClient, vRecvGetData,
    vInventoryBlockToSend, hashContinue

syncVars ==
    <<tip, have, syncStarted, vBlockRequested, toPeer, toClient, vRecvGetData,
      vInventoryBlockToSend, hashContinue>>

TwoPeers == {peer1, peer2}
OnePeer == {peer1}

Alone == INSTANCE BlockSync WITH
    Peers <- OnePeer, StartHeight <- 5, MaxHeight <- 7, Recent <- 4, Limit <- 2,
    fSyncStarted <- syncStarted

Two == INSTANCE BlockSync WITH
    Peers <- TwoPeers, StartHeight <- 3, MaxHeight <- 4, Recent <- 2, Limit <- 2,
    fSyncStarted <- syncStarted

syncFair ==
    \A p \in TwoPeers :
        /\ WF_syncVars(part = "two" /\ Two!Client(p))
        /\ WF_syncVars(part = "two" /\ Two!SendInv(p))
        /\ WF_syncVars(part = "two" /\ (Two!ReceiveGetBlocks(p) \/ Two!ReceiveGetData(p)
                                            \/ Two!ProcessGetData(p)))

downloadFair ==
    \A p \in TwoPeers : /\ WF_vars(part = "download" /\ Timeout(p))
                        /\ WF_vars(part = "download" /\ FinalizeNode(p))

-----------------------------------------------------------------------------
MCInit ==
    /\ \/ part = "alone" /\ Alone!Init
       \/ part \in {"two", "download"} /\ Two!Init
    /\ Init

MCNext ==
    /\ \/ part = "alone" /\ Alone!Next /\ UNCHANGED vars
       \/ part = "two" /\ Two!Next /\ UNCHANGED vars
       \/ part = "download" /\ Next /\ UNCHANGED syncVars
    /\ UNCHANGED part

MCSpec ==
    /\ MCInit /\ [][MCNext]_<<part, syncVars, vars>>
    /\ syncFair /\ downloadFair

-----------------------------------------------------------------------------
(* The properties of BlockSync in its parts; those of BlockDownload, whose  *)
(* variables the other parts leave alone, are its own.                      *)

\* A conversation at rest has left the client at most two blocks behind (GETBLOCKS, BLOCK).
RestsNearTip == /\ part = "alone" => Alone!RestsNearTip
                /\ part = "two" => Two!RestsNearTip

\* With two peers the client ends on their tip (the start of a sync in SendMessages).
CatchesUp == part = "two" => Two!CatchesUp
=============================================================================
