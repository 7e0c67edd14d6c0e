----------------------------- MODULE OrphanPool -----------------------------
(***************************************************************************)
(* Transactions that arrive before their parents: the TX handler of        *)
(* net_processing.cpp, mapOrphanTransactions with its index by parent, and *)
(* recentRejects.  The memory pool is the set of accepted transactions     *)
(* (Mempool models it in detail).  Every step runs under cs_main.          *)
(***************************************************************************)
EXTENDS Integers, Sequences, FiniteSets, FiniteSetsExt

CONSTANTS
    TxOrder,      \* the transactions, ordered by hash
    Parents,      \* for each, the transactions whose outputs it spends
    Invalid,      \* refused although their inputs are there
    Punished,     \* those of Invalid that cost the sender its reputation
    Large,        \* over the size AddOrphanTx takes
    Peers, NoPeer,
    MaxOrphans,   \* -maxorphantx
    MaxSessions   \* bound: connections made in all

Txs == Range(TxOrder)

ConstantsOK ==
    /\ TxOrder \in Seq(Txs)
    /\ Parents \in [Txs -> SUBSET Txs]
    /\ NoPeer \notin Peers
    /\ MaxOrphans \in Nat /\ MaxSessions \in Nat

VARIABLES
    pool, chain,      \* transactions in the memory pool, and in blocks
    fromPeer,         \* mapOrphanTransactions: the sender, or NoPeer
    mapOrphanTransactionsByPrev,
    recentRejects,
    tipChanged,       \* the tip is not hashRecentRejectsChainTip
    mapNodeState,
    sessions,
    otherwise,        \* history: orphans a parent of which came by another way
    again             \* history: orphans tried again after they were accepted

orphanVars ==
    <<pool, chain, fromPeer, mapOrphanTransactionsByPrev, recentRejects, tipChanged,
      mapNodeState, sessions, otherwise, again>>

Orphans == {t \in Txs : fromPeer[t] # NoPeer}
Available == pool \cup chain

OrphanInit ==
    /\ pool = {} /\ chain = {}
    /\ fromPeer = [t \in Txs |-> NoPeer]
    /\ mapOrphanTransactionsByPrev = [t \in Txs |-> {}]
    /\ recentRejects = {} /\ tipChanged = FALSE
    /\ mapNodeState = {} /\ sessions = 0
    /\ otherwise = {} /\ again = {}

\* What AcceptToMemoryPool says of t over the pool p.
AcceptToMemoryPool(t, p) ==
    IF t \in p \cup chain THEN "known"
    ELSE IF ~(Parents[t] \subseteq p \cup chain) THEN "missing"
    ELSE IF t \in Invalid THEN "invalid"
    ELSE "accepted"

-----------------------------------------------------------------------------
(* The orphan map. *)

\* mutant: an orphan is taken out of the list of its last parent only
UnlinkLast(prev, gone) ==
    LET prevs(o) == SelectSeq(TxOrder, LAMBDA p : p \in Parents[o])
    IN  [t \in Txs |-> {o \in prev[t] : ~(o \in gone /\ t = prevs(o)[Len(prevs(o))])}]

\* The index without the orphans that are erased.
Unlink(prev, gone) == [t \in Txs |-> prev[t] \ gone]

\* EraseOrphanTx for each of a set of orphans.
EraseOrphanTx(gone) ==
    /\ fromPeer' = [t \in Txs |-> IF t \in gone THEN NoPeer ELSE fromPeer[t]]
    /\ mapOrphanTransactionsByPrev' = Unlink(mapOrphanTransactionsByPrev, gone)

\* How many orphans LimitOrphanTxSize evicts.
Surplus(held) == IF Cardinality(held) > MaxOrphans THEN Cardinality(held) - MaxOrphans ELSE 0

\* AddOrphanTx, then LimitOrphanTxSize, which evicts at random, the new one too.
AddOrphanTx(t, peer) ==
    LET new  == {t} \ (Orphans \cup Large)
        held == Orphans \cup new
    IN  \E gone \in kSubset(Surplus(held), held) :
            /\ fromPeer' = [o \in Txs |-> IF o \in gone THEN NoPeer
                                          ELSE IF o \in new THEN peer ELSE fromPeer[o]]
            /\ mapOrphanTransactionsByPrev' =
                   Unlink([p \in Txs |-> mapOrphanTransactionsByPrev[p]
                                           \cup {o \in new : p \in Parents[o]}], gone)

-----------------------------------------------------------------------------
(* The loop over the orphans that depended on an accepted transaction.     *)

\* One orphan.  The work record holds the pool, the queue, what is to be
\* erased and to be remembered as rejected, and the peers found guilty.
TryOrphan(w, o) ==
    LET verdict == AcceptToMemoryPool(o, w.pool)
    IN  IF fromPeer[o] \in w.guilty THEN w
        ELSE IF verdict = "accepted"
             THEN [w EXCEPT !.pool = @ \cup {o}, !.queue = Append(@, o), !.erase = @ \cup {o}]
        ELSE IF verdict = "missing" THEN w
        ELSE [w EXCEPT !.erase = @ \cup {o}, !.rejects = @ \cup {o},
                       !.guilty = IF verdict = "invalid" /\ o \in Punished
                                  THEN @ \cup {fromPeer[o]} ELSE @,
                       !.again = IF verdict = "known" THEN @ \cup {o} ELSE @]

\* mutant: the orphans of an accepted orphan are not looked at
DependentsOfFirst(w) == IF w.next > 1 THEN {} ELSE mapOrphanTransactionsByPrev[w.queue[w.next]]

\* The orphans that spend an output of the transaction whose turn it is.
Dependents(w) == mapOrphanTransactionsByPrev[w.queue[w.next]]

\* They are tried in the order of the set, that of their hashes.
TryDependents(w) ==
    LET tried[i \in 0..Len(TxOrder)] ==
            IF i = 0 THEN w
            ELSE IF TxOrder[i] \in Dependents(w) THEN TryOrphan(tried[i - 1], TxOrder[i])
            ELSE tried[i - 1]
    IN  [tried[Len(TxOrder)] EXCEPT !.next = @ + 1]

Turn(w) == IF w.next > Len(w.queue) THEN w ELSE TryDependents(w)

\* The queue takes each transaction once, so that it is empty after that many turns.
ProcessWorkQueue(w) ==
    LET after[i \in 0..Len(TxOrder)] == IF i = 0 THEN w ELSE Turn(after[i - 1])
    IN  after[Len(TxOrder)]

\* The history: orphans some parent of which, or which themselves, came by a
\* way on which nobody looks for orphans, as long as they are kept.
Overlooked(more) == otherwise' = {o \in otherwise \cup more : fromPeer'[o] # NoPeer}

\* What the handler remembers of a transaction it did not accept.
Rejected(t, verdict) == IF verdict = "missing" \/ t \in pool THEN {} ELSE {t}

\* The TX handler for transaction t of a peer.
ReceiveTx(peer, t) ==
    /\ peer \in mapNodeState
    /\ LET verdict == AcceptToMemoryPool(t, pool)
           w == ProcessWorkQueue([pool |-> pool \cup {t}, queue |-> <<t>>, next |-> 1,
                                  erase |-> {}, rejects |-> {}, guilty |-> {}, again |-> {}])
       IN  \/ /\ verdict = "accepted"
              /\ pool' = w.pool
              /\ EraseOrphanTx(w.erase)
              /\ recentRejects' = recentRejects \cup w.rejects
              /\ again' = again \cup w.again
              /\ Overlooked({o \in Orphans : o = t \/ fromPeer[o] \in w.guilty})
           \/ /\ verdict = "missing"
              /\ AddOrphanTx(t, peer)
              /\ recentRejects' = recentRejects \cup Rejected(t, verdict)
              /\ Overlooked({})
              /\ UNCHANGED <<pool, again>>
           \/ /\ verdict \in {"invalid", "known"}
              /\ recentRejects' = recentRejects \cup Rejected(t, verdict)
              /\ UNCHANGED <<pool, fromPeer, mapOrphanTransactionsByPrev, again, otherwise>>
    /\ UNCHANGED <<chain, tipChanged, mapNodeState, sessions>>

\* AlreadyHave for an announced transaction forgets the rejects of another tip.
ReceiveInv(peer) ==
    /\ peer \in mapNodeState
    /\ tipChanged
    /\ recentRejects' = {} /\ tipChanged' = FALSE /\ again' = {}
    /\ UNCHANGED <<pool, chain, fromPeer, mapOrphanTransactionsByPrev, mapNodeState, sessions,
                   otherwise>>

-----------------------------------------------------------------------------
(* What else changes the pool, the chain and the peers. *)

\* The wallet or an RPC command hands in a transaction.
SubmitTx(t) ==
    /\ AcceptToMemoryPool(t, pool) = "accepted"
    /\ pool' = pool \cup {t}
    /\ otherwise' = otherwise \cup {o \in Orphans : o = t \/ t \in Parents[o]}
    /\ UNCHANGED <<chain, fromPeer, mapOrphanTransactionsByPrev, recentRejects, tipChanged,
                   mapNodeState, sessions, again>>

PoolAfterBlock(t) == pool \ {t}

\* A block with transaction t is connected; nobody looks for orphans.
ConnectBlock(t) ==
    /\ t \notin chain \cup Invalid
    /\ Parents[t] \subseteq chain
    /\ chain' = chain \cup {t}
    /\ pool' = PoolAfterBlock(t)
    /\ tipChanged' = TRUE
    /\ otherwise' = IF t \in pool THEN otherwise
                    ELSE otherwise \cup {o \in Orphans : o = t \/ t \in Parents[o]}
    /\ UNCHANGED <<fromPeer, mapOrphanTransactionsByPrev, recentRejects, mapNodeState, sessions,
                   again>>

\* The transactions of the pool that are in ts or spend, directly or not, what is.
WithDescendants(ts) ==
    {t \in pool : \A with \in SUBSET pool :
         pool \cap ts \subseteq with /\ (\A o \in pool : Parents[o] \cap with # {} => o \in with)
             => t \in with}

\* The pool drops a transaction with its descendants, for its age or its fee.
DropFromPool(t) ==
    /\ t \in pool
    /\ pool' = pool \ WithDescendants({t})
    /\ UNCHANGED <<chain, fromPeer, mapOrphanTransactionsByPrev, recentRejects, tipChanged,
                   mapNodeState, sessions, otherwise, again>>

InitializeNode(peer) ==
    /\ peer \notin mapNodeState
    /\ sessions < MaxSessions
    /\ mapNodeState' = mapNodeState \cup {peer}
    /\ sessions' = sessions + 1
    /\ UNCHANGED <<pool, chain, fromPeer, mapOrphanTransactionsByPrev, recentRejects, tipChanged,
                   otherwise, again>>

\* The orphans EraseOrphansFor erases.
OrphansOf(peer) == {o \in Txs : fromPeer[o] = peer}

FinalizeNode(peer) ==
    /\ peer \in mapNodeState
    /\ EraseOrphanTx(OrphansOf(peer))
    /\ Overlooked({})
    /\ mapNodeState' = mapNodeState \ {peer}
    /\ UNCHANGED <<pool, chain, recentRejects, tipChanged, sessions, again>>

OrphanNext ==
    \/ \E peer \in Peers :
           \/ \E t \in Txs : ReceiveTx(peer, t)
           \/ ReceiveInv(peer)
           \/ InitializeNode(peer)
           \/ FinalizeNode(peer)
    \/ \E t \in Txs : SubmitTx(t) \/ ConnectBlock(t) \/ DropFromPool(t)

OrphanSpec == OrphanInit /\ [][OrphanNext]_orphanVars

-----------------------------------------------------------------------------
(* Properties *)

\* The variables have their types, and no transaction is both in the pool and
\* in the chain (removeForBlock, called by ConnectTip).
OrphanTypeOK ==
    /\ pool \subseteq Txs \ Invalid /\ chain \subseteq Txs \ Invalid /\ pool \cap chain = {}
    /\ fromPeer \in [Txs -> Peers \cup {NoPeer}]
    /\ mapOrphanTransactionsByPrev \in [Txs -> SUBSET Txs]
    /\ recentRejects \subseteq Txs /\ again \subseteq Txs /\ otherwise \subseteq Orphans
    /\ tipChanged \in BOOLEAN
    /\ mapNodeState \subseteq Peers /\ sessions \in 0..MaxSessions

\* mapOrphanTransactionsByPrev lists, for each transaction, exactly the orphans
\* that spend it: the TX handler indexes mapOrphanTransactions with what it
\* finds there (net_processing.cpp:1453), and operator[] would make an empty
\* entry, with a null transaction, for one that was erased.  There are never
\* more orphans than -maxorphantx, and each belongs to a peer that is connected,
\* so that Misbehaving(fromPeer) finds its state.
OrphansTracked ==
    /\ \A t \in Txs : mapOrphanTransactionsByPrev[t] = {o \in Orphans : t \in Parents[o]}
    /\ Cardinality(Orphans) <= MaxOrphans
    /\ \A o \in Orphans : fromPeer[o] \in mapNodeState

\* "Recursively process any orphan transactions that depended on this one":
\* whatever order transactions come in, none is stranded.  No orphan whose
\* inputs are all there is left waiting, except when a parent came in a block or
\* from the wallet, the orphan itself was sent again, or its sender was found
\* guilty in that pass; and one that is not asked for again was refused for what
\* it is, or is in the chain, or was an orphan that was accepted and tried again
\* for another of its parents in the same pass.
NoneStranded ==
    /\ \A o \in Orphans \ otherwise : ~(Parents[o] \subseteq Available)
    /\ recentRejects \subseteq Invalid \cup chain \cup again
=============================================================================
