----------------------------- MODULE WalletTxs -----------------------------
(***************************************************************************)
(* The confirmation states of wallet transactions: the validation thread   *)
(* moves the tip and the memory pool and queues notifications, the wallet  *)
(* takes them one at a time under cs_wallet, and RPC threads commit,       *)
(* abandon and rescan in between.  A failed assert ends the process; the   *)
(* next start loads the wallet file, which holds every change, and scans   *)
(* the blocks since the last best block written.                           *)
(***************************************************************************)
EXTENDS Integers, Sequences, FiniteSets, SequencesExt

CONSTANTS
    TxOrder,      \* the transactions, ordered by hash
    Inputs,       \* what each spends: coins, or transactions for their output
    Mine,         \* those that pay to or from the wallet
    Blocks, Genesis, NoBlock,
    Prev,         \* the parent of each block but Genesis
    Contents,     \* the transactions of each block, in order
    MaxQueue      \* bound: notifications pending

Txs == Range(TxOrder)

VARIABLES
    tip, diskTip,             \* of the active chain, and as last flushed
    mempool,
    queue,                    \* the validation interface's notifications
    mapWallet,                \* [in, status, block, fInMempool] of each
    m_last_block_processed, m_last_block_processed_height,
    bestBlock,                \* the locator in the wallet file
    failed,                   \* the assert that has failed, or "none"
    rolledBack                \* a crash took back a reorganisation the wallet had seen

vars == <<tip, diskTip, mempool, queue, mapWallet, m_last_block_processed,
          m_last_block_processed_height, bestBlock, failed, rolledBack>>

InputTxs(t) == Inputs[t] \cap Txs
Conflict(t, u) == t # u /\ Inputs[t] \cap Inputs[u] # {}

RECURSIVE Chain(_)
Chain(b) == IF b = Genesis THEN <<b>> ELSE Append(Chain(Prev[b]), b)

Height(b) == Len(Chain(b)) - 1
InChain(b) == UNION {Range(Contents[c]) : c \in Range(Chain(b))}

RECURSIVE WithDescendants(_)
WithDescendants(ts) ==
    LET more == ts \cup {t \in Txs : InputTxs(t) \cap ts # {}}
    IN  IF more = ts THEN ts ELSE WithDescendants(more)

Absent == [in |-> FALSE, status |-> "UNCONFIRMED", block |-> NoBlock, fInMempool |-> FALSE]

Init ==
    /\ tip = Genesis /\ diskTip = Genesis /\ mempool = {} /\ queue = << >>
    /\ mapWallet = [t \in Txs |-> Absent]
    /\ m_last_block_processed = Genesis /\ m_last_block_processed_height = 0
    /\ bestBlock = Genesis /\ failed = "none"
    /\ rolledBack = FALSE

InWallet(m) == {t \in Txs : m[t].in}

-----------------------------------------------------------------------------
(* The wallet's functions.  A value w holds mapWallet, the height of the   *)
(* last block processed and the assert that failed, if one did.            *)

GetDepthInMainChain(w, t) ==
    LET r == w.map[t]
        n == w.height - Height(r.block) + 1
    IN  CASE r.status = "CONFIRMED" -> n
          [] r.status = "CONFLICTED" -> -n
          [] OTHER -> 0

\* mutant: descendants are not marked
SpendersNone(w, t) == {}

\* The wallet transactions that spend an output of t, from mapTxSpends.
Spenders(w, t) == {u \in InWallet(w.map) : t \in InputTxs(u)}

\* MarkConflicted for the transactions in todo, with a block in the chain.
RECURSIVE MarkConflicted(_, _, _, _)
MarkConflicted(w, block, todo, done) ==
    LET confirms == -(w.height - Height(block) + 1)
        now  == CHOOSE t \in todo : TRUE
        hit  == confirms < GetDepthInMainChain(w, now)
        next == IF hit THEN [w EXCEPT !.map[now].status = "CONFLICTED", !.map[now].block = block]
                ELSE w
    IN  IF confirms >= 0 \/ todo = {} THEN w
        ELSE MarkConflicted(next, block,
                            (todo \ {now}) \cup (IF hit THEN Spenders(w, now) \ (done \cup {now}) ELSE {}),
                            done \cup {now})

\* AddToWallet: an entry that has the status already must have the block too.
AddToWallet(w, t, status, block) ==
    IF ~w.map[t].in
    THEN [w EXCEPT !.map[t] = [in |-> TRUE, status |-> status, block |-> block,
                               fInMempool |-> FALSE]]
    ELSE IF w.map[t].status # status
    THEN [w EXCEPT !.map[t].status = status, !.map[t].block = block]
    ELSE IF w.map[t].block # block THEN [w EXCEPT !.failed = "update"]
    ELSE w

\* AddToWalletIfInvolvingMe, with what a confirmed transaction does to others.
SyncTransaction(w, t, status, block) ==
    LET rivals == {u \in InWallet(w.map) : Conflict(t, u)}
        marked == IF block = NoBlock THEN w ELSE MarkConflicted(w, block, rivals, {})
    IN  IF w.failed # "none" THEN w
        ELSE IF ~w.map[t].in /\ t \notin Mine THEN marked
        ELSE AddToWallet(marked, t, status, block)

SetInMempool(w, t, flag) == IF w.map[t].in THEN [w EXCEPT !.map[t].fInMempool = flag] ELSE w

\* TransactionRemovedFromMempool.
LeavePool(w, t) == SetInMempool(w, t, FALSE)

\* BlockConnected.
ConnectedWallet(w, b, conflicts) ==
    FoldLeft(LAMBDA x, t : LeavePool(x, t),
             FoldLeft(LAMBDA x, t : LeavePool(SyncTransaction(x, t, "CONFIRMED", b), t),
                      [w EXCEPT !.height = Height(b)], Contents[b]),
             conflicts)

\* BlockDisconnected.
DisconnectedWallet(w, b) ==
    FoldLeft(LAMBDA x, t : SyncTransaction(x, t, "UNCONFIRMED", NoBlock),
             [w EXCEPT !.height = Height(b) - 1], Contents[b])

\* setAbandoned.
Abandoned(r) == [r EXCEPT !.status = "ABANDONED", !.block = NoBlock]

RECURSIVE AbandonAll(_, _, _)
AbandonAll(w, todo, done) ==
    LET now   == CHOOSE t \in todo : TRUE
        depth == GetDepthInMainChain(w, now)
        hit   == depth = 0 /\ w.map[now].status # "ABANDONED"
        next  == IF depth > 0 THEN [w EXCEPT !.failed = "depth"]
                 ELSE IF hit /\ w.map[now].fInMempool THEN [w EXCEPT !.failed = "mempool"]
                 ELSE IF hit THEN [w EXCEPT !.map[now] = Abandoned(@)]
                 ELSE w
    IN  IF todo = {} \/ w.failed # "none" THEN w
        ELSE AbandonAll(next,
                        (todo \ {now}) \cup (IF hit THEN Spenders(w, now) \ (done \cup {now}) ELSE {}),
                        done \cup {now})

\* AbandonTransaction refuses what is in the chain, conflicted or in the pool.
Abandon(w, t) ==
    IF GetDepthInMainChain(w, t) # 0 \/ w.map[t].fInMempool THEN w ELSE AbandonAll(w, {t}, {})

Wallet == [map |-> mapWallet, height |-> m_last_block_processed_height, failed |-> "none"]

\* The wallet after a function; the block it last processed is set apart.
Becomes(w) ==
    /\ mapWallet' = w.map
    /\ m_last_block_processed_height' = w.height
    /\ failed' = w.failed

-----------------------------------------------------------------------------
(* The chain and the pool, under cs_main.                                  *)

wallet == <<mapWallet, m_last_block_processed, m_last_block_processed_height, bestBlock,
            failed, rolledBack>>

Added(t) == [event |-> "added", tx |-> t]
Removed(t) == [event |-> "removed", tx |-> t]
InOrder(ts) == SelectSeq(TxOrder, LAMBDA t : t \in ts)
RemovedAll(ts) == [i \in 1..Cardinality(ts) |-> Removed(InOrder(ts)[i])]

Queue(events) ==
    /\ Len(queue) + Len(events) <= MaxQueue
    /\ queue' = queue \o events

\* What AcceptToMemoryPool takes, with pool on top of the chain of b.
Acceptable(t, pool, b) ==
    /\ t \notin pool \cup InChain(b)
    /\ InputTxs(t) \subseteq pool \cup InChain(b)
    /\ \A u \in pool \cup InChain(b) : ~Conflict(t, u)

\* A transaction from a peer or sendrawtransaction.
AcceptTx(t) ==
    /\ failed = "none" /\ Acceptable(t, mempool, tip)
    /\ mempool' = mempool \cup {t}
    /\ Queue(<<Added(t)>>)
    /\ UNCHANGED <<tip, diskTip, wallet>>

\* Expiry or the size limit takes t and what depends on it, a signal for each.
EvictTx(t) ==
    LET gone == WithDescendants({t}) \cap mempool
    IN  /\ failed = "none" /\ t \in mempool
        /\ mempool' = mempool \ gone
        /\ Queue(RemovedAll(gone))
        /\ UNCHANGED <<tip, diskTip, wallet>>

\* What removeForBlock takes out of the pool as conflicts.
Conflicted(b) ==
    LET rivals == {u \in Txs : \E t \in Range(Contents[b]) : Conflict(t, u)}
    IN  WithDescendants(rivals) \cap mempool

ConnectTip(b) ==
    /\ failed = "none" /\ b # Genesis /\ Prev[b] = tip
    /\ tip' = b
    /\ mempool' = mempool \ (Range(Contents[b]) \cup WithDescendants(
                      {u \in Txs : \E t \in Range(Contents[b]) : Conflict(t, u)}))
    /\ Queue(<<[event |-> "connected", block |-> b, conflicted |-> InOrder(Conflicted(b))]>>)
    /\ UNCHANGED <<diskTip, wallet>>

\* One transaction of a disconnected block: back into the pool, or out of it
\* with its descendants when it is not among those that pass.
Resurrect(p, t, pass) ==
    LET gone == WithDescendants({t}) \cap p.pool
    IN  IF t \in pass /\ Acceptable(t, p.pool, Prev[tip])
        THEN [pool |-> p.pool \cup {t}, events |-> Append(p.events, Added(t))]
        ELSE [pool |-> p.pool \ gone, events |-> p.events \o RemovedAll(gone)]

DisconnectTip ==
    /\ failed = "none" /\ tip # Genesis
    /\ \E pass \in SUBSET Range(Contents[tip]) :
           LET p == FoldLeft(LAMBDA x, t : Resurrect(x, t, pass),
                             [pool |-> mempool, events |-> << >>], Contents[tip])
           IN  /\ mempool' = p.pool
               /\ Queue(Append(p.events, [event |-> "disconnected", block |-> tip]))
    /\ tip' = Prev[tip]
    /\ UNCHANGED <<diskTip, wallet>>

\* FlushStateToDisk: the chain state, and the signal for the wallet's locator.
FlushStateToDisk ==
    /\ failed = "none" /\ diskTip # tip
    /\ diskTip' = tip
    /\ UNCHANGED <<tip, mempool, queue, wallet>>

SetBestChain ==
    /\ failed = "none"
    /\ Queue(<<[event |-> "best", block |-> tip]>>)
    /\ UNCHANGED <<tip, diskTip, mempool, wallet>>

-----------------------------------------------------------------------------
(* The wallet's side.                                                      *)

ProcessEvent ==
    LET e == Head(queue)
        w == Wallet
    IN  /\ failed = "none" /\ queue # << >>
        /\ queue' = Tail(queue)
        /\ \/ /\ e.event = "added"
              /\ Becomes(SetInMempool(SyncTransaction(w, e.tx, "UNCONFIRMED", NoBlock), e.tx, TRUE))
              /\ UNCHANGED <<m_last_block_processed, bestBlock>>
           \/ /\ e.event = "removed"
              /\ Becomes(LeavePool(w, e.tx))
              /\ UNCHANGED <<m_last_block_processed, bestBlock>>
           \/ /\ e.event = "connected"
              /\ Becomes(ConnectedWallet(w, e.block, e.conflicted))
              /\ m_last_block_processed' = e.block
              /\ UNCHANGED bestBlock
           \/ /\ e.event = "disconnected"
              /\ Becomes(DisconnectedWallet(w, e.block))
              /\ m_last_block_processed' = e.block
              /\ UNCHANGED bestBlock
           \/ /\ e.event = "best"
              /\ bestBlock' = e.block
              /\ UNCHANGED <<mapWallet, m_last_block_processed, m_last_block_processed_height, failed>>
        /\ UNCHANGED <<tip, diskTip, mempool, rolledBack>>

\* AvailableCoins offers t's inputs: from entries in the chain or the pool, and
\* not spent by another entry.
Available(t) ==
    /\ \A p \in InputTxs(t) :
           /\ mapWallet[p].in
           /\ \/ GetDepthInMainChain(Wallet, p) >= 1
              \/ GetDepthInMainChain(Wallet, p) = 0 /\ mapWallet[p].fInMempool
    /\ ~\E u \in InWallet(mapWallet) :
           /\ Conflict(t, u)
           /\ GetDepthInMainChain(Wallet, u) >= 0 /\ mapWallet[u].status # "ABANDONED"

\* sendtoaddress up to CommitTransaction, which the pool may refuse.
CommitTransaction(t) ==
    /\ failed = "none" /\ t \in Mine /\ ~mapWallet[t].in
    /\ Available(t)
    /\ LET w == AddToWallet(Wallet, t, "UNCONFIRMED", NoBlock)
       IN  \/ /\ Acceptable(t, mempool, tip)
              /\ mempool' = mempool \cup {t}
              /\ Queue(<<Added(t)>>)
              /\ Becomes(SetInMempool(w, t, TRUE))
           \/ /\ Becomes(Abandon(w, t))
              /\ UNCHANGED <<mempool, queue>>
    /\ UNCHANGED <<tip, diskTip, m_last_block_processed, bestBlock, rolledBack>>

AbandonTransaction(t) ==
    /\ failed = "none" /\ mapWallet[t].in
    /\ Becomes(Abandon(Wallet, t))
    /\ UNCHANGED <<tip, diskTip, mempool, queue, m_last_block_processed, bestBlock, rolledBack>>

\* ScanForWalletTransactions over the blocks of a stretch of the active chain.
Scan(w, blocks) ==
    FoldLeft(LAMBDA x, b : FoldLeft(LAMBDA y, t : SyncTransaction(y, t, "CONFIRMED", b),
                                    x, Contents[b]),
             w, blocks)

\* importprivkey: a scan of the whole chain, whatever notifications wait.
Rescan ==
    /\ failed = "none"
    /\ Becomes(Scan(Wallet, Chain(tip)))
    /\ UNCHANGED <<tip, diskTip, mempool, queue, m_last_block_processed, bestBlock, rolledBack>>

\* mutant: an entry whose block has left the chain keeps its state
LoadKeeping(r, b) == [r EXCEPT !.fInMempool = FALSE]

\* LoadToWallet with the chain of b: the file keeps no height and no flag.
Load(r, b) ==
    IF r.block \in Range(Chain(b)) \cup {NoBlock} THEN [r EXCEPT !.fInMempool = FALSE]
    ELSE [r EXCEPT !.status = "UNCONFIRMED", !.block = NoBlock, !.fInMempool = FALSE]

\* The active chain from its fork with the locator's block.
Since(b, best) ==
    LET common == {c \in Range(Chain(b)) : c \in Range(Chain(best))}
    IN  SelectSeq(Chain(b), LAMBDA c : c \notin common \/ \A d \in common : Height(d) <= Height(c))

\* ReacceptWalletTransactions of one entry: into the pool, or abandoned if old.
Reaccept(s, t, old) ==
    IF Acceptable(t, s.pool, diskTip)
    THEN [s EXCEPT !.w = SetInMempool(s.w, t, TRUE), !.pool = @ \cup {t},
                   !.events = Append(@, Added(t))]
    ELSE IF t \in old THEN [s EXCEPT !.w = Abandon(s.w, t)] ELSE s

\* The tip of the chain as the wallet has followed it.
Processed ==
    IF Height(m_last_block_processed) = m_last_block_processed_height THEN m_last_block_processed
    ELSE Prev[m_last_block_processed]

\* The blocks it has connected and is not about to disconnect.
Followed ==
    Range(Chain(Processed))
        \ {b \in Blocks : \E i \in 1..Len(queue) :
               queue[i].event = "disconnected" /\ queue[i].block \in Range(Chain(b))}

\* The process ends and starts again on the flushed chain: CreateWalletFromFile
\* and postInitProcess, before the pool's own file is read.
Restart ==
    LET loaded  == [map |-> [t \in Txs |-> Load(mapWallet[t], diskTip)],
                    height |-> Height(diskTip), failed |-> "none"]
        scanned == IF Since(diskTip, bestBlock) = <<diskTip>> THEN loaded
                   ELSE Scan(loaded, Since(diskTip, bestBlock))
        pending == {t \in InWallet(scanned.map) : scanned.map[t].status = "UNCONFIRMED"}
    IN  /\ \E order \in SetToSeqs(pending), old \in SUBSET pending :
               LET s == FoldLeft(LAMBDA x, t : Reaccept(x, t, old),
                                 [w |-> scanned, pool |-> {}, events |-> << >>], order)
               IN  Becomes(s.w) /\ mempool' = s.pool /\ queue' = s.events
        /\ tip' = diskTip /\ m_last_block_processed' = diskTip
        /\ bestBlock' = IF Since(diskTip, bestBlock) = <<diskTip>> THEN bestBlock ELSE diskTip
        /\ rolledBack' = (rolledBack \/ Head(Since(diskTip, bestBlock)) \notin Followed)
        /\ UNCHANGED diskTip

Next ==
    \/ \E t \in Txs : AcceptTx(t) \/ EvictTx(t) \/ CommitTransaction(t) \/ AbandonTransaction(t)
    \/ \E b \in Blocks : ConnectTip(b)
    \/ DisconnectTip \/ FlushStateToDisk \/ SetBestChain
    \/ ProcessEvent \/ Rescan \/ Restart

Spec == Init /\ [][Next]_vars

-----------------------------------------------------------------------------
(* Properties.                                                             *)

\* The wallet's variables keep their types, and an entry names a block exactly
\* when it is confirmed or conflicted (wallet.h:369-373).
TypeOK ==
    /\ tip \in Blocks /\ diskTip \in Blocks /\ bestBlock \in Blocks
    /\ mempool \subseteq Txs
    /\ m_last_block_processed \in Blocks
    /\ \A t \in Txs :
           /\ mapWallet[t].status \in {"UNCONFIRMED", "CONFIRMED", "CONFLICTED", "ABANDONED"}
           /\ mapWallet[t].block \in Blocks <=> mapWallet[t].status \in {"CONFIRMED", "CONFLICTED"}

CaughtUp == queue = << >> /\ failed = "none"

\* The wallet holds what the node holds: it knows each of its transactions in
\* the chain or the pool, an entry is confirmed in a block exactly when that
\* block is in the chain, and the in-pool flag is exact.
Agrees ==
    /\ m_last_block_processed_height = Height(tip)
    /\ \A t \in Mine : t \in InChain(tip) \cup mempool => mapWallet[t].in
    /\ \A t \in InWallet(mapWallet) :
           LET r == mapWallet[t]
           IN  /\ r.status = "CONFIRMED" <=> t \in InChain(tip)
               /\ r.status = "CONFIRMED" =>
                      r.block \in Range(Chain(tip)) /\ t \in Range(Contents[r.block])
               /\ r.fInMempool <=> t \in mempool
               /\ t \in mempool => r.status = "UNCONFIRMED"

\* When every notification has been taken the wallet agrees with the node,
\* whatever was committed, abandoned, scanned or restarted on the way, unless
\* a crash has undone a reorganisation the wallet had processed
\* (BlockConnected, BlockDisconnected, LoadToWallet).
CaughtUpAgrees == CaughtUp /\ ~rolledBack => Agrees

\* When every notification has been taken, an entry that the chain rules out,
\* itself or through a wallet ancestor, counts neither as pending nor as
\* confirmed: its inputs are free again (MarkConflicted, IsSpent).
RuledOutSeen ==
    CaughtUp /\ ~rolledBack =>
        \A t \in InWallet(mapWallet) :
            (\E u \in InChain(tip) : Conflict(t, u)) =>
                \A d \in WithDescendants({t}) \cap InWallet(mapWallet) :
                    mapWallet[d].status \in {"CONFLICTED", "ABANDONED"}
=============================================================================
