--------------------------- MODULE MasternodeSync ---------------------------
(***************************************************************************)
(* CMasternodeSync on the main network: the masternode thread asks one     *)
(* peer at a time for sporks, the masternode list, the winners and the     *)
(* budget, and goes on when items have stopped coming or none came.  A     *)
(* step of Process is one round in MASTERNODE_SYNC_TIMEOUT seconds; times  *)
(* are counted in rounds.                                                  *)
(***************************************************************************)
EXTENDS Integers, FiniteSets, Sequences, SequencesExt

CONSTANTS
    Peers,        \* the connections, in the order of vNodes
    Known,        \* the assets of which the network has items
    Enforced,     \* spork 8 is active
    MaxItems,     \* bound: new items of an asset in one synchronisation
    MaxEvents     \* bound: replaced peers, losses of all masternodes, sleeps

Threshold == 2    \* MASTERNODE_SYNC_THRESHOLD
Assets == {"LIST", "MNW", "BUDGET"}
Never == -1
Quiet == 3        \* rounds after which an item is older than two timeouts
Patience == 6     \* rounds after which an asset has taken more than five
RetryAfter == 12  \* rounds before a failed synchronisation starts again

VARIABLES
    RequestedMasternodeAssets, RequestedMasternodeAttempt,
    started,            \* rounds since nAssetSyncStarted
    last,               \* rounds since the last item of each asset, or Never
    items,              \* items counted of each asset since the last Reset
    fulfilled,          \* the requests each connection has had
    lastFailure,        \* rounds since
    fBlockchainSynced,
    asleep,             \* lastProcess is more than an hour ago
    enabled,            \* mnodeman has enabled masternodes
    events

sync == <<RequestedMasternodeAssets, RequestedMasternodeAttempt, started, last, items, fulfilled,
          lastFailure, fBlockchainSynced, asleep>>
vars == <<sync, enabled, events>>

\* The values the synchronisation works on in one step.
State ==
    [asset |-> RequestedMasternodeAssets, attempt |-> RequestedMasternodeAttempt,
     started |-> started, last |-> last, items |-> items, fulfilled |-> fulfilled,
     failure |-> lastFailure, synced |-> fBlockchainSynced, asleep |-> asleep]

Becomes(s) ==
    /\ RequestedMasternodeAssets' = s.asset /\ RequestedMasternodeAttempt' = s.attempt
    /\ started' = s.started /\ last' = s.last /\ items' = s.items /\ fulfilled' = s.fulfilled
    /\ lastFailure' = s.failure /\ fBlockchainSynced' = s.synced /\ asleep' = s.asleep

\* Reset, which sets lastProcess to 0.
Reset(s) ==
    [s EXCEPT !.asset = "INITIAL", !.attempt = 0, !.started = 0,
              !.last = [a \in Assets |-> Never], !.items = [a \in Assets |-> 0],
              !.failure = 0, !.synced = FALSE, !.asleep = TRUE]

Init ==
    /\ RequestedMasternodeAssets = "INITIAL" /\ RequestedMasternodeAttempt = 0 /\ started = 0
    /\ last = [a \in Assets |-> Never] /\ items = [a \in Assets |-> 0]
    /\ fulfilled = [p \in Range(Peers) |-> {}]
    /\ lastFailure = 0 /\ fBlockchainSynced = FALSE /\ asleep = TRUE
    /\ enabled = FALSE /\ events = 0

\* mutant: peers that were asked in an earlier synchronisation are not asked again
ForgetNothing(s) == s.fulfilled

\* ClearFulfilledRequest.
ClearFulfilledRequest(s) == [p \in DOMAIN s.fulfilled |-> {}]

NextOf(asset) ==
    CASE asset \in {"INITIAL", "FAILED"} -> "SPORKS"
      [] asset = "SPORKS" -> "LIST"
      [] asset = "LIST" -> "MNW"
      [] asset = "MNW" -> "BUDGET"
      [] OTHER -> "FINISHED"

GetNextAsset(s) ==
    [s EXCEPT !.asset = NextOf(s.asset), !.attempt = 0, !.started = 0,
              !.fulfilled = IF s.asset \in {"INITIAL", "FAILED"} THEN ClearFulfilledRequest(s) ELSE @]

\* IsBlockchainSynced, with a recent tip or not: a long pause starts all over.
IsBlockchainSynced(s, recent) ==
    LET t == IF s.asleep THEN [Reset(s) EXCEPT !.asleep = FALSE] ELSE s
    IN  [t EXCEPT !.synced = @ \/ recent]

Failed(s) == [s EXCEPT !.asset = "FAILED", !.attempt = 0, !.failure = 0]

\* Items came, have stopped coming, and enough peers were asked.
Done(s) == s.last[s.asset] >= Quiet /\ s.attempt >= Threshold

\* No item came, and the peers or the time are used up.
TimedOut(s) == s.last[s.asset] = Never /\ (s.attempt >= 3 * Threshold \/ s.started >= Patience)

Ask(s, p) == [s EXCEPT !.fulfilled[p] = @ \cup {s.asset}]
Request(s) == IF s.attempt >= 3 * Threshold THEN s ELSE [s EXCEPT !.attempt = @ + 1]

\* SyncWithNode: [s, more], more when the next peer is to be tried.
SyncWithNode(s, p) ==
    LET asked == s.asset \in s.fulfilled[p]
        stop(t) == [s |-> t, more |-> FALSE]
    IN  CASE s.asset = "SPORKS" /\ asked -> [s |-> s, more |-> TRUE]
          [] s.asset = "SPORKS" /\ ~asked ->
                 LET t == IF s.attempt >= 2 THEN GetNextAsset(Ask(s, p)) ELSE Ask(s, p)
                 IN  stop([t EXCEPT !.attempt = @ + 1])
          [] s.asset \in {"LIST", "MNW"} ->
                 IF Done(s) THEN stop(GetNextAsset(s))
                 ELSE IF asked THEN [s |-> s, more |-> TRUE]
                 ELSE IF TimedOut(s)
                 THEN stop(IF Enforced THEN Failed(Ask(s, p)) ELSE GetNextAsset(Ask(s, p)))
                 ELSE stop(Request(Ask(s, p)))
          [] s.asset = "BUDGET" ->
                 IF Done(s) \/ TimedOut(s) THEN stop(GetNextAsset(s))
                 ELSE IF asked THEN [s |-> s, more |-> TRUE]
                 ELSE stop(Request(Ask(s, p)))
          [] OTHER -> [s |-> s, more |-> TRUE]

RECURSIVE ForEachNodeContinueIf(_, _)
ForEachNodeContinueIf(s, peers) ==
    IF peers = << >> THEN s
    ELSE LET r == SyncWithNode(s, Head(peers))
         IN  IF r.more THEN ForEachNodeContinueIf(r.s, Tail(peers)) ELSE r.s

CappedAdd(n, cap) == IF n < cap THEN n + 1 ELSE cap

\* A round passes; a time that nothing will read stays 0.
Aged(s) ==
    [s EXCEPT !.started = IF s.asset \in Assets THEN CappedAdd(@, Patience) ELSE 0,
              !.failure = IF s.asset = "FAILED" THEN CappedAdd(@, RetryAfter) ELSE 0,
              !.last = [a \in Assets |-> IF @[a] = Never THEN Never ELSE CappedAdd(@[a], Quiet)]]

Restarted(s) ==
    IF (s.asset = "FINISHED" /\ ~enabled) \/ (s.asset = "FAILED" /\ s.failure >= RetryAfter)
    THEN Reset(s) ELSE s

Process(recent) ==
    /\ \E s \in {Restarted(Aged(State))} :
           \/ /\ s.asset \in {"FINISHED", "FAILED"}
              /\ Becomes(s)
           \/ /\ s.asset \notin {"FINISHED", "FAILED"}
              /\ \E t \in {IsBlockchainSynced(IF s.asset = "INITIAL" THEN GetNextAsset(s) ELSE s,
                                              recent)} :
                     \/ ~t.synced /\ t.asset \in Assets /\ Becomes(t)
                     \/ /\ t.synced \/ t.asset \notin Assets
                        /\ \E u \in {ForEachNodeContinueIf(t, Peers)} : Becomes(u)
    /\ UNCHANGED <<enabled, events>>

\* AddedMasternodeList and its kin: a new item, or one not yet seen too often.
Added(asset) ==
    /\ asset \in Known /\ items[asset] < MaxItems
    /\ items' = [items EXCEPT ![asset] = @ + 1]
    /\ last' = [last EXCEPT ![asset] = 0]
    /\ enabled' = (enabled \/ asset = "LIST")
    /\ UNCHANGED <<RequestedMasternodeAssets, RequestedMasternodeAttempt, started, fulfilled,
                   lastFailure, fBlockchainSynced, asleep, events>>

Event == events < MaxEvents /\ events' = events + 1

\* A connection ends and another takes its place.
ReplacePeer(p) ==
    /\ Event
    /\ fulfilled' = [fulfilled EXCEPT ![p] = {}]
    /\ UNCHANGED <<RequestedMasternodeAssets, RequestedMasternodeAttempt, started, last, items,
                   lastFailure, fBlockchainSynced, asleep, enabled>>

\* Every masternode expires.
LoseMasternodes ==
    /\ Event
    /\ enabled' = FALSE
    /\ UNCHANGED sync

\* The machine sleeps for more than an hour.
Sleep ==
    /\ Event
    /\ asleep' = TRUE
    /\ UNCHANGED <<RequestedMasternodeAssets, RequestedMasternodeAttempt, started, last, items,
                   fulfilled, lastFailure, fBlockchainSynced, enabled>>

Next ==
    \/ \E recent \in BOOLEAN : Process(recent)
    \/ \E a \in Assets : Added(a)
    \/ \E p \in Range(Peers) : ReplacePeer(p)
    \/ LoseMasternodes \/ Sleep

\* The masternode thread runs on, the tip becomes recent, and an asset that is
\* asked for again and again is answered some time.
Fairness ==
    /\ WF_vars(Process(TRUE))
    /\ \A a \in Known : SF_vars(RequestedMasternodeAssets = a /\ Added(a))

Spec == Init /\ [][Next]_vars /\ Fairness

-----------------------------------------------------------------------------
(* Properties.                                                             *)

\* The synchronisation ends, again and again, with peers replaced, masternodes
\* lost and the machine asleep in between (Process).
Finishes == []<>(RequestedMasternodeAssets = "FINISHED")
=============================================================================
