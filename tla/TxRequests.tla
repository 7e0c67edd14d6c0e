----------------------------- MODULE TxRequests -----------------------------
(***************************************************************************)
(* Asking peers for announced transactions: CNode::AskFor with the global  *)
(* limitedmap mapAlreadyAskedFor and each peer's mapAskFor, the getdata    *)
(* part of SendMessages, and the arrival of the transaction.               *)
(* Times are relative to now and count units of the loop of the message    *)
(* handler, which sends whatever is due before time goes on.               *)
(***************************************************************************)
EXTENDS Integers, FiniteSets

CONSTANTS
    Peers, Honest,       \* the honest ones answer a getdata
    Txs,
    Retry,               \* the two minutes between requests
    MaxAsked,            \* size of mapAlreadyAskedFor, MAX_INV_SZ
    MaxAskFor,           \* MAPASKFOR_MAX_SZ
    MaxInv               \* bound: announcements of a transaction by a peer

VARIABLES
    mapAlreadyAskedFor,  \* set of [tx, time]
    mapAskFor,           \* for each peer a set of [tx, time]
    requested,           \* <<peer, tx>>: getdata sent and not answered
    have,                \* transactions received, AlreadyHave
    announced,           \* how often each peer has announced each transaction
    connected,
    since,               \* history: time since the last request of each, at most Retry
    forgotten            \* history: dropped from mapAlreadyAskedFor for its limit

vars == <<mapAlreadyAskedFor, mapAskFor, requested, have, announced, connected, since, forgotten>>

\* The map has room for what AskFor inserts besides what it drops.
ConstantsOK == Retry \in Nat /\ MaxAsked \in Nat /\ MaxAsked >= 2 /\ MaxInv \in Nat

Larger(a, b) == IF a > b THEN a ELSE b

Init ==
    /\ mapAlreadyAskedFor = {}
    /\ mapAskFor = [p \in Peers |-> {}]
    /\ requested = {} /\ have = {}
    /\ announced = [p \in Peers |-> [t \in Txs |-> 0]]
    /\ connected = Peers
    /\ since = [t \in Txs |-> Retry]
    /\ forgotten = {}

-----------------------------------------------------------------------------
(* limitedmap *)

\* The entries insert may drop: one of the lowest value, other than the new one,
\* as soon as the map has its maximal size.
Victims(map, x) ==
    IF Cardinality(map) + 1 = MaxAsked
    THEN {e \in map : \A f \in map : e.time <= f.time}
    ELSE {}

\* limitedmap::insert of a new key.
Insert(x) ==
    \E gone \in IF Victims(mapAlreadyAskedFor, x) = {} THEN {{}}
                ELSE {{e} : e \in Victims(mapAlreadyAskedFor, x)} :
        /\ mapAlreadyAskedFor' = (mapAlreadyAskedFor \ gone) \cup {x}
        /\ forgotten' = forgotten \cup {e.tx : e \in gone}

\* limitedmap::update of a key that is there.
Update(x) ==
    /\ mapAlreadyAskedFor' = {e \in mapAlreadyAskedFor : e.tx # x.tx} \cup {x}
    /\ UNCHANGED forgotten

-----------------------------------------------------------------------------
\* mutant: every retry is counted from now
RequestTimeNow(t) == 0

\* When AskFor lets t be requested next: now, or two minutes after the last
\* time given out.
RequestTime(t) ==
    LET before == {e \in mapAlreadyAskedFor : e.tx = t}
    IN  IF before = {} THEN 0
        ELSE Larger((CHOOSE e \in before : TRUE).time + Retry, 0)

\* The INV handler: AskFor what is not there yet.
AskFor(p, t) ==
    /\ p \in connected
    /\ announced[p][t] < MaxInv
    /\ announced' = [announced EXCEPT ![p][t] = @ + 1]
    /\ \/ /\ t \in have \/ Cardinality(mapAskFor[p]) > MaxAskFor
          /\ UNCHANGED <<mapAlreadyAskedFor, mapAskFor, forgotten>>
       \/ /\ t \notin have
          /\ Cardinality(mapAskFor[p]) <= MaxAskFor
          /\ LET x == [tx |-> t, time |-> RequestTime(t)]
             IN  /\ IF \E e \in mapAlreadyAskedFor : e.tx = t THEN Update(x) ELSE Insert(x)
                 /\ mapAskFor' = [mapAskFor EXCEPT ![p] = @ \cup {x}]
    /\ UNCHANGED <<requested, have, connected, since>>

Due(p) == {e \in mapAskFor[p] : e.time <= 0}

\* mutant: what another peer was asked for is dropped
SentFirst(p) ==
    {e \in Due(p) : e.tx \notin have /\ ~\E r \in requested : r[2] = e.tx}

\* The due entries SendMessages puts into getdata.
Sent(p) == {e \in Due(p) : e.tx \notin have}

\* SendMessages, "Message: getdata (non-blocks)".
SendMessages(p) ==
    /\ p \in connected
    /\ Due(p) # {}
    /\ requested' = requested \cup {<<p, e.tx>> : e \in Sent(p)}
    /\ since' = [t \in Txs |-> IF \E e \in Sent(p) : e.tx = t THEN 0 ELSE since[t]]
    /\ mapAskFor' = [mapAskFor EXCEPT ![p] = @ \ Due(p)]
    /\ UNCHANGED <<mapAlreadyAskedFor, have, announced, connected, forgotten>>

\* The TX handler, for a transaction that is accepted or kept in any way.
ReceiveTx(p, t) ==
    /\ <<p, t>> \in requested
    /\ requested' = requested \ {<<p, t>>}
    /\ mapAlreadyAskedFor' = {e \in mapAlreadyAskedFor : e.tx # t}
    /\ have' = have \cup {t}
    /\ UNCHANGED <<mapAskFor, announced, connected, since, forgotten>>

\* A connection ends, with what was asked of the peer.
Disconnect(p) ==
    /\ p \in connected
    /\ connected' = connected \ {p}
    /\ mapAskFor' = [mapAskFor EXCEPT ![p] = {}]
    /\ requested' = {r \in requested : r[1] # p}
    /\ UNCHANGED <<mapAlreadyAskedFor, have, announced, since, forgotten>>

\* Time goes on when nothing is due.  A time in mapAlreadyAskedFor older than
\* Retry is as good as any older one.
Tick ==
    /\ \A p \in connected : Due(p) = {}
    /\ mapAskFor' = [p \in Peers |-> {[e EXCEPT !.time = @ - 1] : e \in mapAskFor[p]}]
    /\ mapAlreadyAskedFor' =
           {[e EXCEPT !.time = Larger(@ - 1, -Retry)] : e \in mapAlreadyAskedFor}
    /\ since' = [t \in Txs |-> IF since[t] < Retry THEN since[t] + 1 ELSE Retry]
    /\ UNCHANGED <<requested, have, announced, connected, forgotten>>

Next ==
    \/ \E p \in Peers :
           \/ \E t \in Txs : AskFor(p, t) \/ ReceiveTx(p, t)
           \/ SendMessages(p)
           \/ Disconnect(p)
    \/ Tick

\* The message handler visits every peer, time goes on, honest peers answer.
Fairness ==
    /\ WF_vars(Tick)
    /\ \A p \in Peers : WF_vars(SendMessages(p))
    /\ \A p \in Honest, t \in Txs : WF_vars(ReceiveTx(p, t))

Spec == Init /\ [][Next]_vars /\ Fairness

-----------------------------------------------------------------------------
(* Properties *)

\* The variables have their types, mapAlreadyAskedFor has one entry for a
\* transaction and, because insert makes room as soon as the size is reached
\* (limitedmap.h:46), always fewer entries than its maximum.
TypeOK ==
    /\ \A e \in mapAlreadyAskedFor : e.tx \in Txs /\ e.time \in Int
    /\ \A e, f \in mapAlreadyAskedFor : e.tx = f.tx => e = f
    /\ Cardinality(mapAlreadyAskedFor) < MaxAsked
    /\ \A p \in Peers : \A e \in mapAskFor[p] : e.tx \in Txs /\ e.time \in Nat
    /\ requested \subseteq connected \X Txs
    /\ have \subseteq Txs /\ forgotten \subseteq Txs /\ connected \subseteq Peers
    /\ announced \in [Peers -> [Txs -> 0..MaxInv]]
    /\ since \in [Txs -> 0..Retry]

\* "Each retry is 2 minutes after the last": whichever peers announce a
\* transaction and in whatever order, it is not requested again within two
\* minutes of the last request, unless mapAlreadyAskedFor had to forget it.
RequestsSpaced ==
    \A t \in Txs \ forgotten :
        (\E p \in Peers : <<p, t>> \in requested' \ requested) => since[t] = Retry

\* A transaction that an honest peer was put down for arrives, as long as the
\* peer stays, even if other peers announced it first and never answer.
Arrives ==
    \A p \in Honest, t \in Txs :
        (\E e \in mapAskFor[p] : e.tx = t) ~> (t \in have \/ p \notin connected)

=============================================================================
