------------------------------- MODULE Sporks -------------------------------
(***************************************************************************)
(* One spork, signed by one node and passed on by all: the RPC thread of   *)
(* the signer makes new ones, each node's message thread takes those of    *)
(* its peers, and the lock cs is free between the check of a message, its  *)
(* store and its write to the database.  A node may stop at any time and   *)
(* comes back with its database, asking its peers for their sporks.        *)
(***************************************************************************)
EXTENDS Integers, FiniteSets

CONSTANTS
    Nodes, Signer,
    NoSpork,
    MaxTime,      \* bound: seconds
    MaxUpdates,   \* bound: sporks signed
    MaxRestarts   \* bound: restarts

Sporks == [nTimeSigned : 1..MaxTime, nValue : 1..MaxUpdates]

VARIABLES
    now, updates, restarts,
    lastSigned,                   \* the second of the signer's last spork
    mapSporks, mapSporksActive,   \* of each node: all it has stored, the one in force
    db,                           \* of each node: what a restart finds
    handling,                     \* of each node: [stage, spork, over] of its message thread
    signing,                      \* relayed by the signer and not yet stored, or NoSpork
    network,                      \* messages on their way
    raced                         \* two in a second, a newer one overwritten or not served

vars == <<now, updates, restarts, lastSigned, mapSporks, mapSporksActive, db, handling, signing,
          network, raced>>

Time(s) == IF s = NoSpork THEN 0 ELSE s.nTimeSigned
Idle == [stage |-> "idle", spork |-> NoSpork, over |-> NoSpork]
Message(type, from, to, s) == [type |-> type, from |-> from, to |-> to, spork |-> s]

Init ==
    /\ now = 1 /\ updates = 0 /\ restarts = 0 /\ lastSigned = 0
    /\ mapSporks = [n \in Nodes |-> {}]
    /\ mapSporksActive = [n \in Nodes |-> NoSpork]
    /\ db = [n \in Nodes |-> NoSpork]
    /\ handling = [n \in Nodes |-> Idle]
    /\ signing = NoSpork
    /\ network = {}
    /\ raced = FALSE

Tick ==
    /\ now < MaxTime
    /\ now' = now + 1
    /\ UNCHANGED <<updates, restarts, lastSigned, mapSporks, mapSporksActive, db, handling, signing, network, raced>>

Relay(n, s) == {Message("inv", n, m, s) : m \in Nodes \ {n}}

\* UpdateSpork relays the spork first and then takes cs to store it; it neither
\* compares times nor writes the database.
UpdateSpork ==
    /\ signing = NoSpork /\ updates < MaxUpdates
    /\ updates' = updates + 1
    /\ signing' = [nTimeSigned |-> now, nValue |-> updates + 1]
    /\ lastSigned' = now
    /\ raced' = (raced \/ lastSigned = now)
    /\ network' = network \cup Relay(Signer, signing')
    /\ UNCHANGED <<now, restarts, mapSporks, mapSporksActive, db, handling>>

Keep(n, s) == mapSporks[n] \cup {s}

Store(n, s) ==
    /\ mapSporks' = [mapSporks EXCEPT ![n] = Keep(n, s)]
    /\ mapSporksActive' = [mapSporksActive EXCEPT ![n] = s]

StoreUpdate ==
    /\ signing # NoSpork
    /\ Store(Signer, signing)
    /\ raced' = (raced \/ Time(mapSporksActive[Signer]) >= signing.nTimeSigned)
    /\ signing' = NoSpork
    /\ UNCHANGED <<now, updates, restarts, lastSigned, db, handling, network>>

\* The inv handler asks for what is not in mapSporks.
ReceiveInv(msg) ==
    /\ msg.type = "inv"
    /\ network' = (network \ {msg}) \cup
           (IF msg.spork \in mapSporks[msg.to] THEN {}
            ELSE {Message("getdata", msg.to, msg.from, msg.spork)})
    /\ UNCHANGED <<now, updates, restarts, lastSigned, mapSporks, mapSporksActive, db, handling, signing, raced>>

\* ProcessGetData serves what is in mapSporks.
ReceiveGetData(msg) ==
    /\ msg.type = "getdata"
    /\ network' = (network \ {msg}) \cup
           (IF msg.spork \in mapSporks[msg.to]
            THEN {Message("spork", msg.to, msg.from, msg.spork)} ELSE {})
    /\ raced' = (raced \/ msg.spork \notin mapSporks[msg.to])
    /\ UNCHANGED <<now, updates, restarts, lastSigned, mapSporks, mapSporksActive, db, handling, signing>>

\* ProcessGetSporks sends the sporks in force.
ReceiveGetSporks(msg) ==
    /\ msg.type = "getsporks"
    /\ network' = (network \ {msg}) \cup
           {Message("spork", msg.to, msg.from, s) : s \in {mapSporksActive[msg.to]} \ {NoSpork}}
    /\ UNCHANGED <<now, updates, restarts, lastSigned, mapSporks, mapSporksActive, db, handling, signing, raced>>

Newer(n, s) == s.nTimeSigned > Time(mapSporksActive[n])

\* ProcessSporkMsg up to the release of cs: an older spork is dropped.
ReceiveSpork(msg) ==
    /\ msg.type = "spork"
    /\ network' = network \ {msg}
    /\ handling' = [handling EXCEPT ![msg.to] =
           IF Newer(msg.to, msg.spork)
           THEN [stage |-> "checked", spork |-> msg.spork, over |-> mapSporksActive[msg.to]]
           ELSE Idle]
    /\ UNCHANGED <<now, updates, restarts, lastSigned, mapSporks, mapSporksActive, db, signing, raced>>

\* ... cs is taken again, after the signature check, and the spork relayed.
StoreSpork(n) ==
    /\ handling[n].stage = "checked"
    /\ Store(n, handling[n].spork)
    /\ raced' = (raced \/ mapSporksActive[n] # handling[n].over)
    /\ network' = network \cup Relay(n, handling[n].spork)
    /\ handling' = [handling EXCEPT ![n].stage = "stored"]
    /\ UNCHANGED <<now, updates, restarts, lastSigned, db, signing>>

WriteSpork(n) ==
    /\ handling[n].stage = "stored"
    /\ db' = [db EXCEPT ![n] = handling[n].spork]
    /\ handling' = [handling EXCEPT ![n] = Idle]
    /\ UNCHANGED <<now, updates, restarts, lastSigned, mapSporks, mapSporksActive, signing, network, raced>>

\* mutant: a restarted node waits for announcements
AskNone(n) == {}

\* The handshake and CMasternodeSync of a node that has just started.
AskSporks(n) == {Message("getsporks", n, m, NoSpork) : m \in Nodes \ {n}}

\* A node stops, its connections with it, and starts with LoadSporksFromDB.
Restart(n) ==
    /\ restarts < MaxRestarts
    /\ restarts' = restarts + 1
    /\ mapSporks' = [mapSporks EXCEPT ![n] = {db[n]} \ {NoSpork}]
    /\ mapSporksActive' = [mapSporksActive EXCEPT ![n] = db[n]]
    /\ handling' = [handling EXCEPT ![n] = Idle]
    /\ signing' = IF n = Signer THEN NoSpork ELSE signing
    /\ network' = {msg \in network : n \notin {msg.from, msg.to}} \cup AskSporks(n)
    /\ UNCHANGED <<now, updates, lastSigned, db, raced>>

\* One message at a time for each node's message thread.
Receive(msg) ==
    /\ handling[msg.to] = Idle
    /\ ReceiveInv(msg) \/ ReceiveGetData(msg) \/ ReceiveGetSporks(msg) \/ ReceiveSpork(msg)

Next ==
    \/ Tick \/ UpdateSpork \/ StoreUpdate
    \/ \E msg \in network : Receive(msg)
    \/ \E n \in Nodes : StoreSpork(n) \/ WriteSpork(n) \/ Restart(n)

Spec == Init /\ [][Next]_vars

-----------------------------------------------------------------------------
(* Properties.                                                             *)

\* What a node has stored, has in force and has on disk are sporks it was
\* sent, and the one in force is always one it can serve.
TypeOK ==
    \A n \in Nodes :
        /\ mapSporks[n] \subseteq Sporks
        /\ mapSporksActive[n] \in mapSporks[n] \cup {NoSpork}
        /\ db[n] \in mapSporks[n] \cup {NoSpork}

\* When nothing is on its way, all nodes have the same spork in force, in
\* whatever order the messages came and whichever node restarted.  (With two
\* restarts a spork can be lost on its way to a node that does not ask again.)
Settled ==
    network = {} /\ signing = NoSpork /\ (\A n \in Nodes : handling[n] = Idle) /\ ~raced =>
        \A n, m \in Nodes : mapSporksActive[n] = mapSporksActive[m]
=============================================================================
