-------------------------- MODULE ConnectionLifecycle --------------------------
(***************************************************************************)
(* From the listener to the world (crates/chunkedge_network/src/connect.rs,*)
(* lib.rs, legacy_ping.rs).                                                *)
(*                                                                         *)
(* The accept loop takes a permit of connection_sema, accepts a connection *)
(* and spawns a task for its handshake under a timeout.  A login takes a   *)
(* place in player_count, makes a client of the connection and sends it    *)
(* over a bounded channel to the game thread, which spawns it.  Whoever    *)
(* drops the login or the client runs the cleanup that gives the place     *)
(* back.                                                                   *)
(*                                                                         *)
(* What a peer sends is the next packet the handshake wants, another one,  *)
(* the end of the stream or nothing; packets have no other content.        *)
(***************************************************************************)
EXTENDS Integers, Sequences, FiniteSets, SequencesExt

CONSTANTS
    Connections,     \* can be made again when nothing is left of them
    MaxConnections,  \* the permits of connection_sema
    MaxPlayers,      \* max_players
    ChannelSize      \* the capacity of the channel of new clients, 64

ASSUME ConnectionsAssumption == IsFiniteSet(Connections)
ASSUME SizesAssumption ==
    MaxConnections \in Nat /\ MaxPlayers \in Nat /\ ChannelSize \in Nat \ {0}

VARIABLES
    backlog,      \* connections the listener has not handed out
    acceptor,     \* what the accept loop awaits: a permit or a connection
    permits,      \* connection_sema
    task,         \* the await at which the task of a connection is
    cleanups,     \* the connections whose CleanupOnDrop has not run
    playerCount,  \* player_count
    newClients,   \* the channel of new clients
    taking,       \* how often the loop of spawn_new_clients has yet to run
    playing       \* the clients in the world

acceptVars == <<backlog, acceptor, permits>>
gameVars == <<taking, playing>>
vars == <<backlog, acceptor, permits, task, cleanups, playerCount, newClients,
          taking, playing>>

-----------------------------------------------------------------------------
(***************************************************************************)
(* The awaits of a handshake that lead to one other, in the order of       *)
(* handle_status and handle_login.  Exchanges with nothing in between but  *)
(* packets are one await.  "authentication" is the procedure of the        *)
(* connection mode and the switch to compression.                          *)
(***************************************************************************)
Then ==
    [statusRequest   |-> "serverListPing",
     statusResponse  |-> "pingRequest",
     pingRequest     |-> "pong",
     pong            |-> "finished",
     wrongVersion    |-> "finished",
     hello           |-> "authentication",
     authentication  |-> "loginCallback",
     serverFull      |-> "finished",
     loginFinished   |-> "clientInformation",
     clientInformation |-> "knownPacks",
     knownPacks      |-> "registries",
     registries      |-> "finishConfiguration",
     finishConfiguration |-> "sendingClient"]

\* Awaits that end the handshake when they fail.
Fallible == DOMAIN Then \cup {"intention"}

\* Awaits under the timeout.
Awaits == Fallible \cup {"legacyPing", "serverListPing", "loginCallback", "sendingClient"}

\* Awaits of a task that owns the CleanupOnDrop of its connection.
Admitted == {"loginFinished", "clientInformation", "knownPacks", "registries",
             "finishConfiguration", "sendingClient"}

\* "finished" is a task that still has its permit; "none" is no task.
TaskStates == Awaits \cup {"finished", "none"}

Tasks == {c \in Connections : task[c] # "none"}

Queued == {newClients[i] : i \in DOMAIN newClients}

TypeOK ==
    /\ backlog \in Seq(Connections)
    /\ acceptor \in {"acquiring", "accepting"}
    /\ permits \in 0..MaxConnections
    /\ task \in [Connections -> TaskStates]
    /\ cleanups \subseteq Connections
    /\ playerCount \in 0..MaxPlayers
    /\ newClients \in Seq(Connections)
    /\ taking \in 0..ChannelSize
    /\ playing \subseteq Connections

Init ==
    /\ backlog = <<>>
    /\ acceptor = "acquiring"
    /\ permits = MaxConnections
    /\ task = [c \in Connections |-> "none"]
    /\ cleanups = {}
    /\ playerCount = 0
    /\ newClients = <<>>
    /\ taking = 0
    /\ playing = {}

-----------------------------------------------------------------------------
\* A peer connects: the connection waits in the listener.
Connect(c) ==
    /\ task[c] = "none"
    /\ c \notin playing \cup Queued
    /\ \A i \in DOMAIN backlog : backlog[i] # c
    /\ backlog' = Append(backlog, c)
    /\ UNCHANGED <<acceptor, permits, task, cleanups, playerCount, newClients, gameVars>>

AcquirePermit ==
    /\ acceptor = "acquiring"
    /\ permits > 0
    /\ permits' = permits - 1
    /\ acceptor' = "accepting"
    /\ UNCHANGED <<backlog, task, cleanups, playerCount, newClients, gameVars>>

\* Mistakes of the kind the code could make are defined before what they would
\* replace; the run must notice each of them.
AcceptNewest ==
    /\ acceptor = "accepting"
    /\ backlog # <<>>
    /\ task' = [task EXCEPT ![Last(backlog)] = "legacyPing"]
    /\ backlog' = Front(backlog)
    /\ acceptor' = "acquiring"
    /\ UNCHANGED <<permits, cleanups, playerCount, newClients, gameVars>>

\* The permit moves into the task that is spawned.
Accept ==
    /\ acceptor = "accepting"
    /\ backlog # <<>>
    /\ task' = [task EXCEPT ![Head(backlog)] = "legacyPing"]
    /\ backlog' = Tail(backlog)
    /\ acceptor' = "acquiring"
    /\ UNCHANGED <<permits, cleanups, playerCount, newClients, gameVars>>

AcceptErrorForgets ==
    /\ acceptor = "accepting"
    /\ acceptor' = "acquiring"
    /\ UNCHANGED <<backlog, permits, task, cleanups, playerCount, newClients, gameVars>>

\* accept fails, for want of file descriptors for one: the permit is dropped.
AcceptError ==
    /\ acceptor = "accepting"
    /\ acceptor' = "acquiring"
    /\ permits' = permits + 1
    /\ UNCHANGED <<backlog, task, cleanups, playerCount, newClients, gameVars>>

-----------------------------------------------------------------------------
Goto(c, await) == task' = [task EXCEPT ![c] = await]

\* try_handle_legacy_ping answered a legacy ping, or found none; an error is
\* taken for none.
LegacyPing(c) ==
    /\ task[c] = "legacyPing"
    /\ \/ Goto(c, "finished")
       \/ Goto(c, "intention")
    /\ UNCHANGED <<acceptVars, cleanups, playerCount, newClients, gameVars>>

\* The handshake asks for the status or for a login, of this version or not.
Intention(c) ==
    /\ task[c] = "intention"
    /\ \/ Goto(c, "statusRequest")
       \/ Goto(c, "hello")
       \/ Goto(c, "wrongVersion")
    /\ UNCHANGED <<acceptVars, cleanups, playerCount, newClients, gameVars>>

\* The packet the handshake awaits arrives, or the one it sends is written.
Proceed(c) ==
    /\ task[c] \in DOMAIN Then
    /\ Goto(c, Then[task[c]])
    /\ UNCHANGED <<acceptVars, cleanups, playerCount, newClients, gameVars>>

\* The callback server_list_ping chooses to respond or to ignore.
AnswerStatus(c) ==
    /\ task[c] = "serverListPing"
    /\ \/ Goto(c, "statusResponse")
       \/ Goto(c, "finished")
    /\ UNCHANGED <<acceptVars, cleanups, playerCount, newClients, gameVars>>

HasRoomForOneMore == playerCount <= MaxPlayers
HasRoom == playerCount < MaxPlayers

\* The default callback login takes a place with fetch_update, or there is none.
Login(c) ==
    /\ task[c] = "loginCallback"
    /\ \/ /\ HasRoom
          /\ playerCount' = playerCount + 1
          /\ cleanups' = cleanups \cup {c}
          /\ Goto(c, "loginFinished")
       \/ /\ ~HasRoom
          /\ Goto(c, "serverFull")
          /\ UNCHANGED <<playerCount, cleanups>>
    /\ UNCHANGED <<acceptVars, newClients, gameVars>>

SendAgain(c) ==
    /\ task[c] = "sendingClient"
    /\ Len(newClients) < ChannelSize
    /\ newClients' = Append(newClients, c)
    /\ UNCHANGED <<acceptVars, task, cleanups, playerCount, gameVars>>

\* send_async: the client goes into the channel when there is room.
SendClient(c) ==
    /\ task[c] = "sendingClient"
    /\ Len(newClients) < ChannelSize
    /\ newClients' = Append(newClients, c)
    /\ Goto(c, "finished")
    /\ UNCHANGED <<acceptVars, cleanups, playerCount, gameVars>>

\* CleanupOnDrop is dropped: the place is given back.
DropCleanup(c) ==
    /\ cleanups' = cleanups \ {c}
    /\ playerCount' = playerCount - (IF c \in cleanups THEN 1 ELSE 0)

KeepCleanup == UNCHANGED <<cleanups, playerCount>>

\* An await fails: the error leaves the handlers and drops what they own.
Fail(c) ==
    /\ task[c] \in Fallible
    /\ DropCleanup(c)
    /\ Goto(c, "finished")
    /\ UNCHANGED <<acceptVars, newClients, gameVars>>

TimeOutLeaks(c) ==
    /\ task[c] \in Awaits
    /\ KeepCleanup
    /\ Goto(c, "finished")
    /\ UNCHANGED <<acceptVars, newClients, gameVars>>

TimeOutAfterAdmission(c) ==
    /\ task[c] \in Admitted
    /\ DropCleanup(c)
    /\ Goto(c, "finished")
    /\ UNCHANGED <<acceptVars, newClients, gameVars>>

\* The timeout drops the future at the await it is at, with all it owns.
TimeOut(c) ==
    /\ task[c] \in Awaits
    /\ DropCleanup(c)
    /\ Goto(c, "finished")
    /\ UNCHANGED <<acceptVars, newClients, gameVars>>

\* The task drops its permit and ends.
ReturnPermit(c) ==
    /\ task[c] = "finished"
    /\ permits' = permits + 1
    /\ Goto(c, "none")
    /\ UNCHANGED <<backlog, acceptor, cleanups, playerCount, newClients, gameVars>>

-----------------------------------------------------------------------------
Pending == Len(newClients)

\* spawn_new_clients looks how many clients are in the channel...
BeginSpawning ==
    /\ taking = 0
    /\ newClients # <<>>
    /\ taking' = Pending
    /\ UNCHANGED <<acceptVars, task, cleanups, playerCount, newClients, playing>>

SpawnNewest ==
    /\ taking > 0
    /\ playing' = playing \cup {Last(newClients)}
    /\ newClients' = Front(newClients)
    /\ taking' = taking - 1
    /\ UNCHANGED <<acceptVars, task, cleanups, playerCount>>

\* ... and takes and spawns as many, or breaks off when try_recv finds none.
SpawnClient ==
    /\ taking > 0
    /\ IF newClients = <<>>
       THEN taking' = 0 /\ UNCHANGED <<newClients, playing>>
       ELSE /\ playing' = playing \cup {Head(newClients)}
            /\ newClients' = Tail(newClients)
            /\ taking' = taking - 1
    /\ UNCHANGED <<acceptVars, task, cleanups, playerCount>>

\* Elsewhere in a tick the game thread drops a Client.
DropClient(c) ==
    /\ taking = 0
    /\ c \in playing
    /\ playing' = playing \ {c}
    /\ DropCleanup(c)
    /\ UNCHANGED <<acceptVars, task, newClients, taking>>

-----------------------------------------------------------------------------
Spawning == BeginSpawning \/ SpawnClient

Next ==
    \/ AcquirePermit
    \/ Accept
    \/ AcceptError
    \/ Spawning
    \/ \E c \in Connections :
           \/ Connect(c)
           \/ LegacyPing(c)
           \/ Intention(c)
           \/ Proceed(c)
           \/ AnswerStatus(c)
           \/ Login(c)
           \/ SendClient(c)
           \/ Fail(c)
           \/ TimeOut(c)
           \/ ReturnPermit(c)
           \/ DropClient(c)

Spec == Init /\ [][Next]_vars

(***************************************************************************)
(* The runtime polls the accept loop and the tasks, timeouts expire, and   *)
(* the game thread goes on ticking.  accept may fail any number of times   *)
(* but not for ever.  Peers owe nothing.                                   *)
(***************************************************************************)
FairSpec ==
    /\ Spec
    /\ WF_vars(AcquirePermit)
    /\ SF_vars(Accept)
    /\ WF_vars(Spawning)
    /\ \A c \in Connections : WF_vars(TimeOut(c)) /\ WF_vars(ReturnPermit(c))

-----------------------------------------------------------------------------
\* No way out of a handshake loses its permit or gives it back twice: errors,
\* timeouts, a failing accept (connect.rs:72-94).
PermitsExact ==
    permits + Cardinality(Tasks) + (IF acceptor = "accepting" THEN 1 ELSE 0)
        = MaxConnections

\* The player count is the number of places whose cleanup has yet to run, and
\* each of those belongs to a login past the callback, to a client in the
\* channel or to a client in the world: a login that fails, times out or waits
\* for the channel leaks no place, and no more than max_players log in
\* (connect.rs:77-86, 186, lib.rs:478-492, 541-547).
PlacesExact ==
    /\ playerCount = Cardinality(cleanups)
    /\ cleanups = {c \in Connections : task[c] \in Admitted} \cup Queued \cup playing

\* A connection becomes one client: it is at most once in the channel, and not
\* while its handshake goes on or its client is in the world.
OneClientEach ==
    /\ Len(newClients) = Cardinality(Queued)
    /\ Queued \cap playing = {}
    /\ \A c \in Queued \cup playing : task[c] \in {"finished", "none"}

\* A permit comes back whatever the peer does or omits, and also when the
\* channel of new clients stays full (connect.rs:77-86, 186).
PermitReturned == \A c \in Connections : task[c] # "none" ~> task[c] = "none"

\* A connection in the listener is accepted in the end, although all permits
\* can be taken by peers that send nothing.
AcceptedInTheEnd ==
    \A c \in Connections :
        (\E i \in DOMAIN backlog : backlog[i] = c) ~> task[c] # "none"

\* A client in the channel is spawned in the end although others keep coming.
SpawnedInTheEnd == \A c \in Connections : c \in Queued ~> c \in playing

=============================================================================
