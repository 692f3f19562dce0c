--------------------------- MODULE ClientHandshakes ---------------------------
(***************************************************************************)
(* What a client and the server agree on by packets in both directions:    *)
(* the position (crates/chunkedge_server/src/teleport.rs, movement.rs), the*)
(* keepalives (keepalive.rs) and the actions whose outcome the client      *)
(* predicts (action.rs, interact_block.rs, interact_item.rs).              *)
(*                                                                         *)
(* One client and the ticks of the server: the passes of the event loop,   *)
(* one packet each, the user's systems, and the systems of PostUpdate in   *)
(* any order.  Both directions keep their order.  The client does what the *)
(* vanilla client does: it goes where a teleport puts it, confirms it and  *)
(* repeats its position, answers keepalives, moves and acts.               *)
(*                                                                         *)
(* A position stands for the position and the look of the client.          *)
(***************************************************************************)
EXTENDS Integers, Sequences, SequenceFunctions

CONSTANTS
    Places,        \* positions
    Unknown,       \* NaN on the server, not yet spawned on the client
    Width,         \* the counters are u32, here 0..Width-1
    KeepaliveIds,  \* random numbers
    MaxActions,    \* bound: how many actions the client takes
    MaxSending,    \* bound: the client moves and turns with fewer on their way
    MoveEarly      \* whether user code sets a Position before Update too: in
                   \* First, in PreUpdate, in the passes of the event loop

ASSUME PlacesAssumption == Unknown \notin Places
ASSUME WidthAssumption == Width \in Nat /\ Width > 2
ASSUME MaxActionsAssumption == MaxActions \in Nat

VARIABLES
    \* the client
    clientPos,     \* where the client is
    lastAction,    \* the sequence number of its last action
    lastAck,       \* the last sequence number acknowledged to it
    \* the network
    toServer,      \* packets on their way to the server, or queued there
    toClient,      \* packets on their way to the client
    \* the server
    position,      \* Position and Look
    syncedPos,     \* synced_pos and synced_look
    pushed,        \* whether Velocity differs from synced_velocity
    counter,       \* teleport_id_counter
    pending,       \* pending_teleports
    gotKeepalive,  \* got_keepalive
    keepaliveId,   \* last_keepalive_id
    due,           \* whether the period has passed since last_send
    sequence,      \* ActionSequence
    removed,       \* why Client was removed
    \* the tick
    phase,
    batch,         \* packets this tick has still to handle
    answered,      \* history: an answer to a keepalive was in the batch
    todo           \* systems of PostUpdate that have still to run

clientVars == <<clientPos, lastAction, lastAck>>
network == <<toServer, toClient>>
positionVars == <<position, syncedPos, pushed, counter, pending>>
keepaliveVars == <<gotKeepalive, keepaliveId, due>>
tick == <<phase, batch, answered, todo>>
vars == <<clientVars, network, positionVars, keepaliveVars, sequence, removed, tick>>

Counters == 0..(Width - 1)

Reasons == {"no", "confirmation", "keepalive", "silence"}

Keepalives == [type : {"keepalive"}, id : KeepaliveIds]

\* Packets to the client.  A teleport that keeps the position is relative.
Positionings == [type : {"teleport"}, id : Counters, pos : Places]
Teleports == [type : {"teleport"}, id : Counters, pos : Places \cup {Unknown}]
Acks == [type : {"ack"}, seq : 1..MaxActions]
ToClient == Teleports \cup Keepalives \cup Acks

\* Packets to the server.  A turn stands for those that carry no position:
\* MovePlayerRotC2s, MovePlayerStatusOnlyC2s.
Confirmations == [type : {"confirm"}, id : Counters]
Moves == [type : {"move"}, pos : Places]
Turns == [type : {"turn"}]
Actions == [type : {"action"}, seq : 1..MaxActions]
ToServer == Confirmations \cup Moves \cup Turns \cup Keepalives \cup Actions

Systems == {"teleport", "send_keepalive", "acknowledge_player_actions"}

TypeOK ==
    /\ clientPos \in Places \cup {Unknown}
    /\ lastAction \in 0..MaxActions
    /\ lastAck \in 0..MaxActions
    /\ toServer \in Seq(ToServer)
    /\ toClient \in Seq(ToClient)
    /\ position \in Places
    /\ syncedPos \in Places \cup {Unknown}
    /\ pushed \in BOOLEAN
    /\ counter \in Counters
    /\ pending \in Counters
    /\ gotKeepalive \in BOOLEAN
    /\ keepaliveId \in KeepaliveIds
    /\ due \in BOOLEAN
    /\ sequence \in 0..MaxActions
    /\ removed \in Reasons
    /\ phase \in {"loop", "update", "post"}
    /\ batch \in Seq(ToServer)
    /\ answered \in BOOLEAN
    /\ todo \subseteq Systems

\* A client that was just spawned, in its first tick.
Init ==
    /\ clientPos = Unknown
    /\ lastAction = 0
    /\ lastAck = 0
    /\ toServer = <<>>
    /\ toClient = <<>>
    /\ position \in Places
    /\ syncedPos = Unknown
    /\ pushed = FALSE
    /\ counter = 0
    /\ pending = 0
    /\ gotKeepalive = TRUE
    /\ keepaliveId \in KeepaliveIds
    /\ due = FALSE
    /\ sequence = 0
    /\ removed = "no"
    /\ phase = "loop"
    /\ batch = <<>>
    /\ answered = FALSE
    /\ todo = {}

Connected == removed = "no"

-----------------------------------------------------------------------------
\* The client handles what the server sent.
ReceiveTeleport ==
    /\ Connected
    /\ toClient # <<>>
    /\ Head(toClient).type = "teleport"
    /\ LET tp == Head(toClient)
           there == IF tp.pos = Unknown THEN clientPos ELSE tp.pos
       IN /\ clientPos' = there
          /\ toServer' = toServer \o <<[type |-> "confirm", id |-> tp.id],
                                       [type |-> "move", pos |-> there]>>
    /\ toClient' = Tail(toClient)
    /\ UNCHANGED <<lastAction, lastAck, positionVars, keepaliveVars, sequence, removed, tick>>

ReceiveKeepalive ==
    /\ Connected
    /\ toClient # <<>>
    /\ Head(toClient).type = "keepalive"
    /\ toServer' = Append(toServer, Head(toClient))
    /\ toClient' = Tail(toClient)
    /\ UNCHANGED <<clientVars, positionVars, keepaliveVars, sequence, removed, tick>>

ReceiveAck ==
    /\ Connected
    /\ toClient # <<>>
    /\ Head(toClient).type = "ack"
    /\ lastAck' = Head(toClient).seq
    /\ toClient' = Tail(toClient)
    /\ UNCHANGED <<clientPos, lastAction, toServer, positionVars, keepaliveVars, sequence,
                   removed, tick>>

\* The client moves, turns or acts once it is in the world.
ClientSends(packet) ==
    /\ Connected
    /\ clientPos # Unknown
    /\ toServer' = Append(toServer, packet)
    /\ UNCHANGED <<lastAck, toClient, positionVars, keepaliveVars, sequence, removed, tick>>

ClientMove(p) ==
    /\ Len(toServer) < MaxSending
    /\ p # clientPos
    /\ clientPos' = p
    /\ ClientSends([type |-> "move", pos |-> p])
    /\ UNCHANGED lastAction

ClientTurn ==
    /\ Len(toServer) < MaxSending
    /\ ClientSends([type |-> "turn"])
    /\ UNCHANGED <<clientPos, lastAction>>

ClientAct ==
    /\ lastAction < MaxActions
    /\ lastAction' = lastAction + 1
    /\ ClientSends([type |-> "action", seq |-> lastAction + 1])
    /\ UNCHANGED clientPos

-----------------------------------------------------------------------------
\* The next pass of the event loop and the packet it is about.
Handles(type) ==
    /\ Connected
    /\ phase = "loop"
    /\ batch # <<>>
    /\ Head(batch).type = type
    /\ batch' = Tail(batch)
    /\ UNCHANGED <<phase, answered, todo, clientVars, network>>

\* Mistakes of the kind the code could make are defined before what they would
\* replace; the runs must notice each of them.
NewestId == (counter + Width - 1) % Width
ExpectedId == (counter + Width - pending) % Width

HandleConfirmationUncounted ==
    /\ Handles("confirm")
    /\ removed' = IF Head(batch).id = ExpectedId THEN "no" ELSE "confirmation"
    /\ UNCHANGED <<positionVars, keepaliveVars, sequence>>

\* handle_teleport_confirmations.  Nothing pending, or another id, removes the
\* client; the first does not return, and the right id is counted anyway.
HandleConfirmation ==
    /\ Handles("confirm")
    /\ LET right == Head(batch).id = ExpectedId IN
       /\ pending' = IF right THEN (pending + Width - 1) % Width ELSE pending
       /\ removed' = IF right /\ pending # 0 THEN "no" ELSE "confirmation"
    /\ UNCHANGED <<position, syncedPos, pushed, counter, keepaliveVars, sequence>>

Always == TRUE
AcceptsMovement == pending = 0

\* handle_client_movement.
HandleMove ==
    /\ Handles("move")
    /\ IF AcceptsMovement
       THEN position' = Head(batch).pos /\ syncedPos' = Head(batch).pos
       ELSE UNCHANGED <<position, syncedPos>>
    /\ UNCHANGED <<pushed, counter, pending, keepaliveVars, sequence, removed>>

\* A packet without a position is handled as one with the server's position.
HandleTurn ==
    /\ Handles("turn")
    /\ syncedPos' = IF AcceptsMovement THEN position ELSE syncedPos
    /\ UNCHANGED <<position, pushed, counter, pending, keepaliveVars, sequence, removed>>

\* handle_keepalive_response.
HandleKeepalive ==
    /\ Handles("keepalive")
    /\ IF ~gotKeepalive /\ Head(batch).id = keepaliveId
       THEN gotKeepalive' = TRUE /\ UNCHANGED removed
       ELSE removed' = "keepalive" /\ UNCHANGED gotKeepalive
    /\ UNCHANGED <<positionVars, keepaliveId, due, sequence>>

FirstSequence == IF sequence = 0 THEN Head(batch).seq ELSE sequence

\* ActionSequence::update.
UpdatedSequence == IF Head(batch).seq > sequence THEN Head(batch).seq ELSE sequence

\* handle_player_action, handle_interact_block, handle_player_interact_item.
HandleAction ==
    /\ Handles("action")
    /\ sequence' = UpdatedSequence
    /\ UNCHANGED <<positionVars, keepaliveVars, removed>>

\* Bound: the code's counters wrap long after a client stopped answering.
Answering == pending < Width - 1

\* User code moves the client's entity.
SetPosition(p) ==
    /\ Connected
    /\ phase = "update" \/ (phase = "loop" /\ MoveEarly)
    /\ Answering
    /\ p # position
    /\ position' = p
    /\ UNCHANGED <<clientVars, network, syncedPos, pushed, counter, pending, keepaliveVars,
                   sequence, removed, tick>>

\* User code gives it a velocity.
SetVelocity ==
    /\ Connected
    /\ phase = "update"
    /\ Answering
    /\ pushed' = TRUE
    /\ UNCHANGED <<clientVars, network, position, syncedPos, counter, pending,
                   keepaliveVars, sequence, removed, tick>>

EndLoop ==
    /\ Connected
    /\ phase = "loop"
    /\ batch = <<>>
    /\ phase' = "update"
    /\ UNCHANGED <<clientVars, network, positionVars, keepaliveVars, sequence, removed,
                   batch, answered, todo>>

EndUpdate ==
    /\ Connected
    /\ phase = "update"
    /\ phase' = "post"
    /\ todo' = Systems
    /\ UNCHANGED <<clientVars, network, positionVars, keepaliveVars, sequence, removed,
                   batch, answered>>

-----------------------------------------------------------------------------
Runs(system) ==
    /\ Connected
    /\ phase = "post"
    /\ system \in todo
    /\ todo' = todo \ {system}
    /\ UNCHANGED <<phase, batch, answered, clientVars, toServer>>

Moved == position # syncedPos

NextCounterUnwrapped == counter + 1
NextCounter == (counter + 1) % Width

CountedOnce == IF pending = 0 THEN 1 ELSE pending
Counted == (pending + 1) % Width

\* teleport.
Teleport ==
    /\ Runs("teleport")
    /\ IF Moved \/ pushed
       THEN /\ toClient' = Append(toClient,
                  [type |-> "teleport", id |-> counter,
                   pos |-> IF Moved THEN position ELSE Unknown])
            /\ pending' = Counted
            /\ counter' = NextCounter
            /\ syncedPos' = position
            /\ pushed' = FALSE
       ELSE UNCHANGED <<toClient, counter, syncedPos, pushed, pending>>
    /\ UNCHANGED <<position, keepaliveVars, sequence, removed>>

\* send_keepalive: nothing before the period has passed, then a keepalive, or
\* the removal of a client that has not answered the last one.
SendKeepalive ==
    /\ Runs("send_keepalive")
    /\ IF due /\ gotKeepalive
       THEN \E id \in KeepaliveIds :
                /\ toClient' = Append(toClient, [type |-> "keepalive", id |-> id])
                /\ keepaliveId' = id
                /\ gotKeepalive' = FALSE
                /\ due' = FALSE
       ELSE UNCHANGED <<toClient, keepaliveVars>>
    /\ removed' = IF due /\ ~gotKeepalive THEN "silence" ELSE removed
    /\ UNCHANGED <<positionVars, sequence>>

\* The period passes.
Elapse ==
    /\ Connected
    /\ ~due
    /\ due' = TRUE
    /\ UNCHANGED <<clientVars, network, positionVars, gotKeepalive, keepaliveId, sequence,
                   removed, tick>>

\* acknowledge_player_actions.
Acknowledge ==
    /\ Runs("acknowledge_player_actions")
    /\ toClient' = IF sequence # 0
           THEN Append(toClient, [type |-> "ack", seq |-> sequence]) ELSE toClient
    /\ sequence' = 0
    /\ UNCHANGED <<positionVars, keepaliveVars, removed>>

\* The next tick: its event loop handles what is queued when it begins.
EndTick ==
    /\ Connected
    /\ phase = "post"
    /\ todo = {}
    /\ phase' = "loop"
    /\ batch' = toServer
    /\ toServer' = <<>>
    /\ answered' = (Selected(toServer, Keepalives) # <<>>)
    /\ UNCHANGED <<clientVars, toClient, positionVars, keepaliveVars, sequence, removed, todo>>

-----------------------------------------------------------------------------
ServerStep ==
    \/ HandleConfirmation
    \/ HandleMove
    \/ HandleTurn
    \/ HandleKeepalive
    \/ HandleAction
    \/ EndLoop
    \/ EndUpdate
    \/ Teleport
    \/ SendKeepalive
    \/ Acknowledge
    \/ EndTick

ClientReceive == ReceiveTeleport \/ ReceiveKeepalive \/ ReceiveAck

Next ==
    \/ ServerStep
    \/ ClientReceive
    \/ \E p \in Places : ClientMove(p) \/ SetPosition(p)
    \/ ClientTurn
    \/ ClientAct
    \/ SetVelocity
    \/ Elapse

Spec == Init /\ [][Next]_vars

-----------------------------------------------------------------------------
\* What the server has of the client's packets or will have, in order.
Line == batch \o toServer

\* The confirmations that come back, then the teleports that will be confirmed.
Unconfirmed == Selected(Line, Confirmations) \o Selected(toClient, Teleports)

\* pending_teleports counts the teleports on their way to the client and the
\* confirmations on their way back, and those are the last ids of the counter
\* in order, also when the counters wrap: the id the server expects is the next
\* to come (teleport.rs:32-36, 112-113, 134-140).
UnconfirmedInOrder ==
    Connected =>
        /\ Len(Unconfirmed) = pending
        /\ \A i \in 1..Len(Unconfirmed) :
               Unconfirmed[i].id = (counter + Width - pending + i - 1) % Width

\* A client that answers as it should is never removed for what it answers.  It
\* is removed for silence only in a tick in which no answer to a keepalive was
\* queued as it began, because answers are handled before send_keepalive looks;
\* an answer that comes during the tick is too late
\* (teleport.rs:135-147, keepalive.rs:69-118, event_loop.rs:143-181).
PoliteStays == removed = "no" \/ (removed = "silence" /\ ~answered)

\* Where the server puts a client is not overridden by moves that the client made
\* before it knew: as long as a teleport to a position is on its way, the server
\* goes by that position (movement.rs:193-195).
ServerPrevails ==
    LET there == Selected(toClient, Positionings)
    IN Connected /\ there # <<>> => syncedPos = there[Len(there)].pos

\* When nothing is under way, the server has the client where it is: whatever
\* moves were ignored while a teleport was pending, the two end up at one place
\* (movement.rs:193-205; teleport.rs:67, "Syncs the client's position and look
\* with the server").
PositionsAgree ==
    (/\ Connected
     /\ Line = <<>>
     /\ Selected(toClient, Teleports) = <<>>
     /\ clientPos # Unknown
     /\ position = syncedPos) =>
        position = clientPos

\* What was acknowledged, what is being acknowledged, what the tick has gathered
\* and what is under way.
Chain(acked, acks, gathered, actions) ==
    LET Ack(seq) == [type |-> "ack", seq |-> seq]
    IN <<Ack(acked)>> \o acks \o (IF gathered = 0 THEN <<>> ELSE <<Ack(gathered)>>) \o actions

\* Every action is acknowledged or will be, those of one tick by the last of
\* them, and acknowledgements come in the order of the actions: from what was
\* acknowledged to what is under way the sequence numbers increase, and they end
\* with the client's last action (action.rs:42-45, 100-112).
ActionsAccounted ==
    LET all == Chain(lastAck, Selected(toClient, Acks), sequence, Selected(Line, Actions))
    IN /\ \A i, j \in 1..Len(all) : i < j => all[i].seq < all[j].seq
       /\ all[Len(all)].seq = lastAction

=============================================================================
