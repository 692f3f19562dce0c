---------------------------- MODULE PlayConnection ----------------------------
(***************************************************************************)
(* A client in the play state, from its socket to the systems of the       *)
(* server (crates/chunkedge_network/src/packet_io.rs,                      *)
(* crates/chunkedge_server/src/event_loop.rs, client.rs).                  *)
(*                                                                         *)
(* Per client a reader task decodes frames and queues them, holding back   *)
(* by a semaphore of one permit per byte; the game thread takes packets    *)
(* off the queues in the passes of run_event_loop, in the same tick runs   *)
(* the user's systems and flush_packets, and removes clients; a writer     *)
(* task carries encoded bytes to the socket.                               *)
(*                                                                         *)
(* A frame is its number and its cost in permits.  Of the outgoing bytes   *)
(* only the DisconnectS2c packet is followed here; the channel they go     *)
(* through is ByteChannel.                                                 *)
(***************************************************************************)
EXTENDS Integers, Sequences, SequenceFunctions

CONSTANTS
    Clients,
    Nobody,     \* not a client
    InLimit,    \* incoming_byte_limit
    Costs,      \* what a received packet can cost
    MaxFrames   \* bound: how many frames a peer sends

ASSUME ClientsAssumption == Nobody \notin Clients
ASSUME LimitsAssumption ==
    InLimit \in Nat /\ MaxFrames \in Nat /\ Costs \subseteq Nat \ {0}

VARIABLES
    sent,      \* how many frames the peer has sent
    open,      \* whether the peer still holds its end of the connection
    wire,      \* the frames on their way to the reader task
    reader,    \* where the reader task is
    frame,     \* its local: the frame it decoded
    permits,   \* recv_sem
    queue,     \* the flume channel of received packets
    client,    \* which of Client and Despawned the entity has
    farewell,  \* how far the DisconnectS2c packet has come
    phase,     \* where the game thread is in its tick
    todo,      \* the clients this pass over the clients has still to visit
    visited,   \* the client whose packet was just received
    received,  \* that packet
    again,     \* check_again: how many packets are left to take this tick
    removals,  \* the commands that remove a Client, not yet applied
    handled,   \* history: the numbers of the packets given to the systems
    spent,     \* history: the cost of those of this tick
    due        \* history: how many were handled or queued as the tick began

peerVars == <<sent, open, wire>>
readerVars == <<reader, frame>>
loop == <<phase, todo, visited, received, again, removals>>
vars == <<sent, open, wire, reader, frame, permits, queue, client, farewell,
          phase, todo, visited, received, again, removals, handled, spent, due>>

Frames == [n : 1..MaxFrames, cost : Costs]

(***************************************************************************)
(* "reading"    decoding, or awaiting bytes                                *)
(* "acquiring"  awaiting acquire_many(cost)                                *)
(* "sending"    the permits taken and forgotten, the packet not yet queued *)
(* "done"       the task ended, or was aborted                             *)
(***************************************************************************)
ReaderStates == {"reading", "acquiring", "sending", "done"}

\* "leaving" is a Client with Despawned.
ClientStates == {"online", "leaving", "removed"}

\* In the encoder, in the byte channel, with the writer task, on the socket.
FarewellStates == {"none", "encoded", "queued", "taken", "written", "rejected"}

(***************************************************************************)
(* "first", "again"  a pass of run_event_loop over the clients             *)
(* "apply"           state.apply(world)                                    *)
(* "schedules"       run_event_loop_schedules                              *)
(* "update"          the user's systems in Update                          *)
(* "flush"           flush_packets in PostUpdate                           *)
(* "last"            despawn_marked_entities in Last                       *)
(***************************************************************************)
Phases == {"first", "again", "apply", "schedules", "update", "flush", "last"}

TypeOK ==
    /\ sent \in [Clients -> 0..MaxFrames]
    /\ open \in [Clients -> BOOLEAN]
    /\ wire \in [Clients -> Seq(Frames)]
    /\ reader \in [Clients -> ReaderStates]
    /\ frame \in [Clients -> Seq(Frames)]
    /\ permits \in [Clients -> 0..InLimit]
    /\ queue \in [Clients -> Seq(Frames)]
    /\ client \in [Clients -> ClientStates]
    /\ farewell \in [Clients -> FarewellStates]
    /\ phase \in Phases
    /\ todo \subseteq Clients
    /\ visited \in Clients \cup {Nobody}
    /\ received \in Seq(Frames)
    /\ again \in [Clients -> Nat]
    /\ removals \subseteq Clients
    /\ handled \in [Clients -> Seq(1..MaxFrames)]
    /\ spent \in [Clients -> Nat]
    /\ due \in [Clients -> Nat]

\* Clients that spawn_new_clients has just spawned, at the start of a tick.
Init ==
    /\ sent = [c \in Clients |-> 0]
    /\ open = [c \in Clients |-> TRUE]
    /\ wire = [c \in Clients |-> <<>>]
    /\ reader = [c \in Clients |-> "reading"]
    /\ frame = [c \in Clients |-> <<>>]
    /\ permits = [c \in Clients |-> InLimit]
    /\ queue = [c \in Clients |-> <<>>]
    /\ client = [c \in Clients |-> "online"]
    /\ farewell = [c \in Clients |-> "none"]
    /\ phase = "first"
    /\ todo = Clients
    /\ visited = Nobody
    /\ received = <<>>
    /\ again = [c \in Clients |-> 0]
    /\ removals = {}
    /\ handled = [c \in Clients |-> <<>>]
    /\ spent = [c \in Clients |-> 0]
    /\ due = [c \in Clients |-> 0]

Online == {c \in Clients : client[c] # "removed"}

-----------------------------------------------------------------------------
\* The peer writes a frame, or closes its end.
PeerSend(c) ==
    /\ open[c]
    /\ sent[c] < MaxFrames
    /\ sent' = [sent EXCEPT ![c] = @ + 1]
    /\ \E cost \in Costs :
           wire' = [wire EXCEPT ![c] = Append(@, [n |-> sent[c] + 1, cost |-> cost])]
    /\ UNCHANGED <<open, readerVars, permits, queue, client, farewell, loop, handled, spent, due>>

PeerClose(c) ==
    /\ open[c]
    /\ open' = [open EXCEPT ![c] = FALSE]
    /\ UNCHANGED <<sent, wire, readerVars, permits, queue, client, farewell, loop, handled, spent, due>>

-----------------------------------------------------------------------------
\* Mistakes of the kind the code could make are defined before what they would
\* replace; the runs must notice each of them.
TooLargeNever(f) == FALSE

\* Such a packet would wait for permits forever.
TooLarge(f) == f.cost > InLimit

\* The reader task decodes a frame.  One that costs too much ends the task, and
\* so does one that cannot be decoded.
ReadFrame(c) ==
    /\ reader[c] = "reading"
    /\ wire[c] # <<>>
    /\ wire' = [wire EXCEPT ![c] = Tail(@)]
    /\ \/ /\ TooLarge(Head(wire[c]))
          /\ reader' = [reader EXCEPT ![c] = "done"]
          /\ UNCHANGED frame
       \/ /\ ~TooLarge(Head(wire[c]))
          /\ frame' = [frame EXCEPT ![c] = <<Head(wire[c])>>]
          /\ reader' = [reader EXCEPT ![c] = "acquiring"]
    /\ UNCHANGED <<sent, open, permits, queue, client, farewell, loop, handled, spent, due>>

\* End of file, after everything the peer sent was read.
ReadEof(c) ==
    /\ reader[c] = "reading"
    /\ wire[c] = <<>>
    /\ ~open[c]
    /\ reader' = [reader EXCEPT ![c] = "done"]
    /\ UNCHANGED <<peerVars, frame, permits, queue, client, farewell, loop, handled, spent, due>>

\* A connection that was reset: what was under way is lost.
ReadError(c) ==
    /\ reader[c] = "reading"
    /\ wire[c] # <<>>
    /\ ~open[c]
    /\ reader' = [reader EXCEPT ![c] = "done"]
    /\ UNCHANGED <<peerVars, frame, permits, queue, client, farewell, loop, handled, spent, due>>

AcquireUnchecked(c) ==
    /\ reader[c] = "acquiring"
    /\ permits' = [permits EXCEPT ![c] = @ - frame[c][1].cost]
    /\ reader' = [reader EXCEPT ![c] = "sending"]
    /\ UNCHANGED <<peerVars, frame, queue, client, farewell, loop, handled, spent, due>>

\* acquire_many(cost) returns, and the permits are forgotten.
Acquire(c) ==
    /\ reader[c] = "acquiring"
    /\ permits[c] >= frame[c][1].cost
    /\ permits' = [permits EXCEPT ![c] = @ - frame[c][1].cost]
    /\ reader' = [reader EXCEPT ![c] = "sending"]
    /\ UNCHANGED <<peerVars, frame, queue, client, farewell, loop, handled, spent, due>>

EnqueueFirst(c) ==
    /\ reader[c] = "sending"
    /\ queue' = [queue EXCEPT ![c] = frame[c] \o @]
    /\ reader' = [reader EXCEPT ![c] = IF client[c] # "removed" THEN "reading" ELSE "done"]
    /\ frame' = [frame EXCEPT ![c] = <<>>]
    /\ UNCHANGED <<peerVars, permits, client, farewell, loop, handled, spent, due>>

\* incoming_sender.try_send: the packet is queued, or the receiver is gone.
Enqueue(c) ==
    /\ reader[c] = "sending"
    /\ frame' = [frame EXCEPT ![c] = <<>>]
    /\ \/ /\ client[c] # "removed"
          /\ queue' = [queue EXCEPT ![c] = @ \o frame[c]]
          /\ reader' = [reader EXCEPT ![c] = "reading"]
       \/ /\ client[c] = "removed"
          /\ reader' = [reader EXCEPT ![c] = "done"]
          /\ UNCHANGED queue
    /\ UNCHANGED <<peerVars, permits, client, farewell, loop, handled, spent, due>>

-----------------------------------------------------------------------------
\* The Client of some entities is removed and dropped: its drop flushes what is
\* encoded, the connection takes the packet queue with it and aborts both
\* tasks, which takes effect where a task awaits.
Dropped(cs) ==
    /\ client' = [c \in Clients |-> IF c \in cs THEN "removed" ELSE client[c]]
    /\ queue' = [c \in Clients |-> IF c \in cs THEN <<>> ELSE queue[c]]
    /\ reader' = [c \in Clients |->
           IF c \in cs /\ reader[c] # "sending" THEN "done" ELSE reader[c]]
    /\ frame' = [c \in Clients |->
           IF c \in cs /\ reader[c] # "sending" THEN <<>> ELSE frame[c]]
    /\ farewell' = [c \in Clients |->
           IF c \in cs /\ farewell[c] = "encoded" THEN "queued" ELSE farewell[c]]
    /\ UNCHANGED <<peerVars, permits, handled>>

\* TryRecvError::Disconnected: the sending half is gone and the queue is empty.
Closed(c) == reader[c] = "done" /\ queue[c] = <<>>

Visit(c) ==
    /\ phase \in {"first", "again"}
    /\ visited = Nobody
    /\ c \in todo
    /\ todo' = todo \ {c}
    /\ UNCHANGED <<peerVars, readerVars, permits, client, farewell, phase, due>>

\* try_recv gives Ok(Some(packet)), which becomes a PacketEvent.
TryRecvPacket(c) ==
    /\ Visit(c)
    /\ c \in Online
    /\ queue[c] # <<>>
    /\ queue' = [queue EXCEPT ![c] = Tail(@)]
    /\ visited' = c
    /\ received' = <<Head(queue[c])>>
    /\ handled' = [handled EXCEPT ![c] = Append(@, Head(queue[c]).n)]
    /\ spent' = [spent EXCEPT ![c] = @ + Head(queue[c]).cost]
    /\ UNCHANGED <<again, removals>>

\* try_recv gives Ok(None).
TryRecvEmpty(c) ==
    /\ Visit(c)
    /\ c \in Online
    /\ queue[c] = <<>>
    /\ ~Closed(c)
    /\ again' = [again EXCEPT ![c] = 0]
    /\ UNCHANGED <<queue, visited, received, removals, handled, spent, due>>

\* try_recv gives an error: the Client is to be removed.
TryRecvClosed(c) ==
    /\ Visit(c)
    /\ c \in Online
    /\ Closed(c)
    /\ again' = [again EXCEPT ![c] = 0]
    /\ removals' = removals \cup {c}
    /\ UNCHANGED <<queue, visited, received, handled, spent, due>>

\* A later pass finds an entity of check_again without Client.
SkipRemoved(c) ==
    /\ Visit(c)
    /\ c \notin Online
    /\ again' = [again EXCEPT ![c] = 0]
    /\ UNCHANGED <<queue, visited, received, removals, handled, spent, due>>

CostOfBody == received[1].cost - 1

\* What the packet cost, computed anew from its body.
CostOfReceived == received[1].cost

\* RealClientConnection::try_recv gives the permits of the packet back.
AddPermits ==
    /\ received # <<>>
    /\ permits' = [permits EXCEPT ![visited] = @ + CostOfReceived]
    /\ received' = <<>>
    /\ UNCHANGED <<peerVars, readerVars, queue, client, farewell, phase, todo,
                   visited, again, removals, handled, spent, due>>

PendingAfterThis(c) == Len(queue[c]) - 1

RefreshedRemaining(c) == Len(queue[c])

\* connection().len() after the first packet, and one less after each other.
Pending(c) == Len(queue[c])
Remaining(c) == again[c] - 1

EndVisit ==
    /\ visited # Nobody
    /\ received = <<>>
    /\ again' = [again EXCEPT ![visited] =
           IF phase = "first" THEN Pending(visited) ELSE Remaining(visited)]
    /\ visited' = Nobody
    /\ UNCHANGED <<peerVars, readerVars, permits, queue, client, farewell, phase, todo,
                   received, removals, handled, spent, due>>

EndPass ==
    /\ phase \in {"first", "again"}
    /\ todo = {}
    /\ visited = Nobody
    /\ phase' = "apply"
    /\ UNCHANGED <<peerVars, readerVars, permits, queue, client, farewell, todo, visited,
                   received, again, removals, handled, spent, due>>

ApplyRemovals ==
    /\ phase = "apply"
    /\ Dropped(removals)
    /\ UNCHANGED <<spent, due>>
    /\ removals' = {}
    /\ phase' = "schedules"
    /\ UNCHANGED <<todo, visited, received, again>>

\* User code, or the handler of an unexpected keepalive, removes a Client.
Kick(c) ==
    /\ phase \in {"schedules", "update"}
    /\ c \in Online
    /\ Dropped({c})
    /\ UNCHANGED <<spent, due>>
    /\ UNCHANGED loop

\* The command DisconnectClient.
DisconnectClient(c) ==
    /\ phase \in {"schedules", "update"}
    /\ client[c] = "online"
    /\ client' = [client EXCEPT ![c] = "leaving"]
    /\ farewell' = [farewell EXCEPT ![c] = "encoded"]
    /\ UNCHANGED <<peerVars, readerVars, permits, queue, loop, handled, spent, due>>

\* Another pass over the clients that had packets left, or on to Update.
EndSchedules ==
    LET left == {c \in Clients : again[c] > 0} IN
    /\ phase = "schedules"
    /\ phase' = IF left # {} THEN "again" ELSE "update"
    /\ todo' = left
    /\ UNCHANGED <<peerVars, readerVars, permits, queue, client, farewell, visited,
                   received, again, removals, handled, spent, due>>

EndUpdate ==
    /\ phase = "update"
    /\ phase' = "flush"
    /\ todo' = Online
    /\ UNCHANGED <<peerVars, readerVars, permits, queue, client, farewell, visited,
                   received, again, removals, handled, spent, due>>

\* flush_packets hands the encoded bytes to the byte channel; if they do not
\* fit, or the channel is closed, the Client is to be removed.
Flush(c) ==
    /\ phase = "flush"
    /\ c \in todo
    /\ todo' = todo \ {c}
    /\ \/ /\ farewell' = [farewell EXCEPT ![c] = IF @ = "encoded" THEN "queued" ELSE @]
          /\ UNCHANGED removals
       \/ /\ farewell' = [farewell EXCEPT ![c] = IF @ = "encoded" THEN "rejected" ELSE @]
          /\ removals' = removals \cup {c}
    /\ UNCHANGED <<peerVars, readerVars, permits, queue, client, phase, visited, received,
                   again, handled, spent, due>>

EndFlush ==
    /\ phase = "flush"
    /\ todo = {}
    /\ Dropped(removals)
    /\ UNCHANGED <<spent, due>>
    /\ removals' = {}
    /\ phase' = "last"
    /\ UNCHANGED <<todo, visited, received, again>>

\* despawn_marked_entities; then the next tick begins.
EndTick ==
    /\ phase = "last"
    /\ Dropped({c \in Clients : client[c] = "leaving"})
    /\ phase' = "first"
    /\ todo' = {c \in Clients : client[c] = "online"}
    /\ spent' = [c \in Clients |-> 0]
    /\ due' = [c \in Clients |-> Len(handled[c]) + Len(queue[c])]
    /\ UNCHANGED <<visited, received, again, removals>>

-----------------------------------------------------------------------------
\* The writer task takes what is queued and writes it to the socket.
WriterTake(c) ==
    /\ c \in Online
    /\ farewell[c] = "queued"
    /\ farewell' = [farewell EXCEPT ![c] = "taken"]
    /\ UNCHANGED <<peerVars, readerVars, permits, queue, client, loop, handled, spent, due>>

WriterWrite(c) ==
    /\ c \in Online
    /\ farewell[c] = "taken"
    /\ farewell' = [farewell EXCEPT ![c] = "written"]
    /\ UNCHANGED <<peerVars, readerVars, permits, queue, client, loop, handled, spent, due>>

ReaderStep(c) == ReadFrame(c) \/ ReadEof(c) \/ Acquire(c) \/ Enqueue(c)

WriterStep(c) == WriterTake(c) \/ WriterWrite(c)

\* What the game thread does of itself; kicks and commands are up to the user.
GameStep ==
    \/ \E c \in Clients :
           \/ TryRecvPacket(c)
           \/ TryRecvEmpty(c)
           \/ TryRecvClosed(c)
           \/ SkipRemoved(c)
           \/ Flush(c)
    \/ AddPermits
    \/ EndVisit
    \/ EndPass
    \/ ApplyRemovals
    \/ EndSchedules
    \/ EndUpdate
    \/ EndFlush
    \/ EndTick

Next ==
    \/ GameStep
    \/ \E c \in Clients :
           \/ PeerSend(c)
           \/ PeerClose(c)
           \/ ReaderStep(c)
           \/ ReadError(c)
           \/ Kick(c)
           \/ DisconnectClient(c)
           \/ WriterStep(c)

Spec == Init /\ [][Next]_vars

(***************************************************************************)
(* The game thread runs one tick after the other and the runtime polls the *)
(* reader task.  Peers owe nothing, and neither does user code.            *)
(***************************************************************************)
FairSpec ==
    /\ Spec
    /\ WF_vars(GameStep)
    /\ \A c \in Clients : WF_vars(ReaderStep(c))

-----------------------------------------------------------------------------
CostsOf(frames) == [i \in DOMAIN frames |-> frames[i].cost]

Cost(frames) == Total(CostsOf(frames))

\* The permits of recv_sem are never lost or made up although the reader task
\* forgets them and the game thread adds them back later, from what the packet
\* costs then (packet_io.rs:171-177, 262-269): together with the packets that
\* are queued, about to be queued or just received they are the limit.
PermitsConserved ==
    \A c \in Online :
        permits[c] + Cost(queue[c])
            + (IF reader[c] = "sending" THEN Cost(frame[c]) ELSE 0)
            + (IF visited = c THEN Cost(received) ELSE 0) = InLimit

\* The systems see the frames of a peer in its order, each once, and no frame
\* disappears between the socket and the systems while the connection is read.
HandledInOrder ==
    \A c \in Clients :
        LET behind == [i \in DOMAIN queue[c] |-> queue[c][i].n]
            reading == [i \in DOMAIN frame[c] |-> frame[c][i].n]
        IN /\ \A i \in 1..Len(handled[c]) : handled[c][i] = i
           /\ c \in Online =>
                  \A i \in 1..Len(behind \o reading) :
                      (behind \o reading)[i] = Len(handled[c]) + i

\* A tick handles what was queued as it began: no packet is left for another
\* tick because the pending ones were counted while the reader task went on
\* (event_loop.rs:128-131, 159-163), and a client whose connection closed is
\* given up only once they are handled (135-139, 166-171).
QueuedHandledInTick ==
    \A c \in Online :
        c \in removals \/ phase \in {"update", "flush", "last"}
            => Len(handled[c]) >= due[c]

\* A peer that keeps sending cannot keep the event loop in one tick: a tick
\* handles at most one packet more than the byte limit holds, because only the
\* first pass counts what is pending (event_loop.rs:128-131, 161-163).
TickBounded == \A c \in Clients : spent[c] <= 2 * InLimit

\* Every frame that is sent is handled in the end, unless the connection breaks
\* off or the client is removed: the reader never waits for permits that cannot
\* come (packet_io.rs:159-169).
FramesHandled ==
    \A c \in Clients : \A k \in 1..MaxFrames :
        (sent[c] >= k) ~> (Len(handled[c]) >= k \/ client[c] = "removed")

\* The comment in DisconnectClient (client.rs:429-430): the entity is despawned
\* only at the end of the tick, so that its packets have time to be sent.
FarewellSent ==
    [][phase = "last" =>
           \A c \in Clients :
               client[c] = "leaving" => farewell[c] \in {"written", "rejected"}]_vars

=============================================================================
