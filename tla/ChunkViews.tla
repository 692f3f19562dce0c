------------------------------ MODULE ChunkViews ------------------------------
(***************************************************************************)
(* Chunk layers, the clients that view them and the per-chunk viewer       *)
(* counts, over the ticks of the server                                    *)
(* (crates/chunkedge_server/src/layer/chunk.rs, layer/chunk/loaded.rs,     *)
(* client.rs).                                                             *)
(*                                                                         *)
(* A tick runs the event loop, then despawn_disconnected_clients and the   *)
(* user's systems in Update, then the systems of PostUpdate in the order   *)
(* ClientPlugin::build gives them (client.rs:69-106):                      *)
(*                                                                         *)
(*   eventLoop -> update -> messages -> views -> cleanup -> endTick        *)
(*                                                                         *)
(* Calls of user code (insert a chunk, move a client, ...) and packets     *)
(* that move a client fall into the first two phases.  handle_layer_       *)
(* messages and update_view_and_layers run their clients in parallel: one  *)
(* action per client, in any order.                                        *)
(*                                                                         *)
(* A chunk's content is one value, the block that changes.  A view is the  *)
(* set of chunk positions ChunkView::iter yields for the client's position *)
(* and view distance.                                                      *)
(***************************************************************************)
EXTENDS Integers, Sequences, FiniteSets

CONSTANTS
    Clients,
    Layers,
    Positions,
    Views,         \* the views a client can have: sets of positions
    SpawnView,     \* the view of a freshly spawned client entity
    Blocks,        \* what a chunk can hold
    InsertedBlock, \* what an inserted chunk holds
    NoLayer,       \* Entity::PLACEHOLDER in VisibleChunkLayer
    Absent,        \* no chunk at a position
    NoBlock,       \* no recorded change, and no chunk on the client's side
    CounterWidth,  \* how many values viewer_count has (2^32 in the code)
    OpsPerTick,    \* bound: how many calls come between two PostUpdates
    MaxReplaced,   \* bound: a chunk is replaced while it counts this many viewers
    Calls,         \* which calls user code and clients make
    QuietLeave     \* whether a client loses its connection only while its own
                   \* view is at rest: see Disturbed

AllCalls == {"insert", "overwrite", "remove", "removeEntry", "retain", "setBlock",
             "move", "switch", "join", "despawn", "disconnect"}

ASSUME ViewsAssumption == Views \subseteq SUBSET Positions /\ SpawnView \in Views
ASSUME BlocksAssumption == InsertedBlock \in Blocks /\ NoBlock \notin Blocks
ASSUME LayersAssumption == NoLayer \notin Layers
ASSUME ClientsAssumption == IsFiniteSet(Clients)
ASSUME CounterAssumption == CounterWidth \in Nat \ {0}
ASSUME CallBoundsAssumption == OpsPerTick \in Nat /\ MaxReplaced \in Nat
ASSUME CallsAssumption == Calls \subseteq AllCalls /\ QuietLeave \in BOOLEAN

VARIABLES
    chunk,      \* ChunkLayer::chunks, per layer and position
    stateMsgs,  \* the bytes of the ChangeChunkState message of a position
    blockMsgs,  \* the block-update packet of a position's PacketAt messages
    conn,       \* which of Client and Despawned the client entity has
    view,       \* the View of the client now
    oldView,    \* its OldView
    layer,      \* VisibleChunkLayer
    oldLayer,   \* OldVisibleChunkLayer
    shown,      \* what the client on the other end has at each position
    phase,      \* which part of the tick runs
    todo,       \* the clients the running system has still to visit
    ops         \* how many calls this tick has seen

world == <<chunk, stateMsgs>>
entities == <<conn, view, oldView, layer, oldLayer>>
schedule == <<phase, todo>>
vars == <<chunk, stateMsgs, blockMsgs, conn, view, oldView, layer, oldLayer,
          shown, phase, todo, ops>>

Phases == {"eventLoop", "update", "messages", "views", "cleanup", "endTick"}

(***************************************************************************)
(* "absent"   no entity                                                    *)
(* "online"   Client                                                       *)
(* "leaving"  Client and Despawned: user code despawns the client          *)
(* "offline"  Client removed (connection lost, or kicked), not Despawned   *)
(* "gone"     Client removed and Despawned                                 *)
(***************************************************************************)
Connections == {"absent", "online", "leaving", "offline", "gone"}

HasClient(c) == conn[c] \in {"online", "leaving"}
IsDespawned(c) == conn[c] \in {"leaving", "gone"}

ChunkStates == {"LOAD", "UNLOAD", "OVERWRITE"}

LoadedChunks == [viewers : 0..CounterWidth - 1,
                 block   : Blocks,
                 updates : Blocks \cup {NoBlock}]

ASSUME AbsentAssumption == Absent \notin LoadedChunks

TypeOK ==
    /\ chunk \in [Layers -> [Positions -> LoadedChunks \cup {Absent}]]
    /\ stateMsgs \in [Layers -> [Positions -> Seq(ChunkStates)]]
    /\ blockMsgs \in [Layers -> [Positions -> Blocks \cup {NoBlock}]]
    /\ conn \in [Clients -> Connections]
    /\ view \in [Clients -> Views]
    /\ oldView \in [Clients -> Views]
    /\ layer \in [Clients -> Layers \cup {NoLayer}]
    /\ oldLayer \in [Clients -> Layers \cup {NoLayer}]
    /\ shown \in [Clients -> [Positions -> Blocks \cup {NoBlock}]]
    /\ phase \in Phases
    /\ todo \subseteq Clients
    /\ ops \in 0..OpsPerTick

NoMessages(none) == [l \in Layers |-> [p \in Positions |-> none]]

Init ==
    /\ chunk = [l \in Layers |-> [p \in Positions |-> Absent]]
    /\ stateMsgs = NoMessages(<<>>)
    /\ blockMsgs = NoMessages(NoBlock)
    /\ conn = [c \in Clients |-> "absent"]
    /\ view = [c \in Clients |-> SpawnView]
    /\ oldView = [c \in Clients |-> SpawnView]
    /\ layer = [c \in Clients |-> NoLayer]
    /\ oldLayer = [c \in Clients |-> NoLayer]
    /\ shown = [c \in Clients |-> [p \in Positions |-> NoBlock]]
    /\ phase = "eventLoop"
    /\ todo = {}
    /\ ops = 0

-----------------------------------------------------------------------------
\* ChunkLayer::chunk(pos) on the layer chunk_layers.get finds.
Present(l, p) == l \in Layers /\ chunk[l][p] # Absent

\* Mistakes of the kind the code could make are defined before what they would
\* replace; the runs must notice each of them.
ViewedSwapped(ch, n) == [ch EXCEPT !.viewers = @ - n]

\* inc_viewer_count and dec_viewer_count, n times: the counter is a u32.
Viewed(ch, n) == [ch EXCEPT !.viewers = (@ + n) % CounterWidth]

\* One call of user code or of a packet handler, in either open phase.
Call(kind) ==
    /\ kind \in Calls
    /\ phase \in {"eventLoop", "update"}
    /\ ops < OpsPerTick
    /\ ops' = ops + 1
    /\ UNCHANGED <<blockMsgs, oldView, oldLayer, schedule>>

\* The chunk c itself is leaving behind: c is without Client and the cleanup
\* of its chunks is still to come.
Unattended(c, l, p) ==
    conn[c] \in {"offline", "gone"} /\ layer[c] = l /\ p \in view[c]

\* VacantChunkEntry::insert: a new chunk, with no viewers yet.
InsertVacant(l, p) ==
    /\ Call("insert")
    /\ ~Present(l, p)
    /\ QuietLeave => \A c \in Clients : ~Unattended(c, l, p)
    /\ chunk' = [chunk EXCEPT ![l][p] =
           [viewers |-> 0, block |-> InsertedBlock, updates |-> NoBlock]]
    /\ stateMsgs' = [stateMsgs EXCEPT ![l][p] = Append(@, "LOAD")]
    /\ UNCHANGED <<conn, view, layer, shown>>

\* OccupiedChunkEntry::insert, through LoadedChunk::insert: new content,
\* recorded changes dropped, viewer_count kept.
InsertOccupied(l, p) ==
    /\ Call("overwrite")
    /\ Present(l, p)
    /\ chunk[l][p].viewers <= MaxReplaced
    /\ chunk' = [chunk EXCEPT ![l][p] =
           [@ EXCEPT !.block = InsertedBlock, !.updates = NoBlock]]
    /\ stateMsgs' = [stateMsgs EXCEPT ![l][p] = Append(@, "OVERWRITE")]
    /\ UNCHANGED <<conn, view, layer, shown>>

UnloadSilently(l, ps) ==
    /\ chunk' = [chunk EXCEPT ![l] =
           [p \in Positions |-> IF p \in ps THEN Absent ELSE @[p]]]
    /\ UNCHANGED <<stateMsgs, conn, view, layer, shown>>

\* Chunks leave the map, each with an UNLOAD message; their counts go with them.
Unload(l, ps) ==
    /\ chunk' = [chunk EXCEPT ![l] =
           [p \in Positions |-> IF p \in ps THEN Absent ELSE @[p]]]
    /\ stateMsgs' = [stateMsgs EXCEPT ![l] =
           [p \in Positions |-> IF p \in ps THEN Append(@[p], "UNLOAD") ELSE @[p]]]
    /\ UNCHANGED <<conn, view, layer, shown>>

\* remove_chunk, OccupiedChunkEntry::remove.
RemoveChunk(l, p) ==
    /\ Call("remove")
    /\ Present(l, p)
    /\ Unload(l, {p})

\* retain_chunks with the predicate of the terrain example, viewer_count > 0.
RetainViewed(l) ==
    /\ Call("retain")
    /\ Unload(l, {p \in Positions : Present(l, p) /\ chunk[l][p].viewers = 0})

\* OccupiedChunkEntry::remove_entry: the content is taken and the message sent,
\* but the entry is only borrowed (get_mut) and stays in the map.
RemoveEntry(l, p) ==
    /\ Call("removeEntry")
    /\ Present(l, p)
    /\ chunk' = [chunk EXCEPT ![l][p] =
           [@ EXCEPT !.block = InsertedBlock, !.updates = NoBlock]]
    /\ stateMsgs' = [stateMsgs EXCEPT ![l][p] = Append(@, "UNLOAD")]
    /\ UNCHANGED <<conn, view, layer, shown>>

RecordedAlways(ch, b) == b

\* A change is recorded only if somebody views the chunk.
Recorded(ch, b) == IF ch.viewers > 0 THEN b ELSE ch.updates

\* ChunkLayer::set_block, through LoadedChunk::set_block_state.
SetBlock(l, p, b) ==
    /\ Call("setBlock")
    /\ Present(l, p)
    /\ b # chunk[l][p].block
    /\ chunk' = [chunk EXCEPT ![l][p] =
           [@ EXCEPT !.block = b, !.updates = Recorded(chunk[l][p], b)]]
    /\ UNCHANGED <<stateMsgs, conn, view, layer, shown>>

-----------------------------------------------------------------------------
\* Position or ViewDistance of a client changes.
Move(c, v) ==
    /\ Call("move")
    /\ HasClient(c)
    /\ v # view[c]
    /\ view' = [view EXCEPT ![c] = v]
    /\ UNCHANGED <<world, conn, layer, shown>>

\* VisibleChunkLayer of a client changes.
Switch(c, l) ==
    /\ Call("switch")
    /\ HasClient(c)
    /\ l # layer[c]
    /\ layer' = [layer EXCEPT ![c] = l]
    /\ UNCHANGED <<world, conn, view, shown>>

\* spawn_new_clients spawns the entity; the client has no chunks yet.
Join(c) ==
    /\ Call("join")
    /\ phase = "eventLoop"
    /\ conn[c] = "absent"
    /\ conn' = [conn EXCEPT ![c] = "online"]
    /\ UNCHANGED <<world, view, layer, shown>>

\* User code inserts Despawned on a connected client.
DespawnClient(c) ==
    /\ Call("despawn")
    /\ conn[c] = "online"
    /\ conn' = [conn EXCEPT ![c] = "leaving"]
    /\ UNCHANGED <<world, view, layer, shown>>

\* Since the last PostUpdate the client moved or switched, or a chunk in its
\* view was inserted.
Disturbed(c) ==
    \/ view[c] # oldView[c]
    \/ layer[c] # oldLayer[c]
    \/ layer[c] \in Layers
       /\ \E p \in view[c] : Present(layer[c], p) /\ stateMsgs[layer[c]][p] # <<>>

\* The Client component is removed: run_event_loop found the connection closed,
\* or user code kicked the client.
Disconnect(c) ==
    /\ Call("disconnect")
    /\ conn[c] = "online"
    /\ QuietLeave => ~Disturbed(c)
    /\ conn' = [conn EXCEPT ![c] = "offline"]
    /\ UNCHANGED <<world, view, layer, shown>>

\* despawn_disconnected_clients, once per Update.
DespawnDisconnected ==
    /\ phase = "eventLoop"
    /\ phase' = "update"
    /\ conn' = [c \in Clients |-> IF conn[c] = "offline" THEN "gone" ELSE conn[c]]
    /\ UNCHANGED <<world, blockMsgs, view, oldView, layer, oldLayer, shown, todo, ops>>

-----------------------------------------------------------------------------
\* update_chunk_layers_pre_client: what was recorded becomes packets.  A chunk
\* nobody views has nothing recorded and is skipped.
PreClient ==
    /\ phase = "update"
    /\ phase' = "messages"
    /\ todo' = {c \in Clients : HasClient(c)}
    /\ blockMsgs' = [l \in Layers |-> [p \in Positions |->
           IF Present(l, p) /\ chunk[l][p].viewers > 0
           THEN chunk[l][p].updates ELSE NoBlock]]
    /\ chunk' = [l \in Layers |-> [p \in Positions |->
           IF Present(l, p) /\ chunk[l][p].viewers > 0
           THEN [chunk[l][p] EXCEPT !.updates = NoBlock] ELSE chunk[l][p]]]
    /\ UNCHANGED <<stateMsgs, entities, shown, ops>>

\* How the bytes of a ChangeChunkState message end tells what to do; a chunk
\* that came and went within the tick needs nothing.
Last(s) == s[Len(s)]

CameAndWentAny(s) == Len(s) > 1 /\ Last(s) = "UNLOAD"

CameAndWent(s) == Len(s) > 1 /\ s[1] = "LOAD" /\ Last(s) = "UNLOAD"
Loads(s) == s # <<>> /\ Last(s) \in {"LOAD", "OVERWRITE"}
Unloads(s) == s # <<>> /\ Last(s) = "UNLOAD" /\ ~CameAndWent(s)

\* What a client has at p after the messages of layer l there: PacketAt sorts
\* before ChangeChunkState, and a block update for a chunk that the client
\* does not have is ignored.
Told(l, p, before) ==
    IF Loads(stateMsgs[l][p]) THEN chunk[l][p].block
    ELSE IF Unloads(stateMsgs[l][p]) THEN NoBlock
    ELSE IF blockMsgs[l][p] # NoBlock /\ before # NoBlock THEN blockMsgs[l][p]
    ELSE before

\* handle_layer_messages for one client: the old layer's messages in its old view.
HandleMessages(c) ==
    LET l == oldLayer[c] IN
    /\ phase = "messages"
    /\ c \in todo
    /\ todo' = todo \ {c}
    /\ \/ /\ l = NoLayer
          /\ UNCHANGED <<chunk, shown>>
       \/ /\ l # NoLayer
          /\ shown' = [shown EXCEPT ![c] = [p \in Positions |->
                 IF p \in oldView[c] THEN Told(l, p, @[p]) ELSE @[p]]]
          /\ chunk' = [chunk EXCEPT ![l] = [p \in Positions |->
                 IF p \in oldView[c] /\ Loads(stateMsgs[l][p])
                 THEN Viewed(@[p], 1) ELSE @[p]]]
    /\ UNCHANGED <<stateMsgs, blockMsgs, entities, phase, ops>>

StartViews ==
    /\ phase = "messages"
    /\ todo = {}
    /\ phase' = "views"
    /\ todo' = {c \in Clients : HasClient(c)}
    /\ UNCHANGED <<world, blockMsgs, entities, shown, ops>>

-----------------------------------------------------------------------------
LeftNarrow(c) == oldView[c] \ view[c]
EnteredNarrow(c) == view[c] \ oldView[c]

\* The positions a client leaves and enters: all of its views if its layer
\* changed, and otherwise what old and new view do not share.
Left(c) == IF oldLayer[c] # layer[c] THEN oldView[c] ELSE oldView[c] \ view[c]
Entered(c) == IF oldLayer[c] # layer[c] THEN view[c] ELSE view[c] \ oldView[c]

Forgotten(c) == {p \in Left(c) : Present(oldLayer[c], p)}
Initialized(c) == {p \in Entered(c) : Present(layer[c], p)}

\* update_view_and_layers for one client.
UpdateView(c) ==
    /\ phase = "views"
    /\ c \in todo
    /\ todo' = todo \ {c}
    /\ chunk' = [l \in Layers |-> [p \in Positions |->
           IF l = oldLayer[c] /\ p \in Forgotten(c) THEN Viewed(chunk[l][p], -1)
           ELSE IF l = layer[c] /\ p \in Initialized(c) THEN Viewed(chunk[l][p], 1)
           ELSE chunk[l][p]]]
    /\ shown' = [shown EXCEPT ![c] = [p \in Positions |->
           IF p \in Initialized(c) THEN chunk[layer[c]][p].block
           ELSE IF p \in Forgotten(c) THEN NoBlock
           ELSE @[p]]]
    /\ oldLayer' = [oldLayer EXCEPT ![c] = layer[c]]
    /\ UNCHANGED <<stateMsgs, blockMsgs, conn, view, oldView, layer, phase, ops>>

StartCleanup ==
    /\ phase = "views"
    /\ todo = {}
    /\ phase' = "cleanup"
    /\ UNCHANGED <<world, blockMsgs, entities, shown, todo, ops>>

LeaversOld(l, p) == {c \in Clients : IsDespawned(c) /\ layer[c] = l /\ p \in oldView[c]}

\* cleanup_chunks_after_client_despawn: every despawned client leaves the chunks
\* of its present view in its present layer.
Leavers(l, p) == {c \in Clients : IsDespawned(c) /\ layer[c] = l /\ p \in view[c]}

Cleanup ==
    /\ phase = "cleanup"
    /\ phase' = "endTick"
    /\ chunk' = [l \in Layers |-> [p \in Positions |->
           IF Present(l, p) THEN Viewed(chunk[l][p], -Cardinality(Leavers(l, p)))
           ELSE Absent]]
    /\ UNCHANGED <<stateMsgs, blockMsgs, entities, shown, todo, ops>>

\* A keepalive without an answer, or a failed flush, removes the Client.
LateDisconnect(c) ==
    /\ "disconnect" \in Calls
    /\ phase = "endTick"
    /\ conn[c] = "online"
    /\ conn' = [conn EXCEPT ![c] = "offline"]
    /\ UNCHANGED <<world, blockMsgs, view, oldView, layer, oldLayer, shown, schedule, ops>>

\* update_chunk_layers_post_client and the systems that copy Position and
\* ViewDistance to their Old components; despawn_marked_entities in Last.
EndTick ==
    /\ phase = "endTick"
    /\ phase' = "eventLoop"
    /\ stateMsgs' = NoMessages(<<>>)
    /\ blockMsgs' = NoMessages(NoBlock)
    /\ conn' = [c \in Clients |-> IF IsDespawned(c) THEN "absent" ELSE conn[c]]
    /\ view' = [c \in Clients |-> IF IsDespawned(c) THEN SpawnView ELSE view[c]]
    /\ oldView' = view'
    /\ layer' = [c \in Clients |-> IF IsDespawned(c) THEN NoLayer ELSE layer[c]]
    /\ oldLayer' = [c \in Clients |-> IF IsDespawned(c) THEN NoLayer ELSE oldLayer[c]]
    /\ shown' = [c \in Clients |->
           IF IsDespawned(c) THEN [p \in Positions |-> NoBlock] ELSE shown[c]]
    /\ ops' = 0
    /\ UNCHANGED <<chunk, todo>>

-----------------------------------------------------------------------------
ChunkCall ==
    \E l \in Layers :
        \/ RetainViewed(l)
        \/ \E p \in Positions :
               \/ InsertVacant(l, p)
               \/ InsertOccupied(l, p)
               \/ RemoveChunk(l, p)
               \/ RemoveEntry(l, p)
               \/ \E b \in Blocks : SetBlock(l, p, b)

ClientCall ==
    \E c \in Clients :
        \/ \E v \in Views : Move(c, v)
        \/ \E l \in Layers : Switch(c, l)
        \/ Join(c)
        \/ DespawnClient(c)
        \/ Disconnect(c)
        \/ LateDisconnect(c)

SystemStep ==
    \/ DespawnDisconnected
    \/ PreClient
    \/ \E c \in Clients : HandleMessages(c)
    \/ StartViews
    \/ \E c \in Clients : UpdateView(c)
    \/ StartCleanup
    \/ Cleanup
    \/ EndTick

Next == ChunkCall \/ ClientCall \/ SystemStep

Spec == Init /\ [][Next]_vars

-----------------------------------------------------------------------------
\* At the end of a tick every connected client has exactly the chunks that are
\* in its view in its layer, with their present content: nothing missed while
\* chunks are loaded, unloaded, replaced and changed, and the client moves and
\* switches layers, in one and the same tick (client.rs:663-781, 933-1208).
ClientSeesView ==
    phase = "endTick" =>
        \A c \in Clients : conn[c] = "online" =>
            \A p \in Positions :
                shown[c][p] = IF p \in view[c] /\ Present(layer[c], p)
                              THEN chunk[layer[c]][p].block ELSE NoBlock

\* At the end of a tick the viewer count of a chunk is the number of clients
\* that have it in view, as its comment says (loaded.rs:34-36): no increment is
\* lost or repeated, no decrement wraps the counter.
Viewers(l, p) ==
    {c \in Clients : conn[c] \in {"online", "offline"} /\ layer[c] = l /\ p \in view[c]}

ViewerCountExact ==
    phase = "endTick" =>
        \A l \in Layers, p \in Positions : Present(l, p) =>
            chunk[l][p].viewers = Cardinality(Viewers(l, p))

\* A chunk without viewers has no recorded changes: the assertion that
\* update_pre_client makes before it skips the chunk (loaded.rs:237-242).
NoChangesUnviewed ==
    \A l \in Layers, p \in Positions :
        Present(l, p) /\ chunk[l][p].viewers = 0 => chunk[l][p].updates = NoBlock

\* A client that is told to load a chunk finds it in the layer: the expect of
\* handle_layer_messages (client.rs:762), which would stop the server.
LoadsFindChunks ==
    \A l \in Layers, p \in Positions : Loads(stateMsgs[l][p]) => Present(l, p)

\* The last byte of a ChangeChunkState message tells whether the chunk is there:
\* that expect, and the assertions beside it that a chunk a client is told to
\* forget, or need not load, is gone (client.rs:758, 769).
MessagesMatchChunks ==
    \A l \in Layers, p \in Positions :
        stateMsgs[l][p] # <<>> =>
            (Last(stateMsgs[l][p]) = "UNLOAD" <=> ~Present(l, p))

=============================================================================
