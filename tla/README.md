# ChunkEdge: formal models

ChunkEdge is a Minecraft server framework in Rust on the Bevy ECS. This
directory holds TLA+ models of its core, TLC configurations that check them on
small instances and TLAPS proofs of what holds for every size. Paths below are
relative to `src/crates/` unless they start with `src/`.

## 1. Inventory

### Threads and the tick

There are three kinds of actors. The *game thread* runs one tick after the
other: `PreUpdate` (new clients are spawned), `RunEventLoop`, `Update` (user
systems), `PostUpdate` (layers and clients), `Last` (despawns). *Tokio tasks*
accept and log in connections; each client in the play state has a reader task
and a writer task. *Peers* send what they like. Systems over clients run in
parallel inside `PostUpdate` (`par_iter_mut`) and touch the chunks through
atomics.

### Components

| Component | State | Operations | Talks to | What makes it correct |
|---|---|---|---|---|
| Byte channel (`chunkedge_network/src/byte_channel.rs`) | buffer and flag under a mutex, a Notify | try_send, send_async, try_recv, recv_async, drops | game thread to writer task | a bounded FIFO stream; nothing lost, repeated or reordered by partial sends; queued bytes do reach the receiver |
| Play connection (`packet_io.rs`) | semaphore, flume queue, two tasks | reader loop, writer loop, try_recv, drop | socket, event loop | permits balance; packets once and in order; no wait that cannot end |
| Event loop (`chunkedge_server/src/event_loop.rs`) | `check_again` | passes over the clients, schedules | play connection, all packet handlers | handles what is pending, ends each tick, gives a client up only after its last packet |
| Chunk layers (`layer/chunk.rs`, `layer/chunk/loaded.rs`) | chunks, messages, viewer counts, recorded changes | insert, replace, remove, retain, set block, pre/post client | client systems | the count is the number of viewers; recorded changes reach every viewer |
| Client views (`client.rs`, `chunk_view.rs`) | position, view distance, layer, and their Old components | handle_layer_messages, update_view_and_layers, cleanup | layers, connection | a client has exactly the chunks in its view |
| Layer messages (`layer/message.rs`, `layer/bvh.rs`) | staging and ready bytes, ranges, a BVH | send, ready, query, unready | chunk and entity layers | a query yields each relevant message's bytes once, in order |
| Entity layers (`layer/entity.rs`) | entities per chunk | position and layer changes, despawns | client views | a client has exactly the entities in view on its layers |
| Chunk content (`layer/chunk/*.rs`) | sections, cached packets | set, fill | loaded chunks | the change list applied to the old content gives the new content |
| Acceptance and login (`connect.rs`, `lib.rs`) | permits, player count, bounded(64) channel | accept, handshake, status, login | event loop via spawn_new_clients | permits and player count are given back on every way out |
| Keepalive, teleport, movement, action (`keepalive.rs`, `teleport.rs`, `movement.rs`, `action.rs`) | ids and counters per client | send, confirm | event loop | a client that answers is not removed; both sides end up at one position; each action is acknowledged |
| Inventory (`chunkedge_inventory`) | slots, windows, state ids, cursor, marks of changed slots | clicks, drops, closing, resync, updates | event loop, client writes | no items come from clicks; client and server agree once nothing is on the way |
| Anvil, player list, boss bar, scoreboard, weather, world border, advancements, equipment, commands, registries | one resource or component set each | component change to packet | client writes | packets match the state |
| Protocol, NBT, binary, text, identifiers, java_string, generated code, macros, tools, extractor | none | encode, decode | all | round trips |

### Hard behaviour

Wakeups that get lost between a mutex and a Notify; batches split at a full
buffer; a semaphore whose permits are taken on one thread and given back on
another; removal of a client between two passes, or between a tick's systems;
chunks that come, go and are replaced in the tick in which a client moves,
switches layers or leaves; counters that wrap; a packet queued behind an abort;
a handshake cut off by its timeout at any await, holding a permit, a place among
the players or a client half sent; byte ranges into a buffer that two kinds of
messages share; an entity that changes layer, chunk and existence in one tick;
confirmations, moves and clicks made before the client knew what the server had
already changed.
`PROJECT.json` lists each hazard at its line, with the property that watches it
or the reason why none does yet.

## 2. Modules

| Module | What it is |
|---|---|
| `ByteChannel` | the byte channel, one action per locked section or await |
| `ByteStream` | what it promises: a bounded, closable FIFO stream |
| `MCByteChannel` | TLC instance, with the refinement mapping |
| `ByteChannelProofs` | its theorems |
| `ChunkViews` | chunk layers, viewer counts and client views over ticks |
| `MCChunkViews` | TLC instance |
| `ChunkViewsProofs` | its theorems |
| `PlayConnection` | reader and writer task, permits, packet queue, event loop, removal of clients |
| `MCPlayConnection` | TLC instance |
| `PlayConnectionProofs` | its theorems |
| `ConnectionLifecycle` | accept loop, handshakes under their timeout, login, channel of new clients, player count |
| `MCConnectionLifecycle` | TLC instance |
| `ConnectionLifecycleProofs` | its theorems |
| `ClientHandshakes` | teleports and moves, keepalives, acknowledged actions, with the client on the other end |
| `MCClientHandshakes` | TLC instance |
| `ClientHandshakesProofs` | its theorems |
| `EntityViews` | entity layers, their cells and messages, and what clients have of the entities |
| `MCEntityViews` | TLC instance |
| `EntityViewsProofs` | its theorems |
| `Messages` | the message buffer of a layer and the hierarchy over its local messages |
| `MCMessages` | TLC instance |
| `ClickValidation` | what the server makes of one click, as operators |
| `Inventories` | inventories, an open container, the cursor, and the client's copies of them |
| `MCInventories` | TLC instance |
| `InventoriesInvariants` | the invariant that makes `OwnAgrees` inductive |
| `InventoriesProofs` | its theorems |
| `SequenceFunctions` | sums and selections over sequences, as recursive functions |
| `SequenceFunctionsProofs` | lemmas about them, and about sums over finite sets |

### ByteChannel

`bytes` and `disconnected` are `Inner`; `sender`, `receiver` and `rest` are the
program counters and the local of the two handles' owners. Everything under the
mutex is one action. `unlocked` is the window after the mutex is released and
before `notified()` creates its future: `notify_waiters` does not reach it.
Cancellation of an async call is a drop of the handle while `waiting`. Bytes are
numbered, so that order and identity are visible; `offered`, `returned`,
`accepted` and `delivered` are history, and so is `missed`: the handles whose last
notification fell in their `unlocked` window. `DrainedUnlessMissed` says that what
is buffered or held by `send_async` is received in the end unless such a
notification was missed, so that no other path (a partial push, a retry, a drop)
loses a wakeup.

`ByteStream` knows neither mutex nor wakeups. `ImplementsStream` maps what was
accepted to its `sent`, what was delivered to `received`, and the flag to
`closed`.

### ChunkViews

The phases of a tick are those of `ClientPlugin::build`. Calls of user code
(insert, replace, remove, retain, set a block, move, switch, despawn,
disconnect) come in the event loop or in `Update`; in `PostUpdate` one action
per client stands for the body of a parallel system, in every order.
`stateMsgs` holds the bytes of a position's joined `ChangeChunkState` message;
`blockMsgs` the packet of the changes recorded. `shown` is what the peer has:
init packets set it, forget packets clear it, and a block update for a chunk it
does not have does nothing. Content is one block per chunk, which is enough to
tell a missed, repeated or misordered update. A view is a set of positions
(`ChunkView::iter`), the view difference a set difference.

`Calls` and `QuietLeave` select which calls the environment makes: the code's
answer to two of them is wrong (section 5), and the other runs show that nothing
else is. `QuietLeave` lets a client lose its connection only while its view is
at rest. `removeEntry` breaks `MessagesMatchChunks` in three steps (the entry
stays in the map although UNLOAD is sent, `layer/chunk.rs:732-744`); it is left
out of `chunkviews_exact` and of the theorem about that property, and present in
`chunkviews_assertions`.

### PlayConnection

Per client: `wire` (sent, not yet read), `reader` and `frame` (the reader task),
`permits`, `queue`, `client` (the component, and Despawned), `farewell` (how far
the disconnect packet has come). The game thread is `phase`, `todo`, `visited`,
`received`, `again` (`check_again`) and `removals` (the deferred commands). The
visit of a client takes three steps, because the reader goes on between
`try_recv`, `add_permits` and `len`. Between two passes the schedules run, in
which systems may remove or disconnect any client. `Dropped` is the drop of the
Client: flush, queue gone, tasks aborted; a reader that is past its await still
finishes its push, and finds the channel closed. A failing flush is a free
choice, since the amount of other output is not modelled. `due` is history: how
many packets of a client had been handled or were queued as the tick began, which
is what `QueuedHandledInTick` holds the passes of the tick to.

### ConnectionLifecycle

`task[c]` is the await at which the task of connection c is. `Then` lists the
awaits of `handle_status` and `handle_login` in order; `Proceed` is one of them
answered as it should be, `Fail` one that is answered otherwise or ends, and
`TimeOut` cuts any of them off. The steps that do more are actions of their own:
`LegacyPing`, `Intention`, `Login` (the callback takes a place or refuses),
`SendClient` (waits for room in the channel). `cleanups` are the
`CleanupOnDrop`s alive; whoever owns one at an await drops it on the way out.
`acceptor` is where the accept loop waits; its permit moves into the task.
`Spawning` is the loop of `spawn_new_clients`, which takes as many clients as
it counted when it began. What packets hold is left out, so that any answer of
a peer is possible anywhere.

### ClientHandshakes

The server's side is `position`, `syncedPos`, the two counters of
`TeleportState`, `KeepaliveState`, `ActionSequence`; a tick takes a `batch` of
packets through the event loop one by one, then user code, then the systems of
`PostUpdate` in any order. The client does what a vanilla client does: it goes
where a teleport puts it, confirms, repeats its position, answers keepalives,
acts and moves. `MoveEarly` lets user code set a position before `Update`, which
is the finding on `movement.rs:201`; the passing run has it off. Which packets of
a kind are under way, and in what order, is what `Selected` leaves of a line.

### EntityViews

`cells` is `EntityLayer::entities`; an entity's `pos`, `layer` and the two Old
components decide in `ChangePositions` (`change_entity_positions` and what
follows it up to `ready`) which cell it leaves and enters and what local
messages tell of it. `HandleMessages` is the entity part of
`handle_layer_messages` for one client, `UpdateView` that of
`update_view_and_layers`. `shown[c][e]` is where the peer has the entity: a spawn
sets it, a delta adds to it, a removal takes it away. `Avoided` names the three
pairs of calls on one thing in one tick that the code does not stand (section 5);
everything else that can happen to entities, layers and clients is there.

The messages of a layer come in the order of their kinds (removals, spawns,
packets) as long as its hierarchy is one leaf, that is, as long as the bounds of
their chunks have a surface area of `MaxSurfaceArea` at most. When it is split,
its partition swaps messages. `HandleMessages` then lets the packet of a movement
come before the spawn of its entity, for any of the entities of that layer
(`Overtaken`): the client ignores the packet, has the entity at its old position
(`Elsewhere`), and deltas keep it that far off until a packet with a position
puts it right. `ClientSeesEntities` allows for this where a split is possible at
all, and for nothing else: in whatever order, exactly the entities in view are
there. `EntitiesInPlace` does not allow for it.

### Messages

`staging`, `ready`, `global` and `local` are the fields of `Messages`; a byte
carries the number of the send that wrote it. `Ready` sorts, merges what is
equal, and moves the bytes of each range to the other buffer. The hierarchy is
computed from the ready messages when it is queried: `Partition`, `Build` and
`Visited` are `partition`, `build_rec` and `query_rec`, with the in-place swaps
and the division that truncates. `Apart` leaves out the sends that make two
ranges overlap (section 5). `EntityViews` takes from this module that a client
hears exactly the messages of its view, sorted by kind within a leaf.

### ClickValidation and Inventories

`ClickValidation` is `validate_click_slot_packet`: for each mode, when a
prediction is accepted, and what it makes of cursor and slots.

`inv[c]` holds a player's `Inventory` with its `changed` bits, the
`ClientInventoryState` (`touched` is `slots_changed`), the `OpenInventory`
(`boxTouched` is `client_changed`) and the `CursorItem`. The packet handlers are
`RefuseClick`, `DropCursor`, `ResyncClick`, `DropFromWindow`, `ApplyClick`,
`DropHeld`, `SwapHands` and `HandleClose`, one packet per pass of the event
loop. User code sets slots and the cursor, asks for a full update, opens and
closes the container, makes inventories read-only and despawns the container, at
once or by `Despawned`. `UpdateOwn`, `UpdateGone`, `UpdateNew` and `UpdateShown`
are one client's share of the systems of `PostUpdate`. `view[c]` is what the
client shows, with its own prediction of each click; it is external and modelled
from the packets in `src/`. Slot 0 stands for armour and crafting slots, the last
slot is the off hand, the main slots lie between. The packets of single slots that
one update writes are one message with a map of slots.

`Races` are the nine situations that leave a client with a wrong window, each
defined where `Avoided` takes it out of an action (section 5). "hurry" is a click
that follows a click or a swap of hands the server has not handled, or that the
client makes while contents are coming: the answers to refused clicks, and the
echo of the drop key, keep the state id, so that the later click is applied and
then undone at the client. Other packets may follow each other, and what the
server sends by itself may cross a click that is on its way, unless another of
the races excludes it. "thaw" is an inventory that becomes read-only, or no
longer is, while packets of its player are under way: of two drops the first is
then refused, with contents under the old state id, and the second applied.

## 3. Runs

| Run | Question | Bounds |
|---|---|---|
| `bytechannel_stream` | is the channel a bounded FIFO stream under every interleaving? | limit 3, batches up to 4, 6 bytes: a batch fits, fits in part, does not fit; the buffer fills and drains twice |
| `chunkviews_exact` | are counts and client views exact at the end of each tick? | 2 clients, 2 layers, 1 position in or out of view, 4 calls per tick: a chunk comes and goes while a client moves and switches |
| `chunkviews_assertions` | is the assertion on unviewed chunks safe under all calls, with counts that wrap? | 2 clients, 1 layer, counter of 4 values, 3 calls |
| `chunkviews_leave` | does a client that leaves in motion leave others intact? (no) | 2 clients, 2 positions, 3 calls |
| `play_eventloop` | once and in order, permits balanced? | 2 clients, 2 frames each, 2 permits |
| `play_backpressure` | does a tick handle what is queued and stay bounded, is every frame handled? | 1 client, 4 frames of cost 1, 2 or 4, 3 permits: a queue of three, a reader that queues more while the passes go on, a wait for permits, a frame that never fits |
| `lifecycle_admission` | do permits and places come back however a handshake ends, and does everybody get on? | 4 connections, 2 permits, 3 players, a channel of 2: connections wait for a permit, logins find the server full, clients wait for the channel |
| `handshakes_polite` | is no client removed for what it answers, and do both sides agree? | 2 places, counters of width 3, 2 keepalive ids, 2 actions, a move or turn only while nothing of the client's is on its way: two teleports under way, a counter that wraps, two actions handled in one tick and acknowledged by the last |
| `entityviews_exact` | has each client exactly the entities in its view? | a player and another entity, 2 layers, 4 positions in 3 chunks, view radius 1, 3 calls per tick, leaves of 2 chunks: moves within a chunk, to the next and past it, sent as delta or position, hierarchies of one leaf and split ones |
| `entityviews_panic` | does `send_entity_update_messages` find every entity? (no) | the same, with the code's leaves |
| `messages_exact` | does each client find each message meant for it, with its bytes? | 2 global and 5 local messages, 5 sends, the code's constants: a single leaf, a split along either axis, several messages on one chunk, views that touch a chunk or miss it by one |
| `inventories_agree` | do items stay and do both sides agree? | 1 client, 2 kinds of items in stacks of 2, a container of 1 slot, 1 main slot, 2 packets, 1 call of user code, in ticks without end |

Symmetry is used only where no temporal property is checked. `OpsPerTick`,
`MaxReplaced`, `MaxBytes`, `MaxBatch`, `MaxFrames`, `MaxActions`, `MaxSending`,
`MaxSends`, `MaxPackets` and `MaxCalls` are the bounds on unbounded inputs; they
stand in the guards of the environment's actions.

One position is enough for the first chunk run because no action relates two
positions except through the views, whose differences are taken position by
position: what can go wrong at a position depends on whether it was and is in
view, and both views that tell these apart are there. Four calls in a tick allow
load, unload and reload with a change of the view or of the layer.

A tick may handle up to twice the limit of a client, not once: the first packet
returns its permits before the pending packets are counted, and the reader can
use them. `TickBounded` states the bound that does hold.

Two entities are enough for the entity run, since no action relates two entities
but a client and what it sees; the theorems of `EntityViewsProofs` hold for any
number. One client is enough for the inventories, since clients meet in the
container only, and two viewers are the race "viewers". Two packets are enough
for a click that builds on the outcome of another, one call for a change that
crosses a click. `OwnAgrees` and `WindowAgrees` also pass on larger instances:
with two kinds of items and stacks of one, two packets and two calls, or one
packet and three calls; with one kind, two packets and two calls on stacks of
two, or three packets and two calls on stacks of one. `OwnAgrees` holds for any
number (section 4).

### Demonstrations

Configurations that are not runs show the other situations of section 5, or that
a guard of the environment is needed: `tlc -config X.cfg M` finds the property
of the configuration violated, except in the last two lines.

| Module | Configurations |
|---|---|
| `MCByteChannel` | `ByteChannel_wakeup` |
| `MCChunkViews` | `ChunkViews_overwrite` |
| `MCPlayConnection` | `PlayConnection_farewell` |
| `MCClientHandshakes` | `ClientHandshakes_lostmove` |
| `MCMessages` | `Messages_mixed`, `Messages_order` |
| `MCEntityViews` | `EntityViews_ghost`, `EntityViews_show`, `EntityViews_elsewhere` (holds with `MaxSurfaceArea = 32`) |
| `MCInventories` | `Inventories_viewers`, `Inventories_overwrite`, `Inventories_crossing`, `Inventories_split`, `Inventories_elsewhere`, `Inventories_hurry`, `Inventories_thaw` (ten minutes) |
| `MCInventories` | `Inventories_conserved`: items are conserved in all races but "split" (holds) |
| `MCInventories` | `Inventories_predicted`: the parts of the inductive invariant of `OwnAgrees` (hold) |

### Fairness

`ByteChannel`: the runtime polls ready tasks, and the writer task calls
`recv_async` again. Nothing obliges the game thread to send, or anyone to drop.
`PlayConnection`: the game thread runs one tick after the other
(`WF(GameStep)`), and the reader is polled (`WF(ReaderStep)`); peers, resets,
kicks, commands and the writer owe nothing. `ConnectionLifecycle`: the runtime
polls the accept loop and the tasks, timers expire and the game thread ticks,
all weakly fair; `Accept` is strongly fair, because `accept` may fail and send
the loop back for a permit any number of times but not for ever. Peers owe
nothing: that permits come back rests on the timeout. The other modules have no
liveness: a tick is a fixed sequence of systems.

## 4. Proofs

`ByteChannelProofs`: type correctness, `WithinLimit`, `FifoExact`, `Conserved`,
`StreamOrdered` and `AwakeUnlessMissed` for every limit, and that every step of the channel is a step
of `ByteStream` or a stutter. The invariant adds to these that
`send_async` holds bytes only while it is in a call (`RestInCall`), without
which `Conserved` is not inductive: a new call would overwrite the bytes. The
lemma `PushEffect` says what the locked section that both sending calls share
does to the buffer and the history. `StreamOrdered` needs more (`OrderInv`): what
was accepted and then what the call still holds ascend, and nothing in them is
beyond what was offered; so whatever comes next comes after them.
`AwakeUnlessMissed` is the safety half of `DrainedUnlessMissed`: a handle that
sleeps, or is about to, although there is something to take or room to push, has
missed a notification in its window.

`ChunkViewsProofs`: type correctness, `NoChangesUnviewed` and `LoadsFindChunks`
for every set of clients, layers and positions, every counter width and every
choice of calls, and `MessagesMatchChunks` when `remove_entry` is not called.
`LoadsFindChunks` (the `expect` of `handle_layer_messages` cannot fail) is
proved and no longer part of a run. `NoChangesUnviewed` is not inductive by
itself: a viewer that leaves may take the count to zero while a change is
recorded. The invariant adds that nothing is recorded from `PreClient` to the
end of the tick, which is where counts go down: so the assertion does not depend
on the counts being right.

`ViewerCountExact` and `ClientSeesView` are proved there for the calls that the
code stands (`CountsAreSafe`): clients leave with their view at rest, no chunk is
replaced, `remove_entry` is not called, and the counter has room for all clients.
Without one of the first three the code is wrong (section 5); the last is a `u32`
in the code. The invariant (`VInv`) follows each position through the tick.
`CountedIn` says of each phase which clients a chunk has counted: those with it
in the old view from the end of a tick to the messages, fewer or more while
`handle_layer_messages` and `update_view_and_layers` are half through the
clients. `LayersUpdated` and `UpToDate` say in the same way what a client has:
the chunk as it is, or as it was before the changes of the messages it has not
heard. The two need each other: a change is recorded only for a chunk whose count
is not zero, so that a client is behind by exactly the recorded changes only if
the counts include it.

`ConnectionLifecycleProofs`: type correctness, `PermitsExact`, `PlacesExact` and
`OneClientEach` for any finite set of connections and any limits. The invariant
adds that a connection in the backlog has no task yet and is there once
(`BacklogFresh`), that clients in the channel and in the world are distinct and
their handshakes are over (`ClientsApart`), and states the places as sets
(`Places`), so that the counting reduces to adding or removing one element.

`EntityViewsProofs`: `CellsExact` and `UpdatesFindEntities` for any entities,
layers and positions if no entity changes its layer and is despawned in one tick
(`LooksAreSafe`); `ClientSeesEntities` and type correctness for any number of
clients, any view radius and any order a split hierarchy has spawns and packets
in, if none of the three pairs is made; `EntitiesInPlace` if besides all chunks
fit one leaf. Until
`change_entity_positions` has run, the cells hold what the Old components name,
and what the components name from then on (`CInv`). `SInv` follows one client
through the tick: after the last tick it has what was in its old view on its old
layers (`Seen`), the messages are exactly what the changes of the entities call
for (`MessagesExact`), handling them leaves what is now in the old view, and the
update of the view what is in the new one. A packet can overtake a spawn only if
the hierarchy of the layer is split (`OvertakenWhen`), which it cannot be when all
chunks fit one leaf.

`PlayConnectionProofs`: type correctness, `PermitsConserved`, `HandledInOrder`,
`QueuedHandledInTick` and `TickBounded` for any clients, any limit and any
costs of packets. `Control` says which locals go with which states; without it the
permits of a frame held by a task that ended would count twice. Frames are
numbered through from those handled over the queue and the reader task to those
on the wire (`LineNumbered`), which is what makes the order inductive.
`Allowance` carries `TickBounded`: what a client has cost in this tick, and what
the packets counted in `check_again` will cost, is within twice the limit; it
rests on the permits, since a queue cannot hold more than the limit. `Due` carries
`QueuedHandledInTick`: what a client is still owed of the packets queued as the
tick began is in its queue, and no more than the passes to come will take of it;
a connection is given up only when nothing is owed.

`ClientHandshakesProofs`: type correctness, `UnconfirmedInOrder`, `PoliteStays`,
`ServerPrevails` and `ActionsAccounted` for any positions, any width of the
counters and any number of packets under way, and `PositionsAgree` when no user
code sets a position before `Update` (the finding on `movement.rs:201`). That a
client is never removed for what it answers, and for silence only if no answer was
in the queue as the tick began, rests on three parts of the invariant:
the confirmations under way are the pending teleports in order
(`UnconfirmedInOrder`), fewer are pending than the counter holds whenever another
may be sent (`Room`), and a keepalive or its answer is under way exactly while
the server waits for it (`KeepalivesMatch`). That positions agree rests on
`StepsEndHere`, the last move under way is to where the client is, and
`ServerPrevails`, moves that a teleport has overtaken are not taken.

`InventoriesProofs`: type correctness for any clients, sizes and stacks, whatever
of the races happens, and `ItemsConserved` when "split" does not. For the types
(`TInv`) what is under way and what the clients show must be typed too
(`TrafficOK`); in particular a click names the slots of a window that was open
when it was made (`ClickFits`), which need not be open any more. A container that
is opened is unknown to its client only until the end of the tick (`Opening`).
Items are sums over players and slots, and the theorem comes down to one click:
without "split" the handler sets all slots of the click or none (`AllOrNothing`),
and `Valid` implies that what the slots gain is what the cursor gives and what is
dropped (`ClickBalances`), for each mode and for the slots of both inventories
together. `SplitsApart` keeps a drag or double click that is under way from
meeting an inventory that became read-only after it was sent. The sums are
recursive functions on the subsets of a finite set, and the lemmas on them use
induction on subsets.

`OwnAgrees` is proved there for any number of clients, packets and calls, any
sizes and any stacks, if the five races are avoided that concern a client's own
window: "overwrite", "drop", "cursor", "hurry" and "thaw". It speaks of clients
that have never had a window open (the resync of the own window goes to the last
one, section 5), and of moments when nothing is under way; the proof has to speak
of all others. It compares two things that nobody has yet: what the client will
show when it has got all messages that are coming (`Shows` of `Coming`), and what
the server will have when it has come to all packets that are under way
(`HeldThen`: drops, then at most one click, or swaps alone). The invariant,
`OwnPredicted`, says that for slots that are not marked (`Due`) the client shows
what its last click has made of what the server will have, or else that click is
certain to be refused and the contents sent again (`Resends`: an old state id, or
a read-only inventory). The parts it rests on are in
`InventoriesInvariants`, one for each reason that the code has:

* `OwnComing`: state ids only go up on the way to the client, and strictly where
  single slots are sent, so that a click made before an update carries an older
  id than the server's;
* `OwnMarks`: which marks of `changed` and `slots_changed` can be there in each
  phase of the tick while packets are under way; a slot marked in both is one
  that the client knows;
* `OwnCursor` and `CursorsTold`: a cursor that is not marked is the one the
  client has been told (`client_updated_cursor_item`), if any;
* `OwnDrops`: drops are not checked against a state id, so no news of the stack
  in hand may cross them;
* `SlotsPredicted` and `KeyPredicted`: the prediction of a click, of which the
  drop key is the exception again, since its state id is not looked at.

The proof has a lemma for what each action does to these parts, stated in terms
of the record of one client, its view and the two queues (`OwnClicked`,
`OwnDropped`, `OwnKeyDropped`, `OwnTold` and so on), one that ties it to the
action of `Inventories` (`ClientClicksOwn`, `ApplyClickOwn`, `UpdateOwnOwn`), and
one each for what the other clients and user code do meanwhile (`ClientOthers`,
`UserOwn`). It also showed that the conditions the model had first were too weak:
the counterexamples need two calls of user code, or two packets and a window that
opens, and were beyond the bounds of the run (section 5, the last point on
inventories).

`SequenceFunctionsProofs` has what `PlayConnectionProofs`,
`ClientHandshakesProofs` and `InventoriesProofs` share. The library's rules for
induction and for recursive functions take operators, which the provers cannot
instantiate; `Total` and `Selected` are recursive functions on `0..Len(s)`
instead, and their equations and the facts about `Append`, `Tail` and `\o` are
derived by taking the least element of the set of indices where they fail.

The assumptions are those on the constants, named in the modules and evaluated
by TLC; each only says what kind of value a constant is, and the conditions on
`Avoided` and `Calls` stand in the theorems. Model-checked only are `Messages`,
whose hierarchy is recursive as `build_rec` and `query_rec` are and so outside of
what the provers can use, and `WindowAgrees` of `Inventories`. The latter needs an
invariant like that of `OwnAgrees` for the slots of the container, whose marks
belong to the container and not to the viewer, and for the interval in which a
window has been opened on one side only. Liveness (all temporal properties
of `ByteChannel`, `PlayConnection` and `ConnectionLifecycle`) is out of the
prover's reach and stays with TLC.

## 5. Where code and text part

* `recv_async` can sleep on queued bytes until the next send, against "the data
  should be sent as soon as possible" (`chunkedge_server/src/client.rs:256-257`).
* A replaced chunk counts its viewers twice, against "A count of the clients
  viewing this chunk" (`layer/chunk/loaded.rs:34`). It then never falls to zero:
  changes are recorded and the chunk is kept for nobody.
* A client that loses its connection in a tick in which it moved, switched
  layers or had a chunk inserted in view takes viewers away from chunks that
  never counted it. Another viewer misses changes, or the count wraps.
* `DisconnectClient`'s packet is only queued when the end of the tick drops the
  connection and aborts the writer, against "this way, the packets have time to
  be sent" (`client.rs:429-430`).
* `remove_entry` leaves the chunk in the map (see ChunkViews above).
* An entity whose layer changes in the tick in which it is despawned stays in the
  old layer's cell, and in the same tick `send_entity_update_messages`, whose query
  leaves out what is despawned (`layer/entity.rs:474`), stops the server with "was
  not properly removed from entity layer" (`layer/entity.rs:388`, run
  `entityviews_panic`).
* An entity that changes layer and chunk in one tick can become a ghost or stay
  unseen for a client that sees both layers (`layer/entity.rs:414`). A layer that
  becomes visible in the tick in which it is despawned stays visible
  (`client.rs:784`).
* Repeated global or local messages with messages of the other kind in between
  take in the others' bytes (`layer/message.rs:63`, `88`). When the hierarchy
  splits, messages of one chunk can be out of order (`layer/bvh.rs:270`): the packet
  of a movement before the spawn of its entity, which then stays at its old
  position for the client (`EntityViews_elsewhere`), against "Messages may rely on
  sorted message order for correctness" (`layer/message.rs:23`).
* A move without a position marks a position set before it as known to the client
  (`movement.rs:201`). A confirmation while nothing is pending decrements the
  count below zero (`teleport.rs:140`).
* `player_count` counts logins from their callback on, not "clients in the play
  state" (`chunkedge_network/src/lib.rs:196`).
* Two viewers of a container: only the first is told of changes
  (`chunkedge_inventory/src/lib.rs:794`, "to all clients that are viewing an
  inventory").
* A slot that the client has changed and user code, or the swap of hands, changes
  again in the same tick is not sent (`lib.rs:649`).
* Slot updates in an open window do not raise the state id, so that a click that
  crosses one is not refused for it (`lib.rs:771`). Neither do the answers to a
  refused click or the echo of an accepted drop key: a click already on its way
  is applied, and undone at the client (`lib.rs:912`, `lib.rs:1001`).
* Slots outside of an open window are cleared unsent or sent under a number
  outside of it (`lib.rs:749`); a resync of the own window goes to the window that
  was open last (`lib.rs:1204`).
* A drag or double click over two inventories of which one is read-only creates
  or destroys items (`lib.rs:1151`), against "Check that items aren't being
  duplicated" (`validate.rs:132`).
* A right click outside drops the whole cursor (`lib.rs:930`); the resync of a
  read-only inventory after a drop says the cursor is empty (`lib.rs:1284`).
* Four sequences that no single bound of the runs contains, met in the proof of
  `OwnAgrees` and taken into the races. Contents that answer a refused drop keep
  the state id, so that an inventory that is read-only for the first of two drops
  only leaves the client with an item too many or too few
  (`lib.rs:1284`, "thaw"). When the container of an open window
  despawns in the tick in which user code changes the player's slots,
  `update_open_inventories` closes the window after `update_player_inventories`
  has passed over the player: the marks stay for the next tick, in which a drop
  or click may mark the slot as the client's own and so keep the change unsent
  (`lib.rs:695`, "overwrite"); the same with a full update instead of a slot. A
  drop or swap of hands under way when a window opens leaves the cursor wrong
  ("reopen").
* Two met in reading only: the Velocity version check is inverted
  (`connect.rs:696`), and statuses are counted by bytes, not bits
  (`chunkedge_entity/src/query.rs:153`).

## 6. Not modelled, and what could follow

What remains of the code falls into four parts.

* Pure conversions: protocol packets, NBT, text, identifiers, Java strings,
  commands, anvil parsing. Most of the lines of the repository are these,
  together with generated tables, macros, examples and tools. They are functions
  of their input with unit and property tests, no state and no interleaving; a
  model would only repeat them.
* Small systems that turn one component change into one packet (weather, world
  border, equipment, abilities, resource packs, titles): nothing relates two of
  their states.
* Floating-point geometry (spatial index, world border) and authentication,
  encryption and HTTP: out of TLC's reach, or outside of the repository.
* Candidates: the content of loaded chunks (paletted containers and cached init
  packets against a plain array), region file sectors of the anvil crate, tracked
  data of entities, player list and scoreboard over several ticks.

Proofs that could follow: `WindowAgrees` of `Inventories`, and `LocalExact` and
`GlobalExact` of `Messages`, once its hierarchy is stated without recursive
operators.
