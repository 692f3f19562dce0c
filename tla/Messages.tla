-------------------------------- MODULE Messages --------------------------------
(***************************************************************************)
(* The message buffer of a layer and the bounding volume hierarchy in which*)
(* clients look for local messages                                         *)
(* (crates/chunkedge_server/src/layer/message.rs, layer/bvh.rs,            *)
(* chunk_view.rs).                                                         *)
(*                                                                         *)
(* During a tick messages are sent, each with bytes that go to one staging *)
(* buffer for both kinds.  At its end the messages are sorted, equal ones  *)
(* are merged, and the hierarchy is built over the local ones.  Then every *)
(* client takes the global messages and queries the local ones in its view.*)
(*                                                                         *)
(* A message is a number that stands for its place in the derived order, a *)
(* byte is the number of the send that wrote it.  A failing write leaves   *)
(* no bytes (PacketWriter truncates) and changes nothing.  The hierarchy   *)
(* is a function of the ready messages and no state of its own: before the *)
(* next ready nobody may query it.                                         *)
(***************************************************************************)
EXTENDS Integers, Sequences, FiniteSets, SequencesExt

CONSTANTS
    Globals,         \* how many different global messages there are
    At,              \* the chunk position of each local message, in their order
    MaxSurfaceArea,  \* MAX_SURFACE_AREA, 32
    ExtraRadius,     \* EXTRA_VIEW_RADIUS, 2
    Views,           \* the views of clients: [x, z, dist]
    MaxSends,        \* bound: the messages of a tick
    Apart            \* whether a message that repeats the last one of its kind
                     \* is only sent with nothing in between

ASSUME MessagesAssumption == Globals \in Nat /\ At \in Seq([x : Int, z : Int])
ASSUME ViewsAssumption ==
    /\ MaxSurfaceArea \in Nat \ {0} /\ ExtraRadius \in Nat
    /\ Views \subseteq [x : Int, z : Int, dist : Nat]
ASSUME SendsAssumption == MaxSends \in Nat /\ Apart \in BOOLEAN

VARIABLES
    global,   \* pairs of a message and a range of bytes
    local,
    staging,
    ready,
    isReady,
    sent      \* history: what was sent this tick

vars == <<global, local, staging, ready, isReady, sent>>

GlobalMsgs == 1..Globals
LocalMsgs == 1..Len(At)

Buffer == IF isReady THEN ready ELSE staging

Init ==
    /\ global = <<>>
    /\ local = <<>>
    /\ staging = <<>>
    /\ ready = <<>>
    /\ isReady = FALSE
    /\ sent = <<>>

-----------------------------------------------------------------------------
Repeats(msgs, m) == msgs # <<>> /\ Last(msgs).msg = m

\* Mistakes of the kind the code could make are defined before what they would
\* replace; the runs must notice each of them.
ExtendedNot(e, start, end) == e

\* The last message takes in the bytes of the same message sent again.
Extended(e, start, end) == [e EXCEPT !.to = end]

\* What a send does to the messages of their kind.
Sent(msgs, m, start, end) ==
    IF Repeats(msgs, m)
    THEN Append(Front(msgs), Extended(Last(msgs), start, end))
    ELSE Append(msgs, [msg |-> m, from |-> start, to |-> end])

Send(kind, msgs, m, size) ==
    /\ ~isReady
    /\ Len(sent) < MaxSends
    /\ Apart /\ Repeats(msgs, m) => Last(msgs).to = Len(staging)
    /\ staging' = staging \o [i \in 1..size |-> Len(sent) + 1]
    /\ sent' = Append(sent, [kind |-> kind, msg |-> m, size |-> size])
    /\ UNCHANGED <<ready, isReady>>

SendGlobal(m, size) ==
    /\ Send("global", global, m, size)
    /\ global' = Sent(global, m, Len(staging), Len(staging'))
    /\ UNCHANGED local

SendLocal(m, size) ==
    /\ Send("local", local, m, size)
    /\ local' = Sent(local, m, Len(staging), Len(staging'))
    /\ UNCHANGED global

-----------------------------------------------------------------------------
Bytes(buffer, e) == SubSeq(buffer, e.from + 1, e.to)

SortedUnstably(msgs, last) ==
    FlattenSeq([m \in 1..last |-> Reverse(SelectSeq(msgs, LAMBDA e : e.msg = m))])

\* sort_by_key, which is stable.
Sorted(msgs, last) ==
    FlattenSeq([m \in 1..last |-> SelectSeq(msgs, LAMBDA e : e.msg = m)])

\* dedup_by: the bytes of each message are copied behind those before it; an
\* equal message to the left takes them in.
Merge(acc, e) ==
    LET bytes == Bytes(staging, e)
        copied == acc.ready \o bytes
    IN [ready |-> copied,
        msgs  |-> IF Repeats(acc.msgs, e.msg)
                  THEN Append(Front(acc.msgs),
                              [Last(acc.msgs) EXCEPT !.to = @ + Len(bytes)])
                  ELSE Append(acc.msgs, [msg |-> e.msg, from |-> Len(acc.ready),
                                         to |-> Len(copied)])]

SortAndMerge(msgs, last, buffer) ==
    FoldLeft(Merge, [ready |-> buffer, msgs |-> <<>>], Sorted(msgs, last))

Ready ==
    LET globals == SortAndMerge(global, Globals, ready)
        locals == SortAndMerge(local, Len(At), globals.ready)
    IN
    /\ ~isReady
    /\ isReady' = TRUE
    /\ global' = globals.msgs
    /\ local' = locals.msgs
    /\ ready' = locals.ready
    /\ UNCHANGED <<staging, sent>>

Unready ==
    /\ isReady
    /\ isReady' = FALSE
    /\ local' = <<>>
    /\ global' = <<>>
    /\ staging' = <<>>
    /\ ready' = <<>>
    /\ sent' = <<>>

Next ==
    \/ \E m \in GlobalMsgs, size \in 0..1 : SendGlobal(m, size)
    \/ \E m \in LocalMsgs : SendLocal(m, 1)
    \/ Ready
    \/ Unready

Spec == Init /\ [][Next]_vars

-----------------------------------------------------------------------------
(***************************************************************************)
(* The hierarchy.  A box is [x1, z1, x2, z2]; a value is an entry of local.*)
(***************************************************************************)
X(v) == At[v.msg].x
Z(v) == At[v.msg].z

Lowest(S) == CHOOSE n \in S : \A k \in S : n <= k
Highest(S) == CHOOSE n \in S : \A k \in S : n >= k

\* value_bounds of the values from lo to hi.
Bounds(values, lo, hi) ==
    LET xs == {X(values[i]) : i \in lo..hi}
        zs == {Z(values[i]) : i \in lo..hi}
    IN [x1 |-> Lowest(xs), z1 |-> Lowest(zs), x2 |-> Highest(xs), z2 |-> Highest(zs)]

SurfaceArea(b) == ((b.x2 - b.x1) + (b.z2 - b.z1)) * 2

IntersectsInside(a, b) == a.x1 < b.x2 /\ a.x2 > b.x1 /\ a.z1 < b.z2 /\ a.z2 > b.z1

Intersects(a, b) == a.x1 <= b.x2 /\ a.x2 >= b.x1 /\ a.z1 <= b.z2 /\ a.z2 >= b.z1

\* middle: the division truncates.
Middle(a, b) == IF a + b >= 0 THEN (a + b) \div 2 ELSE -(-(a + b) \div 2)

\* On which side of the middle of the longer axis a value is.
High(b, v) ==
    IF b.x2 - b.x1 >= b.z2 - b.z1
    THEN X(v) >= Middle(b.x1, b.x2)
    ELSE Z(v) >= Middle(b.z1, b.z2)

SwappedTo(values, i, j) == [values EXCEPT ![i] = values[j]]

Swapped(values, i, j) == [values EXCEPT ![i] = values[j], ![j] = values[i]]

\* partition: the first of the values from lo to hi that is not high and the
\* last that is are swapped, until they meet.
RECURSIVE Partition(_, _, _, _)
Partition(values, b, lo, hi) ==
    LET lows == {i \in lo..hi : ~High(b, values[i])} IN
    IF lows = {} THEN values
    ELSE LET head == Lowest(lows)
             highs == {i \in head + 1..hi : High(b, values[i])}
         IN IF highs = {} THEN values
            ELSE Partition(Swapped(values, head, Highest(highs)), b,
                           head + 1, Highest(highs) - 1)

\* build_rec: a leaf, or a split into two halves that must not be empty.  The
\* halves are built one after the other, each rearranging its own values.
RECURSIVE Build(_, _, _)
Build(values, lo, hi) ==
    LET b == Bounds(values, lo, hi) IN
    IF SurfaceArea(b) <= MaxSurfaceArea
    THEN [values |-> values, node |-> [bounds |-> b, lo |-> lo, hi |-> hi]]
    ELSE LET parted == Partition(values, b, lo, hi)
             point == lo + Cardinality({i \in lo..hi : High(b, values[i])})
             left == Build(parted, lo, point - 1)
             right == Build(left.values, point, hi)
         IN [values |-> right.values,
             node |-> [bounds |-> b, left |-> left.node, right |-> right.node]]

\* ChunkView::contains and ChunkView::bounding_box.
Radius(view) == view.dist + ExtraRadius
InView(view, p) ==
    (p.x - view.x) * (p.x - view.x) + (p.z - view.z) * (p.z - view.z)
        <= Radius(view) * Radius(view)
Box(view) ==
    [x1 |-> view.x - Radius(view), z1 |-> view.z - Radius(view),
     x2 |-> view.x + Radius(view), z2 |-> view.z + Radius(view)]

\* query_rec: the values visited, in this order.
RECURSIVE Visited(_, _, _)
Visited(values, node, view) ==
    IF ~Intersects(node.bounds, Box(view)) THEN <<>>
    ELSE IF "left" \in DOMAIN node
    THEN Visited(values, node.left, view) \o Visited(values, node.right, view)
    ELSE SelectSeq(SubSeq(values, node.lo, node.hi),
                   LAMBDA v : InView(view, At[v.msg]))

\* query_local: build and query.
QueryLocal(view) ==
    IF local = <<>> THEN <<>>
    ELSE LET bvh == Build(local, 1, Len(local)) IN Visited(bvh.values, bvh.node, view)

-----------------------------------------------------------------------------
\* The bytes that were sent with message m, in the order in which they were.
BytesSent(kind, m) ==
    SelectSeq([i \in 1..Len(sent) |-> i],
              LAMBDA i : sent[i].kind = kind /\ sent[i].msg = m /\ sent[i].size > 0)

MsgsSent(kind) == {s.msg : s \in {e \in ToSet(sent) : e.kind = kind}}
Msgs(entries) == [i \in 1..Len(entries) |-> entries[i].msg]

\* A client finds each local message that was sent for a position in its view,
\* once, with exactly the bytes that were sent with it, in that order, and no
\* other: whatever is merged, and however the hierarchy is split
\* (message.rs:17-18, 217-219).
LocalExact ==
    isReady =>
        \A view \in Views :
            LET visited == QueryLocal(view) IN
            /\ IsInjective(Msgs(visited))
            /\ ToSet(Msgs(visited)) = {m \in MsgsSent("local") : InView(view, At[m])}
            /\ \A v \in ToSet(visited) : Bytes(ready, v) = BytesSent("local", v.msg)

\* Every client gets the global messages in their order, each once, with exactly
\* the bytes that were sent with it (message.rs:14-22).
GlobalExact ==
    isReady =>
        /\ \A i, j \in 1..Len(global) : i < j => global[i].msg < global[j].msg
        /\ ToSet(Msgs(global)) = MsgsSent("global")
        /\ \A e \in ToSet(global) : Bytes(ready, e) = BytesSent("global", e.msg)

\* A client finds the local messages of one chunk in their order: "Messages may
\* rely on sorted message order for correctness, like in the case of entity
\* spawn & despawn messages" (message.rs:23-24).
LocalInOrder ==
    isReady =>
        \A view \in Views :
            LET visited == QueryLocal(view) IN
            \A i, j \in 1..Len(visited) :
                i < j /\ At[visited[i].msg] = At[visited[j].msg] =>
                    visited[i].msg < visited[j].msg

=============================================================================
