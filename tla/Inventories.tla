----------------------------- MODULE Inventories -----------------------------
(***************************************************************************)
(* The inventories of players and a container they open, and how clients   *)
(* are kept up to date with them (crates/chunkedge_inventory/src/lib.rs).  *)
(*                                                                         *)
(* A client predicts what its clicks do and sends the prediction; the      *)
(* server checks it (ClickValidation), applies it or sends the contents    *)
(* again.  A tick has the passes of the event loop with one packet each,   *)
(* user code that changes anything, and the systems of PostUpdate that     *)
(* tell the clients.  Packets are flushed at the end of the tick, and both *)
(* directions keep their order, so clicks are made in windows that the     *)
(* server has changed in the meantime.                                     *)
(*                                                                         *)
(* The client is external: it is modelled from the packets that src/       *)
(* writes and expects, with one cursor, and a state id for each window.    *)
(***************************************************************************)
EXTENDS ClickValidation, Sequences

CONSTANTS
    Clients,
    Box,          \* the container
    NotTold,      \* None of client_updated_cursor_item
    BoxSize,      \* slots of the container
    Main,         \* main slots of a player, the first of them in hand
    MaxPackets,   \* bound: packets the clients send
    MaxCalls,     \* bound: calls of user code
    Avoided       \* what players and user code do not do, of Races

ASSUME ClientsAssumption == IsFiniteSet(Clients)

ASSUME NotToldAssumption == NotTold \notin Stacks

ASSUME SizesAssumption == BoxSize \in 1..(Main + 2) /\ Main \in Nat \ {0}

\* What leaves a client with a wrong window:
\*   "viewers"    two clients have the container open
\*   "overwrite"  user code sets, or the swap of hands, a slot the client has changed in the tick
\*   "reopen"     a window is opened while packets from before are coming
\*   "crossing"   user code sets a slot of the open window and a click crosses the news
\*   "drop"       the item in hand is dropped while it is being changed
\*   "split"      a drag or double click meets a read-only inventory
\*   "cursor"     user code sets the cursor and packets cross the news
\*   "hurry"      a click follows a click or swap not yet handled, or contents are coming
\*   "thaw"       an inventory becomes read-only, or no longer is, while packets are coming
Races == {"viewers", "overwrite", "reopen", "crossing", "drop", "split", "cursor", "hurry", "thaw"}

ASSUME AvoidedAssumption == Avoided \subseteq Races

\* Slot 0 stands for armour and crafting, the last one is the off hand.
FirstMain == 1
OffHand == Main + 1
OwnSlots == 0..OffHand
MainSlots == FirstMain..Main
BoxSlots == 0..(BoxSize - 1)

\* changed = u64::MAX: all bits, more than there are slots.
AllBits == 0..(OffHand + 1)

VARIABLES
    inv,        \* per client: Inventory, ClientInventoryState, OpenInventory, CursorItem
    box,        \* Inventory of the container
    readonly,   \* the read-only ones of Clients \cup {Box}
    dropped,    \* items in DropItemStackEvents
    view,       \* what the client shows
    toServer,
    toClient,
    out,        \* written to the client, not yet flushed
    phase,
    todo,       \* clients that PostUpdate has still to come to
    supplied,   \* history: items that user code has put into the system
    packets,
    calls

serverVars == <<inv, box, readonly, dropped>>
bounds == <<packets, calls>>
vars == <<inv, box, readonly, dropped, view, toServer, toClient, out, phase, todo,
          supplied, packets, calls>>

-----------------------------------------------------------------------------
\* Windows.  In an open window the slots of the container come first, then
\* the main slots of the player (convert_to_player_slot_id).

PlayerSlot(i) == i - BoxSize + FirstMain
WindowSlot(j) == j - FirstMain + BoxSize

Window(isOpen, own, boxSlots) ==
    IF isOpen
    THEN [i \in 0..(BoxSize + Main - 1) |->
             IF i \in BoxSlots THEN boxSlots[i] ELSE own[PlayerSlot(i)]]
    ELSE own

IsOpen(c) == inv[c].open # "none"

\* The container that c has open is still there: handlers of packets may come to
\* it between its end and the PostUpdate that finds it gone.
HasBox(c) == IsOpen(c) /\ box.life # "gone"

InBox(c, i) == IsOpen(c) /\ i \in BoxSlots

ServerWindow(c) == Window(HasBox(c), inv[c].slots, box.slots)

\* The number of the player's slot j in the window the client has open.
Index(c, j) == IF IsOpen(c) THEN WindowSlot(j) ELSE j

ItemsIn(slots) == SumFunction([i \in DOMAIN slots |-> slots[i].count])

\* Items there are, but for the dropped ones.
Items ==
    SumFunction([c \in Clients |-> ItemsIn(inv[c].slots) + inv[c].cursor.count]) + ItemsIn(box.slots)

-----------------------------------------------------------------------------
\* Packets to the client.

Content(win, sid, slots, carried) ==
    [type |-> "content", win |-> win, sid |-> sid, slots |-> slots, carried |-> carried]
\* One packet for each slot, all of them together.
SlotUpdates(win, sid, stacks) ==
    [type |-> "slots", win |-> win, sid |-> sid, stacks |-> stacks]
CursorUpdate(stack) == [type |-> "cursor", stack |-> stack]
OpenScreen(win) == [type |-> "screen", win |-> win]
CloseScreen == [type |-> "close"]

OwnContent(s) == Content(0, s.sid, s.slots, s.cursor)
BoxContent(s, slots) == Content(s.win, s.sid, slots, s.cursor)

\* A mistake the run must notice: the open window is forgotten.
ResyncOwn(c, s) == OwnContent(s)

\* The contents sent again after a click that is refused: those of the
\* container when one is open, or those of the player.
Resync(c, s) == IF HasBox(c) THEN BoxContent(s, box.slots) ELSE OwnContent(s)

-----------------------------------------------------------------------------
Fresh ==
    [slots |-> [i \in OwnSlots |-> Empty], changed |-> {}, touched |-> {},
     cursor |-> Empty, cursorChanged |-> FALSE, told |-> NotTold,
     open |-> "none", boxTouched |-> {}, closed |-> FALSE, win |-> 0, sid |-> 0]

\* A client with the window open, and nothing on the way.
Opened == [Fresh EXCEPT !.open = "shown", !.win = 1]

Held(s, stack) == [s EXCEPT !.slots[FirstMain] = stack]

\* What is in hand and in the container has been put there before, and somebody
\* may have opened it.
Init ==
    /\ \E held \in [Clients -> Stacks], opened \in {{}} \cup {{c} : c \in Clients} :
          inv = [c \in Clients |-> Held(IF c \in opened THEN Opened ELSE Fresh, held[c])]
    /\ box \in [slots : [BoxSlots -> Stacks], changed : {{}}, life : {"there"}]
    /\ readonly = {}
    /\ dropped = 0
    /\ view = [c \in Clients |->
                  [win |-> inv[c].win, ownSid |-> 0, boxSid |-> 0, cursor |-> Empty,
                   own |-> inv[c].slots,
                   box |-> IF IsOpen(c) THEN box.slots ELSE [i \in BoxSlots |-> Empty]]]
    /\ toServer = [c \in Clients |-> <<>>]
    /\ toClient = [c \in Clients |-> <<>>]
    /\ out = [c \in Clients |-> <<>>]
    /\ phase = "idle"
    /\ todo = {}
    /\ supplied = Items
    /\ packets = 0
    /\ calls = 0

-----------------------------------------------------------------------------
(***************************************************************************)
(* The client (external).  A click, by what it predicts: the slots after   *)
(* it, and the cursor.                                                     *)
(***************************************************************************)

Click(mode, button, at, after, carried) ==
    [mode |-> mode, button |-> button, at |-> at, after |-> after, carried |-> carried]

\* What is in one slot, or two, after a click.
In(i, stack) == [k \in {i} |-> stack]
InBoth(i, stack, j, other) == [k \in {i, j} |-> IF k = i THEN stack ELSE other]

\* As many items as fit of n onto a stack.
Fit(n, stack) == IF n <= MaxStack - stack.count THEN n ELSE MaxStack - stack.count

Stackable(stack, onto) == onto = Empty \/ onto.item = stack.item

LeftClick(window, cursor, i) ==
    LET n == Fit(cursor.count, window[i])
    IN  IF cursor # Empty /\ window[i].item = cursor.item
        THEN Click("Click", 0, i, In(i, WithCount(cursor, window[i].count + n)),
                   WithCount(cursor, cursor.count - n))
        ELSE Click("Click", 0, i, In(i, cursor), window[i])

RightClick(window, cursor, i) ==
    LET half == (window[i].count + 1) \div 2
    IN  CASE cursor = Empty ->
                Click("Click", 1, i, In(i, WithCount(window[i], window[i].count - half)),
                      WithCount(window[i], half))
          [] cursor # Empty /\ Stackable(cursor, window[i]) ->
                LET n == Fit(1, window[i])
                IN  Click("Click", 1, i, In(i, WithCount(cursor, window[i].count + n)),
                          WithCount(cursor, cursor.count - n))
          [] OTHER -> Click("Click", 1, i, In(i, cursor), window[i])

ShiftClicks(window, cursor, i) ==
    LET Part(k) == k \in BoxSlots
        n(k) == Fit(window[i].count, window[k])
    IN  {Click("ShiftClick", 0, i,
               InBoth(i, WithCount(window[i], window[i].count - n(k)),
                      k, WithCount(window[i], window[k].count + n(k))), Empty) :
            k \in {k \in DOMAIN window :
                      /\ cursor = Empty /\ window[i] # Empty
                      /\ Part(k) # Part(i) /\ Stackable(window[i], window[k])}}

HotbarSwaps(window, cursor, i, hand) ==
    {Click("Hotbar", 0, i, InBoth(i, window[hand], hand, window[i]), Empty) :
        k \in {k \in {hand} : cursor = Empty /\ i # hand}}

DropKeys(window, cursor, i) ==
    {Click("DropKey", all, i,
           In(i, WithCount(window[i], IF all = 1 THEN 0 ELSE window[i].count - 1)), Empty) :
        all \in {all \in 0..1 : cursor = Empty /\ window[i] # Empty}}

Drags(window, cursor) ==
    {Click("Drag", 2, Outside, [i \in D |-> WithCount(cursor, window[i].count + 1)],
           WithCount(cursor, cursor.count - Cardinality(D))) :
        D \in {D \in SUBSET DOMAIN window :
                  /\ Cardinality(D) \in 2..cursor.count
                  /\ \A i \in D : Stackable(cursor, window[i]) /\ window[i].count < MaxStack}}

DoubleClicks(window, cursor, i) ==
    LET n == Fit(window[i].count, cursor)
    IN  {Click("DoubleClick", 0, i, In(i, WithCount(cursor, window[i].count - n)),
               WithCount(cursor, cursor.count + n)) :
            k \in {k \in {i} : cursor # Empty /\ window[i].item = cursor.item /\ n > 0}}

ClicksOutside(cursor) ==
    {Click("Click", one, Outside, <<>>, WithCount(cursor, IF one = 1 THEN cursor.count - 1 ELSE 0)) :
        one \in {one \in 0..1 : cursor # Empty}}

\* Everything a player can do in a window.  There are shift clicks from one
\* part to the other only, so only where there are two; a full shift click or
\* double click over several slots is several of them.
Clicks(isOpen, window, cursor) ==
    ClicksOutside(cursor) \cup Drags(window, cursor)
    \cup UNION {   {LeftClick(window, cursor, i), RightClick(window, cursor, i)}
              \cup HotbarSwaps(window, cursor, i, IF isOpen THEN WindowSlot(FirstMain) ELSE FirstMain)
              \cup DropKeys(window, cursor, i)
              \cup DoubleClicks(window, cursor, i)
              \cup (IF isOpen THEN ShiftClicks(window, cursor, i) ELSE {}) : i \in DOMAIN window}

ViewOpen(c) == view[c].win # 0

ViewWindow(c) == Window(ViewOpen(c), view[c].own, view[c].box)

ViewIndex(c, j) == IF ViewOpen(c) THEN WindowSlot(j) ELSE j

\* The packet of a click: only what changes, with the last state id of the window.
ClickPacket(c, click) ==
    [type |-> "click", win |-> view[c].win,
     sid |-> IF ViewOpen(c) THEN view[c].boxSid ELSE view[c].ownSid,
     mode |-> click.mode, button |-> click.button, at |-> click.at,
     changes |-> RestrictDomain(click.after, LAMBDA i : click.after[i] # ViewWindow(c)[i]),
     carried |-> click.carried]

Predicted(c, click) ==
    [view[c] EXCEPT
        !.cursor = click.carried,
        !.own = [j \in OwnSlots |->
                    IF /\ ViewIndex(c, j) \in DOMAIN click.after
                       /\ ~(ViewOpen(c) /\ ViewIndex(c, j) \in BoxSlots)
                    THEN click.after[ViewIndex(c, j)] ELSE @[j]],
        !.box = [i \in BoxSlots |->
                    IF ViewOpen(c) /\ i \in DOMAIN click.after THEN click.after[i] ELSE @[i]]]

\* A click that spreads or collects over the slots of an open window.
Splits(p) == p.type = "click" /\ p.win # 0 /\ p.mode \in {"Drag", "DoubleClick"}

OnTheWay(queue, P(_)) == \E k \in DOMAIN queue : P(queue[k])

Send(c, p) ==
    /\ packets < MaxPackets
    /\ packets' = packets + 1
    /\ toServer' = [toServer EXCEPT ![c] = Append(@, p)]
    /\ UNCHANGED <<serverVars, toClient, out, phase, todo, supplied, calls>>

IsClick(p) == p.type = "click"
IsDrop(p) == p.type = "drop"

\* A packet of type t that the client has still to receive.
Untold(c, t) ==
    \E k \in DOMAIN toClient[c] : OnTheWay(toClient[c][k], LAMBDA m : m.type = t)

ClientClicks(c) ==
    /\ phase = "idle"
    /\ \E click \in Clicks(ViewOpen(c), ViewWindow(c), view[c].cursor) :
          /\ "cursor" \in Avoided => ~Untold(c, "cursor")
          /\ "crossing" \in Avoided /\ ViewOpen(c) => ~Untold(c, "slots")
          /\ "hurry" \in Avoided =>
                ~OnTheWay(toServer[c], LAMBDA p : p.type \in {"click", "swap"}) /\ ~Untold(c, "content")
          /\ "split" \in Avoided /\ readonly # {} => ~Splits(ClickPacket(c, click))
          /\ view' = [view EXCEPT ![c] = Predicted(c, click)]
          /\ Send(c, ClickPacket(c, click))

ClientCloses(c) ==
    /\ phase = "idle"
    /\ ViewOpen(c)
    /\ view' = [view EXCEPT ![c].win = 0]
    /\ Send(c, [type |-> "close"])

\* The drop key without a window: one item of the stack in hand, or all.  The
\* client takes them away itself.
ClientDrops(c) ==
    /\ phase = "idle"
    /\ ~ViewOpen(c) /\ view[c].cursor = Empty
    /\ view[c].own[FirstMain] # Empty
    /\ "drop" \in Avoided =>
          toClient[c] = <<>> /\ ~OnTheWay(toServer[c], LAMBDA p : p.type \in {"click", "swap"})
    /\ \E all \in BOOLEAN :
          /\ view' = [view EXCEPT ![c].own[FirstMain] =
                         WithCount(@, IF all THEN 0 ELSE @.count - 1)]
          /\ Send(c, [type |-> "drop", all |-> all])

\* The key that swaps hands: the client waits for the server.
ClientSwapsHands(c) ==
    /\ phase = "idle"
    /\ ~ViewOpen(c) /\ view[c].cursor = Empty
    /\ "overwrite" \in Avoided => ~OnTheWay(toServer[c], LAMBDA p : p.type \in {"click", "drop"})
    /\ "cursor" \in Avoided => ~Untold(c, "cursor")
    /\ "hurry" \in Avoided => ~Untold(c, "content")
    /\ UNCHANGED view
    /\ Send(c, [type |-> "swap"])

Updated(slots, stacks) ==
    [i \in DOMAIN slots |-> IF i \in DOMAIN stacks THEN stacks[i] ELSE slots[i]]

\* What packets about slots of a window say of the player's.
MainStacks(stacks) ==
    [j \in {j \in MainSlots : WindowSlot(j) \in DOMAIN stacks} |-> stacks[WindowSlot(j)]]

\* A packet for a window that is not shown is ignored, except for the own one,
\* whose slots are there all the time.
Shown(v, m) ==
    CASE m.type = "content" /\ m.win = 0 ->
            [v EXCEPT !.own = m.slots, !.ownSid = m.sid, !.cursor = m.carried]
      [] m.type = "content" /\ m.win # 0 /\ m.win = v.win ->
            [v EXCEPT !.box = m.slots, !.boxSid = m.sid, !.cursor = m.carried]
      [] m.type = "slots" /\ m.win = 0 ->
            [v EXCEPT !.own = Updated(@, m.stacks), !.ownSid = m.sid]
      [] m.type = "slots" /\ m.win # 0 /\ m.win = v.win ->
            [v EXCEPT !.own = Updated(@, MainStacks(m.stacks)),
                      !.box = Updated(@, Restrict(m.stacks, BoxSlots \cap DOMAIN m.stacks)),
                      !.boxSid = m.sid]
      [] m.type = "cursor" -> [v EXCEPT !.cursor = m.stack]
      [] m.type = "screen" -> [v EXCEPT !.win = m.win, !.box = [i \in BoxSlots |-> Empty]]
      [] m.type = "close"  -> [v EXCEPT !.win = 0]
      [] OTHER -> v

\* What the client shows after the first 0, 1, 2 ... of some packets.
Showing(v, msgs) ==
    LET seen[k \in 0..Len(msgs)] == IF k = 0 THEN v ELSE Shown(seen[k - 1], msgs[k])
    IN  seen

\* What a tick has flushed is handled before the player goes on.
ClientReceives(c) ==
    /\ phase = "idle"
    /\ toClient[c] # <<>>
    /\ LET msgs == Head(toClient[c])
       IN  view' = [view EXCEPT ![c] = Showing(@, msgs)[Len(msgs)]]
    /\ toClient' = [toClient EXCEPT ![c] = Tail(@)]
    /\ UNCHANGED <<serverVars, toServer, out, phase, todo, supplied, bounds>>

-----------------------------------------------------------------------------
(***************************************************************************)
(* The server: one packet in a pass of the event loop.                     *)
(***************************************************************************)

\* A packet of type t from c, taken from its queue.
Takes(c, t) ==
    /\ phase \in {"idle", "packets"}
    /\ phase' = "packets"
    /\ toServer[c] # <<>>
    /\ Head(toServer[c]).type = t
    /\ toServer' = [toServer EXCEPT ![c] = Tail(@)]
    /\ UNCHANGED <<readonly, view, toClient, todo, supplied, bounds>>

Write(c, msgs) == out' = [out EXCEPT ![c] = @ \o msgs]

\* Inventory::replace_slot: a slot is marked when its stack changes.
SetSlots(s, slots) ==
    [s EXCEPT !.slots = slots, !.changed = @ \cup {i \in DOMAIN slots : slots[i] # s.slots[i]}]

\* The window id fits and the prediction is one the server agrees with.
Valid(c, p) ==
    /\ (p.win = 0) = ~HasBox(c)
    /\ ValidPacket(p, ServerWindow(c), inv[c].cursor)

\* An open container that is gone: a click that is valid without it is ignored.
Ignored(c, p) ==
    IsOpen(c) /\ ~HasBox(c) /\ Valid(c, p) /\ ~(p.mode = "Click" /\ p.at = Outside)

\* A click on a window that is not the open one, or that comes to something
\* else on the server: the contents are sent again.
RefuseClick(c) ==
    LET p == Head(toServer[c])
    IN  /\ Takes(c, "click")
        /\ Valid(c, p) => Ignored(c, p)
        /\ Write(c, IF Valid(c, p) THEN <<>> ELSE <<Resync(c, inv[c])>>)
        /\ UNCHANGED <<inv, box, dropped>>

\* A click outside drops the stack on the cursor, all of it.
DropCursor(c) ==
    LET p == Head(toServer[c])
    IN  /\ Takes(c, "click")
        /\ Valid(c, p) /\ p.mode = "Click" /\ p.at = Outside
        /\ dropped' = dropped + inv[c].cursor.count
        /\ inv' = [inv EXCEPT ![c].cursor = Empty, ![c].cursorChanged = TRUE]
        /\ UNCHANGED <<box, out>>

\* A mistake the run must notice: no click is too old.
NeverOutOfSync(c, p) == FALSE

\* The client's state id is not the last one.  A window of its own is not
\* asked for it when the drop key is pressed.
OutOfSync(c, p) == p.sid # inv[c].sid /\ (IsOpen(c) \/ p.mode # "DropKey")

PlainClick(c, p) == Valid(c, p) /\ ~Ignored(c, p) /\ ~(p.mode = "Click" /\ p.at = Outside)

\* The own contents then go to the window that was open last.
ResyncClick(c) ==
    LET p == Head(toServer[c])
        s == [inv[c] EXCEPT !.sid = @ + 1]
    IN  /\ Takes(c, "click")
        /\ PlainClick(c, p) /\ OutOfSync(c, p)
        /\ inv' = [inv EXCEPT ![c] = s]
        /\ Write(c, <<IF IsOpen(c) THEN Resync(c, s) ELSE Content(s.win, s.sid, s.slots, s.cursor)>>)
        /\ UNCHANGED <<box, dropped>>

\* The drop key in a window: the stack is taken from what the server has, and
\* the slot is marked like one that user code changes.
DropFromWindow(c) ==
    LET p == Head(toServer[c])
        at == p.at
        stack == ServerWindow(c)[at]
        n == IF p.button = 1 THEN stack.count ELSE 1
        left == WithCount(stack, stack.count - n)
        slots(old, i) == [old EXCEPT ![i] = left]
        own == IF IsOpen(c) THEN PlayerSlot(at) ELSE at
    IN  /\ Takes(c, "click")
        /\ PlainClick(c, p) /\ ~OutOfSync(c, p) /\ p.mode = "DropKey"
        /\ \/ /\ (IF InBox(c, at) THEN Box ELSE c) \in readonly
              /\ Write(c, <<IF InBox(c, at) THEN BoxContent(inv[c], box.slots)
                                            ELSE OwnContent(inv[c])>>)
              /\ UNCHANGED <<inv, box, dropped>>
           \/ /\ InBox(c, at) /\ Box \notin readonly /\ stack # Empty
              /\ box' = SetSlots(box, slots(box.slots, at))
              /\ dropped' = dropped + n
              /\ UNCHANGED <<inv, out>>
           \/ /\ ~InBox(c, at) /\ c \notin readonly /\ stack # Empty
              /\ inv' = [inv EXCEPT ![c] = SetSlots(@, slots(@.slots, own))]
              /\ dropped' = dropped + n
              /\ UNCHANGED <<box, out>>
           \/ /\ (IF InBox(c, at) THEN Box ELSE c) \notin readonly /\ stack = Empty
              /\ UNCHANGED <<inv, box, dropped, out>>

\* A mistake the run must notice: each slot by its own inventory, whatever the click needs.
FrozenAlone(c, p, i) == (IF InBox(c, i) THEN Box ELSE c) \in readonly

\* Whether slot i is not to be changed.  A shift click, and a swap of a slot of
\* the container with the hotbar, need both inventories.
Frozen(c, p, i) ==
    LET both == IsOpen(c) /\ (p.mode = "ShiftClick" \/ (p.mode = "Hotbar" /\ p.at \in BoxSlots))
    IN  \/ (IF InBox(c, i) THEN Box ELSE c) \in readonly
        \/ both /\ readonly \cap {c, Box} # {}

\* The slots are set as predicted and marked as changed by this client.  When
\* one of them is read-only the cursor stays as it is, and all is sent again.
ApplyClick(c) ==
    LET p == Head(toServer[c])
        new == NewSlots(p, ServerWindow(c))
        set == {i \in DOMAIN p.changes : ~Frozen(c, p, i)}
        boxSet == {i \in set : InBox(c, i)}
        ownSet == {j \in OwnSlots : Index(c, j) \in set \ boxSet}
        cursor == IF set = DOMAIN p.changes THEN NewCursor(p) ELSE inv[c].cursor
        newBox == [i \in BoxSlots |-> IF i \in boxSet THEN new[i] ELSE box.slots[i]]
        newOwn == [j \in OwnSlots |-> IF j \in ownSet THEN new[Index(c, j)] ELSE inv[c].slots[j]]
        s == [SetSlots(inv[c], newOwn) EXCEPT
                 !.touched = @ \cup ownSet, !.boxTouched = @ \cup boxSet,
                 !.cursor = cursor, !.told = cursor,
                 !.cursorChanged = @ \/ cursor # inv[c].cursor]
    IN  /\ Takes(c, "click")
        /\ PlainClick(c, p) /\ ~OutOfSync(c, p) /\ p.mode # "DropKey"
        /\ inv' = [inv EXCEPT ![c] = s]
        /\ box' = SetSlots(box, newBox)
        /\ Write(c, CASE IsOpen(c) /\ readonly \cap {c, Box} # {} ->
                               <<BoxContent(s, newBox), OwnContent(s)>>
                       [] ~IsOpen(c) /\ c \in readonly -> <<OwnContent(s)>>
                       [] OTHER -> <<>>)
        /\ UNCHANGED <<dropped>>

\* handle_player_actions.  The stack in hand is dropped, or one item of it; the
\* slot counts as changed by the client.  A read-only inventory is sent again,
\* with nothing on the cursor.
HeldIsReadonly(c) ==
    /\ c \in readonly
    /\ Write(c, <<Content(0, inv[c].sid, inv[c].slots, Empty)>>)
    /\ UNCHANGED <<inv, dropped>>

DropHeld(c) ==
    LET stack == inv[c].slots[FirstMain]
        n == IF Head(toServer[c]).all THEN stack.count ELSE 1
        slots == [inv[c].slots EXCEPT ![FirstMain] = WithCount(stack, stack.count - n)]
    IN  /\ Takes(c, "drop")
        /\ \/ HeldIsReadonly(c)
           \/ /\ c \notin readonly /\ stack # Empty
              /\ inv' = [inv EXCEPT ![c] = [SetSlots(inv[c], slots) EXCEPT !.touched = @ \cup {FirstMain}]]
              /\ dropped' = dropped + n
              /\ UNCHANGED out
           \/ /\ c \notin readonly /\ stack = Empty
              /\ UNCHANGED <<inv, dropped, out>>
        /\ UNCHANGED <<box>>

SwapHands(c) ==
    LET own == inv[c].slots
        slots == [own EXCEPT ![FirstMain] = own[OffHand], ![OffHand] = own[FirstMain]]
    IN  /\ Takes(c, "swap")
        /\ \/ HeldIsReadonly(c)
           \/ /\ c \notin readonly
              /\ inv' = [inv EXCEPT ![c] = SetSlots(@, slots)]
              /\ UNCHANGED <<dropped, out>>
        /\ UNCHANGED <<box>>

\* OpenInventory is removed: PostUpdate finds that out, and a window with another
\* viewer has one less.
WithoutWindow(s) ==
    [s EXCEPT !.open = "none", !.boxTouched = {}, !.closed = @ \/ s.open # "none"]

HandleClose(c) ==
    /\ Takes(c, "close")
    /\ inv' = [inv EXCEPT ![c] = WithoutWindow(@)]
    /\ UNCHANGED <<box, dropped, out>>

Packet(c) ==
    \/ RefuseClick(c) \/ DropCursor(c) \/ ResyncClick(c) \/ DropFromWindow(c) \/ ApplyClick(c)
    \/ DropHeld(c) \/ SwapHands(c) \/ HandleClose(c)

-----------------------------------------------------------------------------
(***************************************************************************)
(* User code, after the event loop.                                        *)
(***************************************************************************)

StartUpdate ==
    /\ phase \in {"idle", "packets"}
    /\ phase' = "user"
    /\ UNCHANGED <<serverVars, view, toServer, toClient, out, todo, supplied, bounds>>

Call ==
    /\ phase = "user"
    /\ calls < MaxCalls
    /\ calls' = calls + 1
    /\ UNCHANGED <<dropped, view, toServer, toClient, out, phase, todo, packets>>

UserSetsOwn(c, i, stack) ==
    /\ Call
    /\ "overwrite" \in Avoided => i \notin inv[c].touched /\ (IsOpen(c) => HasBox(c))
    /\ "crossing" \in Avoided /\ IsOpen(c) => ~OnTheWay(toServer[c], IsClick)
    /\ "drop" \in Avoided /\ i = FirstMain => ~OnTheWay(toServer[c], IsDrop)
    /\ inv' = [inv EXCEPT ![c] = SetSlots(@, [@.slots EXCEPT ![i] = stack])]
    /\ supplied' = supplied + stack.count - inv[c].slots[i].count
    /\ UNCHANGED <<box, readonly>>

UserSetsBox(i, stack) ==
    /\ Call
    /\ box.life # "gone"
    /\ "overwrite" \in Avoided => \A c \in Clients : i \notin inv[c].boxTouched
    /\ "crossing" \in Avoided => \A c \in Clients : IsOpen(c) => ~OnTheWay(toServer[c], IsClick)
    /\ box' = SetSlots(box, [box.slots EXCEPT ![i] = stack])
    /\ supplied' = supplied + stack.count - box.slots[i].count
    /\ UNCHANGED <<inv, readonly>>

UserSetsCursor(c, stack) ==
    /\ Call
    /\ "cursor" \in Avoided => toServer[c] = <<>>
    /\ "overwrite" \in Avoided => ~inv[c].cursorChanged
    /\ inv' = [inv EXCEPT ![c].cursor = stack, ![c].cursorChanged = TRUE]
    /\ supplied' = supplied + stack.count - inv[c].cursor.count
    /\ UNCHANGED <<box, readonly>>

\* The whole inventory is to be sent.
UserResyncsOwn(c) ==
    /\ Call
    /\ "drop" \in Avoided => ~OnTheWay(toServer[c], IsDrop)
    /\ "overwrite" \in Avoided => (IsOpen(c) => HasBox(c))
    /\ inv' = [inv EXCEPT ![c].changed = AllBits]
    /\ UNCHANGED <<box, readonly, supplied>>

UserResyncsBox ==
    /\ Call
    /\ box.life # "gone"
    /\ box' = [box EXCEPT !.changed = AllBits]
    /\ UNCHANGED <<inv, readonly, supplied>>

UserFreezes(x) ==
    /\ Call
    /\ "split" \in Avoided => \A c \in Clients : ~OnTheWay(toServer[c], Splits)
    /\ "thaw" \in Avoided /\ x \in Clients => toServer[x] = <<>>
    /\ readonly' = IF x \in readonly THEN readonly \ {x} ELSE readonly \cup {x}
    /\ UNCHANGED <<inv, box, supplied>>

\* A window is opened for a client without one.
UserOpens(c) ==
    /\ Call
    /\ box.life # "gone"
    /\ inv[c].open = "none"
    /\ "viewers" \in Avoided => \A d \in Clients : ~IsOpen(d)
    /\ "reopen" \in Avoided =>
          ~ViewOpen(c) /\ ~OnTheWay(toServer[c], LAMBDA p : p.type # "click" \/ p.win # 0)
    /\ inv' = [inv EXCEPT ![c].open = "new"]
    /\ UNCHANGED <<box, readonly, supplied>>

UserCloses(c) ==
    /\ Call
    /\ IsOpen(c)
    /\ inv' = [inv EXCEPT ![c] = WithoutWindow(@)]
    /\ UNCHANGED <<box, readonly, supplied>>

\* The container is despawned at once, or marked with Despawned and so at the
\* end of the tick.  What is in it stays there.  UpdateGone keeps the marks of
\* the tick for the next.
UserDespawnsBox(life) ==
    /\ Call
    /\ box.life # "gone"
    /\ "overwrite" \in Avoided /\ life = "gone" =>
          \A c \in Clients : IsOpen(c) => inv[c].changed = {}
    /\ box' = [box EXCEPT !.life = life]
    /\ UNCHANGED <<inv, readonly, supplied>>

User ==
    \/ \E c \in Clients, stack \in Stacks :
          \/ \E i \in OwnSlots : UserSetsOwn(c, i, stack)
          \/ UserSetsCursor(c, stack)
    \/ \E i \in BoxSlots, stack \in Stacks : UserSetsBox(i, stack)
    \/ \E c \in Clients : UserResyncsOwn(c) \/ UserOpens(c) \/ UserCloses(c)
    \/ \E x \in Clients \cup {Box} : UserFreezes(x)
    \/ UserResyncsBox
    \/ \E life \in {"despawned", "gone"} : UserDespawnsBox(life)

-----------------------------------------------------------------------------
(***************************************************************************)
(* PostUpdate: the systems one after the other, each over all clients.     *)
(* What they do for a client depends on other clients only where one has   *)
(* emptied box.changed, so a client's share of all of them is one step.    *)
(***************************************************************************)

StartPostUpdate ==
    /\ phase = "user"
    /\ phase' = "post"
    /\ todo' = Clients
    /\ UNCHANGED <<serverVars, view, toServer, toClient, out, supplied, bounds>>

\* update_client_on_close_inventory
ClosedMessage(c) == IF inv[c].closed THEN <<CloseScreen>> ELSE <<>>

\* update_cursor_item: not sent when it is what the client has put there itself.
CursorMessage(c) ==
    IF inv[c].cursorChanged /\ inv[c].told # inv[c].cursor
    THEN <<CursorUpdate(inv[c].cursor)>> ELSE <<>>

CursorTold(s) ==
    [s EXCEPT !.told = IF s.cursorChanged THEN NotTold ELSE @, !.cursorChanged = FALSE]

\* despawn_marked_entities, at the end of the tick.
Despawned(b) == IF b.life = "despawned" THEN [b EXCEPT !.life = "gone"] ELSE b

\* The share of client c ends with state s, container b and messages msgs; after
\* the last client everything is flushed.
Finish(c, s, b, msgs) ==
    LET written == [out EXCEPT ![c] = @ \o ClosedMessage(c) \o msgs \o CursorMessage(c)]
        last == todo = {c}
    IN  /\ inv' = [inv EXCEPT ![c] = CursorTold(s)]
        /\ box' = IF last THEN Despawned(b) ELSE b
        /\ todo' = todo \ {c}
        /\ phase' = IF last THEN "idle" ELSE phase
        /\ out' = IF last THEN [d \in Clients |-> <<>>] ELSE written
        /\ toClient' = IF last THEN [d \in Clients |->
                IF written[d] = <<>> THEN toClient[d] ELSE Append(toClient[d], written[d])] ELSE toClient
        /\ UNCHANGED <<readonly, dropped, view, toServer, supplied, bounds>>

Comes(c) == phase = "post" /\ c \in todo

\* update_player_inventories: slots that the client has changed itself are not
\* sent.
UpdateOwn(c) ==
    LET s == [inv[c] EXCEPT !.closed = FALSE]
        told == [s EXCEPT !.changed = {}, !.touched = {}]
        others == s.changed \ s.touched
    IN  /\ Comes(c)
        /\ ~IsOpen(c)
        /\ \/ /\ s.changed = AllBits
              /\ LET next == [told EXCEPT !.sid = @ + 1] IN Finish(c, next, box, <<OwnContent(next)>>)
           \/ /\ s.changed # AllBits /\ others # {}
              /\ Finish(c, [told EXCEPT !.sid = @ + 1], box, <<SlotUpdates(0, s.sid + 1, Restrict(s.slots, others))>>)
           \/ /\ s.changed # {} /\ others = {}
              /\ Finish(c, told, box, <<>>)
           \/ /\ s.changed = {}
              /\ Finish(c, s, box, <<>>)

\* update_open_inventories: the container is gone.
UpdateGone(c) ==
    /\ Comes(c)
    /\ IsOpen(c) /\ ~HasBox(c)
    /\ Finish(c, [WithoutWindow(inv[c]) EXCEPT !.closed = TRUE], box, <<CloseScreen>>)

\* What the end of the loop leaves of the marks: nothing, for all clients.
Unmarked(s) == [s EXCEPT !.boxTouched = {}, !.touched = {}, !.closed = FALSE, !.open = "shown"]

UpdateNew(c) ==
    LET s == [Unmarked(inv[c]) EXCEPT !.win = (@ % 100) + 1]
    IN  /\ Comes(c)
        /\ box.life # "gone" /\ inv[c].open = "new"
        /\ Finish(c, s, [box EXCEPT !.changed = {}],
                  <<OpenScreen(s.win), BoxContent(s, box.slots)>>)

\* Slots of the container that somebody else has changed, and those of the player
\* that anybody has: from the main slots on, up to the off hand.
UpdateShown(c) ==
    LET s == Unmarked(inv[c])
        clean == [box EXCEPT !.changed = {}]
        own == {j \in OwnSlots : j \in s.changed /\ j >= FirstMain}
        slots == {i \in BoxSlots : i \in box.changed \ inv[c].boxTouched}
                     \cup {WindowSlot(j) : j \in own}
        stacks == [i \in slots |-> IF i \in BoxSlots THEN box.slots[i] ELSE s.slots[PlayerSlot(i)]]
    IN  /\ Comes(c)
        /\ box.life # "gone" /\ inv[c].open = "shown"
        /\ \/ /\ box.changed = AllBits
              /\ LET next == [s EXCEPT !.sid = @ + 1]
                 IN  Finish(c, next, clean, <<BoxContent(next, box.slots)>>)
           \/ /\ box.changed # AllBits /\ slots # {}
              /\ Finish(c, [s EXCEPT !.changed = {}], clean, <<SlotUpdates(s.win, s.sid, stacks)>>)
           \/ /\ box.changed # AllBits /\ slots = {}
              /\ Finish(c, s, clean, <<>>)

PostUpdate(c) == UpdateOwn(c) \/ UpdateGone(c) \/ UpdateNew(c) \/ UpdateShown(c)

-----------------------------------------------------------------------------
Client(c) ==
    ClientClicks(c) \/ ClientCloses(c) \/ ClientDrops(c) \/ ClientSwapsHands(c) \/ ClientReceives(c)

Next ==
    \/ \E c \in Clients : Client(c) \/ Packet(c) \/ PostUpdate(c)
    \/ StartUpdate \/ User \/ StartPostUpdate

Spec == Init /\ [][Next]_vars

-----------------------------------------------------------------------------
Players ==
    [slots : [OwnSlots -> Stacks], changed : (SUBSET OwnSlots) \cup {AllBits}, touched : SUBSET OwnSlots,
     cursor : Stacks, cursorChanged : BOOLEAN, told : Stacks \cup {NotTold},
     open : {"none", "new", "shown"}, boxTouched : SUBSET BoxSlots, closed : BOOLEAN,
     win : 0..100, sid : Nat]

Boxes ==
    [slots : [BoxSlots -> Stacks], changed : (SUBSET BoxSlots) \cup {AllBits},
     life : {"there", "despawned", "gone"}]

\* The shape of the state: slots and cursors hold stacks, and marks stay within the
\* slots there are.
TypeOK ==
    /\ inv \in [Clients -> Players]
    /\ box \in Boxes
    /\ readonly \subseteq Clients \cup {Box}
    /\ phase \in {"idle", "packets", "user", "post"}
    /\ todo \subseteq Clients

\* No items come from clicks and none are lost by them: whatever clients predict
\* in windows that have changed meanwhile, what the inventories, the cursors and
\* the dropped stacks hold together is what user code has put in
\* (calculate_net_item_delta, handle_click_slot).
ItemsConserved == Items + dropped = supplied

\* Nothing is on the way between the server and c.
AtRest(c) == phase = "idle" /\ toServer[c] = <<>> /\ toClient[c] = <<>>

\* A client that has never had a window open shows its own slots and its cursor
\* as the server has them, as soon as nothing is on the way or marked, however its clicks
\* and the server's changes have crossed (state_id, update_player_inventories,
\* update_cursor_item).
OwnAgrees ==
    \A c \in Clients :
        AtRest(c) /\ inv[c].win = 0 /\ inv[c].open = "none" /\ inv[c].changed = {} =>
            view[c].own = inv[c].slots /\ view[c].cursor = inv[c].cursor

\* The same with a window open, which is not so: slots outside of the window are
\* not sent or sent under a wrong number, and a click that is refused there
\* brings back the container only.
OwnAlwaysAgrees ==
    \A c \in Clients :
        AtRest(c) /\ inv[c].changed = {} => view[c].own = inv[c].slots

\* A client with the container open shows that window, the container as it is
\* and the cursor, and a client without it shows no window: whatever user code
\* opens, changes, closes and despawns while the client clicks and closes
\* (update_open_inventories, update_client_on_close_inventory).
WindowAgrees ==
    \A c \in Clients :
        AtRest(c) /\ inv[c].open # "new" /\ ~inv[c].closed =>
            IF IsOpen(c)
            THEN /\ view[c].win = inv[c].win
                 /\ view[c].box = box.slots
                 /\ view[c].cursor = inv[c].cursor
            ELSE view[c].win = 0

=============================================================================
