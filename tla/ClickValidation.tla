--------------------------- MODULE ClickValidation ---------------------------
(***************************************************************************)
(* What the server makes of a click in a window                            *)
(* (crates/chunkedge_inventory/src/validate.rs).  The packet says which    *)
(* slots the click changed and what is on the cursor then, as the client   *)
(* predicts it, but item stacks as hashes: the server checks the           *)
(* prediction against its own window and finds the stacks in what it has.  *)
(*                                                                         *)
(* A stack is a kind and a count.  Components of items are left out, and   *)
(* with them the difference between two stacks of one kind that "unhashing"*)
(* settles.  A packet has the fields mode, button, at, changes and carried;*)
(* changes is a function on the slots that change.                         *)
(***************************************************************************)
EXTENDS Integers, FiniteSets, Functions

CONSTANTS
    Kinds,     \* kinds of items
    Air,       \* the kind of nothing
    MaxStack   \* items in a full stack

ASSUME AirAssumption == Air \notin Kinds
ASSUME StackAssumption == MaxStack \in Nat \ {0}

Empty == [item |-> Air, count |-> 0]

FullStacks == [item : Kinds, count : 1..MaxStack]

Stacks == FullStacks \cup {Empty}

\* A mistake the run must notice: none of a kind is not nothing.
WithCountKept(stack, n) == [stack EXCEPT !.count = n]

\* n items of the kind of stack: of nothing, and none, is nothing.
WithCount(stack, n) == IF n = 0 \/ stack = Empty THEN Empty ELSE [stack EXCEPT !.count = n]

\* SLOT_OUTSIDE_INVENTORY, a slot index of a click outside the window.
Outside == -999

Modes == {"Click", "ShiftClick", "Hotbar", "DropKey", "Drag", "DoubleClick"}

\* Items that the changes of p add to the window and the cursor.
NetItemDelta(p, window, cursor) ==
    SumFunction([i \in DOMAIN p.changes |-> p.changes[i].count - window[i].count])
        + p.carried.count - cursor.count

\* A stack of the packet is found among stacks of the server by its kind.
Found(stack, sources) == stack = Empty \/ \E s \in sources : s.item = stack.item

ShouldSwap(p, old, cursor) ==
    /\ p.button = 0
    /\ IF old # Empty /\ cursor # Empty THEN old.item # cursor.item
       ELSE old # Empty \/ (cursor # Empty /\ cursor.count <= MaxStack)

ValidClick(p, window, cursor) ==
    \/ /\ p.at = Outside
       /\ DOMAIN p.changes = {}
       /\ NetItemDelta(p, window, cursor) = IF p.button = 1 THEN -1 ELSE -cursor.count
    \/ /\ p.at # Outside
       /\ DOMAIN p.changes = {}
       /\ p.carried = cursor
    \/ /\ p.at # Outside
       /\ \E i \in DOMAIN p.changes :
             /\ DOMAIN p.changes = {i}
             /\ IF ShouldSwap(p, window[i], cursor)
                THEN window[i] = p.carried /\ cursor = p.changes[i]
                ELSE /\ NetItemDelta(p, window, cursor) = 0
                     /\ Found(p.changes[i], {cursor, window[i]})
                     /\ Found(p.carried, {cursor, window[i]})

\* All that is put somewhere is of the kind of the stack clicked at.
ValidShiftClick(p, window, cursor) ==
    /\ p.carried = Empty
    /\ NetItemDelta(p, window, cursor) = 0
    /\ \/ DOMAIN p.changes = {}
       \/ /\ Cardinality(DOMAIN p.changes) \in 2..3
          /\ window[p.at] # Empty
          /\ \E i \in DOMAIN p.changes : p.changes[i] # Empty
          /\ \A i \in DOMAIN p.changes : Found(p.changes[i], {window[p.at]})

\* Two slots change places.
ValidHotbar(p, window, cursor) ==
    /\ p.carried = Empty
    /\ NetItemDelta(p, window, cursor) = 0
    /\ \/ DOMAIN p.changes = {}
       \/ /\ Cardinality(DOMAIN p.changes) = 2
          /\ \A i \in DOMAIN p.changes :
                /\ \E j \in DOMAIN p.changes : p.changes[i] = window[j]
                /\ \A j \in DOMAIN p.changes \ {i} : Found(p.changes[i], {window[j]})

\* One item or the stack leaves the window, and the rest keeps its kind.
ValidDropKey(p, window, cursor) ==
    /\ p.carried = Empty
    /\ \/ /\ DOMAIN p.changes = {}
          /\ NetItemDelta(p, window, cursor) = 0
       \/ /\ DOMAIN p.changes = {p.at}
          /\ Found(p.changes[p.at], {window[p.at]})
          /\ NetItemDelta(p, window, cursor) =
                 IF p.button = 0 THEN -1 ELSE -window[p.at].count

\* The end of a drag: the stack on the cursor is spread over the slots.
ValidDrag(p, window, cursor) ==
    /\ NetItemDelta(p, window, cursor) = 0
    /\ \A i \in DOMAIN p.changes :
          p.changes[i] # Empty /\ Found(p.changes[i], {cursor, window[i]})
    /\ Found(p.carried, {cursor})

\* Items of the window are collected on the cursor.
ValidDoubleClick(p, window, cursor) ==
    /\ NetItemDelta(p, window, cursor) = 0
    /\ Found(p.carried, {cursor} \cup {window[i] : i \in DOMAIN p.changes})

\* validate_click_slot_packet succeeds.  Its checks of slot numbers and counts
\* are left out: what the client of this model sends is in range.
ValidPacket(p, window, cursor) ==
    CASE p.mode = "Click"       -> ValidClick(p, window, cursor)
      [] p.mode = "ShiftClick"  -> ValidShiftClick(p, window, cursor)
      [] p.mode = "Hotbar"      -> ValidHotbar(p, window, cursor)
      [] p.mode = "DropKey"     -> ValidDropKey(p, window, cursor)
      [] p.mode = "Drag"        -> ValidDrag(p, window, cursor)
      [] p.mode = "DoubleClick" -> ValidDoubleClick(p, window, cursor)

\* What it returns: the stack on the cursor, and the stacks in the slots.  A
\* double click changes the count of what is in the slot, whatever that is.
NewCursor(p) ==
    IF p.mode \in {"ShiftClick", "Hotbar", "DropKey"} \/ (p.mode = "Click" /\ p.at = Outside)
    THEN Empty ELSE p.carried

NewSlots(p, window) ==
    [i \in DOMAIN p.changes |->
        IF p.mode = "DoubleClick" THEN WithCount(window[i], p.changes[i].count)
        ELSE p.changes[i]]

=============================================================================
