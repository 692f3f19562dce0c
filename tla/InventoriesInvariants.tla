------------------------- MODULE InventoriesInvariants -------------------------
(***************************************************************************)
(* Why a client that has never had a window open shows its own slots and   *)
(* the cursor as the server has them, while packets are under way in both  *)
(* directions: the inductive invariant of OwnAgrees.                       *)
(*                                                                         *)
(* What counts is what the client will show, w, when it has got all that   *)
(* is coming, and what the server will have when it has handled all that   *)
(* is under way, q.  A slot that is marked will be sent; of the others     *)
(* both must agree, or the server refuses a click of q and sends the       *)
(* contents again.  s is the server's record of the client, v what the     *)
(* client shows, msgs what is coming.                                      *)
(***************************************************************************)
EXTENDS Inventories

\* Batches of messages, one after the other.
Joined(batches) ==
    LET joined[k \in 0..Len(batches)] == IF k = 0 THEN <<>> ELSE joined[k - 1] \o batches[k]
    IN  joined

AllOf(batches) == Joined(batches)[Len(batches)]

\* What is on its way to c: flushed and written.
Coming(c) == AllOf(toClient[c]) \o out[c]

\* What a client shows after some messages.
Shows(v, msgs) == Showing(v, msgs)[Len(msgs)]

TypesIn(q) == {q[k].type : k \in DOMAIN q}
Has(q, t) == t \in TypesIn(q)

OutsideClick(p) == p.type = "click" /\ p.mode = "Click" /\ p.at = Outside
DropKeyClick(p) == p.type = "click" /\ p.mode = "DropKey"
SlotClick(p) == p.type = "click" /\ ~OutsideClick(p) /\ ~DropKeyClick(p)

\* What PostUpdate will tell the client.
CursorDue(s) == s.cursorChanged /\ s.told # s.cursor
Due(s) == {j \in OwnSlots : s.changed = AllBits \/ j \in s.changed \ s.touched}

\* What has happened since the client was last told: nothing, or packets, or
\* user code as well.
Since(c) ==
    IF phase = "idle" \/ (phase = "post" /\ c \notin todo) THEN "told"
    ELSE IF phase = "packets" THEN "packets" ELSE "user"

\* The container of the window goes before PostUpdate comes to c.
Stuck(c) == IsOpen(c) /\ box.life = "gone"

\* A cursor that is not marked is the one the client has told, if any.
Telling(s, since) ==
    /\ ~s.cursorChanged => s.told \in {NotTold, s.cursor}
    /\ since = "told" => ~s.cursorChanged

-----------------------------------------------------------------------------
\* One click at a time, the last of the queue; and hands are swapped with
\* nothing else under way.
OwnQueue(s, q) ==
    /\ ~Has(q, "close")
    /\ \A k \in DOMAIN q : q[k].type = "click" => k = Len(q) /\ q[k].win = 0 /\ q[k].sid <= s.sid
    /\ Has(q, "swap") => \A k \in DOMAIN q : q[k].type = "swap"

Sided(m) == m.type \in {"content", "slots"}

\* State ids come in order, and slots with one the client has not seen.
OwnComing(s, v, msgs) ==
    /\ v.win = 0 /\ v.ownSid <= s.sid
    /\ \A k \in DOMAIN msgs :
          /\ msgs[k].type # "screen"
          /\ Sided(msgs[k]) => msgs[k].win = 0 /\ v.ownSid <= msgs[k].sid /\ msgs[k].sid <= s.sid
          /\ msgs[k].type = "slots" => v.ownSid < msgs[k].sid
    /\ \A k, l \in DOMAIN msgs :
          k < l /\ Sided(msgs[k]) /\ Sided(msgs[l]) =>
              /\ msgs[k].sid <= msgs[l].sid
              /\ msgs[l].type = "slots" => msgs[k].sid < msgs[l].sid

OwnMarks(s, q, since, stuck) ==
    /\ s.touched \subseteq s.changed
    /\ since = "told" \/ stuck => s.changed = {}
    /\ Has(q, "swap") => s.touched = {}
    /\ Has(q, "click") \/ Has(q, "drop") =>
          s.touched \subseteq {FirstMain} /\ (since # "user" => s.changed \subseteq s.touched)
    /\ Has(q, "drop") => FirstMain \notin Due(s)

OwnCursor(s, q) ==
    /\ q # <<>> /\ ~Has(q, "swap") => ~s.cursorChanged
    /\ Has(q, "drop") \/ Has(q, "swap") => s.cursor = Empty /\ ~CursorDue(s)
    /\ \A k \in DOMAIN q : /\ DropKeyClick(q[k]) => s.cursor = Empty
                           /\ OutsideClick(q[k]) => s.cursor # Empty

\* The contents are certain to be sent again.
Resends(s, q, frozen) ==
    \E k \in DOMAIN q : \/ frozen /\ ~OutsideClick(q[k])
                        \/ SlotClick(q[k]) /\ q[k].sid # s.sid

\* What the drops under way leave of the stack in hand, and with it of slot j.
Drops(q) == IF Has(q, "click") THEN Len(q) - 1 ELSE Len(q)
DropsAll(q) == \E k \in DOMAIN q : q[k].type = "drop" /\ q[k].all

AfterDrops(stack, q) ==
    IF ~Has(q, "drop") THEN stack
    ELSE IF DropsAll(q) THEN Empty ELSE WithCount(stack, stack.count - Drops(q))

HeldThen(s, q, j) == IF j = FirstMain THEN AfterDrops(s.slots[j], q) ELSE s.slots[j]

\* The client drops what there is, and no news of the stack in hand are coming.
OwnDrops(s, q, msgs, frozen) ==
    Has(q, "drop") /\ ~frozen =>
        /\ \A k, l \in DOMAIN q : k < l /\ q[k].type = "drop" /\ q[k].all => q[l].type # "drop"
        /\ Drops(q) <= s.slots[FirstMain].count
        /\ \A k \in DOMAIN msgs :
              /\ msgs[k].type # "content"
              /\ msgs[k].type = "slots" => FirstMain \notin DOMAIN msgs[k].stacks

\* The client shows what its click p makes of the slots and the cursor.
SlotsPredicted(s, q, w, p) ==
    /\ w.cursor = p.carried
    /\ \A j \in OwnSlots \ Due(s) :
          IF j \in DOMAIN p.changes
          THEN /\ w.own[j] = p.changes[j] /\ p.changes[j] # HeldThen(s, q, j)
               /\ p.mode = "DoubleClick" =>
                     p.changes[j] = WithCount(HeldThen(s, q, j), p.changes[j].count)
          ELSE w.own[j] = HeldThen(s, q, j)

\* The drop key at a slot is not checked against a state id: what the server has
\* there may not be what the client has taken from.
KeyPredicted(s, q, w, p) ==
    LET held == HeldThen(s, q, FirstMain)
    IN  /\ DOMAIN p.changes = {p.at}
        /\ \A j \in OwnSlots \ Due(s) :
              \/ w.own[j] = HeldThen(s, q, j)
              \/ j = p.at /\ w.own[j] = p.changes[j]
        /\ p.at = FirstMain /\ (Has(q, "drop") \/ FirstMain \in s.touched) =>
              /\ w.own[FirstMain] = p.changes[FirstMain]
              /\ held # Empty
              /\ p.changes[FirstMain] = WithCount(held, IF p.button = 1 THEN 0 ELSE held.count - 1)

OwnShown(s, q, w, frozen) ==
    /\ (\A k \in DOMAIN q : ~SlotClick(q[k]) /\ ~OutsideClick(q[k])) /\ ~CursorDue(s) =>
          w.cursor = s.cursor
    /\ ~Resends(s, q, frozen) =>
          /\ \A k \in DOMAIN q : SlotClick(q[k]) => SlotsPredicted(s, q, w, q[k])
          /\ \A k \in DOMAIN q : DropKeyClick(q[k]) => KeyPredicted(s, q, w, q[k])
          /\ (\A k \in DOMAIN q : ~SlotClick(q[k]) /\ ~DropKeyClick(q[k])) =>
                \A j \in OwnSlots \ Due(s) : w.own[j] = HeldThen(s, q, j)

OwnIn(s, q, v, msgs, frozen, since, stuck) ==
    /\ OwnQueue(s, q)
    /\ OwnComing(s, v, msgs)
    /\ OwnMarks(s, q, since, stuck)
    /\ OwnCursor(s, q)
    /\ OwnDrops(s, q, msgs, frozen)
    /\ OwnShown(s, q, Shows(v, msgs), frozen)

OwnIs(c) == OwnIn(inv[c], toServer[c], view[c], Coming(c), c \in readonly, Since(c), Stuck(c))

-----------------------------------------------------------------------------
CursorsTold == \A c \in Clients : Telling(inv[c], Since(c))

\* Between two ticks all that was written has been flushed.
Quiet == phase = "idle" => \A c \in Clients : out[c] = <<>>

\* A client that has never had a window open, with packets under way both ways:
\* but for the slots that are marked it will show what the server will have when it
\* has come to the client's drops and its last click, or else the server will
\* refuse that click and send the contents again (state_id, slots_changed,
\* client_changed_slots, client_updated_cursor_item).
OwnPredicted == \A c \in Clients : inv[c].win = 0 => OwnIs(c)

=============================================================================
