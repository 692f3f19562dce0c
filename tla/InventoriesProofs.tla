--------------------------- MODULE InventoriesProofs ---------------------------
(***************************************************************************)
(* Theorems about Inventories, for any finite set of clients, any sizes of *)
(* the inventories and of stacks, and any number of packets and calls: its *)
(* types; that no items come from clicks and none are lost by them; and    *)
(* that a client without a window shows its own slots and the cursor as    *)
(* the server has them.                                                    *)
(***************************************************************************)
EXTENDS InventoriesInvariants, SequenceFunctionsProofs

-----------------------------------------------------------------------------
(***************************************************************************)
(* Types.  TypeOK is about the server; for its slots to have stacks in     *)
(* them, the packets under way and what clients show have to be typed too. *)
(* A click fits its window: what it says of slots is about slots of the    *)
(* window that the client had open.                                        *)
(***************************************************************************)
WindowSlots(isOpen) == IF isOpen THEN 0..(BoxSize + Main - 1) ELSE OwnSlots
AnySlots == 0..(BoxSize + Main + 1)

StackMaps == UNION {[D -> Stacks] : D \in SUBSET AnySlots}

\* What a client shows as the container may have come from its own slots
\* (ResyncClick).
BoxViews == [BoxSlots -> Stacks] \cup [OwnSlots -> Stacks]

Views == [win : Nat, ownSid : Nat, boxSid : Nat, cursor : Stacks,
          own : [OwnSlots -> Stacks], box : BoxViews]

ClickRecords ==
    [type : {"click"}, win : Nat, sid : Nat, mode : Modes, button : 0..2, at : Int,
     changes : StackMaps, carried : Stacks]

\* The last two: a swap of a hotbar slot with the player's own stays there, and
\* a double click is at one slot, and leaves something there only when the cursor is full.
ClickFits(p) ==
    /\ DOMAIN p.changes \subseteq WindowSlots(p.win # 0)
    /\ p.mode = "DropKey" => p.at \in WindowSlots(p.win # 0)
    /\ p.mode = "Hotbar" /\ p.win # 0 /\ p.at \notin BoxSlots =>
           DOMAIN p.changes \cap BoxSlots = {}
    /\ p.mode = "DoubleClick" =>
           /\ \A i \in DOMAIN p.changes : p.changes[i].count = 0 \/ p.carried.count = MaxStack
           /\ \A i, j \in DOMAIN p.changes : i = j

ClickPackets == {p \in ClickRecords : ClickFits(p)}

Packets ==
    ClickPackets \cup [type : {"close", "swap"}] \cup [type : {"drop"}, all : BOOLEAN]

Contents ==
    {m \in [type : {"content"}, win : Nat, sid : Nat, slots : BoxViews, carried : Stacks] :
        m.win = 0 => m.slots \in [OwnSlots -> Stacks]}

Messages ==
    Contents
    \cup [type : {"slots"}, win : Nat, sid : Nat, stacks : StackMaps]
    \cup [type : {"cursor"}, stack : Stacks]
    \cup [type : {"screen"}, win : Nat]
    \cup [type : {"close"}]

TrafficOK ==
    /\ view \in [Clients -> Views]
    /\ toServer \in [Clients -> Seq(Packets)]
    /\ toClient \in [Clients -> Seq(Seq(Messages))]
    /\ out \in [Clients -> Seq(Messages)]

\* A window is new only within the tick that opens it, and has a number after it.
Opening ==
    \A c \in Clients :
        /\ inv[c].open = "new" => phase = "user" \/ (phase = "post" /\ c \in todo)
        /\ inv[c].open = "shown" => inv[c].win # 0

TInv == TypeOK /\ TrafficOK /\ Opening

-----------------------------------------------------------------------------
LEMMA Sizes ==
    /\ BoxSize \in Nat /\ BoxSize >= 1 /\ BoxSize <= Main + 2
    /\ Main \in Nat /\ Main >= 1
    /\ MaxStack \in Nat /\ MaxStack >= 1
  BY SizesAssumption, StackAssumption

LEMMA StackFacts ==
    /\ Empty \in Stacks
    /\ Empty.count = 0
    /\ \A s \in Stacks : /\ s.count \in 0..MaxStack
                         /\ s.count = 0 <=> s = Empty
                         /\ s # Empty => s \in FullStacks
  BY Sizes, AirAssumption DEF Stacks, FullStacks, Empty

LEMMA WithCountIn ==
    ASSUME NEW s \in Stacks, NEW n \in 0..MaxStack
    PROVE  /\ WithCount(s, n) \in Stacks
           /\ WithCount(s, n).count = IF s = Empty THEN 0 ELSE n
  <1>1. CASE n = 0 \/ s = Empty
    BY <1>1, StackFacts DEF WithCount
  <1>2. CASE n # 0 /\ s # Empty
    <2>1. s \in FullStacks /\ n \in 1..MaxStack
      BY <1>2, StackFacts, Sizes
    <2>2. [s EXCEPT !.count = n] \in FullStacks
      BY <2>1 DEF FullStacks
    <2>3. QED
      BY <1>2, <2>1, <2>2 DEF WithCount, Stacks, FullStacks
  <1>3. QED
    BY <1>1, <1>2

\* A function on slots, by its domain and its values.
LEMMA StackMapsAre ==
    /\ \A D \in SUBSET AnySlots : [D -> Stacks] \subseteq StackMaps
    /\ \A f \in StackMaps : /\ DOMAIN f \subseteq AnySlots
                            /\ \A i \in DOMAIN f : f[i] \in Stacks
  BY DEF StackMaps

LEMMA WindowIn ==
    ASSUME NEW isOpen \in BOOLEAN, NEW own \in [OwnSlots -> Stacks], NEW boxSlots \in BoxViews
    PROVE  Window(isOpen, own, boxSlots) \in [WindowSlots(isOpen) -> Stacks]
  <1>1. \A i \in BoxSlots : boxSlots[i] \in Stacks
    BY Sizes DEF BoxViews, BoxSlots, OwnSlots, OffHand
  <1>2. \A i \in 0..(BoxSize + Main - 1) : i \notin BoxSlots => PlayerSlot(i) \in OwnSlots
    BY Sizes DEF BoxSlots, PlayerSlot, OwnSlots, OffHand, FirstMain
  <1>3. QED
    BY <1>1, <1>2 DEF Window, WindowSlots

LEMMA SlotsAre ==
    /\ \A b \in BOOLEAN : WindowSlots(b) \subseteq AnySlots /\ WindowSlots(b) \subseteq Int
    /\ OwnSlots \subseteq AnySlots /\ BoxSlots \subseteq AnySlots /\ BoxSlots \subseteq OwnSlots
    /\ FirstMain \in OwnSlots /\ OffHand \in OwnSlots /\ FirstMain # OffHand
    /\ \A j \in OwnSlots : j >= FirstMain => WindowSlot(j) \in AnySlots
    /\ \A j \in MainSlots : j \in OwnSlots
  BY Sizes DEF WindowSlots, AnySlots, OwnSlots, BoxSlots, OffHand, FirstMain, MainSlots, WindowSlot

-----------------------------------------------------------------------------
(***************************************************************************)
(* Clicks.  What a player can do in a window fits that window.             *)
(***************************************************************************)
ClickIn(isOpen, k) ==
    /\ k.mode \in Modes /\ k.button \in 0..2 /\ k.at \in Int
    /\ k.carried \in Stacks
    /\ k.after \in StackMaps
    /\ DOMAIN k.after \subseteq WindowSlots(isOpen)
    /\ k.mode = "DropKey" => k.at \in WindowSlots(isOpen)
    /\ k.mode = "Hotbar" /\ isOpen /\ k.at \notin BoxSlots => DOMAIN k.after \cap BoxSlots = {}
    /\ k.mode = "DoubleClick" =>
           /\ \A i \in DOMAIN k.after : k.after[i].count = 0 \/ k.carried.count = MaxStack
           /\ \A i, j \in DOMAIN k.after : i = j

LEMMA FitIn ==
    ASSUME NEW s \in Stacks, NEW n \in 0..MaxStack
    PROVE  /\ Fit(n, s) \in 0..n
           /\ s.count + Fit(n, s) \in 0..MaxStack
           /\ Fit(n, s) # n => s.count + Fit(n, s) = MaxStack
  BY StackFacts, Sizes DEF Fit

LEMMA InIsMap ==
    ASSUME NEW i \in AnySlots, NEW s \in Stacks
    PROVE  In(i, s) \in StackMaps /\ DOMAIN In(i, s) = {i} /\ In(i, s)[i] = s
  <1>1. In(i, s) \in [{i} -> Stacks]
    BY DEF In
  <1>2. {i} \in SUBSET AnySlots
    OBVIOUS
  <1>3. QED
    BY <1>1, <1>2, StackMapsAre DEF In

LEMMA InBothIsMap ==
    \A i, j \in AnySlots : \A s, r \in Stacks :
        InBoth(i, s, j, r) \in StackMaps /\ DOMAIN InBoth(i, s, j, r) = {i, j}
  <1> SUFFICES ASSUME NEW i \in AnySlots, NEW j \in AnySlots, NEW s \in Stacks, NEW r \in Stacks
               PROVE  InBoth(i, s, j, r) \in StackMaps /\ DOMAIN InBoth(i, s, j, r) = {i, j}
    OBVIOUS
  <1>1. InBoth(i, s, j, r) \in [{i, j} -> Stacks]
    BY DEF InBoth
  <1>2. {i, j} \in SUBSET AnySlots
    OBVIOUS
  <1>3. QED
    BY <1>1, <1>2, StackMapsAre DEF InBoth

\* A click at one slot, with a stack for it and one for the cursor.
LEMMA ClickAtSlot ==
    ASSUME NEW isOpen \in BOOLEAN, NEW i \in WindowSlots(isOpen), NEW mode \in {"Click", "DropKey"},
           NEW button \in 0..2, NEW s \in Stacks, NEW carried \in Stacks
    PROVE  ClickIn(isOpen, Click(mode, button, i, In(i, s), carried))
  <1>1. i \in AnySlots /\ i \in Int
    BY SlotsAre
  <1>2. In(i, s) \in StackMaps /\ DOMAIN In(i, s) = {i}
    BY <1>1, InIsMap
  <1>3. QED
    BY <1>1, <1>2 DEF ClickIn, Click, Modes

LEMMA LeftClickIn ==
    ASSUME NEW isOpen \in BOOLEAN, NEW window \in [WindowSlots(isOpen) -> Stacks],
           NEW cursor \in Stacks, NEW i \in WindowSlots(isOpen)
    PROVE  ClickIn(isOpen, LeftClick(window, cursor, i))
  <1> DEFINE n == Fit(cursor.count, window[i])
  <1>1. window[i] \in Stacks
    OBVIOUS
  <1>2. cursor.count \in 0..MaxStack
    BY StackFacts
  <1>3. n \in 0..cursor.count /\ window[i].count + n \in 0..MaxStack
    BY <1>1, <1>2, FitIn
  <1>4. cursor.count - n \in 0..MaxStack
    BY <1>2, <1>3, Sizes
  <1>5. /\ WithCount(cursor, window[i].count + n) \in Stacks
        /\ WithCount(cursor, cursor.count - n) \in Stacks
    BY <1>3, <1>4, WithCountIn
  <1>6. LeftClick(window, cursor, i) =
            IF cursor # Empty /\ window[i].item = cursor.item
            THEN Click("Click", 0, i, In(i, WithCount(cursor, window[i].count + n)),
                       WithCount(cursor, cursor.count - n))
            ELSE Click("Click", 0, i, In(i, cursor), window[i])
    BY DEF LeftClick
  <1> HIDE DEF n
  <1>7. QED
    BY <1>1, <1>5, <1>6, ClickAtSlot

LEMMA RightClickIn ==
    ASSUME NEW isOpen \in BOOLEAN, NEW window \in [WindowSlots(isOpen) -> Stacks],
           NEW cursor \in Stacks, NEW i \in WindowSlots(isOpen)
    PROVE  ClickIn(isOpen, RightClick(window, cursor, i))
  <1> DEFINE half == (window[i].count + 1) \div 2
             n == Fit(1, window[i])
  <1>1. window[i] \in Stacks /\ window[i].count \in 0..MaxStack /\ cursor.count \in 0..MaxStack
    BY StackFacts
  <1>2. half \in 0..window[i].count /\ window[i].count - half \in 0..MaxStack /\ half \in 0..MaxStack
    <2>1. \A k \in 0..MaxStack : (k + 1) \div 2 \in 0..k
      BY Sizes
    <2>2. half \in 0..window[i].count
      BY <1>1, <2>1
    <2> HIDE DEF half
    <2>3. QED
      BY <1>1, <2>2, Sizes
  <1>3. n \in 0..1 /\ window[i].count + n \in 0..MaxStack
    <2>1. 1 \in 0..MaxStack
      BY Sizes
    <2>2. QED
      BY <1>1, <2>1, FitIn
  <1>4. /\ WithCount(window[i], window[i].count - half) \in Stacks
        /\ WithCount(window[i], half) \in Stacks
        /\ WithCount(cursor, window[i].count + n) \in Stacks
    BY <1>1, <1>2, <1>3, WithCountIn
  <1>5. cursor # Empty => cursor.count - n \in 0..MaxStack
    BY <1>1, <1>3, StackFacts, Sizes
  <1>6. cursor # Empty => WithCount(cursor, cursor.count - n) \in Stacks
    BY <1>5, WithCountIn
  <1> HIDE DEF half, n
  <1>7. \/ RightClick(window, cursor, i) =
               Click("Click", 1, i, In(i, WithCount(window[i], window[i].count - half)),
                     WithCount(window[i], half))
        \/ /\ cursor # Empty
           /\ RightClick(window, cursor, i) =
                  Click("Click", 1, i, In(i, WithCount(cursor, window[i].count + n)),
                        WithCount(cursor, cursor.count - n))
        \/ RightClick(window, cursor, i) = Click("Click", 1, i, In(i, cursor), window[i])
    BY Zenon DEF RightClick, half, n
  <1>8. QED
    BY <1>1, <1>4, <1>6, <1>7, ClickAtSlot

LEMMA ShiftClicksIn ==
    ASSUME NEW isOpen \in BOOLEAN, NEW window \in [WindowSlots(isOpen) -> Stacks],
           NEW cursor \in Stacks, NEW i \in WindowSlots(isOpen),
           NEW k \in ShiftClicks(window, cursor, i)
    PROVE  ClickIn(isOpen, k)
  <1> DEFINE n(j) == Fit(window[i].count, window[j])
  <1>1. PICK j \in WindowSlots(isOpen) :
            k = Click("ShiftClick", 0, i,
                      InBoth(i, WithCount(window[i], window[i].count - n(j)),
                             j, WithCount(window[i], window[j].count + n(j))), Empty)
    BY DEF ShiftClicks
  <1>2. window[i] \in Stacks /\ window[j] \in Stacks /\ window[i].count \in 0..MaxStack
    BY StackFacts
  <1>3. n(j) \in 0..window[i].count /\ window[j].count + n(j) \in 0..MaxStack
    BY <1>2, FitIn
  <1>4. window[i].count - n(j) \in 0..MaxStack
    BY <1>2, <1>3, Sizes
  <1> DEFINE s == WithCount(window[i], window[i].count - n(j))
             r == WithCount(window[i], window[j].count + n(j))
  <1>5. s \in Stacks /\ r \in Stacks
    BY <1>2, <1>3, <1>4, WithCountIn
  <1> HIDE DEF s, r
  <1>6. i \in AnySlots /\ j \in AnySlots /\ i \in Int
    BY SlotsAre
  <1>7. InBoth(i, s, j, r) \in StackMaps /\ DOMAIN InBoth(i, s, j, r) = {i, j}
    BY <1>5, <1>6, InBothIsMap
  <1>8. k = Click("ShiftClick", 0, i, InBoth(i, s, j, r), Empty)
    BY <1>1 DEF s, r
  <1>9. QED
    BY <1>6, <1>7, <1>8, StackFacts DEF ClickIn, Click, Modes

LEMMA HotbarSwapsIn ==
    ASSUME NEW isOpen \in BOOLEAN, NEW window \in [WindowSlots(isOpen) -> Stacks],
           NEW cursor \in Stacks, NEW i \in WindowSlots(isOpen),
           NEW k \in HotbarSwaps(window, cursor, i, IF isOpen THEN WindowSlot(FirstMain) ELSE FirstMain)
    PROVE  ClickIn(isOpen, k)
  <1> DEFINE hand == IF isOpen THEN WindowSlot(FirstMain) ELSE FirstMain
  <1>1. /\ hand \in WindowSlots(isOpen)
        /\ isOpen => hand \notin BoxSlots
    BY Sizes, SlotsAre DEF WindowSlots, WindowSlot, FirstMain, BoxSlots
  <1> HIDE DEF hand
  <1>2. k = Click("Hotbar", 0, i, InBoth(i, window[hand], hand, window[i]), Empty)
    BY DEF HotbarSwaps, hand
  <1>3. i \in AnySlots /\ hand \in AnySlots /\ i \in Int /\ window[i] \in Stacks /\ window[hand] \in Stacks
    BY <1>1, SlotsAre
  <1> DEFINE f == InBoth(i, window[hand], hand, window[i])
  <1>4. f \in StackMaps /\ DOMAIN f = {i, hand}
    BY <1>3, InBothIsMap
  <1> HIDE DEF f
  <1>5. k = Click("Hotbar", 0, i, f, Empty)
    BY <1>2 DEF f
  <1>6. QED
    BY <1>1, <1>3, <1>4, <1>5, StackFacts DEF ClickIn, Click, Modes

LEMMA DropKeysIn ==
    ASSUME NEW isOpen \in BOOLEAN, NEW window \in [WindowSlots(isOpen) -> Stacks],
           NEW cursor \in Stacks, NEW i \in WindowSlots(isOpen),
           NEW k \in DropKeys(window, cursor, i)
    PROVE  ClickIn(isOpen, k)
  <1>1. PICK all \in 0..1 :
            /\ window[i] # Empty
            /\ k = Click("DropKey", all, i,
                         In(i, WithCount(window[i], IF all = 1 THEN 0 ELSE window[i].count - 1)), Empty)
    BY DEF DropKeys
  <1> DEFINE left == IF all = 1 THEN 0 ELSE window[i].count - 1
  <1>2. window[i] \in Stacks /\ window[i].count \in 1..MaxStack
    BY <1>1, StackFacts, Sizes
  <1>3. left \in 0..MaxStack
    BY <1>2, Sizes
  <1> HIDE DEF left
  <1>4. WithCount(window[i], left) \in Stacks
    BY <1>2, <1>3, WithCountIn
  <1>5. k = Click("DropKey", all, i, In(i, WithCount(window[i], left)), Empty)
    BY <1>1 DEF left
  <1>6. QED
    BY <1>4, <1>5, StackFacts, ClickAtSlot

LEMMA DragsIn ==
    ASSUME NEW isOpen \in BOOLEAN, NEW window \in [WindowSlots(isOpen) -> Stacks],
           NEW cursor \in Stacks, NEW k \in Drags(window, cursor)
    PROVE  ClickIn(isOpen, k)
  <1>1. PICK D \in SUBSET WindowSlots(isOpen) :
            /\ Cardinality(D) \in 2..cursor.count
            /\ \A i \in D : window[i].count < MaxStack
            /\ k = Click("Drag", 2, Outside, [i \in D |-> WithCount(cursor, window[i].count + 1)],
                         WithCount(cursor, cursor.count - Cardinality(D)))
    BY DEF Drags
  <1> DEFINE f == [i \in D |-> WithCount(cursor, window[i].count + 1)]
             carried == WithCount(cursor, cursor.count - Cardinality(D))
  <1>2. cursor.count \in 0..MaxStack
    BY StackFacts
  <1>3. cursor.count - Cardinality(D) \in 0..MaxStack
    BY <1>1, <1>2, Sizes
  <1>4. carried \in Stacks
    BY <1>3, WithCountIn
  <1>5. \A i \in D : f[i] \in Stacks
    <2> SUFFICES ASSUME NEW i \in D PROVE f[i] \in Stacks
      OBVIOUS
    <2>1. window[i].count \in 0..MaxStack /\ window[i].count < MaxStack
      BY <1>1, StackFacts
    <2>2. window[i].count + 1 \in 0..MaxStack
      BY <2>1, Sizes
    <2>3. QED
      BY <2>2, WithCountIn
  <1>6. D \in SUBSET AnySlots
    BY SlotsAre
  <1>7. f \in [D -> Stacks]
    BY <1>5
  <1>8. k = Click("Drag", 2, Outside, f, carried)
    BY <1>1
  <1>9. DOMAIN f = D
    OBVIOUS
  <1> HIDE DEF f, carried
  <1>10. f \in StackMaps
    BY <1>6, <1>7, StackMapsAre
  <1>11. QED
    BY <1>4, <1>8, <1>9, <1>10 DEF ClickIn, Click, Modes, Outside

LEMMA DoubleClicksIn ==
    ASSUME NEW isOpen \in BOOLEAN, NEW window \in [WindowSlots(isOpen) -> Stacks],
           NEW cursor \in Stacks, NEW i \in WindowSlots(isOpen),
           NEW k \in DoubleClicks(window, cursor, i)
    PROVE  ClickIn(isOpen, k)
  <1> DEFINE n == Fit(window[i].count, cursor)
             left == WithCount(cursor, window[i].count - n)
             carried == WithCount(cursor, cursor.count + n)
  <1>1. cursor # Empty /\ k = Click("DoubleClick", 0, i, In(i, left), carried)
    BY DEF DoubleClicks
  <1>2. window[i].count \in 0..MaxStack /\ cursor.count \in 0..MaxStack
    BY StackFacts
  <1>3. /\ n \in 0..window[i].count /\ cursor.count + n \in 0..MaxStack
        /\ n # window[i].count => cursor.count + n = MaxStack
    BY <1>2, FitIn
  <1>4. window[i].count - n \in 0..MaxStack /\ (window[i].count - n = 0 <=> n = window[i].count)
    BY <1>2, <1>3, Sizes
  <1> HIDE DEF n
  <1>5. /\ left \in Stacks /\ left.count = window[i].count - n
        /\ carried \in Stacks /\ carried.count = cursor.count + n
    BY <1>1, <1>3, <1>4, WithCountIn
  <1> HIDE DEF left, carried
  <1>6. left.count = 0 \/ carried.count = MaxStack
    BY <1>3, <1>4, <1>5
  <1>7. i \in AnySlots /\ i \in Int
    BY SlotsAre
  <1>8. In(i, left) \in StackMaps /\ DOMAIN In(i, left) = {i} /\ In(i, left)[i] = left
    BY <1>5, <1>7, InIsMap
  <1>9. QED
    BY <1>1, <1>5, <1>6, <1>7, <1>8 DEF ClickIn, Click, Modes

LEMMA ClicksOutsideIn ==
    ASSUME NEW isOpen \in BOOLEAN, NEW cursor \in Stacks, NEW k \in ClicksOutside(cursor)
    PROVE  ClickIn(isOpen, k)
  <1>1. PICK one \in 0..1 :
            /\ cursor # Empty
            /\ k = Click("Click", one, Outside, <<>>,
                         WithCount(cursor, IF one = 1 THEN cursor.count - 1 ELSE 0))
    BY DEF ClicksOutside
  <1> DEFINE left == IF one = 1 THEN cursor.count - 1 ELSE 0
  <1>2. left \in 0..MaxStack
    BY <1>1, StackFacts, Sizes
  <1> HIDE DEF left
  <1>3. WithCount(cursor, left) \in Stacks
    BY <1>2, WithCountIn
  <1>4. <<>> \in [{} -> Stacks]
    OBVIOUS
  <1>5. <<>> \in StackMaps /\ DOMAIN <<>> = {}
    BY <1>4, StackMapsAre
  <1>6. k = Click("Click", one, Outside, <<>>, WithCount(cursor, left))
    BY <1>1 DEF left
  <1>7. QED
    BY <1>3, <1>5, <1>6 DEF ClickIn, Click, Modes, Outside

LEMMA ClicksIn ==
    ASSUME NEW isOpen \in BOOLEAN, NEW window \in [WindowSlots(isOpen) -> Stacks],
           NEW cursor \in Stacks, NEW k \in Clicks(isOpen, window, cursor)
    PROVE  ClickIn(isOpen, k)
  <1>1. DOMAIN window = WindowSlots(isOpen)
    OBVIOUS
  <1>2. \/ k \in ClicksOutside(cursor) \/ k \in Drags(window, cursor)
        \/ \E i \in WindowSlots(isOpen) :
               \/ k = LeftClick(window, cursor, i) \/ k = RightClick(window, cursor, i)
               \/ k \in HotbarSwaps(window, cursor, i, IF isOpen THEN WindowSlot(FirstMain) ELSE FirstMain)
               \/ k \in DropKeys(window, cursor, i)
               \/ k \in DoubleClicks(window, cursor, i)
               \/ k \in ShiftClicks(window, cursor, i)
    BY <1>1 DEF Clicks
  <1>3. QED
    BY <1>2, ClicksOutsideIn, DragsIn, LeftClickIn, RightClickIn, HotbarSwapsIn, DropKeysIn,
       DoubleClicksIn, ShiftClicksIn

\* A function on slots is what it is on its domain.
LEMMA MapOf ==
    ASSUME NEW D \in SUBSET AnySlots, NEW f \in [D -> Stacks]
    PROVE  f \in StackMaps
  BY StackMapsAre

LEMMA RestrictIn ==
    ASSUME NEW f \in StackMaps, NEW D, D \subseteq DOMAIN f
    PROVE  Restrict(f, D) \in StackMaps /\ DOMAIN Restrict(f, D) = D /\ \A i \in D : Restrict(f, D)[i] = f[i]
  <1>1. Restrict(f, D) \in [D -> Stacks] /\ D \in SUBSET AnySlots
    BY StackMapsAre DEF Restrict
  <1>2. QED
    BY <1>1, MapOf DEF Restrict

LEMMA ViewWindowIn ==
    ASSUME TrafficOK, NEW c \in Clients
    PROVE  /\ ViewOpen(c) \in BOOLEAN
           /\ ViewWindow(c) \in [WindowSlots(ViewOpen(c)) -> Stacks]
           /\ view[c].cursor \in Stacks
  <1>1. view[c] \in Views
    BY DEF TrafficOK
  <1>2. view[c].own \in [OwnSlots -> Stacks] /\ view[c].box \in BoxViews /\ view[c].cursor \in Stacks
    BY <1>1 DEF Views
  <1>3. ViewOpen(c) \in BOOLEAN
    BY DEF ViewOpen
  <1>4. QED
    BY <1>2, <1>3, WindowIn DEF ViewWindow

\* The packet of a click that fits the window the client shows.
LEMMA ClickPacketIn ==
    ASSUME TrafficOK, NEW c \in Clients, NEW k, ClickIn(ViewOpen(c), k)
    PROVE  ClickPacket(c, k) \in Packets
  <1> DEFINE p == ClickPacket(c, k)
             D == {i \in DOMAIN k.after : k.after[i] # ViewWindow(c)[i]}
             sid == IF ViewOpen(c) THEN view[c].boxSid ELSE view[c].ownSid
  <1>1. view[c] \in Views
    BY DEF TrafficOK
  <1>2. view[c].win \in Nat /\ sid \in Nat
    BY <1>1 DEF Views
  <1>3. RestrictDomain(k.after, LAMBDA i : k.after[i] # ViewWindow(c)[i]) = Restrict(k.after, D)
    BY DEF RestrictDomain
  <1> DEFINE f == Restrict(k.after, D)
  <1>4. k.after \in StackMaps
    BY DEF ClickIn
  <1>5. D \subseteq DOMAIN k.after
    OBVIOUS
  <1> HIDE DEF D, sid
  <1>6. f \in StackMaps /\ DOMAIN f = D /\ \A i \in D : f[i] = k.after[i]
    BY <1>4, <1>5, RestrictIn
  <1> HIDE DEF f
  <1>7. p = [type |-> "click", win |-> view[c].win, sid |-> sid, mode |-> k.mode, button |-> k.button,
             at |-> k.at, changes |-> f, carried |-> k.carried]
    BY <1>3 DEF ClickPacket, f, sid
  <1> HIDE DEF p
  <1>8. p \in ClickRecords
    BY <1>2, <1>6, <1>7 DEF ClickIn, ClickRecords
  <1>9. /\ p.changes = f /\ p.mode = k.mode /\ p.at = k.at /\ p.carried = k.carried
        /\ ViewOpen(c) = (p.win # 0)
    BY <1>7 DEF ViewOpen
  <1>10. ClickFits(p)
    <2>1. DOMAIN p.changes \subseteq DOMAIN k.after
      BY <1>5, <1>6, <1>9
    <2>2. DOMAIN p.changes \subseteq WindowSlots(p.win # 0)
      BY <2>1, <1>9 DEF ClickIn
    <2>3. p.mode = "DropKey" => p.at \in WindowSlots(p.win # 0)
      BY <1>9 DEF ClickIn
    <2>4. p.mode = "Hotbar" /\ p.win # 0 /\ p.at \notin BoxSlots => DOMAIN p.changes \cap BoxSlots = {}
      BY <2>1, <1>9 DEF ClickIn
    <2>5. p.mode = "DoubleClick" =>
              /\ \A i \in DOMAIN p.changes : p.changes[i].count = 0 \/ p.carried.count = MaxStack
              /\ \A i, j \in DOMAIN p.changes : i = j
      BY <1>5, <1>6, <1>9 DEF ClickIn
    <2>6. QED
      BY <2>2, <2>3, <2>4, <2>5 DEF ClickFits
  <1>11. QED
    BY <1>8, <1>10 DEF Packets, ClickPackets, p

LEMMA PredictedIn ==
    ASSUME TrafficOK, NEW c \in Clients, NEW k, ClickIn(ViewOpen(c), k)
    PROVE  Predicted(c, k) \in Views
  <1>1. view[c] \in Views
    BY DEF TrafficOK
  <1>2. \A i \in DOMAIN k.after : k.after[i] \in Stacks
    BY StackMapsAre DEF ClickIn
  <1>3. k.carried \in Stacks
    BY DEF ClickIn
  <1>4. /\ \A j \in OwnSlots : view[c].own[j] \in Stacks
        /\ \A i \in BoxSlots : view[c].box[i] \in Stacks
    BY <1>1, SlotsAre DEF Views, BoxViews
  <1> DEFINE own == [j \in OwnSlots |->
                        IF /\ ViewIndex(c, j) \in DOMAIN k.after
                           /\ ~(ViewOpen(c) /\ ViewIndex(c, j) \in BoxSlots)
                        THEN k.after[ViewIndex(c, j)] ELSE view[c].own[j]]
             bx == [i \in BoxSlots |->
                        IF ViewOpen(c) /\ i \in DOMAIN k.after THEN k.after[i] ELSE view[c].box[i]]
  <1>5. own \in [OwnSlots -> Stacks]
    BY <1>2, <1>4
  <1>6. bx \in [BoxSlots -> Stacks]
    BY <1>2, <1>4
  <1>7. Predicted(c, k) = [view[c] EXCEPT !.cursor = k.carried, !.own = own, !.box = bx]
    BY DEF Predicted
  <1> HIDE DEF own, bx
  <1>8. QED
    BY <1>1, <1>3, <1>5, <1>6, <1>7 DEF Views, BoxViews

-----------------------------------------------------------------------------
\* What packets make of a view.
LEMMA UpdatedIn ==
    ASSUME NEW D, NEW slots \in [D -> Stacks], NEW f, \A i \in DOMAIN f : f[i] \in Stacks
    PROVE  Updated(slots, f) \in [D -> Stacks]
  BY DEF Updated

LEMMA ShownIn ==
    ASSUME NEW v \in Views, NEW m \in Messages
    PROVE  Shown(v, m) \in Views
  <1>1. /\ v.win \in Nat /\ v.ownSid \in Nat /\ v.boxSid \in Nat /\ v.cursor \in Stacks
        /\ v.own \in [OwnSlots -> Stacks] /\ v.box \in BoxViews
    BY DEF Views
  <1>2. CASE m.type = "content"
    <2>1. m \in Contents
      BY <1>2 DEF Messages
    <2>2. /\ m.sid \in Nat /\ m.slots \in BoxViews /\ m.carried \in Stacks
          /\ m.win = 0 => m.slots \in [OwnSlots -> Stacks]
      BY <2>1 DEF Contents
    <2>3. CASE m.win = 0
      <3>1. Shown(v, m) = [v EXCEPT !.own = m.slots, !.ownSid = m.sid, !.cursor = m.carried]
        BY <1>2, <2>3 DEF Shown
      <3>2. QED
        BY <3>1, <2>2, <2>3 DEF Views
    <2>4. CASE m.win # 0 /\ m.win = v.win
      <3>1. Shown(v, m) = [v EXCEPT !.box = m.slots, !.boxSid = m.sid, !.cursor = m.carried]
        BY <1>2, <2>4 DEF Shown
      <3>2. QED
        BY <3>1, <2>2 DEF Views
    <2>5. CASE m.win # 0 /\ m.win # v.win
      <3>1. Shown(v, m) = v
        BY <1>2, <2>5 DEF Shown
      <3>2. QED
        BY <3>1
    <2>6. QED
      BY <2>3, <2>4, <2>5
  <1>3. CASE m.type = "slots"
    <2>1. m.sid \in Nat /\ m.stacks \in StackMaps
      BY <1>3 DEF Messages, Contents
    <2>2. \A i \in DOMAIN m.stacks : m.stacks[i] \in Stacks
      BY <2>1, StackMapsAre
    <2>3. Updated(v.own, m.stacks) \in [OwnSlots -> Stacks]
      BY <1>1, <2>2, UpdatedIn
    <2>4. Updated(v.own, MainStacks(m.stacks)) \in [OwnSlots -> Stacks]
      <3>1. \A j \in DOMAIN MainStacks(m.stacks) : MainStacks(m.stacks)[j] \in Stacks
        BY <2>2 DEF MainStacks
      <3>2. QED
        BY <1>1, <3>1, UpdatedIn
    <2> DEFINE r == Restrict(m.stacks, BoxSlots \cap DOMAIN m.stacks)
    <2>5. Updated(v.box, r) \in BoxViews
      <3>1. \A i \in DOMAIN r : r[i] \in Stacks
        BY <2>2 DEF Restrict
      <3> HIDE DEF r
      <3>2. ASSUME NEW D, v.box \in [D -> Stacks] PROVE Updated(v.box, r) \in [D -> Stacks]
        BY <3>1, <3>2, UpdatedIn
      <3>3. QED
        BY <1>1, <3>2 DEF BoxViews
    <2>6. CASE m.win = 0
      <3>1. Shown(v, m) = [v EXCEPT !.own = Updated(v.own, m.stacks), !.ownSid = m.sid]
        BY <1>3, <2>6 DEF Shown
      <3>2. QED
        BY <3>1, <2>1, <2>3 DEF Views
    <2>7. CASE m.win # 0 /\ m.win = v.win
      <3>1. Shown(v, m) = [v EXCEPT !.own = Updated(v.own, MainStacks(m.stacks)),
                                    !.box = Updated(v.box, r), !.boxSid = m.sid]
        BY <1>3, <2>7 DEF Shown
      <3> HIDE DEF r
      <3>2. QED
        BY <3>1, <2>1, <2>4, <2>5 DEF Views
    <2>8. CASE m.win # 0 /\ m.win # v.win
      <3>1. Shown(v, m) = v
        BY <1>3, <2>8 DEF Shown
      <3>2. QED
        BY <3>1
    <2>9. QED
      BY <2>6, <2>7, <2>8
  <1>4. CASE m.type = "cursor"
    <2>1. m.stack \in Stacks
      BY <1>4 DEF Messages, Contents
    <2>2. Shown(v, m) = [v EXCEPT !.cursor = m.stack]
      BY <1>4 DEF Shown
    <2>3. QED
      BY <2>1, <2>2 DEF Views
  <1>5. CASE m.type = "screen"
    <2>1. m.win \in Nat
      BY <1>5 DEF Messages, Contents
    <2>2. Shown(v, m) = [v EXCEPT !.win = m.win, !.box = [i \in BoxSlots |-> Empty]]
      BY <1>5 DEF Shown
    <2>3. [i \in BoxSlots |-> Empty] \in [BoxSlots -> Stacks]
      BY StackFacts
    <2>4. QED
      BY <2>1, <2>2, <2>3 DEF Views, BoxViews
  <1>6. CASE m.type = "close"
    <2>1. Shown(v, m) = [v EXCEPT !.win = 0]
      BY <1>6 DEF Shown
    <2>2. QED
      BY <2>1 DEF Views
  <1>7. m.type \in {"content", "slots", "cursor", "screen", "close"}
    BY DEF Messages, Contents
  <1>8. QED
    BY <1>2, <1>3, <1>4, <1>5, <1>6, <1>7

\* The recursion of Showing has a solution, as that of PrefixSums has.
LEMMA ShowingIn ==
    ASSUME NEW v \in Views, NEW msgs \in Seq(Messages)
    PROVE  Showing(v, msgs)[Len(msgs)] \in Views
  <1> DEFINE n == Len(msgs)
             Follows(k, f) == /\ f[0] = v
                              /\ \A i \in 1..k : f[i] = Shown(f[i - 1], msgs[i])
             S == {k \in Nat : \E f \in [0..k -> Views] : Follows(k, f)}
             Step(f) == [k \in 0..n |-> IF k = 0 THEN v ELSE Shown(f[k - 1], msgs[k])]
  <1>0. n \in Nat /\ \A i \in 1..n : msgs[i] \in Messages
    OBVIOUS
  <1>1. 0 \in S
    <2>1. Follows(0, [i \in 0..0 |-> v])
      OBVIOUS
    <2>2. QED
      BY <2>1
  <1>2. \A k \in 0..(n - 1) : k \in S => k + 1 \in S
    <2> SUFFICES ASSUME NEW k \in 0..(n - 1), k \in S PROVE k + 1 \in S
      OBVIOUS
    <2>1. PICK f \in [0..k -> Views] : Follows(k, f)
      OBVIOUS
    <2> DEFINE next == Shown(f[k], msgs[k + 1])
               g == [i \in 0..(k + 1) |-> IF i <= k THEN f[i] ELSE next]
    <2>2. next \in Views
      <3>1. f[k] \in Views /\ msgs[k + 1] \in Messages
        BY <1>0
      <3>2. QED
        BY <3>1, ShownIn
    <2>3. g \in [0..(k + 1) -> Views]
      <3> HIDE DEF next
      <3>1. QED
        BY <2>2
    <2>4. g[0] = f[0] /\ g[k + 1] = next /\ \A i \in 0..k : g[i] = f[i]
      <3> HIDE DEF next
      <3>1. QED
        BY <1>0
    <2>5. \A i \in 1..(k + 1) : g[i] = Shown(g[i - 1], msgs[i])
      <3> SUFFICES ASSUME NEW i \in 1..(k + 1) PROVE g[i] = Shown(g[i - 1], msgs[i])
        OBVIOUS
      <3> HIDE DEF g
      <3>1. CASE i = k + 1
        BY <3>1, <2>4
      <3>2. CASE i \in 1..k
        <4>1. i \in 0..k /\ i - 1 \in 0..k
          BY <3>2
        <4>2. f[i] = Shown(f[i - 1], msgs[i])
          BY <2>1, <3>2
        <4>3. QED
          BY <4>1, <4>2, <2>4
      <3>3. QED
        BY <3>1, <3>2
    <2> HIDE DEF g
    <2>6. Follows(k + 1, g)
      BY <2>1, <2>4, <2>5
    <2>7. k + 1 \in Nat
      BY <1>0
    <2>8. QED
      BY <2>3, <2>6, <2>7
  <1>3. PICK f \in [0..n -> Views] : Follows(n, f)
    <2> HIDE DEF S
    <2>1. 0..n \subseteq S
      BY <1>0, <1>1, <1>2, InductionOverSet
    <2>2. n \in S
      BY <1>0, <2>1
    <2>3. QED
      BY <2>2 DEF S
  <1>4. f = Step(f)
    BY <1>3
  <1> DEFINE P == Showing(v, msgs)
  <1>5. P = CHOOSE g : g = Step(g)
    BY DEF Showing
  <1>6. P = Step(P)
    <2> HIDE DEF Step
    <2>1. QED
      BY <1>4, <1>5
  <1> HIDE DEF P
  <1>7. \A k \in 0..n : P[k] = IF k = 0 THEN v ELSE Shown(P[k - 1], msgs[k])
    BY <1>6, Zenon
  <1> DEFINE U == {k \in 0..n : P[k] \in Views}
  <1>8. 0 \in U
    BY <1>7, <1>0
  <1>9. \A k \in 0..(n - 1) : k \in U => k + 1 \in U
    <2> SUFFICES ASSUME NEW k \in 0..(n - 1), k \in U PROVE k + 1 \in U
      OBVIOUS
    <2>1. k + 1 \in 1..n /\ (k + 1) - 1 = k
      BY <1>0
    <2>2. P[k + 1] = Shown(P[k], msgs[k + 1])
      BY <1>7, <2>1
    <2>3. P[k] \in Views /\ msgs[k + 1] \in Messages
      BY <1>0, <2>1
    <2>4. P[k + 1] \in Views
      BY <2>2, <2>3, ShownIn
    <2>5. QED
      BY <2>1, <2>4
  <1> HIDE DEF U
  <1>10. 0..n \subseteq U
    BY <1>0, <1>8, <1>9, InductionOverSet
  <1>11. QED
    BY <1>0, <1>10 DEF U, P

-----------------------------------------------------------------------------
(***************************************************************************)
(* The server's records and what it writes.                                *)
(***************************************************************************)
LEMMA SetSlotsPlayer ==
    ASSUME NEW s \in Players, NEW slots \in [OwnSlots -> Stacks]
    PROVE  /\ SetSlots(s, slots) \in Players
           /\ SetSlots(s, slots).slots = slots
           /\ SetSlots(s, slots).cursor = s.cursor
           /\ SetSlots(s, slots).open = s.open
           /\ SetSlots(s, slots).win = s.win
           /\ SetSlots(s, slots).touched = s.touched
           /\ SetSlots(s, slots).boxTouched = s.boxTouched
           /\ SetSlots(s, slots).cursorChanged = s.cursorChanged
  <1> DEFINE marks == {i \in DOMAIN slots : slots[i] # s.slots[i]}
  <1>1. SetSlots(s, slots) = [s EXCEPT !.slots = slots, !.changed = s.changed \cup marks]
    BY DEF SetSlots
  <1>2. marks \subseteq OwnSlots
    OBVIOUS
  <1>3. OwnSlots \subseteq AllBits
    BY Sizes DEF OwnSlots, AllBits, OffHand
  <1> HIDE DEF marks
  <1>4. s.changed \cup marks \in (SUBSET OwnSlots) \cup {AllBits}
    <2>1. s.changed \in SUBSET OwnSlots \/ s.changed = AllBits
      BY DEF Players
    <2>2. CASE s.changed \in SUBSET OwnSlots
      BY <2>2, <1>2
    <2>3. CASE s.changed = AllBits
      <3>1. s.changed \cup marks = AllBits
        BY <2>3, <1>2, <1>3
      <3>2. QED
        BY <3>1
    <2>4. QED
      BY <2>1, <2>2, <2>3
  <1>5. QED
    BY <1>1, <1>4 DEF Players

LEMMA SetSlotsBox ==
    ASSUME NEW b \in Boxes, NEW slots \in [BoxSlots -> Stacks]
    PROVE  /\ SetSlots(b, slots) \in Boxes
           /\ SetSlots(b, slots).slots = slots
           /\ SetSlots(b, slots).life = b.life
  <1> DEFINE marks == {i \in DOMAIN slots : slots[i] # b.slots[i]}
  <1>1. SetSlots(b, slots) = [b EXCEPT !.slots = slots, !.changed = b.changed \cup marks]
    BY DEF SetSlots
  <1>2. marks \subseteq BoxSlots
    OBVIOUS
  <1>3. BoxSlots \subseteq AllBits
    BY Sizes DEF BoxSlots, AllBits, OffHand
  <1> HIDE DEF marks
  <1>4. b.changed \cup marks \in (SUBSET BoxSlots) \cup {AllBits}
    <2>1. b.changed \in SUBSET BoxSlots \/ b.changed = AllBits
      BY DEF Boxes
    <2>2. CASE b.changed \in SUBSET BoxSlots
      BY <2>2, <1>2
    <2>3. CASE b.changed = AllBits
      <3>1. b.changed \cup marks = AllBits
        BY <2>3, <1>2, <1>3
      <3>2. QED
        BY <3>1
    <2>4. QED
      BY <2>1, <2>2, <2>3
  <1>5. QED
    BY <1>1, <1>4 DEF Boxes

LEMMA WithoutWindowIn ==
    ASSUME NEW s \in Players
    PROVE  /\ WithoutWindow(s) \in Players
           /\ WithoutWindow(s).open = "none"
           /\ WithoutWindow(s).slots = s.slots
           /\ WithoutWindow(s).cursor = s.cursor
           /\ WithoutWindow(s).win = s.win
  BY DEF WithoutWindow, Players

LEMMA ServerWindowIn ==
    ASSUME TypeOK, NEW c \in Clients
    PROVE  /\ HasBox(c) \in BOOLEAN
           /\ ServerWindow(c) \in [WindowSlots(HasBox(c)) -> Stacks]
  <1>1. inv[c].slots \in [OwnSlots -> Stacks] /\ box.slots \in BoxViews
    BY DEF TypeOK, Players, Boxes, BoxViews
  <1>2. HasBox(c) \in BOOLEAN
    BY DEF HasBox, IsOpen
  <1>3. QED
    BY <1>1, <1>2, WindowIn DEF ServerWindow

LEMMA ContentIn ==
    ASSUME NEW win \in Nat, NEW sid \in Nat, NEW slots \in BoxViews, NEW carried \in Stacks,
           win = 0 => slots \in [OwnSlots -> Stacks]
    PROVE  Content(win, sid, slots, carried) \in Messages
  <1>1. Content(win, sid, slots, carried) \in Contents
    BY DEF Content, Contents
  <1>2. QED
    BY <1>1 DEF Messages

LEMMA OwnContentIn ==
    ASSUME NEW s \in Players
    PROVE  /\ OwnContent(s) \in Messages
           /\ Content(0, s.sid, s.slots, Empty) \in Messages
           /\ Content(s.win, s.sid, s.slots, s.cursor) \in Messages
  <1>1. s.win \in Nat /\ s.sid \in Nat /\ s.slots \in [OwnSlots -> Stacks] /\ s.cursor \in Stacks
    BY DEF Players
  <1>2. s.slots \in BoxViews /\ 0 \in Nat /\ Empty \in Stacks
    BY <1>1, StackFacts DEF BoxViews
  <1>3. QED
    BY <1>1, <1>2, ContentIn DEF OwnContent

LEMMA BoxContentIn ==
    ASSUME NEW s \in Players, s.win # 0, NEW slots \in [BoxSlots -> Stacks]
    PROVE  BoxContent(s, slots) \in Messages
  <1>1. s.win \in Nat /\ s.sid \in Nat /\ s.cursor \in Stacks
    BY DEF Players
  <1>2. slots \in BoxViews
    BY DEF BoxViews
  <1>3. QED
    BY <1>1, <1>2, ContentIn DEF BoxContent

LEMMA SlotUpdatesIn ==
    ASSUME NEW win \in Nat, NEW sid \in Nat, NEW f \in StackMaps
    PROVE  SlotUpdates(win, sid, f) \in Messages
  BY DEF SlotUpdates, Messages

\* While packets are handled, an open window is shown and has a number.
LEMMA WindowNumbered ==
    ASSUME TInv, phase \in {"idle", "packets"}, NEW c \in Clients
    PROVE  /\ inv[c].open \in {"none", "shown"}
           /\ IsOpen(c) => inv[c].win # 0
           /\ HasBox(c) => IsOpen(c)
  BY DEF TInv, TypeOK, Opening, IsOpen, HasBox, Players

LEMMA ResyncIn ==
    ASSUME TInv, phase \in {"idle", "packets"}, NEW c \in Clients,
           NEW s \in Players, s.win = inv[c].win
    PROVE  Resync(c, s) \in Messages
  <1>1. box.slots \in [BoxSlots -> Stacks]
    BY DEF TInv, TypeOK, Boxes
  <1>2. HasBox(c) => s.win # 0
    BY WindowNumbered
  <1>3. QED
    BY <1>1, <1>2, OwnContentIn, BoxContentIn DEF Resync

LEMMA WriteIn ==
    ASSUME TrafficOK, NEW c \in Clients, NEW msgs \in Seq(Messages), Write(c, msgs)
    PROVE  out' \in [Clients -> Seq(Messages)]
  <1>1. out[c] \o msgs \in Seq(Messages)
    BY DEF TrafficOK
  <1>2. out' = [out EXCEPT ![c] = out[c] \o msgs] /\ out \in [Clients -> Seq(Messages)]
    BY DEF Write, TrafficOK
  <1> HIDE DEF TrafficOK, Write
  <1>3. QED
    BY <1>1, <1>2

LEMMA TakesIn ==
    ASSUME TInv, NEW c \in Clients, NEW t, Takes(c, t)
    PROVE  /\ Head(toServer[c]) \in Packets
           /\ t = "click" => Head(toServer[c]) \in ClickPackets
           /\ toServer' \in [Clients -> Seq(Packets)]
           /\ phase \in {"idle", "packets"} /\ phase' = "packets"
           /\ UNCHANGED <<readonly, view, toClient, todo, supplied, bounds>>
  <1>1. toServer[c] \in Seq(Packets) /\ toServer[c] # <<>> /\ toServer \in [Clients -> Seq(Packets)]
    BY DEF TInv, TrafficOK, Takes
  <1>2. Head(toServer[c]) \in Packets /\ Tail(toServer[c]) \in Seq(Packets)
    BY <1>1
  <1>3. Head(toServer[c]).type = t /\ toServer' = [toServer EXCEPT ![c] = Tail(toServer[c])]
    BY DEF Takes
  <1>4. t = "click" => Head(toServer[c]) \in ClickPackets
    BY <1>2, <1>3 DEF Packets
  <1>5. toServer' \in [Clients -> Seq(Packets)]
    BY <1>1, <1>2, <1>3
  <1>6. QED
    BY <1>2, <1>4, <1>5 DEF Takes

\* The effect of the handler of a packet: the player's record may change, but
\* its window only to be gone.
LEMMA PacketKeepsTypes ==
    ASSUME TInv, NEW c \in Clients, NEW t, Takes(c, t),
           \/ UNCHANGED inv
           \/ \E s \in Players : /\ inv' = [inv EXCEPT ![c] = s]
                                 /\ s.win = inv[c].win /\ s.open \in {"none", inv[c].open},
           box' \in Boxes,
           UNCHANGED out \/ \E msgs \in Seq(Messages) : Write(c, msgs)
    PROVE  TInv'
  <1>1. /\ toServer' \in [Clients -> Seq(Packets)]
        /\ phase \in {"idle", "packets"} /\ phase' = "packets"
        /\ UNCHANGED <<readonly, view, toClient, todo, supplied, bounds>>
    BY TakesIn
  <1>2. out' \in [Clients -> Seq(Messages)]
    BY WriteIn DEF TInv, TrafficOK
  <1>3. \A d \in Clients : inv[d] \in Players /\ inv[d].open # "new" /\ (inv[d].open = "shown" => inv[d].win # 0)
    BY <1>1 DEF TInv, TypeOK, Opening
  <1>4. /\ inv' \in [Clients -> Players]
        /\ \A d \in Clients : inv'[d].open # "new" /\ (inv'[d].open = "shown" => inv'[d].win # 0)
    <2>1. inv \in [Clients -> Players]
      BY DEF TInv, TypeOK
    <2>2. CASE UNCHANGED inv
      BY <2>1, <2>2, <1>3
    <2>3. ASSUME NEW s \in Players, inv' = [inv EXCEPT ![c] = s],
                 s.win = inv[c].win, s.open \in {"none", inv[c].open}
          PROVE  /\ inv' \in [Clients -> Players]
                 /\ \A d \in Clients : inv'[d].open # "new" /\ (inv'[d].open = "shown" => inv'[d].win # 0)
      BY <2>1, <2>3, <1>3
    <2>4. QED
      BY <2>2, <2>3
  <1>5. TypeOK'
    BY <1>1, <1>4 DEF TInv, TypeOK
  <1>6. TrafficOK'
    BY <1>1, <1>2 DEF TInv, TrafficOK
  <1>7. Opening'
    BY <1>4 DEF Opening
  <1>8. QED
    BY <1>5, <1>6, <1>7 DEF TInv

-----------------------------------------------------------------------------
(***************************************************************************)
(* The packets, one by one.                                                *)
(***************************************************************************)
LEMMA OneMessage ==
    ASSUME NEW m \in Messages
    PROVE  <<m>> \in Seq(Messages)
  OBVIOUS

LEMMA RefuseClickTypes ==
    ASSUME TInv, NEW c \in Clients, RefuseClick(c)
    PROVE  TInv'
  <1>1. Takes(c, "click") /\ UNCHANGED <<inv, box>>
    BY DEF RefuseClick
  <1>2. phase \in {"idle", "packets"} /\ inv[c] \in Players /\ box \in Boxes
    BY <1>1, TakesIn DEF TInv, TypeOK
  <1>3. Resync(c, inv[c]) \in Messages
    BY <1>2, ResyncIn
  <1>4. \E msgs \in Seq(Messages) : Write(c, msgs)
    <2>1. <<>> \in Seq(Messages) /\ <<Resync(c, inv[c])>> \in Seq(Messages)
      BY <1>3, OneMessage
    <2>2. Write(c, <<>>) \/ Write(c, <<Resync(c, inv[c])>>)
      BY DEF RefuseClick
    <2>3. QED
      BY <2>1, <2>2
  <1>5. QED
    BY <1>1, <1>2, <1>4, PacketKeepsTypes

LEMMA DropCursorTypes ==
    ASSUME TInv, NEW c \in Clients, DropCursor(c)
    PROVE  TInv'
  <1> DEFINE s == [inv[c] EXCEPT !.cursor = Empty, !.cursorChanged = TRUE]
  <1>1. Takes(c, "click") /\ UNCHANGED <<box, out>> /\ inv' = [inv EXCEPT ![c] = s]
    BY DEF DropCursor
  <1>2. inv[c] \in Players /\ box \in Boxes
    BY DEF TInv, TypeOK
  <1>3. s \in Players /\ s.win = inv[c].win /\ s.open = inv[c].open
    BY <1>2, StackFacts DEF Players
  <1> HIDE DEF s
  <1>4. QED
    BY <1>1, <1>2, <1>3, PacketKeepsTypes

LEMMA ResyncClickTypes ==
    ASSUME TInv, NEW c \in Clients, ResyncClick(c)
    PROVE  TInv'
  <1> DEFINE s == [inv[c] EXCEPT !.sid = inv[c].sid + 1]
             m == IF IsOpen(c) THEN Resync(c, s) ELSE Content(s.win, s.sid, s.slots, s.cursor)
  <1>1. Takes(c, "click") /\ UNCHANGED box /\ inv' = [inv EXCEPT ![c] = s] /\ Write(c, <<m>>)
    BY DEF ResyncClick
  <1>2. phase \in {"idle", "packets"} /\ inv[c] \in Players /\ box \in Boxes
    BY <1>1, TakesIn DEF TInv, TypeOK
  <1>3. s \in Players /\ s.win = inv[c].win /\ s.open = inv[c].open
    BY <1>2 DEF Players
  <1> HIDE DEF s
  <1>4. m \in Messages
    BY <1>2, <1>3, ResyncIn, OwnContentIn
  <1> HIDE DEF m
  <1>5. <<m>> \in Seq(Messages)
    BY <1>4
  <1>6. QED
    BY <1>1, <1>2, <1>3, <1>5, PacketKeepsTypes

\* A click that is handled is about the window that the server has open, and its
\* container is there.
LEMMA PlainClickFits ==
    ASSUME TInv, NEW c \in Clients, Takes(c, "click"), PlainClick(c, Head(toServer[c]))
    PROVE  LET p == Head(toServer[c]) IN
           /\ p \in ClickPackets
           /\ IsOpen(c) = HasBox(c)
           /\ (p.win # 0) = IsOpen(c)
           /\ ValidPacket(p, ServerWindow(c), inv[c].cursor)
           /\ ~(p.mode = "Click" /\ p.at = Outside)
           /\ DOMAIN p.changes \subseteq WindowSlots(IsOpen(c))
           /\ \A i \in DOMAIN p.changes : p.changes[i] \in Stacks
           /\ ServerWindow(c) \in [WindowSlots(IsOpen(c)) -> Stacks]
           /\ p.carried \in Stacks
  <1> DEFINE p == Head(toServer[c])
  <1>1. p \in ClickPackets
    BY TakesIn
  <1> HIDE DEF p
  <1>2. /\ Valid(c, p) /\ ~Ignored(c, p) /\ ~(p.mode = "Click" /\ p.at = Outside)
    BY DEF PlainClick, p
  <1>3. HasBox(c) => IsOpen(c)
    BY DEF HasBox
  <1>4. HasBox(c) \in BOOLEAN /\ IsOpen(c) \in BOOLEAN
    BY DEF HasBox, IsOpen
  <1>5. IsOpen(c) = HasBox(c)
    BY <1>2, <1>3, <1>4 DEF Ignored
  <1>6. (p.win # 0) = IsOpen(c) /\ ValidPacket(p, ServerWindow(c), inv[c].cursor)
    BY <1>2, <1>4, <1>5 DEF Valid
  <1>7. DOMAIN p.changes \subseteq WindowSlots(IsOpen(c))
    BY <1>1, <1>6 DEF ClickPackets, ClickFits
  <1>8. p.changes \in StackMaps /\ p.carried \in Stacks
    BY <1>1 DEF ClickPackets, ClickRecords
  <1>9. ServerWindow(c) \in [WindowSlots(IsOpen(c)) -> Stacks]
    BY <1>5, ServerWindowIn DEF TInv
  <1>10. QED
    BY <1>1, <1>2, <1>5, <1>6, <1>7, <1>8, <1>9, StackMapsAre DEF p

\* What the window has at a slot is what the inventory of that slot has.
LEMMA WindowSlotIs ==
    ASSUME TypeOK, NEW c \in Clients, IsOpen(c) = HasBox(c), NEW i \in WindowSlots(IsOpen(c))
    PROVE  /\ InBox(c, i) => i \in BoxSlots /\ ServerWindow(c)[i] = box.slots[i]
           /\ ~InBox(c, i) =>
                  LET j == IF IsOpen(c) THEN PlayerSlot(i) ELSE i
                  IN  j \in OwnSlots /\ Index(c, j) = i /\ ServerWindow(c)[i] = inv[c].slots[j]
  <1>1. HasBox(c) \in BOOLEAN /\ IsOpen(c) \in BOOLEAN
    BY DEF HasBox, IsOpen
  <1>2. CASE IsOpen(c)
    <2>1. HasBox(c) /\ i \in 0..(BoxSize + Main - 1)
      BY <1>2, <1>1 DEF WindowSlots
    <2>2. ServerWindow(c)[i] = IF i \in BoxSlots THEN box.slots[i] ELSE inv[c].slots[PlayerSlot(i)]
      BY <2>1 DEF ServerWindow, Window
    <2>3. i \notin BoxSlots => PlayerSlot(i) \in OwnSlots /\ WindowSlot(PlayerSlot(i)) = i
      BY <2>1, Sizes DEF BoxSlots, PlayerSlot, WindowSlot, OwnSlots, OffHand, FirstMain
    <2>4. QED
      BY <1>2, <2>2, <2>3 DEF InBox, Index
  <1>3. CASE ~IsOpen(c)
    <2>1. ~HasBox(c) /\ i \in OwnSlots
      BY <1>3, <1>1 DEF WindowSlots
    <2>2. QED
      BY <1>3, <2>1 DEF ServerWindow, Window, InBox, Index
  <1>4. QED
    BY <1>1, <1>2, <1>3

LEMMA DropFromWindowTypes ==
    ASSUME TInv, NEW c \in Clients, DropFromWindow(c)
    PROVE  TInv'
  <1> DEFINE p == Head(toServer[c])
             at == p.at
             stack == ServerWindow(c)[at]
             n == IF p.button = 1 THEN stack.count ELSE 1
             left == WithCount(stack, stack.count - n)
             own == IF IsOpen(c) THEN PlayerSlot(at) ELSE at
  <1>1. Takes(c, "click") /\ PlainClick(c, p) /\ p.mode = "DropKey"
    BY DEF DropFromWindow
  <1>2. /\ p \in ClickPackets /\ IsOpen(c) = HasBox(c) /\ (p.win # 0) = IsOpen(c)
        /\ ServerWindow(c) \in [WindowSlots(IsOpen(c)) -> Stacks]
    BY <1>1, PlainClickFits
  <1>3. at \in WindowSlots(IsOpen(c))
    BY <1>1, <1>2 DEF ClickPackets, ClickFits
  <1>4. stack \in Stacks
    BY <1>2, <1>3
  <1>5. stack # Empty => left \in Stacks
    <2> SUFFICES ASSUME stack # Empty PROVE left \in Stacks
      OBVIOUS
    <2>1. stack.count \in 1..MaxStack
      BY <1>4, StackFacts, Sizes
    <2> HIDE DEF stack
    <2>2. stack.count - n \in 0..MaxStack
      BY <2>1, Sizes
    <2> HIDE DEF n
    <2>3. QED
      BY <1>4, <2>2, WithCountIn
  <1>6. /\ InBox(c, at) => at \in BoxSlots
        /\ ~InBox(c, at) => own \in OwnSlots
    BY <1>2, <1>3, WindowSlotIs DEF TInv
  <1>7. inv \in [Clients -> Players] /\ inv[c] \in Players /\ box \in Boxes
    BY DEF TInv, TypeOK
  <1>8. inv[c].slots \in [OwnSlots -> Stacks] /\ box.slots \in [BoxSlots -> Stacks]
    BY <1>7 DEF Players, Boxes
  <1>9. phase \in {"idle", "packets"} /\ (IsOpen(c) => inv[c].win # 0)
    BY <1>1, TakesIn, WindowNumbered
  <1> HIDE DEF p, stack, left, own
  <1>10. CASE /\ Write(c, <<IF InBox(c, at) THEN BoxContent(inv[c], box.slots) ELSE OwnContent(inv[c])>>)
              /\ UNCHANGED <<inv, box>>
    <2> DEFINE m == IF InBox(c, at) THEN BoxContent(inv[c], box.slots) ELSE OwnContent(inv[c])
    <2>1. m \in Messages
      <3>1. CASE InBox(c, at)
        BY <3>1, <1>7, <1>8, <1>9, BoxContentIn DEF InBox
      <3>2. CASE ~InBox(c, at)
        BY <3>2, <1>7, OwnContentIn
      <3>3. QED
        BY <3>1, <3>2
    <2> HIDE DEF m
    <2>2. <<m>> \in Seq(Messages)
      BY <2>1
    <2>3. Write(c, <<m>>)
      BY <1>10 DEF m
    <2>4. QED
      BY <1>1, <1>7, <1>10, <2>2, <2>3, PacketKeepsTypes
  <1>11. CASE /\ InBox(c, at) /\ stack # Empty
              /\ box' = SetSlots(box, [box.slots EXCEPT ![at] = left])
              /\ UNCHANGED <<inv, out>>
    <2>1. [box.slots EXCEPT ![at] = left] \in [BoxSlots -> Stacks]
      BY <1>5, <1>8, <1>11
    <2>2. box' \in Boxes
      BY <1>7, <1>11, <2>1, SetSlotsBox
    <2>3. QED
      BY <1>1, <1>11, <2>2, PacketKeepsTypes
  <1>12. CASE /\ ~InBox(c, at) /\ stack # Empty
              /\ inv' = [inv EXCEPT ![c] = SetSlots(inv[c], [inv[c].slots EXCEPT ![own] = left])]
              /\ UNCHANGED <<box, out>>
    <2> DEFINE s == SetSlots(inv[c], [inv[c].slots EXCEPT ![own] = left])
    <2>1. [inv[c].slots EXCEPT ![own] = left] \in [OwnSlots -> Stacks]
      BY <1>5, <1>8, <1>12
    <2>2. s \in Players /\ s.win = inv[c].win /\ s.open = inv[c].open
      BY <1>7, <2>1, SetSlotsPlayer
    <2>3. inv' = [inv EXCEPT ![c] = s]
      BY <1>12
    <2> HIDE DEF s
    <2>4. QED
      BY <1>1, <1>7, <1>12, <2>2, <2>3, PacketKeepsTypes
  <1>13. CASE UNCHANGED <<inv, box, out>>
    BY <1>1, <1>7, <1>13, PacketKeepsTypes
  <1>14. \/ /\ Write(c, <<IF InBox(c, at) THEN BoxContent(inv[c], box.slots) ELSE OwnContent(inv[c])>>)
            /\ UNCHANGED <<inv, box>>
         \/ /\ InBox(c, at) /\ stack # Empty
            /\ box' = SetSlots(box, [box.slots EXCEPT ![at] = left])
            /\ UNCHANGED <<inv, out>>
         \/ /\ ~InBox(c, at) /\ stack # Empty
            /\ inv' = [inv EXCEPT ![c] = SetSlots(inv[c], [inv[c].slots EXCEPT ![own] = left])]
            /\ UNCHANGED <<box, out>>
         \/ UNCHANGED <<inv, box, out>>
    BY DEF DropFromWindow, p, stack, left, own
  <1>15. QED
    BY <1>10, <1>11, <1>12, <1>13, <1>14

LEMMA HeldIsReadonlyTypes ==
    ASSUME TInv, NEW c \in Clients, NEW t, Takes(c, t), HeldIsReadonly(c), UNCHANGED box
    PROVE  TInv'
  <1> DEFINE m == Content(0, inv[c].sid, inv[c].slots, Empty)
  <1>1. inv[c] \in Players /\ box' \in Boxes
    BY DEF TInv, TypeOK
  <1>2. m \in Messages
    BY <1>1, OwnContentIn
  <1>3. Write(c, <<m>>) /\ UNCHANGED inv
    BY DEF HeldIsReadonly
  <1> HIDE DEF m
  <1>4. <<m>> \in Seq(Messages)
    BY <1>2
  <1>5. QED
    BY <1>1, <1>3, <1>4, PacketKeepsTypes

LEMMA DropHeldTypes ==
    ASSUME TInv, NEW c \in Clients, DropHeld(c)
    PROVE  TInv'
  <1> DEFINE stack == inv[c].slots[FirstMain]
             n == IF Head(toServer[c]).all THEN stack.count ELSE 1
             left == WithCount(stack, stack.count - n)
             slots == [inv[c].slots EXCEPT ![FirstMain] = left]
             s == [SetSlots(inv[c], slots) EXCEPT !.touched = SetSlots(inv[c], slots).touched \cup {FirstMain}]
  <1>1. Takes(c, "drop") /\ UNCHANGED box
    BY DEF DropHeld
  <1>2. inv[c] \in Players /\ box' \in Boxes
    BY <1>1 DEF TInv, TypeOK
  <1>3. inv[c].slots \in [OwnSlots -> Stacks] /\ stack \in Stacks
    BY <1>2, SlotsAre DEF Players
  <1>4. \/ HeldIsReadonly(c)
        \/ stack # Empty /\ inv' = [inv EXCEPT ![c] = s] /\ UNCHANGED out
        \/ UNCHANGED <<inv, out>>
    <2>1. CASE c \notin readonly /\ stack # Empty
      <3>1. inv' = [inv EXCEPT ![c] = [SetSlots(inv[c], slots) EXCEPT
                                          !.touched = SetSlots(inv[c], slots).touched \cup {FirstMain}]]
        BY <2>1, Zenon DEF DropHeld, HeldIsReadonly
      <3>2. UNCHANGED out
        BY <2>1 DEF DropHeld, HeldIsReadonly
      <3>3. QED
        BY <2>1, <3>1, <3>2
    <2>2. CASE ~(c \notin readonly /\ stack # Empty)
      BY <2>2 DEF DropHeld
    <2>3. QED
      BY <2>1, <2>2
  <1>5. ASSUME stack # Empty PROVE slots \in [OwnSlots -> Stacks]
    <2>1. stack.count \in 1..MaxStack
      BY <1>3, <1>5, StackFacts, Sizes
    <2> HIDE DEF stack
    <2>2. stack.count - n \in 0..MaxStack
      BY <2>1, Sizes
    <2> HIDE DEF n
    <2>3. left \in Stacks
      BY <1>3, <2>2, WithCountIn
    <2> HIDE DEF left
    <2>4. QED
      BY <1>3, <2>3
  <1> HIDE DEF slots
  <1>6. ASSUME stack # Empty PROVE s \in Players /\ s.win = inv[c].win /\ s.open = inv[c].open
    <2> DEFINE r == SetSlots(inv[c], slots)
    <2>1. r \in Players /\ r.win = inv[c].win /\ r.open = inv[c].open
      BY <1>2, <1>5, <1>6, SetSlotsPlayer
    <2>2. s = [r EXCEPT !.touched = r.touched \cup {FirstMain}]
      OBVIOUS
    <2> HIDE DEF r, s
    <2>3. QED
      BY <2>1, <2>2, SlotsAre DEF Players
  <1> HIDE DEF s, stack
  <1>7. CASE HeldIsReadonly(c)
    BY <1>1, <1>7, HeldIsReadonlyTypes
  <1>8. CASE stack # Empty /\ inv' = [inv EXCEPT ![c] = s] /\ UNCHANGED out
    BY <1>1, <1>2, <1>6, <1>8, PacketKeepsTypes
  <1>9. CASE UNCHANGED <<inv, out>>
    BY <1>1, <1>2, <1>9, PacketKeepsTypes
  <1>10. QED
    BY <1>4, <1>7, <1>8, <1>9

LEMMA SwapHandsTypes ==
    ASSUME TInv, NEW c \in Clients, SwapHands(c)
    PROVE  TInv'
  <1> DEFINE own == inv[c].slots
             slots == [own EXCEPT ![FirstMain] = own[OffHand], ![OffHand] = own[FirstMain]]
             s == SetSlots(inv[c], slots)
  <1>1. Takes(c, "swap") /\ UNCHANGED box
    BY DEF SwapHands
  <1>2. inv[c] \in Players /\ box' \in Boxes
    BY <1>1 DEF TInv, TypeOK
  <1>3. slots \in [OwnSlots -> Stacks]
    BY <1>2, SlotsAre DEF Players
  <1>4. HeldIsReadonly(c) \/ (inv' = [inv EXCEPT ![c] = s] /\ UNCHANGED out)
    BY DEF SwapHands
  <1> HIDE DEF slots
  <1>5. s \in Players /\ s.win = inv[c].win /\ s.open = inv[c].open
    BY <1>2, <1>3, SetSlotsPlayer
  <1> HIDE DEF s
  <1>6. CASE HeldIsReadonly(c)
    BY <1>1, <1>6, HeldIsReadonlyTypes
  <1>7. CASE inv' = [inv EXCEPT ![c] = s] /\ UNCHANGED out
    BY <1>1, <1>2, <1>5, <1>7, PacketKeepsTypes
  <1>8. QED
    BY <1>4, <1>6, <1>7

LEMMA HandleCloseTypes ==
    ASSUME TInv, NEW c \in Clients, HandleClose(c)
    PROVE  TInv'
  <1> DEFINE s == WithoutWindow(inv[c])
  <1>1. Takes(c, "close") /\ UNCHANGED <<box, out>> /\ inv' = [inv EXCEPT ![c] = s]
    BY DEF HandleClose
  <1>2. inv[c] \in Players /\ box' \in Boxes
    BY <1>1 DEF TInv, TypeOK
  <1>3. s \in Players /\ s.open = "none" /\ s.win = inv[c].win
    BY <1>2, WithoutWindowIn
  <1> HIDE DEF s
  <1>4. QED
    BY <1>1, <1>2, <1>3, PacketKeepsTypes

-----------------------------------------------------------------------------
\* The parts of ApplyClick by name.
Clicked(c) == Head(toServer[c])
Applied(c) == {i \in DOMAIN Clicked(c).changes : ~Frozen(c, Clicked(c), i)}
AppliedBox(c) == {i \in Applied(c) : InBox(c, i)}
AppliedOwn(c) == {j \in OwnSlots : Index(c, j) \in Applied(c) \ AppliedBox(c)}
ClickedSlots(c) == NewSlots(Clicked(c), ServerWindow(c))
CursorAfter(c) == IF Applied(c) = DOMAIN Clicked(c).changes THEN NewCursor(Clicked(c)) ELSE inv[c].cursor
BoxAfter(c) == [i \in BoxSlots |-> IF i \in AppliedBox(c) THEN ClickedSlots(c)[i] ELSE box.slots[i]]
OwnAfter(c) ==
    [j \in OwnSlots |-> IF j \in AppliedOwn(c) THEN ClickedSlots(c)[Index(c, j)] ELSE inv[c].slots[j]]
Marked(s, own, boxSlots, cursor, changed) ==
    [s EXCEPT !.touched = s.touched \cup own, !.boxTouched = s.boxTouched \cup boxSlots,
              !.cursor = cursor, !.told = cursor,
              !.cursorChanged = s.cursorChanged \/ changed]
PlayerAfter(c) ==
    Marked(SetSlots(inv[c], OwnAfter(c)), AppliedOwn(c), AppliedBox(c), CursorAfter(c),
           CursorAfter(c) # inv[c].cursor)

LEMMA ApplyClickIs ==
    ASSUME TypeOK, NEW c \in Clients, ApplyClick(c)
    PROVE  /\ Takes(c, "click") /\ PlainClick(c, Clicked(c)) /\ Clicked(c).mode # "DropKey"
           /\ inv' = [inv EXCEPT ![c] = PlayerAfter(c)]
           /\ box' = SetSlots(box, BoxAfter(c))
           /\ dropped' = dropped
           /\ Write(c, CASE IsOpen(c) /\ readonly \cap {c, Box} # {} ->
                               <<BoxContent(PlayerAfter(c), BoxAfter(c)), OwnContent(PlayerAfter(c))>>
                         [] ~IsOpen(c) /\ c \in readonly -> <<OwnContent(PlayerAfter(c))>>
                         [] OTHER -> <<>>)
  BY DEF ApplyClick, Clicked, Applied, AppliedBox, AppliedOwn, ClickedSlots, CursorAfter, BoxAfter, OwnAfter,
         Marked, PlayerAfter

LEMMA MarkedIn ==
    ASSUME NEW s \in Players, NEW own \in SUBSET OwnSlots, NEW boxSlots \in SUBSET BoxSlots, NEW cursor \in Stacks,
           NEW changed \in BOOLEAN
    PROVE  LET r == Marked(s, own, boxSlots, cursor, changed) IN
           r \in Players /\ r.slots = s.slots /\ r.cursor = cursor /\ r.win = s.win /\ r.open = s.open
  BY DEF Marked, Players

LEMMA ClickedSlotsIn ==
    ASSUME TInv, NEW c \in Clients, Takes(c, "click"), PlainClick(c, Clicked(c))
    PROVE  /\ \A i \in DOMAIN Clicked(c).changes : ClickedSlots(c)[i] \in Stacks
           /\ CursorAfter(c) \in Stacks
           /\ AppliedBox(c) \in SUBSET BoxSlots /\ AppliedOwn(c) \in SUBSET OwnSlots
           /\ BoxAfter(c) \in [BoxSlots -> Stacks] /\ OwnAfter(c) \in [OwnSlots -> Stacks]
  <1> DEFINE p == Clicked(c)
             window == ServerWindow(c)
  <1>1. /\ \A i \in DOMAIN p.changes : p.changes[i] \in Stacks
        /\ DOMAIN p.changes \subseteq WindowSlots(IsOpen(c))
        /\ window \in [WindowSlots(IsOpen(c)) -> Stacks]
        /\ p.carried \in Stacks
    BY PlainClickFits DEF Clicked
  <1>2. inv[c].slots \in [OwnSlots -> Stacks] /\ inv[c].cursor \in Stacks /\ box.slots \in [BoxSlots -> Stacks]
    BY DEF TInv, TypeOK, Players, Boxes
  <1> HIDE DEF p, window
  <1>3. ASSUME NEW i \in DOMAIN p.changes PROVE NewSlots(p, window)[i] \in Stacks
    <2>1. window[i] \in Stacks /\ p.changes[i] \in Stacks /\ p.changes[i].count \in 0..MaxStack
      BY <1>1, StackFacts
    <2>2. WithCount(window[i], p.changes[i].count) \in Stacks
      BY <2>1, WithCountIn
    <2>3. QED
      BY <2>1, <2>2 DEF NewSlots
  <1>4. \A i \in DOMAIN Clicked(c).changes : ClickedSlots(c)[i] \in Stacks
    BY <1>3 DEF ClickedSlots, p, window
  <1>5. CursorAfter(c) \in Stacks
    BY <1>1, <1>2, StackFacts DEF CursorAfter, NewCursor, p
  <1>6. AppliedBox(c) \in SUBSET BoxSlots /\ AppliedOwn(c) \in SUBSET OwnSlots
    BY DEF AppliedBox, AppliedOwn, InBox
  <1>7. AppliedBox(c) \subseteq Applied(c) /\ Applied(c) \subseteq DOMAIN Clicked(c).changes
    BY DEF AppliedBox, Applied
  <1>8. BoxAfter(c) \in [BoxSlots -> Stacks]
    BY <1>2, <1>4, <1>7 DEF BoxAfter
  <1>9. OwnAfter(c) \in [OwnSlots -> Stacks]
    <2>1. \A j \in AppliedOwn(c) : Index(c, j) \in DOMAIN Clicked(c).changes
      BY <1>7 DEF AppliedOwn
    <2>2. QED
      BY <1>2, <1>4, <2>1 DEF OwnAfter
  <1>10. QED
    BY <1>4, <1>5, <1>6, <1>8, <1>9

LEMMA ApplyClickTypes ==
    ASSUME TInv, NEW c \in Clients, ApplyClick(c)
    PROVE  TInv' /\ PlayerAfter(c) \in Players /\ SetSlots(box, BoxAfter(c)) \in Boxes
  <1> DEFINE s == PlayerAfter(c)
             first == BoxContent(s, BoxAfter(c))
             second == OwnContent(s)
  <1>1. /\ Takes(c, "click") /\ PlainClick(c, Clicked(c))
        /\ inv' = [inv EXCEPT ![c] = s]
        /\ box' = SetSlots(box, BoxAfter(c))
        /\ Write(c, CASE IsOpen(c) /\ readonly \cap {c, Box} # {} -> <<first, second>>
                      [] ~IsOpen(c) /\ c \in readonly -> <<second>>
                      [] OTHER -> <<>>)
    BY ApplyClickIs DEF TInv
  <1>2. inv[c] \in Players /\ box \in Boxes
    BY DEF TInv, TypeOK
  <1>3. /\ BoxAfter(c) \in [BoxSlots -> Stacks] /\ OwnAfter(c) \in [OwnSlots -> Stacks]
        /\ CursorAfter(c) \in Stacks
        /\ AppliedBox(c) \in SUBSET BoxSlots /\ AppliedOwn(c) \in SUBSET OwnSlots
    BY <1>1, ClickedSlotsIn
  <1>4. s \in Players /\ s.win = inv[c].win /\ s.open = inv[c].open
    <2> DEFINE r == SetSlots(inv[c], OwnAfter(c))
               changed == CursorAfter(c) # inv[c].cursor
    <2>1. r \in Players /\ r.win = inv[c].win /\ r.open = inv[c].open
      BY <1>2, <1>3, SetSlotsPlayer
    <2>2. changed \in BOOLEAN
      OBVIOUS
    <2>3. s = Marked(r, AppliedOwn(c), AppliedBox(c), CursorAfter(c), changed)
      BY DEF PlayerAfter
    <2> HIDE DEF r, s, changed
    <2>4. s \in Players /\ s.win = r.win /\ s.open = r.open
      BY <2>1, <2>2, <2>3, <1>3, MarkedIn
    <2>5. QED
      BY <2>1, <2>4
  <1>5. SetSlots(box, BoxAfter(c)) \in Boxes
    BY <1>2, <1>3, SetSlotsBox
  <1> HIDE DEF s
  <1>6. second \in Messages
    BY <1>4, OwnContentIn
  <1>7. IsOpen(c) => first \in Messages
    BY <1>1, <1>3, <1>4, TakesIn, WindowNumbered, BoxContentIn
  <1> HIDE DEF first, second
  <1>8. \E msgs \in Seq(Messages) : Write(c, msgs)
    <2>1. CASE IsOpen(c) /\ readonly \cap {c, Box} # {}
      <3>1. <<first, second>> \in Seq(Messages) /\ Write(c, <<first, second>>)
        BY <2>1, <1>1, <1>6, <1>7
      <3>2. QED
        BY <3>1
    <2>2. CASE ~IsOpen(c) /\ c \in readonly
      <3>1. <<second>> \in Seq(Messages) /\ Write(c, <<second>>)
        BY <2>2, <1>1, <1>6
      <3>2. QED
        BY <3>1
    <2>3. CASE ~(IsOpen(c) /\ readonly \cap {c, Box} # {}) /\ ~(~IsOpen(c) /\ c \in readonly)
      <3>1. <<>> \in Seq(Messages) /\ Write(c, <<>>)
        BY <2>3, <1>1
      <3>2. QED
        BY <3>1
    <2>4. QED
      BY <2>1, <2>2, <2>3
  <1>9. TInv'
    BY <1>1, <1>2, <1>4, <1>5, <1>8, PacketKeepsTypes
  <1>10. QED
    BY <1>4, <1>5, <1>9 DEF s

LEMMA PacketTypes ==
    ASSUME TInv, NEW c \in Clients, Packet(c)
    PROVE  TInv'
  BY RefuseClickTypes, DropCursorTypes, ResyncClickTypes, DropFromWindowTypes, ApplyClickTypes,
     DropHeldTypes, SwapHandsTypes, HandleCloseTypes DEF Packet

-----------------------------------------------------------------------------
(***************************************************************************)
(* The client.                                                             *)
(***************************************************************************)
LEMMA SendIn ==
    ASSUME TInv, NEW c \in Clients, NEW p \in Packets, Send(c, p), view' \in [Clients -> Views]
    PROVE  TInv'
  <1>1. toServer \in [Clients -> Seq(Packets)]
    BY DEF TInv, TrafficOK
  <1>2. Append(toServer[c], p) \in Seq(Packets)
    BY <1>1
  <1>3. toServer' = [toServer EXCEPT ![c] = Append(toServer[c], p)]
    BY DEF Send
  <1>4. toServer' \in [Clients -> Seq(Packets)]
    BY <1>1, <1>2, <1>3
  <1>5. UNCHANGED <<serverVars, toClient, out, phase, todo, supplied, calls>>
    BY DEF Send
  <1>6. TypeOK' /\ Opening'
    BY <1>5 DEF TInv, TypeOK, Opening, serverVars
  <1>7. TrafficOK'
    BY <1>4, <1>5 DEF TInv, TrafficOK
  <1>8. QED
    BY <1>6, <1>7 DEF TInv

LEMMA ClientClicksTypes ==
    ASSUME TInv, NEW c \in Clients, ClientClicks(c)
    PROVE  TInv'
  <1>1. PICK k \in Clicks(ViewOpen(c), ViewWindow(c), view[c].cursor) :
            view' = [view EXCEPT ![c] = Predicted(c, k)] /\ Send(c, ClickPacket(c, k))
    BY DEF ClientClicks
  <1>2. TrafficOK
    BY DEF TInv
  <1>3. /\ ViewOpen(c) \in BOOLEAN
        /\ ViewWindow(c) \in [WindowSlots(ViewOpen(c)) -> Stacks]
        /\ view[c].cursor \in Stacks
    BY <1>2, ViewWindowIn
  <1>4. ClickIn(ViewOpen(c), k)
    BY <1>1, <1>3, ClicksIn
  <1>5. ClickPacket(c, k) \in Packets /\ Predicted(c, k) \in Views
    BY <1>2, <1>4, ClickPacketIn, PredictedIn
  <1>6. view' \in [Clients -> Views]
    BY <1>1, <1>2, <1>5 DEF TrafficOK
  <1>7. QED
    BY <1>1, <1>5, <1>6, SendIn

LEMMA OtherPackets ==
    /\ [type |-> "close"] \in Packets
    /\ [type |-> "swap"] \in Packets
    /\ \A all \in BOOLEAN : [type |-> "drop", all |-> all] \in Packets
  BY DEF Packets

LEMMA ClientClosesTypes ==
    ASSUME TInv, NEW c \in Clients, ClientCloses(c)
    PROVE  TInv'
  <1>1. view' = [view EXCEPT ![c] = [view[c] EXCEPT !.win = 0]] /\ Send(c, [type |-> "close"])
    BY DEF ClientCloses
  <1>2. view \in [Clients -> Views]
    BY DEF TInv, TrafficOK
  <1>3. [view[c] EXCEPT !.win = 0] \in Views
    BY <1>2 DEF Views
  <1>4. view' \in [Clients -> Views]
    BY <1>1, <1>2, <1>3
  <1>5. QED
    BY <1>1, <1>4, OtherPackets, SendIn

LEMMA ClientDropsTypes ==
    ASSUME TInv, NEW c \in Clients, ClientDrops(c)
    PROVE  TInv'
  <1> DEFINE own == view[c].own
             stack == own[FirstMain]
  <1>1. PICK all \in BOOLEAN :
            /\ stack # Empty
            /\ view' = [view EXCEPT ![c] = [view[c] EXCEPT !.own =
                   [own EXCEPT ![FirstMain] = WithCount(stack, IF all THEN 0 ELSE stack.count - 1)]]]
            /\ Send(c, [type |-> "drop", all |-> all])
    BY DEF ClientDrops
  <1>2. view \in [Clients -> Views] /\ view[c] \in Views
    BY DEF TInv, TrafficOK
  <1>3. own \in [OwnSlots -> Stacks] /\ stack \in Stacks
    BY <1>2, SlotsAre DEF Views
  <1> HIDE DEF own, stack
  <1> DEFINE n == IF all THEN 0 ELSE stack.count - 1
             left == WithCount(stack, n)
             now == [own EXCEPT ![FirstMain] = left]
  <1>4. n \in 0..MaxStack
    BY <1>1, <1>3, StackFacts, Sizes
  <1> HIDE DEF n
  <1>5. left \in Stacks
    BY <1>3, <1>4, WithCountIn
  <1>6. view' = [view EXCEPT ![c] = [view[c] EXCEPT !.own = now]]
    BY <1>1 DEF n
  <1> HIDE DEF left
  <1>7. now \in [OwnSlots -> Stacks]
    BY <1>3, <1>5
  <1> HIDE DEF now
  <1>8. [view[c] EXCEPT !.own = now] \in Views
    BY <1>2, <1>7 DEF Views
  <1>9. view' \in [Clients -> Views]
    BY <1>2, <1>6, <1>8
  <1>10. QED
    BY <1>1, <1>9, OtherPackets, SendIn

LEMMA ClientSwapsHandsTypes ==
    ASSUME TInv, NEW c \in Clients, ClientSwapsHands(c)
    PROVE  TInv'
  <1>1. UNCHANGED view /\ Send(c, [type |-> "swap"])
    BY DEF ClientSwapsHands
  <1>2. view' \in [Clients -> Views]
    BY <1>1 DEF TInv, TrafficOK
  <1>3. QED
    BY <1>1, <1>2, OtherPackets, SendIn

LEMMA ClientReceivesTypes ==
    ASSUME TInv, NEW c \in Clients, ClientReceives(c)
    PROVE  TInv'
  <1> DEFINE msgs == Head(toClient[c])
             v == Showing(view[c], msgs)[Len(msgs)]
  <1>1. /\ toClient[c] # <<>>
        /\ view' = [view EXCEPT ![c] = v]
        /\ toClient' = [toClient EXCEPT ![c] = Tail(toClient[c])]
        /\ UNCHANGED <<serverVars, toServer, out, phase, todo, supplied, bounds>>
    BY DEF ClientReceives
  <1>2. view \in [Clients -> Views] /\ toClient \in [Clients -> Seq(Seq(Messages))]
    BY DEF TInv, TrafficOK
  <1>3. toClient[c] \in Seq(Seq(Messages))
    BY <1>2
  <1>4. msgs \in Seq(Messages) /\ Tail(toClient[c]) \in Seq(Seq(Messages))
    BY <1>1, <1>3
  <1> HIDE DEF msgs
  <1>5. v \in Views
    BY <1>2, <1>4, ShowingIn
  <1> HIDE DEF v
  <1>6. view' \in [Clients -> Views] /\ toClient' \in [Clients -> Seq(Seq(Messages))]
    BY <1>1, <1>2, <1>4, <1>5
  <1>7. TypeOK' /\ Opening'
    BY <1>1 DEF TInv, TypeOK, Opening, serverVars
  <1>8. TrafficOK'
    BY <1>1, <1>6 DEF TInv, TrafficOK
  <1>9. QED
    BY <1>7, <1>8 DEF TInv

LEMMA ClientTypes ==
    ASSUME TInv, NEW c \in Clients, Client(c)
    PROVE  TInv'
  BY ClientClicksTypes, ClientClosesTypes, ClientDropsTypes, ClientSwapsHandsTypes, ClientReceivesTypes
  DEF Client

-----------------------------------------------------------------------------
(***************************************************************************)
(* User code.                                                              *)
(***************************************************************************)
LEMMA CallKeepsTypes ==
    ASSUME TInv, Call, inv' \in [Clients -> Players], box' \in Boxes,
           readonly' \subseteq Clients \cup {Box},
           \A c \in Clients : inv'[c].open = "shown" => inv'[c].win # 0
    PROVE  TInv'
  <1>1. phase' = "user" /\ UNCHANGED <<view, toServer, toClient, out, todo>>
    BY DEF Call
  <1>2. QED
    BY <1>1 DEF TInv, TypeOK, TrafficOK, Opening

\* A call that changes one player's record.
LEMMA PlayerCallTypes ==
    ASSUME TInv, Call, UNCHANGED <<box, readonly>>, NEW c \in Clients, NEW s \in Players,
           inv' = [inv EXCEPT ![c] = s], s.open = "shown" => s.win # 0
    PROVE  TInv'
  <1>1. inv \in [Clients -> Players] /\ box' \in Boxes /\ readonly' \subseteq Clients \cup {Box}
    BY DEF TInv, TypeOK
  <1>2. \A d \in Clients : inv[d].open = "shown" => inv[d].win # 0
    BY DEF TInv, Opening
  <1>3. inv' \in [Clients -> Players]
    BY <1>1
  <1>4. \A d \in Clients : inv'[d].open = "shown" => inv'[d].win # 0
    BY <1>1, <1>2
  <1>5. QED
    BY <1>1, <1>3, <1>4, CallKeepsTypes

LEMMA BoxCallTypes ==
    ASSUME TInv, Call, UNCHANGED inv, box' \in Boxes, readonly' \subseteq Clients \cup {Box}
    PROVE  TInv'
  <1>1. inv' \in [Clients -> Players] /\ \A d \in Clients : inv'[d].open = "shown" => inv'[d].win # 0
    BY DEF TInv, TypeOK, Opening
  <1>2. QED
    BY <1>1, CallKeepsTypes

LEMMA UserTypes ==
    ASSUME TInv, User
    PROVE  TInv'
  <1>1. /\ inv \in [Clients -> Players] /\ box \in Boxes /\ readonly \subseteq Clients \cup {Box}
        /\ \A c \in Clients : inv[c] \in Players /\ (inv[c].open = "shown" => inv[c].win # 0)
    BY DEF TInv, TypeOK, Opening
  <1>2. ASSUME NEW c \in Clients, NEW stack \in Stacks, NEW i \in OwnSlots, UserSetsOwn(c, i, stack)
        PROVE  TInv'
    <2> DEFINE slots == [inv[c].slots EXCEPT ![i] = stack]
               s == SetSlots(inv[c], slots)
    <2>1. inv' = [inv EXCEPT ![c] = s] /\ Call /\ UNCHANGED <<box, readonly>>
      BY <1>2 DEF UserSetsOwn
    <2>2. slots \in [OwnSlots -> Stacks]
      BY <1>1 DEF Players
    <2> HIDE DEF slots
    <2>3. s \in Players /\ s.open = inv[c].open /\ s.win = inv[c].win
      BY <1>1, <2>2, SetSlotsPlayer
    <2> HIDE DEF s
    <2>4. QED
      BY <1>1, <2>1, <2>3, PlayerCallTypes
  <1>3. ASSUME NEW c \in Clients, NEW stack \in Stacks, UserSetsCursor(c, stack)
        PROVE  TInv'
    <2> DEFINE s == [inv[c] EXCEPT !.cursor = stack, !.cursorChanged = TRUE]
    <2>1. inv' = [inv EXCEPT ![c] = s] /\ Call /\ UNCHANGED <<box, readonly>>
      BY <1>3 DEF UserSetsCursor
    <2>2. s \in Players /\ s.open = inv[c].open /\ s.win = inv[c].win
      <3> DEFINE r == inv[c]
      <3>1. r \in Players
        BY <1>1
      <3> HIDE DEF r
      <3>2. [r EXCEPT !.cursor = stack, !.cursorChanged = TRUE] \in Players
        BY <3>1 DEF Players
      <3>3. QED
        BY <3>1, <3>2 DEF r, Players
    <2> HIDE DEF s
    <2>3. QED
      BY <1>1, <2>1, <2>2, PlayerCallTypes
  <1>4. ASSUME NEW i \in BoxSlots, NEW stack \in Stacks, UserSetsBox(i, stack)
        PROVE  TInv'
    <2> DEFINE slots == [box.slots EXCEPT ![i] = stack]
    <2>1. box' = SetSlots(box, slots) /\ Call /\ UNCHANGED <<inv, readonly>>
      BY <1>4 DEF UserSetsBox
    <2>2. slots \in [BoxSlots -> Stacks]
      BY <1>1 DEF Boxes
    <2> HIDE DEF slots
    <2>3. box' \in Boxes
      BY <1>1, <2>1, <2>2, SetSlotsBox
    <2>4. QED
      BY <1>1, <2>1, <2>3, BoxCallTypes
  <1>5. ASSUME NEW c \in Clients, UserResyncsOwn(c)
        PROVE  TInv'
    <2> DEFINE s == [inv[c] EXCEPT !.changed = AllBits]
    <2>1. inv' = [inv EXCEPT ![c] = s] /\ Call /\ UNCHANGED <<box, readonly>>
      BY <1>5 DEF UserResyncsOwn
    <2>2. s \in Players /\ s.open = inv[c].open /\ s.win = inv[c].win
      BY <1>1 DEF Players
    <2> HIDE DEF s
    <2>3. s \in Players /\ (s.open = "shown" => s.win # 0)
      BY <1>1, <2>2
    <2>4. QED
      BY <2>1, <2>3, PlayerCallTypes
  <1>6. ASSUME NEW c \in Clients, UserOpens(c)
        PROVE  TInv'
    <2> DEFINE s == [inv[c] EXCEPT !.open = "new"]
    <2>1. inv' = [inv EXCEPT ![c] = s] /\ Call /\ UNCHANGED <<box, readonly>>
      BY <1>6 DEF UserOpens
    <2>2. s \in Players /\ s.open = "new"
      BY <1>1 DEF Players
    <2> HIDE DEF s
    <2>3. QED
      BY <1>1, <2>1, <2>2, PlayerCallTypes
  <1>7. ASSUME NEW c \in Clients, UserCloses(c)
        PROVE  TInv'
    <2> DEFINE s == WithoutWindow(inv[c])
    <2>1. inv' = [inv EXCEPT ![c] = s] /\ Call /\ UNCHANGED <<box, readonly>>
      BY <1>7 DEF UserCloses
    <2>2. s \in Players /\ s.open = "none"
      BY <1>1, WithoutWindowIn
    <2> HIDE DEF s
    <2>3. QED
      BY <1>1, <2>1, <2>2, PlayerCallTypes
  <1>8. ASSUME NEW x \in Clients \cup {Box}, UserFreezes(x)
        PROVE  TInv'
    <2>1. Call /\ UNCHANGED <<inv, box>> /\ readonly' \subseteq Clients \cup {Box}
      BY <1>1, <1>8 DEF UserFreezes
    <2>2. QED
      BY <1>1, <2>1, BoxCallTypes
  <1>9. ASSUME UserResyncsBox PROVE TInv'
    <2>1. Call /\ UNCHANGED <<inv, readonly>> /\ box' \in Boxes
      BY <1>1, <1>9 DEF UserResyncsBox, Boxes
    <2>2. QED
      BY <1>1, <2>1, BoxCallTypes
  <1>10. ASSUME NEW life \in {"despawned", "gone"}, UserDespawnsBox(life) PROVE TInv'
    <2>1. Call /\ UNCHANGED <<inv, readonly>> /\ box' \in Boxes
      BY <1>1, <1>10 DEF UserDespawnsBox, Boxes
    <2>2. QED
      BY <1>1, <2>1, BoxCallTypes
  <1>11. QED
    BY <1>2, <1>3, <1>4, <1>5, <1>6, <1>7, <1>8, <1>9, <1>10 DEF User

-----------------------------------------------------------------------------
(***************************************************************************)
(* PostUpdate.                                                             *)
(***************************************************************************)
LEMMA CursorToldIn ==
    ASSUME NEW s \in Players
    PROVE  /\ CursorTold(s) \in Players
           /\ CursorTold(s).open = s.open /\ CursorTold(s).win = s.win
           /\ CursorTold(s).slots = s.slots /\ CursorTold(s).cursor = s.cursor
  BY DEF CursorTold, Players

LEMMA MessagesOfTheTick ==
    ASSUME TInv, NEW c \in Clients
    PROVE  ClosedMessage(c) \in Seq(Messages) /\ CursorMessage(c) \in Seq(Messages)
  <1>1. CloseScreen \in Messages
    BY DEF CloseScreen, Messages
  <1>2. CursorUpdate(inv[c].cursor) \in Messages
    BY DEF CursorUpdate, Messages, TInv, TypeOK, Players
  <1>3. <<CloseScreen>> \in Seq(Messages) /\ <<CursorUpdate(inv[c].cursor)>> \in Seq(Messages)
    BY <1>1, <1>2
  <1>4. <<>> \in Seq(Messages)
    OBVIOUS
  <1>5. QED
    BY <1>3, <1>4 DEF ClosedMessage, CursorMessage

LEMMA FinishTypes ==
    ASSUME TInv, NEW c \in Clients, Comes(c),
           NEW s \in Players, s.open # "new", s.open = "shown" => s.win # 0,
           NEW b \in Boxes, NEW msgs \in Seq(Messages), Finish(c, s, b, msgs)
    PROVE  TInv'
  <1> DEFINE closed == ClosedMessage(c)
             cursor == CursorMessage(c)
             now == out[c] \o closed \o msgs \o cursor
             written == [out EXCEPT ![c] = now]
             last == todo = {c}
             told == CursorTold(s)
  <1>1. /\ inv' = [inv EXCEPT ![c] = told]
        /\ box' = IF last THEN Despawned(b) ELSE b
        /\ todo' = todo \ {c}
        /\ phase' = IF last THEN "idle" ELSE phase
        /\ out' = IF last THEN [d \in Clients |-> <<>>] ELSE written
        /\ toClient' = IF last THEN [d \in Clients |->
                IF written[d] = <<>> THEN toClient[d] ELSE Append(toClient[d], written[d])] ELSE toClient
        /\ UNCHANGED <<readonly, dropped, view, toServer, supplied, bounds>>
    BY DEF Finish
  <1>2. told \in Players /\ told.open = s.open /\ told.win = s.win
    BY CursorToldIn
  <1>3. closed \in Seq(Messages) /\ cursor \in Seq(Messages)
    BY MessagesOfTheTick
  <1> HIDE DEF closed, cursor, told
  <1>4. /\ out \in [Clients -> Seq(Messages)] /\ toClient \in [Clients -> Seq(Seq(Messages))]
        /\ inv \in [Clients -> Players] /\ todo \subseteq Clients
    BY DEF TInv, TrafficOK, TypeOK
  <1>5. now \in Seq(Messages)
    <2>1. out[c] \o closed \in Seq(Messages)
      BY <1>3, <1>4
    <2>2. out[c] \o closed \o msgs \in Seq(Messages)
      BY <2>1
    <2>3. QED
      BY <2>2, <1>3
  <1> HIDE DEF now
  <1>6. written \in [Clients -> Seq(Messages)]
    BY <1>4, <1>5
  <1> HIDE DEF written
  <1>7. out' \in [Clients -> Seq(Messages)]
    BY <1>1, <1>6
  <1>8. toClient' \in [Clients -> Seq(Seq(Messages))]
    <2>1. CASE last
      <3>1. \A d \in Clients : Append(toClient[d], written[d]) \in Seq(Seq(Messages))
        BY <1>4, <1>6
      <3>2. \A d \in Clients :
                (IF written[d] = <<>> THEN toClient[d] ELSE Append(toClient[d], written[d])) \in Seq(Seq(Messages))
        BY <3>1, <1>4
      <3>3. QED
        BY <2>1, <1>1, <3>2
    <2>2. CASE ~last
      BY <2>2, <1>1, <1>4
    <2>3. QED
      BY <2>1, <2>2
  <1>9. box' \in Boxes
    BY <1>1 DEF Despawned, Boxes
  <1>10. inv' \in [Clients -> Players]
    BY <1>1, <1>2, <1>4
  <1>11. TypeOK'
    <2>1. phase' \in {"idle", "packets", "user", "post"} /\ todo' \subseteq Clients
      BY <1>1 DEF TInv, TypeOK
    <2>2. readonly' \subseteq Clients \cup {Box}
      BY <1>1 DEF TInv, TypeOK
    <2>3. QED
      BY <1>9, <1>10, <2>1, <2>2 DEF TypeOK
  <1>12. TrafficOK'
    BY <1>1, <1>7, <1>8 DEF TInv, TrafficOK
  <1>13. Opening'
    <2>1. phase = "post"
      BY DEF Comes
    <2>2. ASSUME NEW d \in Clients, inv'[d].open = "new"
          PROVE  phase' = "post" /\ d \in todo'
      <3>1. d # c /\ inv[d].open = "new"
        BY <2>2, <1>1, <1>2, <1>4
      <3>2. d \in todo
        BY <3>1, <2>1 DEF TInv, Opening
      <3>3. QED
        BY <3>1, <3>2, <2>1, <1>1
    <2>3. ASSUME NEW d \in Clients, inv'[d].open = "shown"
          PROVE  inv'[d].win # 0
      <3>1. CASE d = c
        BY <3>1, <2>3, <1>1, <1>2, <1>4
      <3>2. CASE d # c
        BY <3>2, <2>3, <1>1, <1>4 DEF TInv, Opening
      <3>3. QED
        BY <3>1, <3>2
    <2>4. QED
      BY <2>2, <2>3 DEF Opening
  <1>14. QED
    BY <1>11, <1>12, <1>13 DEF TInv

LEMMA UpdateOwnTypes ==
    ASSUME TInv, NEW c \in Clients, UpdateOwn(c)
    PROVE  TInv'
  <1> DEFINE s == [inv[c] EXCEPT !.closed = FALSE]
             told == [s EXCEPT !.changed = {}, !.touched = {}]
             next == [told EXCEPT !.sid = told.sid + 1]
             others == s.changed \ s.touched
             m == SlotUpdates(0, s.sid + 1, Restrict(s.slots, others))
  <1>1. Comes(c) /\ inv[c].open = "none"
    BY DEF UpdateOwn, IsOpen
  <1>2. \/ Finish(c, next, box, <<OwnContent(next)>>)
        \/ s.changed # AllBits /\ Finish(c, next, box, <<m>>)
        \/ Finish(c, told, box, <<>>)
        \/ Finish(c, s, box, <<>>)
    BY DEF UpdateOwn
  <1>3. inv[c] \in Players /\ box \in Boxes
    BY DEF TInv, TypeOK
  <1>4. s \in Players /\ s.open = "none"
    BY <1>1, <1>3 DEF Players
  <1> HIDE DEF s
  <1>5. told \in Players /\ told.open = "none"
    BY <1>4 DEF Players
  <1> HIDE DEF told
  <1>6. next \in Players /\ next.open = "none"
    BY <1>5 DEF Players
  <1> HIDE DEF next
  <1>7. CASE Finish(c, next, box, <<OwnContent(next)>>)
    <2>1. OwnContent(next) \in Messages
      BY <1>6, OwnContentIn
    <2>2. <<OwnContent(next)>> \in Seq(Messages)
      BY <2>1, OneMessage
    <2>3. QED
      BY <1>1, <1>3, <1>6, <1>7, <2>2, FinishTypes
  <1>8. CASE s.changed # AllBits /\ Finish(c, next, box, <<m>>)
    <2>1. s.slots \in [OwnSlots -> Stacks] /\ s.sid + 1 \in Nat /\ s.changed \subseteq OwnSlots
      BY <1>4, <1>8 DEF Players
    <2>2. s.slots \in StackMaps /\ others \subseteq DOMAIN s.slots
      BY <2>1, SlotsAre, MapOf
    <2> HIDE DEF others
    <2>3. Restrict(s.slots, others) \in StackMaps
      BY <2>2, RestrictIn
    <2>4. m \in Messages
      BY <2>1, <2>3, SlotUpdatesIn
    <2> HIDE DEF m
    <2>5. <<m>> \in Seq(Messages)
      BY <2>4, OneMessage
    <2>6. QED
      BY <1>1, <1>3, <1>6, <1>8, <2>5, FinishTypes
  <1>9. <<>> \in Seq(Messages)
    OBVIOUS
  <1>10. CASE Finish(c, told, box, <<>>)
    BY <1>1, <1>3, <1>5, <1>9, <1>10, FinishTypes
  <1>11. CASE Finish(c, s, box, <<>>)
    BY <1>1, <1>3, <1>4, <1>9, <1>11, FinishTypes
  <1>12. QED
    BY <1>2, <1>7, <1>8, <1>10, <1>11

LEMMA UpdateGoneTypes ==
    ASSUME TInv, NEW c \in Clients, UpdateGone(c)
    PROVE  TInv'
  <1> DEFINE r == WithoutWindow(inv[c])
             s == [r EXCEPT !.closed = TRUE]
  <1>1. Comes(c) /\ Finish(c, s, box, <<CloseScreen>>)
    BY DEF UpdateGone
  <1>2. inv[c] \in Players /\ box \in Boxes
    BY DEF TInv, TypeOK
  <1>3. r \in Players /\ r.open = "none"
    BY <1>2, WithoutWindowIn
  <1> HIDE DEF r
  <1>4. s \in Players /\ s.open = "none"
    BY <1>3 DEF Players
  <1> HIDE DEF s
  <1>5. CloseScreen \in Messages
    BY DEF CloseScreen, Messages
  <1>6. <<CloseScreen>> \in Seq(Messages)
    BY <1>5, OneMessage
  <1>7. QED
    BY <1>1, <1>2, <1>4, <1>6, FinishTypes

LEMMA UnmarkedIn ==
    ASSUME NEW s \in Players
    PROVE  /\ Unmarked(s) \in Players /\ Unmarked(s).open = "shown" /\ Unmarked(s).win = s.win
           /\ Unmarked(s).slots = s.slots /\ Unmarked(s).cursor = s.cursor
  BY DEF Unmarked, Players

LEMMA UpdateNewTypes ==
    ASSUME TInv, NEW c \in Clients, UpdateNew(c)
    PROVE  TInv'
  <1> DEFINE r == Unmarked(inv[c])
             s == [r EXCEPT !.win = (r.win % 100) + 1]
             clean == [box EXCEPT !.changed = {}]
             first == OpenScreen(s.win)
             second == BoxContent(s, box.slots)
  <1>1. Comes(c) /\ Finish(c, s, clean, <<first, second>>)
    BY DEF UpdateNew
  <1>2. inv[c] \in Players /\ box \in Boxes /\ box.slots \in [BoxSlots -> Stacks]
    BY DEF TInv, TypeOK, Boxes
  <1>3. r \in Players /\ r.open = "shown"
    BY <1>2, UnmarkedIn
  <1> HIDE DEF r
  <1>4. r.win \in 0..100
    BY <1>3 DEF Players
  <1>5. (r.win % 100) + 1 \in 1..100
    BY <1>4
  <1>6. s \in Players /\ s.open = "shown" /\ s.win \in 1..100
    BY <1>3, <1>5 DEF Players
  <1>7. clean \in Boxes
    BY <1>2 DEF Boxes
  <1> HIDE DEF s, clean
  <1>8. first \in Messages
    BY <1>6 DEF OpenScreen, Messages
  <1>9. second \in Messages
    BY <1>2, <1>6, BoxContentIn
  <1> HIDE DEF first, second
  <1>10. <<first, second>> \in Seq(Messages)
    BY <1>8, <1>9
  <1>11. s.win # 0 /\ s.open # "new"
    BY <1>6
  <1>12. QED
    BY <1>1, <1>6, <1>7, <1>10, <1>11, FinishTypes

LEMMA UpdateShownTypes ==
    ASSUME TInv, NEW c \in Clients, UpdateShown(c)
    PROVE  TInv'
  <1> DEFINE s == Unmarked(inv[c])
             clean == [box EXCEPT !.changed = {}]
             own == {j \in OwnSlots : j \in s.changed /\ j >= FirstMain}
             slots == {i \in BoxSlots : i \in box.changed \ inv[c].boxTouched}
                          \cup {WindowSlot(j) : j \in own}
             stacks == [i \in slots |-> IF i \in BoxSlots THEN box.slots[i] ELSE s.slots[PlayerSlot(i)]]
             next == [s EXCEPT !.sid = s.sid + 1]
             some == [s EXCEPT !.changed = {}]
             m == SlotUpdates(s.win, s.sid, stacks)
  <1>1. Comes(c) /\ inv[c].open = "shown"
    BY DEF UpdateShown
  <1>2. \/ Finish(c, next, clean, <<BoxContent(next, box.slots)>>)
        \/ Finish(c, some, clean, <<m>>)
        \/ Finish(c, s, clean, <<>>)
    BY DEF UpdateShown
  <1>3. inv[c] \in Players /\ box \in Boxes /\ box.slots \in [BoxSlots -> Stacks] /\ inv[c].win # 0
    BY <1>1 DEF TInv, TypeOK, Boxes, Opening
  <1>4. s \in Players /\ s.open = "shown" /\ s.win # 0
    BY <1>3, UnmarkedIn
  <1> HIDE DEF s
  <1>5. clean \in Boxes
    BY <1>3 DEF Boxes
  <1> HIDE DEF clean
  <1>6. next \in Players /\ next.open = "shown" /\ next.win # 0
    BY <1>4 DEF Players
  <1>7. some \in Players /\ some.open = "shown" /\ some.win # 0
    BY <1>4 DEF Players
  <1> HIDE DEF next, some
  <1>8. m \in Messages
    <2>1. s.slots \in [OwnSlots -> Stacks] /\ s.win \in Nat /\ s.sid \in Nat
      BY <1>4 DEF Players
    <2>2. slots \subseteq AnySlots
      BY SlotsAre
    <2>3. \A j \in OwnSlots : j \in Int /\ PlayerSlot(WindowSlot(j)) = j
      BY Sizes DEF OwnSlots, OffHand, PlayerSlot, WindowSlot, FirstMain
    <2>4. \A i \in slots : i \notin BoxSlots => PlayerSlot(i) \in OwnSlots
      BY <2>3
    <2> HIDE DEF slots
    <2>5. stacks \in [slots -> Stacks]
      BY <2>1, <2>4, <1>3
    <2> HIDE DEF stacks
    <2>6. stacks \in StackMaps
      BY <2>2, <2>5, MapOf
    <2>7. QED
      BY <2>1, <2>6, SlotUpdatesIn
  <1> HIDE DEF m
  <1>9. CASE Finish(c, next, clean, <<BoxContent(next, box.slots)>>)
    <2>1. BoxContent(next, box.slots) \in Messages
      BY <1>3, <1>6, BoxContentIn
    <2>2. <<BoxContent(next, box.slots)>> \in Seq(Messages)
      BY <2>1, OneMessage
    <2>3. QED
      BY <1>1, <1>5, <1>6, <1>9, <2>2, FinishTypes
  <1>10. CASE Finish(c, some, clean, <<m>>)
    <2>1. <<m>> \in Seq(Messages)
      BY <1>8, OneMessage
    <2>2. QED
      BY <1>1, <1>5, <1>7, <1>10, <2>1, FinishTypes
  <1>11. CASE Finish(c, s, clean, <<>>)
    <2>1. <<>> \in Seq(Messages)
      OBVIOUS
    <2>2. QED
      BY <1>1, <1>4, <1>5, <1>11, <2>1, FinishTypes
  <1>12. QED
    BY <1>2, <1>9, <1>10, <1>11

LEMMA PostUpdateTypes ==
    ASSUME TInv, NEW c \in Clients, PostUpdate(c)
    PROVE  TInv'
  BY UpdateOwnTypes, UpdateGoneTypes, UpdateNewTypes, UpdateShownTypes DEF PostUpdate

-----------------------------------------------------------------------------
LEMMA InitTypes ==
    ASSUME Init
    PROVE  TInv
  <1>1. Empty \in Stacks
    BY StackFacts
  <1>2. Fresh \in Players /\ Fresh.open = "none"
    BY <1>1 DEF Fresh, Players
  <1>3. Opened \in Players /\ Opened.open = "shown" /\ Opened.win = 1
    <2>1. 1 \in 0..100
      OBVIOUS
    <2> DEFINE r == Fresh
    <2>2. r \in Players
      BY <1>2
    <2> HIDE DEF r
    <2>3. [r EXCEPT !.open = "shown", !.win = 1] \in Players
      BY <2>1, <2>2 DEF Players
    <2>4. [r EXCEPT !.open = "shown", !.win = 1].open = "shown" /\ [r EXCEPT !.open = "shown", !.win = 1].win = 1
      BY <2>2 DEF Players
    <2>5. QED
      BY <2>3, <2>4 DEF Opened, r
  <1>4. ASSUME NEW s \in {Fresh, Opened}, NEW stack \in Stacks
        PROVE  Held(s, stack) \in Players /\ Held(s, stack).open = s.open /\ Held(s, stack).win = s.win
    <2> HIDE DEF Fresh, Opened
    <2>1. s \in Players
      BY <1>2, <1>3
    <2>2. QED
      BY <2>1, SlotsAre DEF Held, Players
  <1>5. PICK held \in [Clients -> Stacks], opened \in {{}} \cup {{c} : c \in Clients} :
            inv = [c \in Clients |-> Held(IF c \in opened THEN Opened ELSE Fresh, held[c])]
    BY DEF Init
  <1>6. inv \in [Clients -> Players]
    BY <1>4, <1>5
  <1>7. \A c \in Clients : inv[c].open # "new" /\ (inv[c].open = "shown" => inv[c].win # 0)
    BY <1>2, <1>3, <1>4, <1>5
  <1>8. box \in Boxes
    BY DEF Init, Boxes
  <1>9. TypeOK
    BY <1>6, <1>8 DEF Init, TypeOK
  <1>10. TrafficOK
    <2>1. view \in [Clients -> Views]
      <3> DEFINE v(c) == [win |-> inv[c].win, ownSid |-> 0, boxSid |-> 0, cursor |-> Empty,
                          own |-> inv[c].slots,
                          box |-> IF IsOpen(c) THEN box.slots ELSE [i \in BoxSlots |-> Empty]]
      <3>1. view = [c \in Clients |-> v(c)]
        BY DEF Init
      <3>2. ASSUME NEW c \in Clients PROVE v(c) \in Views
        <4>1. inv[c].win \in Nat /\ inv[c].slots \in [OwnSlots -> Stacks]
          BY <1>6 DEF Players
        <4>2. box.slots \in BoxViews /\ [i \in BoxSlots |-> Empty] \in BoxViews
          BY <1>1, <1>8 DEF Boxes, BoxViews
        <4>3. QED
          BY <1>1, <4>1, <4>2 DEF Views
      <3>3. QED
        BY <3>1, <3>2
    <2>2. QED
      BY <2>1 DEF Init, TrafficOK
  <1>11. QED
    BY <1>7, <1>9, <1>10 DEF TInv, Opening

LEMMA NextTypes ==
    ASSUME TInv, [Next]_vars
    PROVE  TInv'
  <1>1. CASE UNCHANGED vars
    BY <1>1 DEF vars, TInv, TypeOK, TrafficOK, Opening
  <1>2. CASE StartUpdate
    BY <1>2 DEF StartUpdate, serverVars, TInv, TypeOK, TrafficOK, Opening
  <1>3. CASE StartPostUpdate
    BY <1>3 DEF StartPostUpdate, serverVars, TInv, TypeOK, TrafficOK, Opening
  <1>4. QED
    BY <1>1, <1>2, <1>3, ClientTypes, PacketTypes, PostUpdateTypes, UserTypes DEF Next

\* Inventories and cursors hold stacks and nothing else, and marks stay within
\* the slots there are: whatever clients send of windows that have changed, and
\* whatever user code does.
THEOREM SpecTypeOK == Spec => []TypeOK
  <1>1. Init => TInv
    BY InitTypes
  <1>2. TInv /\ [Next]_vars => TInv'
    BY NextTypes
  <1>3. TInv => TypeOK
    BY DEF TInv
  <1>4. QED
    BY <1>1, <1>2, <1>3, PTL DEF Spec

-----------------------------------------------------------------------------
(***************************************************************************)
(* Items.                                                                  *)
(***************************************************************************)
Counts(slots) == [i \in DOMAIN slots |-> slots[i].count]

LEMMA SlotSetsFinite == IsFiniteSet(OwnSlots) /\ IsFiniteSet(BoxSlots)
  <1>1. 0 \in Int /\ OffHand \in Int /\ BoxSize - 1 \in Int
    BY Sizes DEF OffHand
  <1>2. QED
    BY <1>1, FS_Interval DEF OwnSlots, BoxSlots

LEMMA ItemsInIs ==
    ASSUME NEW S, IsFiniteSet(S), NEW slots \in [S -> Stacks]
    PROVE  /\ ItemsIn(slots) = SumFunctionOnSet(Counts(slots), S)
           /\ IntOn(Counts(slots), S)
           /\ \A i \in S : Counts(slots)[i] = slots[i].count
           /\ ItemsIn(slots) \in Int
  <1>1. DOMAIN slots = S /\ DOMAIN Counts(slots) = S
    BY DEF Counts
  <1>2. \A i \in S : Counts(slots)[i] = slots[i].count
    BY DEF Counts
  <1>3. \A i \in S : slots[i].count \in Int
    BY StackFacts
  <1>4. IntOn(Counts(slots), S)
    BY <1>2, <1>3 DEF IntOn
  <1>5. ItemsIn(slots) = SumFunctionOnSet(Counts(slots), S)
    BY <1>1 DEF ItemsIn, SumFunction, Counts
  <1>6. SumFunctionOnSet(Counts(slots), S) \in Int
    BY <1>4, SumStep
  <1>7. QED
    BY <1>2, <1>4, <1>5, <1>6

LEMMA SumOfOne ==
    ASSUME NEW x, NEW f, f[x] \in Int
    PROVE  SumFunctionOnSet(f, {x}) = f[x]
  <1>1. IsFiniteSet({x}) /\ IntOn(f, {x})
    BY FS_Singleton DEF IntOn
  <1>2. SumFunctionOnSet(f, {x}) = f[x] + SumFunctionOnSet(f, {x} \ {x})
    BY <1>1, SumStep
  <1>3. {x} \ {x} = {}
    OBVIOUS
  <1>4. SumFunctionOnSet(f, {x} \ {x}) = 0
    BY <1>3, SumEmpty
  <1>5. QED
    BY <1>2, <1>4

LEMMA SumOneChanged ==
    ASSUME NEW S, IsFiniteSet(S), NEW f, IntOn(f, S), NEW g, IntOn(g, S),
           NEW x \in S, \A y \in S \ {x} : f[y] = g[y]
    PROVE  SumFunctionOnSet(f, S) = SumFunctionOnSet(g, S) + (f[x] - g[x])
  <1> DEFINE h == [y \in {x} |-> f[x] - g[x]]
  <1>1. f[x] \in Int /\ g[x] \in Int
    BY DEF IntOn
  <1>2. h[x] = f[x] - g[x] /\ h[x] \in Int
    BY <1>1
  <1> HIDE DEF h
  <1>3. IntOn(h, {x})
    BY <1>2 DEF IntOn
  <1>4. \A y \in {x} : f[y] = g[y] + h[y]
    BY <1>1, <1>2
  <1>5. SumFunctionOnSet(f, S) = SumFunctionOnSet(g, S) + SumFunctionOnSet(h, {x})
    BY <1>3, <1>4, SumDifference
  <1>6. SumFunctionOnSet(h, {x}) = h[x]
    BY <1>2, SumOfOne
  <1>7. QED
    BY <1>2, <1>5, <1>6

LEMMA SlotReplaced ==
    ASSUME NEW S, IsFiniteSet(S), NEW slots \in [S -> Stacks], NEW i \in S, NEW stack \in Stacks
    PROVE  /\ ItemsIn([slots EXCEPT ![i] = stack]) = ItemsIn(slots) + (stack.count - slots[i].count)
           /\ ItemsIn(slots) \in Int /\ stack.count \in Int /\ slots[i].count \in Int
  <1> DEFINE now == [slots EXCEPT ![i] = stack]
             f == Counts(now)
             g == Counts(slots)
  <1>1. now \in [S -> Stacks] /\ now[i] = stack /\ \A k \in S \ {i} : now[k] = slots[k]
    OBVIOUS
  <1> HIDE DEF now
  <1>2. /\ ItemsIn(now) = SumFunctionOnSet(f, S) /\ IntOn(f, S)
        /\ \A k \in S : f[k] = now[k].count
    BY <1>1, ItemsInIs
  <1>3. /\ ItemsIn(slots) = SumFunctionOnSet(g, S) /\ IntOn(g, S)
        /\ \A k \in S : g[k] = slots[k].count
        /\ ItemsIn(slots) \in Int
    BY ItemsInIs
  <1> HIDE DEF f, g
  <1>4. \A k \in S \ {i} : f[k] = g[k]
    BY <1>1, <1>2, <1>3
  <1>5. SumFunctionOnSet(f, S) = SumFunctionOnSet(g, S) + (f[i] - g[i])
    BY <1>2, <1>3, <1>4, SumOneChanged
  <1>6. f[i] = stack.count /\ g[i] = slots[i].count
    BY <1>1, <1>2, <1>3
  <1>7. stack.count \in Int /\ slots[i].count \in Int
    BY StackFacts
  <1>8. QED
    BY <1>2, <1>3, <1>5, <1>6, <1>7 DEF now

\* What a player has, with the cursor.
Holds(s) == ItemsIn(s.slots) + s.cursor.count

LEMMA HoldsIn ==
    ASSUME NEW s \in Players
    PROVE  Holds(s) \in Int /\ ItemsIn(s.slots) \in Int /\ s.cursor.count \in Int
  <1>1. s.slots \in [OwnSlots -> Stacks] /\ s.cursor \in Stacks
    BY DEF Players
  <1>2. ItemsIn(s.slots) \in Int /\ s.cursor.count \in Int
    BY <1>1, SlotSetsFinite, ItemsInIs, StackFacts
  <1>3. QED
    BY <1>2 DEF Holds

ItemsOf(players, b) == SumFunction([c \in Clients |-> Holds(players[c])]) + ItemsIn(b.slots)

LEMMA TotalIs == Items = ItemsOf(inv, box) /\ Items' = ItemsOf(inv', box')
  BY DEF Items, ItemsOf, Holds

LEMMA ItemsAre ==
    ASSUME NEW players \in [Clients -> Players], NEW b \in Boxes
    PROVE  /\ ItemsOf(players, b) =
                  SumFunctionOnSet([c \in Clients |-> Holds(players[c])], Clients) + ItemsIn(b.slots)
           /\ IntOn([c \in Clients |-> Holds(players[c])], Clients)
           /\ ItemsOf(players, b) \in Int /\ ItemsIn(b.slots) \in Int
  <1> DEFINE f == [c \in Clients |-> Holds(players[c])]
  <1>1. DOMAIN f = Clients
    OBVIOUS
  <1>2. ItemsOf(players, b) = SumFunctionOnSet(f, Clients) + ItemsIn(b.slots)
    BY <1>1 DEF ItemsOf, SumFunction
  <1>3. \A c \in Clients : f[c] \in Int
    BY HoldsIn
  <1>4. IntOn(f, Clients)
    BY <1>3 DEF IntOn
  <1>5. b.slots \in [BoxSlots -> Stacks]
    BY DEF Boxes
  <1>6. ItemsIn(b.slots) \in Int
    BY <1>5, SlotSetsFinite, ItemsInIs
  <1>7. SumFunctionOnSet(f, Clients) \in Int
    BY <1>4, ClientsAssumption, SumStep
  <1>8. QED
    BY <1>2, <1>4, <1>6, <1>7

\* A step that changes one player's record, and the container.
LEMMA ItemsChanged ==
    ASSUME TypeOK, TypeOK', NEW c \in Clients, NEW s \in Players, inv' = [inv EXCEPT ![c] = s]
    PROVE  Items' = Items + (Holds(s) - Holds(inv[c])) + (ItemsIn(box'.slots) - ItemsIn(box.slots))
  <1> DEFINE f == [d \in Clients |-> Holds(inv'[d])]
             g == [d \in Clients |-> Holds(inv[d])]
             F == SumFunctionOnSet(f, Clients)
             G == SumFunctionOnSet(g, Clients)
             B == ItemsIn(box.slots)
             C == ItemsIn(box'.slots)
  <1>0. /\ inv \in [Clients -> Players] /\ box \in Boxes
        /\ inv' \in [Clients -> Players] /\ box' \in Boxes
    BY DEF TypeOK
  <1>1. Items = G + B /\ IntOn(g, Clients) /\ B \in Int
    BY <1>0, ItemsAre, TotalIs
  <1>2. Items' = F + C /\ IntOn(f, Clients) /\ C \in Int
    BY <1>0, ItemsAre, TotalIs
  <1>3. inv'[c] = s /\ \A d \in Clients \ {c} : inv'[d] = inv[d]
    BY DEF TypeOK
  <1>4. f[c] = Holds(s) /\ g[c] = Holds(inv[c]) /\ \A d \in Clients \ {c} : f[d] = g[d]
    BY <1>3
  <1> HIDE DEF f, g
  <1>5. F = G + (f[c] - g[c])
    BY <1>1, <1>2, <1>4, ClientsAssumption, SumOneChanged
  <1>6. G \in Int /\ F \in Int
    BY <1>1, <1>2, ClientsAssumption, SumStep
  <1>7. Holds(s) \in Int /\ Holds(inv[c]) \in Int
    BY HoldsIn DEF TypeOK
  <1> HIDE DEF F, G, B, C
  <1> DEFINE hs == Holds(s)
             hc == Holds(inv[c])
  <1>8. F = G + (hs - hc) /\ hs \in Int /\ hc \in Int
    BY <1>4, <1>5, <1>7
  <1> HIDE DEF hs, hc
  <1>9. F + C = G + B + (hs - hc) + (C - B)
    BY <1>1, <1>2, <1>6, <1>8
  <1>10. QED
    BY <1>1, <1>2, <1>9 DEF hs, hc, B, C

LEMMA BoxItemsChanged ==
    ASSUME TypeOK, TypeOK', UNCHANGED inv
    PROVE  Items' = Items + (ItemsIn(box'.slots) - ItemsIn(box.slots))
  <1> DEFINE f == [d \in Clients |-> Holds(inv[d])]
             F == SumFunctionOnSet(f, Clients)
             B == ItemsIn(box.slots)
             C == ItemsIn(box'.slots)
  <1>0. inv \in [Clients -> Players] /\ box \in Boxes /\ box' \in Boxes /\ inv' = inv
    BY DEF TypeOK
  <1>1. Items = F + B /\ B \in Int /\ IntOn(f, Clients)
    BY <1>0, ItemsAre, TotalIs
  <1>2. Items' = F + C /\ C \in Int
    BY <1>0, ItemsAre, TotalIs
  <1>3. F \in Int
    BY <1>1, ClientsAssumption, SumStep
  <1> HIDE DEF F, B, C
  <1>4. F + C = F + B + (C - B)
    BY <1>1, <1>2, <1>3
  <1>5. QED
    BY <1>1, <1>2, <1>4 DEF B, C

\* A step that moves n items to the dropped ones, and keeps the others.
Kept == dropped' \in Int /\ Items' + dropped' = Items + dropped

LEMMA ItemsSame ==
    ASSUME TypeOK, TypeOK', UNCHANGED <<inv, dropped>>, box'.slots = box.slots, dropped \in Int
    PROVE  Kept /\ Items' = Items /\ Items \in Int
  <1>1. Items' = Items + (ItemsIn(box'.slots) - ItemsIn(box.slots))
    BY BoxItemsChanged
  <1>2. Items \in Int /\ ItemsIn(box.slots) \in Int
    BY ItemsAre, TotalIs DEF TypeOK
  <1>3. QED
    BY <1>1, <1>2 DEF Kept

LEMMA PlayerDrops ==
    ASSUME TypeOK, TypeOK', NEW c \in Clients, NEW s \in Players, inv' = [inv EXCEPT ![c] = s],
           box'.slots = box.slots, dropped \in Int,
           NEW n \in Int, dropped' = dropped + n, Holds(s) + n = Holds(inv[c])
    PROVE  Kept
  <1>1. Items' = Items + (Holds(s) - Holds(inv[c])) + (ItemsIn(box'.slots) - ItemsIn(box.slots))
    BY ItemsChanged
  <1>2. Items \in Int /\ ItemsIn(box.slots) \in Int /\ Holds(s) \in Int /\ Holds(inv[c]) \in Int
    BY ItemsAre, TotalIs, HoldsIn DEF TypeOK
  <1> DEFINE a == Holds(s)
             b == Holds(inv[c])
             e == ItemsIn(box.slots)
  <1>3. Items' = Items + (a - b) + (e - e) /\ a \in Int /\ b \in Int /\ e \in Int /\ a + n = b
    BY <1>1, <1>2
  <1> HIDE DEF a, b, e
  <1>4. QED
    BY <1>2, <1>3 DEF Kept

LEMMA PlayerKeeps ==
    ASSUME TypeOK, TypeOK', NEW c \in Clients, NEW s \in Players, inv' = [inv EXCEPT ![c] = s],
           box'.slots = box.slots, dropped \in Int, dropped' = dropped, Holds(s) = Holds(inv[c])
    PROVE  Kept /\ Items' = Items /\ Items \in Int
  <1>1. Items' = Items + (Holds(s) - Holds(inv[c])) + (ItemsIn(box'.slots) - ItemsIn(box.slots))
    BY ItemsChanged
  <1>2. Items \in Int /\ ItemsIn(box.slots) \in Int /\ Holds(s) \in Int
    BY ItemsAre, TotalIs, HoldsIn DEF TypeOK
  <1> DEFINE a == Holds(s)
             e == ItemsIn(box.slots)
  <1>3. Items' = Items + (a - a) + (e - e) /\ a \in Int /\ e \in Int
    BY <1>1, <1>2
  <1> HIDE DEF a, e
  <1>4. QED
    BY <1>2, <1>3 DEF Kept

LEMMA BoxDrops ==
    ASSUME TypeOK, TypeOK', UNCHANGED inv, dropped \in Int,
           NEW n \in Int, dropped' = dropped + n, ItemsIn(box'.slots) + n = ItemsIn(box.slots)
    PROVE  Kept
  <1>1. Items' = Items + (ItemsIn(box'.slots) - ItemsIn(box.slots))
    BY BoxItemsChanged
  <1>2. Items \in Int /\ ItemsIn(box.slots) \in Int /\ ItemsIn(box'.slots) \in Int
    <2>1. box \in Boxes /\ box' \in Boxes /\ inv \in [Clients -> Players]
      BY DEF TypeOK
    <2>2. QED
      BY <2>1, ItemsAre, TotalIs
  <1> DEFINE a == ItemsIn(box'.slots)
             b == ItemsIn(box.slots)
  <1>3. Items' = Items + (a - b) /\ a \in Int /\ b \in Int /\ a + n = b
    BY <1>1, <1>2
  <1> HIDE DEF a, b
  <1>4. QED
    BY <1>2, <1>3 DEF Kept

\* A stack that n items are taken from.
LEMMA TakenFrom ==
    ASSUME NEW stack \in Stacks, stack # Empty, NEW n \in 1..stack.count
    PROVE  /\ WithCount(stack, stack.count - n) \in Stacks
           /\ WithCount(stack, stack.count - n).count = stack.count - n
           /\ stack.count \in Int /\ n \in Int
  <1>1. stack.count \in 0..MaxStack /\ stack.count - n \in 0..MaxStack
    BY StackFacts, Sizes
  <1>2. QED
    BY <1>1, WithCountIn

LEMMA DropCursorKeeps ==
    ASSUME TInv, NEW c \in Clients, DropCursor(c), dropped \in Int
    PROVE  Kept
  <1> DEFINE r == inv[c]
             s == [r EXCEPT !.cursor = Empty, !.cursorChanged = TRUE]
  <1>1. inv' = [inv EXCEPT ![c] = s] /\ UNCHANGED box /\ dropped' = dropped + r.cursor.count
    BY DEF DropCursor
  <1>2. TInv'
    BY DropCursorTypes
  <1>3. r \in Players
    BY DEF TInv, TypeOK
  <1> HIDE DEF r
  <1>4. s \in Players /\ s.slots = r.slots /\ s.cursor = Empty
    BY <1>3, StackFacts DEF Players
  <1> HIDE DEF s
  <1>5. ItemsIn(r.slots) \in Int /\ r.cursor.count \in Int
    BY <1>3, HoldsIn
  <1>6. Holds(s) + r.cursor.count = Holds(r)
    BY <1>4, <1>5, StackFacts DEF Holds
  <1>7. Holds(s) + r.cursor.count = Holds(inv[c])
    BY <1>6 DEF r
  <1>8. QED
    BY <1>1, <1>2, <1>4, <1>5, <1>7, PlayerDrops DEF TInv

LEMMA ResyncClickKeeps ==
    ASSUME TInv, NEW c \in Clients, ResyncClick(c), dropped \in Int
    PROVE  Kept
  <1> DEFINE r == inv[c]
             s == [r EXCEPT !.sid = r.sid + 1]
  <1>1. inv' = [inv EXCEPT ![c] = s] /\ UNCHANGED <<box, dropped>>
    BY DEF ResyncClick
  <1>2. TInv'
    BY ResyncClickTypes
  <1>3. r \in Players
    BY DEF TInv, TypeOK
  <1>4. s \in Players /\ s.slots = r.slots /\ s.cursor = r.cursor
    BY <1>3 DEF Players
  <1> HIDE DEF s
  <1>5. Holds(s) = Holds(r)
    BY <1>4 DEF Holds
  <1>6. QED
    BY <1>1, <1>2, <1>4, <1>5, PlayerKeeps DEF TInv

LEMMA HandleCloseKeeps ==
    ASSUME TInv, NEW c \in Clients, HandleClose(c), dropped \in Int
    PROVE  Kept
  <1> DEFINE s == WithoutWindow(inv[c])
  <1>1. inv' = [inv EXCEPT ![c] = s] /\ UNCHANGED <<box, dropped>>
    BY DEF HandleClose
  <1>2. TInv'
    BY HandleCloseTypes
  <1>3. inv[c] \in Players
    BY DEF TInv, TypeOK
  <1>4. s \in Players /\ s.slots = inv[c].slots /\ s.cursor = inv[c].cursor
    BY <1>3, WithoutWindowIn
  <1> HIDE DEF s
  <1>5. Holds(s) = Holds(inv[c])
    BY <1>4 DEF Holds
  <1>6. QED
    BY <1>1, <1>2, <1>4, <1>5, PlayerKeeps DEF TInv

\* A player whose slots change.
LEMMA SlotsReplaced ==
    ASSUME NEW r \in Players, NEW s \in Players, s.cursor = r.cursor,
           NEW d \in Int, ItemsIn(s.slots) = ItemsIn(r.slots) + d
    PROVE  Holds(s) = Holds(r) + d /\ Holds(s) \in Int /\ Holds(r) \in Int
  BY HoldsIn DEF Holds

LEMMA SwapHandsKeeps ==
    ASSUME TInv, NEW c \in Clients, SwapHands(c), dropped \in Int
    PROVE  Kept
  <1> DEFINE own == inv[c].slots
             half == [own EXCEPT ![FirstMain] = own[OffHand]]
             slots == [own EXCEPT ![FirstMain] = own[OffHand], ![OffHand] = own[FirstMain]]
             s == SetSlots(inv[c], slots)
  <1>1. TInv' /\ UNCHANGED box
    BY SwapHandsTypes DEF SwapHands
  <1>2. \/ UNCHANGED <<inv, dropped>>
        \/ inv' = [inv EXCEPT ![c] = s] /\ UNCHANGED dropped
    BY DEF SwapHands, HeldIsReadonly
  <1>3. inv[c] \in Players /\ own \in [OwnSlots -> Stacks]
    BY DEF TInv, TypeOK, Players
  <1>4. FirstMain \in OwnSlots /\ OffHand \in OwnSlots /\ FirstMain # OffHand
    BY SlotsAre
  <1> HIDE DEF own
  <1>5. /\ half \in [OwnSlots -> Stacks] /\ half[OffHand] = own[OffHand]
        /\ slots = [half EXCEPT ![OffHand] = own[FirstMain]] /\ slots \in [OwnSlots -> Stacks]
        /\ own[OffHand] \in Stacks /\ own[FirstMain] \in Stacks
    BY <1>3, <1>4
  <1>6. /\ ItemsIn(half) = ItemsIn(own) + (own[OffHand].count - own[FirstMain].count)
        /\ ItemsIn(own) \in Int /\ own[OffHand].count \in Int /\ own[FirstMain].count \in Int
    BY <1>3, <1>4, <1>5, SlotSetsFinite, SlotReplaced
  <1>7. ItemsIn([half EXCEPT ![OffHand] = own[FirstMain]]) = ItemsIn(half) + (own[FirstMain].count - half[OffHand].count)
    BY <1>4, <1>5, SlotSetsFinite, SlotReplaced
  <1>8. ItemsIn(slots) = ItemsIn(half) + (own[FirstMain].count - own[OffHand].count)
    BY <1>5, <1>7
  <1> HIDE DEF half, slots
  <1>9. ItemsIn(slots) = ItemsIn(own)
    BY <1>6, <1>8
  <1>10. s \in Players /\ s.slots = slots /\ s.cursor = inv[c].cursor
    BY <1>3, <1>5, SetSlotsPlayer
  <1> HIDE DEF s
  <1>11. Holds(s) = Holds(inv[c])
    BY <1>9, <1>10 DEF Holds, own
  <1>12. CASE UNCHANGED <<inv, dropped>>
    BY <1>1, <1>12, ItemsSame DEF TInv
  <1>13. CASE inv' = [inv EXCEPT ![c] = s] /\ UNCHANGED dropped
    <2>1. Holds(s) = Holds(inv[c])
      BY <1>11
    <2>2. QED
      BY <1>1, <1>10, <1>13, <2>1, PlayerKeeps DEF TInv
  <1>14. QED
    BY <1>2, <1>12, <1>13

LEMMA DropHeldKeeps ==
    ASSUME TInv, NEW c \in Clients, DropHeld(c), dropped \in Int
    PROVE  Kept
  <1> DEFINE own == inv[c].slots
             stack == own[FirstMain]
             n == IF Head(toServer[c]).all THEN stack.count ELSE 1
             left == WithCount(stack, stack.count - n)
             slots == [own EXCEPT ![FirstMain] = left]
             r == SetSlots(inv[c], slots)
             s == [r EXCEPT !.touched = r.touched \cup {FirstMain}]
  <1>1. TInv' /\ UNCHANGED box
    BY DropHeldTypes DEF DropHeld
  <1>2. \/ UNCHANGED <<inv, dropped>>
        \/ stack # Empty /\ inv' = [inv EXCEPT ![c] = s] /\ dropped' = dropped + n
    BY DEF DropHeld, HeldIsReadonly
  <1>3. inv[c] \in Players /\ own \in [OwnSlots -> Stacks] /\ stack \in Stacks
    BY SlotsAre DEF TInv, TypeOK, Players
  <1>4. CASE UNCHANGED <<inv, dropped>>
    BY <1>1, <1>4, ItemsSame DEF TInv
  <1>5. CASE stack # Empty /\ inv' = [inv EXCEPT ![c] = s] /\ dropped' = dropped + n
    <2>1. stack.count \in 1..MaxStack
      BY <1>3, <1>5, StackFacts, Sizes
    <2>2. n \in 1..stack.count
      BY <2>1, Sizes
    <2>3. left \in Stacks /\ left.count = stack.count - n /\ stack.count \in Int /\ n \in Int
      <3> HIDE DEF n, stack
      <3>1. QED
        BY <1>3, <1>5, <2>2, TakenFrom
    <2>4. slots \in [OwnSlots -> Stacks]
      BY <1>3, <2>3
    <2>5. ItemsIn(slots) = ItemsIn(own) + (left.count - stack.count)
      <3> HIDE DEF left, own
      <3>1. QED
        BY <1>3, <2>3, SlotsAre, SlotSetsFinite, SlotReplaced
    <2>6. left.count - stack.count = 0 - n
      <3> HIDE DEF left, stack, n
      <3>1. QED
        BY <2>3
    <2> HIDE DEF left, slots, n
    <2>7. r \in Players /\ r.slots = slots /\ r.cursor = inv[c].cursor
      BY <1>3, <2>4, SetSlotsPlayer
    <2> HIDE DEF r
    <2>8. s \in Players /\ s.slots = slots /\ s.cursor = inv[c].cursor
      BY <2>7, SlotsAre DEF Players
    <2> HIDE DEF s, own, stack
    <2>9. ItemsIn(s.slots) = ItemsIn(inv[c].slots) + (0 - n) /\ (0 - n) \in Int
      BY <2>3, <2>5, <2>6, <2>8 DEF own
    <2>10. Holds(s) = Holds(inv[c]) + (0 - n) /\ Holds(s) \in Int /\ Holds(inv[c]) \in Int
      BY <1>3, <2>8, <2>9, SlotsReplaced
    <2>11. Holds(s) + n = Holds(inv[c])
      BY <2>3, <2>10
    <2>12. QED
      BY <1>1, <1>5, <2>3, <2>8, <2>11, PlayerDrops DEF TInv
  <1>6. QED
    BY <1>2, <1>4, <1>5

LEMMA DropFromWindowKeeps ==
    ASSUME TInv, NEW c \in Clients, DropFromWindow(c), dropped \in Int
    PROVE  Kept
  <1> DEFINE p == Head(toServer[c])
             at == p.at
             stack == ServerWindow(c)[at]
             n == IF p.button = 1 THEN stack.count ELSE 1
             left == WithCount(stack, stack.count - n)
             own == IF IsOpen(c) THEN PlayerSlot(at) ELSE at
  <1>1. Takes(c, "click") /\ PlainClick(c, p) /\ p.mode = "DropKey"
    BY DEF DropFromWindow
  <1>2. /\ p \in ClickPackets /\ IsOpen(c) = HasBox(c) /\ (p.win # 0) = IsOpen(c)
        /\ ServerWindow(c) \in [WindowSlots(IsOpen(c)) -> Stacks]
    BY <1>1, PlainClickFits
  <1>3. at \in WindowSlots(IsOpen(c))
    BY <1>1, <1>2 DEF ClickPackets, ClickFits
  <1>4. stack \in Stacks
    BY <1>2, <1>3
  <1>5. /\ InBox(c, at) => at \in BoxSlots /\ stack = box.slots[at]
        /\ ~InBox(c, at) => own \in OwnSlots /\ stack = inv[c].slots[own]
    BY <1>2, <1>3, WindowSlotIs DEF TInv
  <1>6. inv[c] \in Players /\ box \in Boxes
    BY DEF TInv, TypeOK
  <1>7. inv[c].slots \in [OwnSlots -> Stacks] /\ box.slots \in [BoxSlots -> Stacks]
    BY <1>6 DEF Players, Boxes
  <1>8. TInv'
    BY DropFromWindowTypes
  <1>9. \/ UNCHANGED <<inv, box, dropped>>
        \/ /\ InBox(c, at) /\ stack # Empty /\ dropped' = dropped + n
           /\ box' = SetSlots(box, [box.slots EXCEPT ![at] = left])
           /\ UNCHANGED inv
        \/ /\ ~InBox(c, at) /\ stack # Empty /\ dropped' = dropped + n
           /\ inv' = [inv EXCEPT ![c] = SetSlots(inv[c], [inv[c].slots EXCEPT ![own] = left])]
           /\ UNCHANGED box
    BY DEF DropFromWindow
  <1>10. stack # Empty =>
             /\ left \in Stacks /\ n \in Int /\ stack.count \in Int /\ left.count = stack.count - n
    <2> SUFFICES ASSUME stack # Empty
                 PROVE  left \in Stacks /\ n \in Int /\ stack.count \in Int /\ left.count = stack.count - n
      OBVIOUS
    <2> HIDE DEF stack, p
    <2>1. stack.count \in 1..MaxStack
      BY <1>4, StackFacts, Sizes
    <2>2. n \in 1..stack.count
      BY <2>1, Sizes
    <2> HIDE DEF n
    <2>3. QED
      BY <1>4, <2>2, TakenFrom
  <1> HIDE DEF p, stack, n, left, own
  <1>11. CASE UNCHANGED <<inv, box, dropped>>
    BY <1>8, <1>11, ItemsSame DEF TInv
  <1>12. CASE /\ InBox(c, at) /\ stack # Empty /\ dropped' = dropped + n
              /\ box' = SetSlots(box, [box.slots EXCEPT ![at] = left])
              /\ UNCHANGED inv
    <2> DEFINE slots == [box.slots EXCEPT ![at] = left]
    <2>1. slots \in [BoxSlots -> Stacks]
      BY <1>7, <1>10, <1>12
    <2>2. /\ ItemsIn(slots) = ItemsIn(box.slots) + (left.count - stack.count)
          /\ ItemsIn(box.slots) \in Int
      BY <1>5, <1>7, <1>10, <1>12, SlotSetsFinite, SlotReplaced
    <2> HIDE DEF slots
    <2>3. box'.slots = slots
      BY <1>6, <1>12, <2>1, SetSlotsBox DEF slots
    <2>4. ItemsIn(slots) + n = ItemsIn(box.slots)
      BY <1>10, <1>12, <2>2
    <2>5. QED
      BY <1>8, <1>10, <1>12, <2>3, <2>4, BoxDrops DEF TInv
  <1>13. CASE /\ ~InBox(c, at) /\ stack # Empty /\ dropped' = dropped + n
              /\ inv' = [inv EXCEPT ![c] = SetSlots(inv[c], [inv[c].slots EXCEPT ![own] = left])]
              /\ UNCHANGED box
    <2> DEFINE slots == [inv[c].slots EXCEPT ![own] = left]
               s == SetSlots(inv[c], slots)
    <2>1. slots \in [OwnSlots -> Stacks]
      BY <1>7, <1>10, <1>13
    <2>2. /\ ItemsIn(slots) = ItemsIn(inv[c].slots) + (left.count - stack.count)
          /\ ItemsIn(inv[c].slots) \in Int
      BY <1>5, <1>7, <1>10, <1>13, SlotSetsFinite, SlotReplaced
    <2>3. inv' = [inv EXCEPT ![c] = s]
      BY <1>13
    <2> HIDE DEF slots
    <2>4. s \in Players /\ s.slots = slots /\ s.cursor = inv[c].cursor
      BY <1>6, <2>1, SetSlotsPlayer
    <2> HIDE DEF s
    <2>5. ItemsIn(s.slots) = ItemsIn(inv[c].slots) + (0 - n) /\ (0 - n) \in Int
      BY <1>10, <1>13, <2>2, <2>4
    <2>6. Holds(s) = Holds(inv[c]) + (0 - n) /\ Holds(s) \in Int /\ Holds(inv[c]) \in Int
      BY <1>6, <2>4, <2>5, SlotsReplaced
    <2>7. Holds(s) + n = Holds(inv[c])
      BY <1>10, <1>13, <2>6
    <2>8. QED
      BY <1>8, <1>10, <1>13, <2>3, <2>4, <2>7, PlayerDrops DEF TInv
  <1>14. QED
    BY <1>9, <1>11, <1>12, <1>13

-----------------------------------------------------------------------------
(***************************************************************************)
(* A click that is applied.  What it changes is either all set or, where   *)
(* an inventory is read-only, not at all, unless it spreads or collects    *)
(* over both; and what it sets in slots is what it takes from the cursor.  *)
(***************************************************************************)
Gain(c) == [i \in DOMAIN Clicked(c).changes |-> ClickedSlots(c)[i].count - ServerWindow(c)[i].count]

SplitsApart == \A c \in Clients : readonly # {} => ~OnTheWay(toServer[c], Splits)

LEMMA AllOrNothing ==
    ASSUME TInv, NEW c \in Clients, ApplyClick(c), readonly # {} => ~Splits(Clicked(c))
    PROVE  Applied(c) = DOMAIN Clicked(c).changes \/ Applied(c) = {}
  <1> DEFINE p == Clicked(c)
             D == DOMAIN p.changes
             Goal == Applied(c) = D \/ Applied(c) = {}
  <1> SUFFICES Goal
    OBVIOUS
  <1>1. Takes(c, "click") /\ PlainClick(c, p) /\ p.mode # "DropKey"
    BY ApplyClickIs DEF TInv
  <1>2. /\ p \in ClickPackets /\ (p.win # 0) = IsOpen(c)
        /\ ValidPacket(p, ServerWindow(c), inv[c].cursor)
        /\ ~(p.mode = "Click" /\ p.at = Outside)
    BY <1>1, PlainClickFits DEF Clicked
  <1> HIDE DEF p
  <1>3. p \in ClickRecords /\ ClickFits(p) /\ p.type = "click"
    BY <1>2 DEF ClickPackets, ClickRecords
  <1>4. p.mode \in Modes /\ p.mode # "DropKey"
    BY <1>1, <1>3 DEF ClickRecords
  <1>5. (\A i, j \in D : Frozen(c, p, i) <=> Frozen(c, p, j)) => Goal
    BY DEF Applied, p
  <1> HIDE DEF Goal
  <1>6. IsOpen(c) \in BOOLEAN
    BY DEF IsOpen
  <1>7. CASE ~IsOpen(c)
    <2>1. \A i : Frozen(c, p, i) <=> (c \in readonly)
      BY <1>7 DEF Frozen, InBox
    <2>2. QED
      BY <1>5, <2>1
  <1>8. CASE IsOpen(c) /\ (p.mode = "ShiftClick" \/ (p.mode = "Hotbar" /\ p.at \in BoxSlots))
    <2>1. \A i : Frozen(c, p, i) <=> (readonly \cap {c, Box} # {})
      BY <1>8 DEF Frozen
    <2>2. QED
      BY <1>5, <2>1
  <1>9. CASE IsOpen(c) /\ p.mode = "Hotbar" /\ p.at \notin BoxSlots
    <2>1. D \cap BoxSlots = {}
      BY <1>2, <1>3, <1>9 DEF ClickFits
    <2>2. \A i \in D : Frozen(c, p, i) <=> (c \in readonly)
      BY <1>9, <2>1 DEF Frozen, InBox
    <2>3. QED
      BY <1>5, <2>2
  <1>10. CASE p.mode = "Click"
    <2>1. ValidClick(p, ServerWindow(c), inv[c].cursor)
      BY <1>2, <1>10 DEF ValidPacket
    <2>2. D = {} \/ \E i : D = {i}
      BY <1>2, <1>10, <2>1 DEF ValidClick
    <2>3. QED
      BY <1>5, <2>2
  <1>11. CASE IsOpen(c) /\ p.mode \in {"Drag", "DoubleClick"}
    <2>1. Splits(p)
      BY <1>2, <1>3, <1>11 DEF Splits
    <2>2. readonly = {}
      BY <2>1 DEF p
    <2>3. \A i : ~Frozen(c, p, i)
      BY <2>2 DEF Frozen
    <2>4. QED
      BY <1>5, <2>3
  <1>12. QED
    BY <1>4, <1>6, <1>7, <1>8, <1>9, <1>10, <1>11 DEF Modes

\* What the slots gain and what is on the cursor then is what was on the cursor.
LEMMA ClickBalances ==
    ASSUME TInv, NEW c \in Clients, ApplyClick(c)
    PROVE  LET D == DOMAIN Clicked(c).changes IN
           /\ IsFiniteSet(D) /\ IntOn(Gain(c), D)
           /\ SumFunctionOnSet(Gain(c), D) + NewCursor(Clicked(c)).count = inv[c].cursor.count
  <1> DEFINE p == Clicked(c)
             w == ServerWindow(c)
             cursor == inv[c].cursor
             D == DOMAIN p.changes
             delta == [i \in D |-> p.changes[i].count - w[i].count]
             sum == SumFunctionOnSet(delta, D)
             net == NetItemDelta(p, w, cursor)
  <1>1. Takes(c, "click") /\ PlainClick(c, p) /\ p.mode # "DropKey"
    BY ApplyClickIs DEF TInv
  <1>2. /\ p \in ClickPackets
        /\ ValidPacket(p, w, cursor)
        /\ ~(p.mode = "Click" /\ p.at = Outside)
        /\ D \subseteq WindowSlots(IsOpen(c))
        /\ \A i \in D : p.changes[i] \in Stacks
        /\ w \in [WindowSlots(IsOpen(c)) -> Stacks]
        /\ p.carried \in Stacks
    BY <1>1, PlainClickFits DEF Clicked
  <1>3. cursor \in Stacks
    BY DEF TInv, TypeOK, Players
  <1>4. Gain(c) = [i \in D |-> NewSlots(p, w)[i].count - w[i].count]
    BY DEF Gain, ClickedSlots
  <1> DEFINE gain == Gain(c)
  <1> SUFFICES /\ IsFiniteSet(D) /\ IntOn(gain, D)
               /\ SumFunctionOnSet(gain, D) + NewCursor(p).count = cursor.count
    OBVIOUS
  <1>5. gain = [i \in D |-> NewSlots(p, w)[i].count - w[i].count]
    BY <1>4
  <1> HIDE DEF p, w, cursor, gain
  <1>6. IsFiniteSet(D)
    <2>1. 0 \in Int /\ BoxSize + Main + 1 \in Int
      BY Sizes
    <2>2. IsFiniteSet(AnySlots)
      BY <2>1, FS_Interval DEF AnySlots
    <2>3. D \subseteq AnySlots
      BY <1>2, SlotsAre DEF IsOpen
    <2>4. QED
      BY <2>2, <2>3, FS_Subset
  <1>7. \A i \in D : /\ p.changes[i].count \in 0..MaxStack /\ w[i] \in Stacks /\ w[i].count \in 0..MaxStack
    BY <1>2, StackFacts
  <1>8. \A i \in D : delta[i] \in Int /\ delta[i] = p.changes[i].count - w[i].count
    BY <1>7, Sizes
  <1>9. sum \in Int
    BY <1>6, <1>8, SumStep DEF IntOn
  <1>10. net = sum + p.carried.count - cursor.count
    BY DEF NetItemDelta, SumFunction
  <1>11. p.carried.count \in Int /\ cursor.count \in Int
    BY <1>2, <1>3, StackFacts
  <1> HIDE DEF net
  <1>12. p.mode \in Modes /\ ClickFits(p)
    BY <1>2 DEF ClickPackets, ClickRecords
  <1>13. \A i \in D : gain[i] = delta[i]
    <2>1. CASE p.mode # "DoubleClick"
      BY <1>5, <2>1 DEF NewSlots
    <2>2. CASE p.mode = "DoubleClick"
      <3> SUFFICES ASSUME NEW i \in D PROVE WithCount(w[i], p.changes[i].count).count = p.changes[i].count
        BY <1>5, <2>2 DEF NewSlots
      <3>1. CASE w[i] # Empty
        BY <3>1, <1>7, WithCountIn
      <3>2. CASE w[i] = Empty
        <4>1. net = 0
          BY <1>2, <2>2 DEF ValidPacket, ValidDoubleClick, net
        <4>2. D = {i} /\ (p.changes[i].count = 0 \/ p.carried.count = MaxStack)
          BY <1>12, <2>2 DEF ClickFits
        <4>3. sum = delta[i]
          <5>1. SumFunctionOnSet(delta, {i}) = delta[i]
            <6> HIDE DEF delta
            <6>1. delta[i] \in Int
              BY <1>8
            <6>2. QED
              BY <6>1, SumOfOne
          <5>2. QED
            BY <4>2, <5>1
        <4>4. delta[i] = p.changes[i].count
          BY <3>2, <1>7, <1>8, StackFacts
        <4> HIDE DEF delta, sum
        <4>5. cursor.count <= MaxStack /\ p.changes[i].count \in Nat
          BY <1>3, <1>7, StackFacts, Sizes
        <4>6. p.changes[i].count = 0
          BY <1>10, <1>11, <4>1, <4>2, <4>3, <4>4, <4>5
        <4>7. QED
          BY <3>2, <4>6, <1>7, WithCountIn
      <3>3. QED
        BY <3>1, <3>2
    <2>3. QED
      BY <2>1, <2>2
  <1>14. IntOn(gain, D)
    BY <1>8, <1>13 DEF IntOn
  <1>15. SumFunctionOnSet(gain, D) = sum
    <2> HIDE DEF delta
    <2>1. QED
      BY <1>6, <1>13, <1>14, SumCongruent
  <1>16. sum + NewCursor(p).count = cursor.count
    <2>1. CASE p.mode = "Click"
      <3>1. NewCursor(p) = p.carried
        BY <2>1, <1>2 DEF NewCursor
      <3>2. ValidClick(p, w, cursor)
        BY <2>1, <1>2 DEF ValidPacket
      <3>3. CASE D = {} /\ p.carried = cursor
        <4>1. sum = 0
          BY <3>3, SumEmpty
        <4> HIDE DEF sum
        <4>2. QED
          BY <3>1, <3>3, <4>1, <1>11
      <3>4. ASSUME NEW i \in D, D = {i}, w[i] = p.carried, cursor = p.changes[i]
            PROVE  sum + NewCursor(p).count = cursor.count
        <4>1. delta[i] = cursor.count - p.carried.count /\ delta[i] \in Int
          BY <1>8, <3>4
        <4>2. sum = delta[i]
          <5> HIDE DEF delta
          <5>1. QED
            BY <3>4, <4>1, SumOfOne
        <4> HIDE DEF sum, delta
        <4>3. QED
          BY <3>1, <4>1, <4>2, <1>11
      <3>5. CASE net = 0
        <4> HIDE DEF sum
        <4>1. QED
          BY <3>1, <3>5, <1>9, <1>10, <1>11
      <3>6. (D = {} /\ p.carried = cursor) \/ net = 0
            \/ \E i \in D : D = {i} /\ w[i] = p.carried /\ cursor = p.changes[i]
        BY <3>2, <2>1, <1>2 DEF ValidClick, net
      <3>7. QED
        BY <3>3, <3>4, <3>5, <3>6
    <2>2. CASE p.mode \in {"ShiftClick", "Hotbar"}
      <3>1. NewCursor(p) = p.carried /\ net = 0
        BY <2>2, <1>2 DEF NewCursor, ValidPacket, ValidShiftClick, ValidHotbar, net
      <3> HIDE DEF sum
      <3>2. QED
        BY <3>1, <1>9, <1>10, <1>11
    <2>3. CASE p.mode \in {"Drag", "DoubleClick"}
      <3>1. NewCursor(p) = p.carried /\ net = 0
        BY <2>3, <1>2 DEF NewCursor, ValidPacket, ValidDrag, ValidDoubleClick, net
      <3> HIDE DEF sum
      <3>2. QED
        BY <3>1, <1>9, <1>10, <1>11
    <2>4. QED
      BY <1>1, <1>12, <2>1, <2>2, <2>3 DEF Modes, p
  <1>17. QED
    BY <1>6, <1>14, <1>15, <1>16

\* What the box and the player have after it.
LEMMA ClickMoves ==
    ASSUME TInv, NEW c \in Clients, ApplyClick(c)
    PROVE  /\ ItemsIn(BoxAfter(c)) + ItemsIn(OwnAfter(c)) =
                  ItemsIn(box.slots) + ItemsIn(inv[c].slots) + SumFunctionOnSet(Gain(c), Applied(c))
           /\ SumFunctionOnSet(Gain(c), Applied(c)) \in Int
           /\ ItemsIn(BoxAfter(c)) \in Int /\ ItemsIn(OwnAfter(c)) \in Int
           /\ ItemsIn(box.slots) \in Int /\ ItemsIn(inv[c].slots) \in Int
  <1> DEFINE p == Clicked(c)
             w == ServerWindow(c)
             D == DOMAIN p.changes
             A == Applied(c)
             B == AppliedBox(c)
             O == AppliedOwn(c)
             gain == Gain(c)
             m == [j \in O |-> Index(c, j)]
             h == [j \in O |-> gain[Index(c, j)]]
  <1>1. Takes(c, "click") /\ PlainClick(c, p)
    BY ApplyClickIs DEF TInv
  <1>2. D \subseteq WindowSlots(IsOpen(c)) /\ IsOpen(c) = HasBox(c)
    BY <1>1, PlainClickFits DEF Clicked
  <1>3. /\ BoxAfter(c) \in [BoxSlots -> Stacks] /\ OwnAfter(c) \in [OwnSlots -> Stacks]
        /\ B \subseteq BoxSlots /\ O \subseteq OwnSlots
    BY <1>1, ClickedSlotsIn
  <1>4. box.slots \in [BoxSlots -> Stacks] /\ inv[c].slots \in [OwnSlots -> Stacks]
    BY DEF TInv, TypeOK, Boxes, Players
  <1>5. IsFiniteSet(D) /\ IntOn(gain, D)
    BY ClickBalances
  <1>6. B \subseteq A /\ A \subseteq D
    BY DEF AppliedBox, Applied
  <1>7. IsFiniteSet(A) /\ IsFiniteSet(B) /\ IsFiniteSet(A \ B) /\ IsFiniteSet(O)
    BY <1>3, <1>5, <1>6, FS_Subset, SlotSetsFinite
  <1>8. \A i \in D : gain[i] = ClickedSlots(c)[i].count - w[i].count
    BY DEF Gain
  <1>9. \A i \in D : ClickedSlots(c)[i].count \in Int /\ gain[i] \in Int
    BY <1>1, <1>5, ClickedSlotsIn, StackFacts DEF IntOn
  <1>10. \A i \in D : /\ InBox(c, i) => i \in BoxSlots /\ w[i] = box.slots[i]
                      /\ ~InBox(c, i) => \E j \in OwnSlots : Index(c, j) = i /\ w[i] = inv[c].slots[j]
    BY <1>2, WindowSlotIs DEF TInv
  <1>11. \A j, k \in OwnSlots : Index(c, j) = Index(c, k) => j = k
    BY Sizes DEF Index, WindowSlot, OwnSlots, OffHand, FirstMain
  <1>12. \A j \in O : Index(c, j) \in A \ B
    BY DEF AppliedOwn
  <1>13. \A i \in A : i \notin B => ~InBox(c, i)
    BY DEF AppliedBox
  <1>14. \A i \in B : InBox(c, i)
    BY DEF AppliedBox
  <1>15. \A j \in OwnSlots : Index(c, j) \in A \ B => j \in O
    BY DEF AppliedOwn
  <1> HIDE DEF p, w, D, A, B, O, gain
  <1>16. ItemsIn(BoxAfter(c)) = ItemsIn(box.slots) + SumFunctionOnSet(gain, B)
    <2> DEFINE f == Counts(BoxAfter(c))
               g == Counts(box.slots)
    <2>1. /\ ItemsIn(BoxAfter(c)) = SumFunctionOnSet(f, BoxSlots) /\ IntOn(f, BoxSlots)
          /\ \A i \in BoxSlots : f[i] = BoxAfter(c)[i].count
      BY <1>3, SlotSetsFinite, ItemsInIs
    <2>2. /\ ItemsIn(box.slots) = SumFunctionOnSet(g, BoxSlots) /\ IntOn(g, BoxSlots)
          /\ \A i \in BoxSlots : g[i] = box.slots[i].count
      BY <1>4, SlotSetsFinite, ItemsInIs
    <2> HIDE DEF f, g
    <2>3. \A i \in BoxSlots \ B : f[i] = g[i]
      BY <2>1, <2>2 DEF BoxAfter, B
    <2>4. \A i \in B : f[i] = g[i] + gain[i]
      <3> SUFFICES ASSUME NEW i \in B PROVE f[i] = g[i] + gain[i]
        OBVIOUS
      <3>1. i \in D /\ i \in BoxSlots /\ InBox(c, i)
        BY <1>3, <1>6, <1>14
      <3>2. f[i] = ClickedSlots(c)[i].count
        BY <2>1, <3>1 DEF BoxAfter, B
      <3>3. g[i] = w[i].count /\ g[i] \in Int
        BY <2>2, <3>1, <1>10 DEF IntOn
      <3>4. gain[i] = f[i] - g[i] /\ f[i] \in Int
        BY <3>1, <3>2, <3>3, <1>8, <1>9
      <3>5. QED
        BY <3>3, <3>4
    <2>5. IntOn(gain, B)
      BY <1>6, <1>9 DEF IntOn
    <2>6. QED
      BY <2>1, <2>2, <2>3, <2>4, <2>5, <1>3, SlotSetsFinite, SumDifference
  <1>17. ItemsIn(OwnAfter(c)) = ItemsIn(inv[c].slots) + SumFunctionOnSet(h, O)
    <2> DEFINE f == Counts(OwnAfter(c))
               g == Counts(inv[c].slots)
    <2>1. /\ ItemsIn(OwnAfter(c)) = SumFunctionOnSet(f, OwnSlots) /\ IntOn(f, OwnSlots)
          /\ \A i \in OwnSlots : f[i] = OwnAfter(c)[i].count
      BY <1>3, SlotSetsFinite, ItemsInIs
    <2>2. /\ ItemsIn(inv[c].slots) = SumFunctionOnSet(g, OwnSlots) /\ IntOn(g, OwnSlots)
          /\ \A i \in OwnSlots : g[i] = inv[c].slots[i].count
      BY <1>4, SlotSetsFinite, ItemsInIs
    <2> HIDE DEF f, g
    <2>3. \A j \in OwnSlots \ O : f[j] = g[j]
      BY <2>1, <2>2 DEF OwnAfter, O
    <2>4. \A j \in O : h[j] = gain[Index(c, j)] /\ h[j] \in Int /\ f[j] = g[j] + h[j]
      <3> SUFFICES ASSUME NEW j \in O
                   PROVE  h[j] = gain[Index(c, j)] /\ h[j] \in Int /\ f[j] = g[j] + h[j]
        OBVIOUS
      <3> DEFINE i == Index(c, j)
      <3>1. i \in A /\ i \notin B /\ i \in D /\ ~InBox(c, i) /\ j \in OwnSlots
        BY <1>3, <1>6, <1>12, <1>13
      <3>2. f[j] = ClickedSlots(c)[i].count
        BY <2>1, <3>1 DEF OwnAfter, O
      <3>3. h[j] = gain[i]
        OBVIOUS
      <3>4. w[i] = inv[c].slots[j]
        BY <3>1, <1>10, <1>11
      <3> HIDE DEF i, h
      <3>5. g[j] = w[i].count /\ g[j] \in Int
        BY <2>2, <3>1, <3>4 DEF IntOn
      <3>6. gain[i] = f[j] - g[j] /\ f[j] \in Int /\ gain[i] \in Int
        BY <3>1, <3>2, <3>5, <1>8, <1>9
      <3>7. QED
        BY <3>3, <3>5, <3>6 DEF i
    <2> HIDE DEF h
    <2>5. IntOn(h, O)
      BY <2>4 DEF IntOn
    <2>6. QED
      BY <2>1, <2>2, <2>3, <2>4, <2>5, <1>3, SlotSetsFinite, SumDifference
  <1>18. SumFunctionOnSet(gain, A \ B) = SumFunctionOnSet(h, O)
    <2>1. \A j \in O : h[j] \in Int /\ h[j] = gain[m[j]]
      BY <1>6, <1>9, <1>12
    <2>2. \A j, k \in O : m[j] = m[k] => j = k
      BY <1>3, <1>11
    <2>3. {m[j] : j \in O} = A \ B
      <3>1. \A j \in O : m[j] \in A \ B
        BY <1>12
      <3>2. ASSUME NEW i \in A \ B PROVE \E j \in O : m[j] = i
        <4>1. PICK j \in OwnSlots : Index(c, j) = i
          BY <1>6, <1>10, <1>13
        <4>2. j \in O /\ m[j] = i
          BY <4>1, <1>15
        <4>3. QED
          BY <4>2
      <3>3. QED
        BY <3>1, <3>2
    <2> HIDE DEF m, h
    <2>4. SumFunctionOnSet(gain, {m[j] : j \in O}) = SumFunctionOnSet(h, O)
      BY <1>7, <2>1, <2>2, SumRenamed
    <2>5. QED
      BY <2>3, <2>4
  <1>19. SumFunctionOnSet(gain, A) = SumFunctionOnSet(gain, B) + SumFunctionOnSet(gain, A \ B)
    <2>1. A = B \cup (A \ B) /\ B \cap (A \ B) = {}
      BY <1>6
    <2>2. IntOn(gain, B \cup (A \ B))
      BY <1>6, <1>9 DEF IntOn
    <2>3. SumFunctionOnSet(gain, B \cup (A \ B)) = SumFunctionOnSet(gain, B) + SumFunctionOnSet(gain, A \ B)
      BY <1>7, <2>1, <2>2, SumUnion
    <2>4. QED
      BY <2>1, <2>3
  <1>20. SumFunctionOnSet(gain, B) \in Int /\ SumFunctionOnSet(gain, A \ B) \in Int
    BY <1>6, <1>7, <1>9, SumStep DEF IntOn
  <1>21. ItemsIn(box.slots) \in Int /\ ItemsIn(inv[c].slots) \in Int
    BY <1>4, SlotSetsFinite, ItemsInIs
  <1> DEFINE x1 == ItemsIn(BoxAfter(c))
             x2 == ItemsIn(OwnAfter(c))
             y1 == ItemsIn(box.slots)
             y2 == ItemsIn(inv[c].slots)
             z == SumFunctionOnSet(gain, A)
             z1 == SumFunctionOnSet(gain, B)
             z2 == SumFunctionOnSet(gain, A \ B)
  <1>22. /\ x1 = y1 + z1 /\ x2 = y2 + z2 /\ z = z1 + z2
         /\ z1 \in Int /\ z2 \in Int /\ y1 \in Int /\ y2 \in Int
    BY <1>16, <1>17, <1>18, <1>19, <1>20, <1>21
  <1> HIDE DEF x1, x2, y1, y2, z, z1, z2
  <1>23. x1 + x2 = y1 + y2 + z /\ z \in Int /\ x1 \in Int /\ x2 \in Int
    BY <1>22
  <1>24. QED
    BY <1>22, <1>23 DEF x1, x2, y1, y2, z, gain, A

LEMMA ApplyClickKeeps ==
    ASSUME TInv, NEW c \in Clients, ApplyClick(c), dropped \in Int,
           readonly # {} => ~Splits(Clicked(c))
    PROVE  Kept
  <1> DEFINE D == DOMAIN Clicked(c).changes
             s == PlayerAfter(c)
             z == SumFunctionOnSet(Gain(c), Applied(c))
             cursor == CursorAfter(c)
             old == inv[c].cursor
  <1>1. /\ TInv' /\ s \in Players
        /\ inv' = [inv EXCEPT ![c] = s] /\ box' = SetSlots(box, BoxAfter(c)) /\ dropped' = dropped
        /\ Takes(c, "click") /\ PlainClick(c, Clicked(c))
    BY ApplyClickTypes, ApplyClickIs DEF TInv
  <1>2. /\ BoxAfter(c) \in [BoxSlots -> Stacks] /\ OwnAfter(c) \in [OwnSlots -> Stacks]
        /\ cursor \in Stacks
        /\ AppliedBox(c) \in SUBSET BoxSlots /\ AppliedOwn(c) \in SUBSET OwnSlots
    BY <1>1, ClickedSlotsIn
  <1>3. inv[c] \in Players /\ box \in Boxes
    BY DEF TInv, TypeOK
  <1>4. s.slots = OwnAfter(c) /\ s.cursor = cursor
    <2> DEFINE r == SetSlots(inv[c], OwnAfter(c))
               changed == cursor # old
    <2>1. r \in Players /\ r.slots = OwnAfter(c)
      BY <1>2, <1>3, SetSlotsPlayer
    <2>2. changed \in BOOLEAN
      OBVIOUS
    <2>3. s = Marked(r, AppliedOwn(c), AppliedBox(c), cursor, changed)
      BY DEF PlayerAfter
    <2> HIDE DEF r, s, changed, cursor, old
    <2>4. s.slots = r.slots /\ s.cursor = cursor
      BY <1>2, <2>1, <2>2, <2>3, MarkedIn
    <2>5. QED
      BY <2>1, <2>4
  <1>5. box'.slots = BoxAfter(c)
    BY <1>1, <1>2, <1>3, SetSlotsBox
  <1>6. z + cursor.count = old.count /\ old.count \in Int /\ cursor.count \in Int
    <2>1. old.count \in Int /\ cursor.count \in Int
      BY <1>2, <1>3, StackFacts DEF Players
    <2>2. CASE Applied(c) = D
      BY <2>1, <2>2, ClickBalances DEF CursorAfter
    <2>3. CASE Applied(c) # D
      <3>1. Applied(c) = {}
        BY <2>3, AllOrNothing
      <3>2. z = 0
        BY <3>1, SumEmpty
      <3>3. cursor = old
        BY <2>3 DEF CursorAfter
      <3> HIDE DEF z, cursor, old
      <3>4. QED
        BY <2>1, <3>2, <3>3
    <2>4. QED
      BY <2>2, <2>3
  <1> DEFINE x1 == ItemsIn(BoxAfter(c))
             x2 == ItemsIn(OwnAfter(c))
             y1 == ItemsIn(box.slots)
             y2 == ItemsIn(inv[c].slots)
             hs == Holds(s)
             hc == Holds(inv[c])
             k == cursor.count
             o == old.count
  <1>7. /\ x1 + x2 = y1 + y2 + z
        /\ z \in Int /\ x1 \in Int /\ x2 \in Int /\ y1 \in Int /\ y2 \in Int
    BY ClickMoves
  <1>8. hs = x2 + k /\ hc = y2 + o
    BY <1>4 DEF Holds
  <1>9. Items' = Items + (hs - hc) + (x1 - y1)
    BY <1>1, <1>5, ItemsChanged DEF TInv
  <1>10. Items \in Int
    BY ItemsAre, TotalIs DEF TInv, TypeOK
  <1>11. z + k = o /\ o \in Int /\ k \in Int
    BY <1>6
  <1> HIDE DEF x1, x2, y1, y2, hs, hc, k, o, z
  <1>12. (hs - hc) + (x1 - y1) = 0 /\ hs \in Int /\ hc \in Int
    BY <1>7, <1>8, <1>11
  <1>13. Items' = Items
    BY <1>7, <1>9, <1>10, <1>12
  <1>14. QED
    BY <1>1, <1>10, <1>13 DEF Kept

LEMMA PacketKeeps ==
    ASSUME TInv, SplitsApart, NEW c \in Clients, Packet(c), dropped \in Int
    PROVE  Kept /\ supplied' = supplied
  <1>1. PICK t : Takes(c, t)
    BY DEF Packet, RefuseClick, DropCursor, ResyncClick, DropFromWindow, ApplyClick, DropHeld, SwapHands,
           HandleClose
  <1>2. supplied' = supplied
    BY <1>1 DEF Takes
  <1>3. TInv'
    BY PacketTypes
  <1>4. CASE RefuseClick(c)
    <2>1. UNCHANGED <<inv, box, dropped>>
      BY <1>4 DEF RefuseClick
    <2>2. QED
      BY <1>2, <1>3, <2>1, ItemsSame DEF TInv
  <1>5. CASE ApplyClick(c)
    <2>1. Takes(c, "click")
      BY <1>5, ApplyClickIs DEF TInv
    <2>2. toServer[c] \in Seq(Packets) /\ toServer[c] # <<>>
      BY <2>1 DEF TInv, TrafficOK, Takes
    <2>3. 1 \in DOMAIN toServer[c] /\ Clicked(c) = toServer[c][1]
      BY <2>2 DEF Clicked
    <2>4. readonly # {} => ~Splits(Clicked(c))
      BY <2>3 DEF SplitsApart, OnTheWay
    <2>5. QED
      BY <1>2, <1>5, <2>4, ApplyClickKeeps
  <1>6. QED
    BY <1>2, <1>4, <1>5, DropCursorKeeps, ResyncClickKeeps, DropFromWindowKeeps, DropHeldKeeps,
       SwapHandsKeeps, HandleCloseKeeps DEF Packet

LEMMA ClientKeeps ==
    ASSUME TInv, NEW c \in Clients, Client(c), dropped \in Int
    PROVE  Kept /\ supplied' = supplied
  <1>1. UNCHANGED <<serverVars, supplied>>
    BY DEF Client, ClientClicks, ClientCloses, ClientDrops, ClientSwapsHands, ClientReceives, Send
  <1>2. TInv'
    BY ClientTypes
  <1>3. QED
    BY <1>1, <1>2, ItemsSame DEF TInv, serverVars

LEMMA FinishKeeps ==
    ASSUME TInv, TInv', NEW c \in Clients, NEW s \in Players, NEW b \in Boxes, NEW msgs,
           Finish(c, s, b, msgs), dropped \in Int,
           s.slots = inv[c].slots, s.cursor = inv[c].cursor, b.slots = box.slots
    PROVE  Kept /\ supplied' = supplied
  <1> DEFINE r == CursorTold(s)
  <1>1. inv' = [inv EXCEPT ![c] = r] /\ UNCHANGED <<dropped, supplied>>
    BY DEF Finish
  <1>2. box' = b \/ box' = Despawned(b)
    BY DEF Finish
  <1>3. box'.slots = box.slots
    BY <1>2 DEF Despawned, Boxes
  <1>4. r \in Players /\ r.slots = inv[c].slots /\ r.cursor = inv[c].cursor
    BY CursorToldIn
  <1> HIDE DEF r
  <1>5. Holds(r) = Holds(inv[c])
    BY <1>4 DEF Holds
  <1>6. QED
    BY <1>1, <1>3, <1>4, <1>5, PlayerKeeps DEF TInv

LEMMA PostUpdateKeeps ==
    ASSUME TInv, NEW c \in Clients, PostUpdate(c), dropped \in Int
    PROVE  Kept /\ supplied' = supplied
  <1>1. TInv'
    BY PostUpdateTypes
  <1>2. inv[c] \in Players /\ box \in Boxes
    BY DEF TInv, TypeOK
  <1> DEFINE As(s) == s \in Players /\ s.slots = inv[c].slots /\ s.cursor = inv[c].cursor
             clean == [box EXCEPT !.changed = {}]
  <1>3. clean \in Boxes /\ clean.slots = box.slots
    BY <1>2 DEF Boxes
  <1>4. \A s : As(s) => As([s EXCEPT !.closed = FALSE]) /\ As([s EXCEPT !.closed = TRUE])
    BY DEF Players
  <1>5. \A s : As(s) => As([s EXCEPT !.sid = s.sid + 1])
    BY DEF Players
  <1>6. \A s : As(s) => As([s EXCEPT !.changed = {}]) /\ As([s EXCEPT !.changed = {}, !.touched = {}])
    BY DEF Players
  <1>7. As(inv[c])
    BY <1>2
  <1> HIDE DEF clean
  <1>8. ASSUME NEW s, As(s), NEW b \in {box, clean}, NEW msgs, Finish(c, s, b, msgs)
        PROVE  Kept /\ supplied' = supplied
    BY <1>1, <1>2, <1>3, <1>8, FinishKeeps
  <1>9. CASE UpdateOwn(c)
    <2> DEFINE s == [inv[c] EXCEPT !.closed = FALSE]
               told == [s EXCEPT !.changed = {}, !.touched = {}]
               next == [told EXCEPT !.sid = told.sid + 1]
    <2>1. \E msgs : \/ Finish(c, next, box, msgs)
                    \/ Finish(c, told, box, msgs)
                    \/ Finish(c, s, box, msgs)
      BY <1>9 DEF UpdateOwn
    <2> HIDE DEF As
    <2>2. As(s)
      BY <1>4, <1>7
    <2> HIDE DEF s
    <2>3. As(told)
      BY <1>6, <2>2
    <2> HIDE DEF told
    <2>4. As(next)
      BY <1>5, <2>3
    <2> HIDE DEF next
    <2>5. QED
      BY <1>8, <2>1, <2>2, <2>3, <2>4
  <1>10. CASE UpdateGone(c)
    <2> DEFINE r == WithoutWindow(inv[c])
               s == [r EXCEPT !.closed = TRUE]
    <2>1. \E msgs : Finish(c, s, box, msgs)
      BY <1>10 DEF UpdateGone
    <2>2. As(r)
      BY <1>2, WithoutWindowIn
    <2> HIDE DEF r, As
    <2>3. As(s)
      BY <1>4, <2>2
    <2> HIDE DEF s
    <2>4. QED
      BY <1>8, <2>1, <2>3
  <1> DEFINE u == Unmarked(inv[c])
  <1>11. As(u)
    BY <1>2, UnmarkedIn
  <1>12. CASE UpdateNew(c)
    <2> DEFINE s == [u EXCEPT !.win = (u.win % 100) + 1]
    <2>1. \E msgs : Finish(c, s, clean, msgs)
      BY <1>12 DEF UpdateNew, clean
    <2> HIDE DEF u
    <2>2. u.win \in 0..100
      BY <1>11 DEF Players
    <2>3. (u.win % 100) + 1 \in 0..100
      BY <2>2
    <2>4. As(s)
      BY <1>11, <2>3 DEF Players
    <2> HIDE DEF s, As
    <2>5. QED
      BY <1>8, <2>1, <2>4
  <1>13. CASE UpdateShown(c)
    <2> DEFINE next == [u EXCEPT !.sid = u.sid + 1]
               some == [u EXCEPT !.changed = {}]
    <2>1. \E msgs : \/ Finish(c, next, clean, msgs)
                    \/ Finish(c, some, clean, msgs)
                    \/ Finish(c, u, clean, msgs)
      BY <1>13 DEF UpdateShown, clean
    <2> HIDE DEF u, As
    <2>2. As(next) /\ As(some)
      BY <1>5, <1>6, <1>11
    <2> HIDE DEF next, some
    <2>3. QED
      BY <1>8, <1>11, <2>1, <2>2
  <1>14. QED
    BY <1>9, <1>10, <1>12, <1>13 DEF PostUpdate

\* User code puts items in and takes them out.
LEMMA UserSupplies ==
    ASSUME TInv, User, dropped \in Int, supplied \in Int
    PROVE  dropped' = dropped /\ Items' \in Int /\ supplied' = supplied + (Items' - Items)
  <1> DEFINE Goal == dropped' = dropped /\ Items' \in Int /\ supplied' = supplied + (Items' - Items)
  <1> SUFFICES Goal
    OBVIOUS
  <1>0. TInv'
    BY UserTypes
  <1>1. dropped' = dropped
    BY DEF User, UserSetsOwn, UserSetsCursor, UserSetsBox, UserResyncsOwn, UserOpens, UserCloses, UserFreezes,
           UserResyncsBox, UserDespawnsBox, Call
  <1>2. inv \in [Clients -> Players] /\ box \in Boxes /\ \A c \in Clients : inv[c] \in Players
    BY DEF TInv, TypeOK
  <1>3. Items \in Int
    BY <1>2, ItemsAre, TotalIs
  <1>4. ASSUME Items' = Items, supplied' = supplied PROVE Goal
    BY <1>1, <1>3, <1>4
  <1>5. ASSUME NEW c \in Clients, NEW s \in Players, inv' = [inv EXCEPT ![c] = s], UNCHANGED <<box, supplied>>,
               s.slots = inv[c].slots, s.cursor = inv[c].cursor
        PROVE  Goal
    <2>1. Holds(s) = Holds(inv[c])
      BY <1>5 DEF Holds
    <2>2. Items' = Items
      BY <1>0, <1>1, <1>5, <2>1, PlayerKeeps DEF TInv
    <2>3. QED
      BY <1>4, <1>5, <2>2
  <1>6. ASSUME NEW c \in Clients, NEW s \in Players, inv' = [inv EXCEPT ![c] = s], UNCHANGED box,
               NEW d \in Int, Holds(s) = Holds(inv[c]) + d, supplied' = supplied + d
        PROVE  Goal
    <2>1. Items' = Items + (Holds(s) - Holds(inv[c])) + (ItemsIn(box'.slots) - ItemsIn(box.slots))
      BY <1>0, <1>6, ItemsChanged DEF TInv
    <2> DEFINE a == Holds(s)
               b == Holds(inv[c])
               e == ItemsIn(box.slots)
    <2>2. a \in Int /\ b \in Int /\ e \in Int
      BY <1>2, HoldsIn, ItemsAre
    <2>3. Items' = Items + (a - b) + (e - e) /\ a = b + d
      BY <1>6, <2>1
    <2> HIDE DEF a, b, e
    <2>4. QED
      BY <1>1, <1>3, <1>6, <2>2, <2>3
  <1>7. ASSUME UNCHANGED inv, box'.slots = box.slots, supplied' = supplied PROVE Goal
    <2>1. Items' = Items
      BY <1>0, <1>1, <1>7, ItemsSame DEF TInv
    <2>2. QED
      BY <1>4, <1>7, <2>1
  <1> HIDE DEF Goal
  <1>8. ASSUME NEW c \in Clients, NEW stack \in Stacks, NEW i \in OwnSlots, UserSetsOwn(c, i, stack)
        PROVE  Goal
    <2> DEFINE own == inv[c].slots
               slots == [own EXCEPT ![i] = stack]
               s == SetSlots(inv[c], slots)
    <2>1. inv' = [inv EXCEPT ![c] = s] /\ UNCHANGED box /\ supplied' = supplied + stack.count - own[i].count
      BY <1>8 DEF UserSetsOwn
    <2>2. own \in [OwnSlots -> Stacks]
      BY <1>2 DEF Players
    <2> HIDE DEF own
    <2>3. slots \in [OwnSlots -> Stacks]
      BY <2>2
    <2>4. /\ ItemsIn(slots) = ItemsIn(own) + (stack.count - own[i].count)
          /\ stack.count \in Int /\ own[i].count \in Int
      BY <2>2, SlotSetsFinite, SlotReplaced
    <2> HIDE DEF slots
    <2>5. s \in Players /\ s.slots = slots /\ s.cursor = inv[c].cursor
      BY <1>2, <2>3, SetSlotsPlayer
    <2> HIDE DEF s
    <2> DEFINE d == stack.count - own[i].count
    <2>6. d \in Int /\ supplied' = supplied + d
      BY <2>1, <2>4
    <2>7. ItemsIn(s.slots) = ItemsIn(inv[c].slots) + d
      BY <2>4, <2>5 DEF own
    <2> HIDE DEF d
    <2>8. Holds(s) = Holds(inv[c]) + d
      BY <1>2, <2>5, <2>6, <2>7, SlotsReplaced
    <2>9. QED
      BY <1>6, <2>1, <2>5, <2>6, <2>8
  <1>9. ASSUME NEW c \in Clients, NEW stack \in Stacks, UserSetsCursor(c, stack)
        PROVE  Goal
    <2> DEFINE r == inv[c]
               s == [r EXCEPT !.cursor = stack, !.cursorChanged = TRUE]
               d == stack.count - r.cursor.count
    <2>1. inv' = [inv EXCEPT ![c] = s] /\ UNCHANGED box /\ supplied' = supplied + stack.count - r.cursor.count
      BY <1>9 DEF UserSetsCursor
    <2>2. r \in Players
      BY <1>2
    <2> HIDE DEF r
    <2>3. s \in Players /\ s.slots = r.slots /\ s.cursor = stack
      BY <2>2 DEF Players
    <2> HIDE DEF s
    <2>4. stack.count \in Int /\ r.cursor.count \in Int /\ ItemsIn(r.slots) \in Int
      BY <2>2, HoldsIn, StackFacts
    <2>5. d \in Int /\ supplied' = supplied + d
      BY <2>1, <2>4
    <2>6. Holds(s) = Holds(r) + d
      BY <2>3, <2>4 DEF Holds
    <2> HIDE DEF d
    <2>7. QED
      BY <1>6, <2>1, <2>3, <2>5, <2>6 DEF r
  <1>10. ASSUME NEW i \in BoxSlots, NEW stack \in Stacks, UserSetsBox(i, stack)
         PROVE  Goal
    <2> DEFINE old == box.slots
               slots == [old EXCEPT ![i] = stack]
               a == ItemsIn(slots)
               b == ItemsIn(old)
    <2>1. UNCHANGED inv /\ box' = SetSlots(box, slots) /\ supplied' = supplied + stack.count - old[i].count
      BY <1>10 DEF UserSetsBox
    <2>2. old \in [BoxSlots -> Stacks]
      BY <1>2 DEF Boxes
    <2> HIDE DEF old
    <2>3. slots \in [BoxSlots -> Stacks]
      BY <2>2
    <2>4. a = b + (stack.count - old[i].count) /\ b \in Int /\ stack.count \in Int /\ old[i].count \in Int
      BY <2>2, SlotSetsFinite, SlotReplaced
    <2> HIDE DEF slots
    <2>5. box'.slots = slots
      BY <1>2, <2>1, <2>3, SetSlotsBox
    <2>6. Items' = Items + (a - b)
      BY <1>0, <2>1, <2>5, BoxItemsChanged DEF TInv, old
    <2> HIDE DEF a, b
    <2>7. QED
      BY <1>1, <1>3, <2>1, <2>4, <2>6 DEF Goal
  <1>11. ASSUME NEW c \in Clients, UserResyncsOwn(c)
         PROVE  Goal
    <2> DEFINE s == [inv[c] EXCEPT !.changed = AllBits]
    <2>1. inv' = [inv EXCEPT ![c] = s] /\ UNCHANGED <<box, supplied>>
      BY <1>11 DEF UserResyncsOwn
    <2>2. s \in Players /\ s.slots = inv[c].slots /\ s.cursor = inv[c].cursor
      BY <1>2 DEF Players
    <2> HIDE DEF s
    <2>3. QED
      BY <1>5, <2>1, <2>2
  <1>12. ASSUME NEW c \in Clients, UserOpens(c)
         PROVE  Goal
    <2> DEFINE s == [inv[c] EXCEPT !.open = "new"]
    <2>1. inv' = [inv EXCEPT ![c] = s] /\ UNCHANGED <<box, supplied>>
      BY <1>12 DEF UserOpens
    <2>2. s \in Players /\ s.slots = inv[c].slots /\ s.cursor = inv[c].cursor
      BY <1>2 DEF Players
    <2> HIDE DEF s
    <2>3. QED
      BY <1>5, <2>1, <2>2
  <1>13. ASSUME NEW c \in Clients, UserCloses(c)
         PROVE  Goal
    <2> DEFINE s == WithoutWindow(inv[c])
    <2>1. inv' = [inv EXCEPT ![c] = s] /\ UNCHANGED <<box, supplied>>
      BY <1>13 DEF UserCloses
    <2>2. s \in Players /\ s.slots = inv[c].slots /\ s.cursor = inv[c].cursor
      BY <1>2, WithoutWindowIn
    <2> HIDE DEF s
    <2>3. QED
      BY <1>5, <2>1, <2>2
  <1>14. ASSUME NEW x \in Clients \cup {Box}, UserFreezes(x)
         PROVE  Goal
    BY <1>7, <1>14 DEF UserFreezes
  <1>15. ASSUME UserResyncsBox
         PROVE  Goal
    BY <1>2, <1>7, <1>15 DEF UserResyncsBox, Boxes
  <1>16. ASSUME NEW life \in {"despawned", "gone"}, UserDespawnsBox(life)
         PROVE  Goal
    BY <1>2, <1>7, <1>16 DEF UserDespawnsBox, Boxes
  <1>17. QED
    BY <1>8, <1>9, <1>10, <1>11, <1>12, <1>13, <1>14, <1>15, <1>16 DEF User

\* No click that splits is on the way while an inventory is read-only.
LEMMA SplitsStayApart ==
    ASSUME TInv, SplitsApart, "split" \in Avoided, [Next]_vars
    PROVE  SplitsApart'
  <1>1. toServer \in [Clients -> Seq(Packets)]
    BY DEF TInv, TrafficOK
  <1>2. ASSUME UNCHANGED <<toServer, readonly>> PROVE SplitsApart'
    BY <1>2 DEF SplitsApart, OnTheWay
  <1>3. ASSUME NEW c \in Clients, NEW p, Send(c, p), readonly # {} => ~Splits(p)
        PROVE  SplitsApart'
    <2>1. toServer' = [toServer EXCEPT ![c] = Append(toServer[c], p)] /\ readonly' = readonly
      BY <1>3 DEF Send, serverVars
    <2> SUFFICES ASSUME NEW d \in Clients, readonly # {}, NEW k \in DOMAIN toServer'[d]
                 PROVE  ~Splits(toServer'[d][k])
      BY <2>1 DEF SplitsApart, OnTheWay
    <2>2. \A j \in DOMAIN toServer[d] : ~Splits(toServer[d][j])
      BY DEF SplitsApart, OnTheWay
    <2>3. CASE d # c
      BY <1>1, <2>1, <2>2, <2>3
    <2>4. CASE d = c
      <3> DEFINE q == toServer[c]
                 n == Len(q)
      <3>1. q \in Seq(Packets) /\ toServer'[d] = Append(q, p)
        BY <1>1, <2>1, <2>4
      <3> HIDE DEF q
      <3>2. n \in Nat /\ k \in 1..(n + 1) /\ DOMAIN q = 1..n
        BY <3>1
      <3>3. Append(q, p)[k] = IF k = n + 1 THEN p ELSE q[k]
        BY <3>1, <3>2
      <3>4. CASE k = n + 1
        BY <3>1, <3>3, <3>4, <1>3
      <3>5. CASE k # n + 1
        <4>1. k \in DOMAIN q
          BY <3>2, <3>5
        <4>2. ~Splits(q[k])
          BY <4>1, <2>2, <2>4 DEF q
        <4>3. QED
          BY <3>1, <3>3, <3>5, <4>2
      <3>6. QED
        BY <3>4, <3>5
    <2>5. QED
      BY <2>3, <2>4
  <1>4. ASSUME NEW c \in Clients, NEW t, Takes(c, t)
        PROVE  SplitsApart'
    <2>1. /\ toServer' = [toServer EXCEPT ![c] = Tail(toServer[c])] /\ readonly' = readonly
          /\ toServer[c] # <<>>
      BY <1>4 DEF Takes
    <2> SUFFICES ASSUME NEW d \in Clients, readonly # {}, NEW k \in DOMAIN toServer'[d]
                 PROVE  ~Splits(toServer'[d][k])
      BY <2>1 DEF SplitsApart, OnTheWay
    <2>2. \A j \in DOMAIN toServer[d] : ~Splits(toServer[d][j])
      BY DEF SplitsApart, OnTheWay
    <2>3. CASE d # c
      BY <1>1, <2>1, <2>2, <2>3
    <2>4. CASE d = c
      <3> DEFINE q == toServer[c]
      <3>1. q \in Seq(Packets) /\ q # <<>> /\ toServer'[d] = Tail(q)
        BY <1>1, <2>1, <2>4
      <3> HIDE DEF q
      <3>2. k + 1 \in DOMAIN q /\ Tail(q)[k] = q[k + 1]
        BY <3>1
      <3>3. QED
        BY <3>1, <3>2, <2>2, <2>4 DEF q
    <2>5. QED
      BY <2>3, <2>4
  <1>5. ASSUME NEW c \in Clients, Client(c) PROVE SplitsApart'
    <2>1. CASE ClientClicks(c)
      <3>1. \E p : Send(c, p) /\ (readonly # {} => ~Splits(p))
        BY <2>1 DEF ClientClicks
      <3>2. QED
        BY <1>3, <3>1
    <2>2. CASE ClientCloses(c)
      <3>1. ~Splits([type |-> "close"])
        BY DEF Splits
      <3>2. QED
        BY <2>2, <3>1, <1>3 DEF ClientCloses
    <2>3. CASE ClientDrops(c)
      <3>1. \A all : ~Splits([type |-> "drop", all |-> all])
        BY DEF Splits
      <3>2. QED
        BY <2>3, <3>1, <1>3 DEF ClientDrops
    <2>4. CASE ClientSwapsHands(c)
      <3>1. ~Splits([type |-> "swap"])
        BY DEF Splits
      <3>2. QED
        BY <2>4, <3>1, <1>3 DEF ClientSwapsHands
    <2>5. CASE ClientReceives(c)
      BY <2>5, <1>2 DEF ClientReceives, serverVars
    <2>6. QED
      BY <1>5, <2>1, <2>2, <2>3, <2>4, <2>5 DEF Client
  <1>6. ASSUME NEW c \in Clients, Packet(c) PROVE SplitsApart'
    <2>1. \E t : Takes(c, t)
      BY <1>6 DEF Packet, RefuseClick, DropCursor, ResyncClick, DropFromWindow, ApplyClick, DropHeld,
                  SwapHands, HandleClose
    <2>2. QED
      BY <1>4, <2>1
  <1>7. ASSUME NEW c \in Clients, PostUpdate(c) PROVE SplitsApart'
    BY <1>2, <1>7 DEF PostUpdate, UpdateOwn, UpdateGone, UpdateNew, UpdateShown, Finish
  <1>8. CASE User
    <2>1. CASE \E x \in Clients \cup {Box} : UserFreezes(x)
      <3>1. toServer' = toServer /\ \A c \in Clients : ~OnTheWay(toServer[c], Splits)
        BY <2>1 DEF UserFreezes, Call
      <3>2. QED
        BY <3>1 DEF SplitsApart, OnTheWay
    <2>2. CASE ~\E x \in Clients \cup {Box} : UserFreezes(x)
      <3>1. UNCHANGED <<toServer, readonly>>
        BY <1>8, <2>2 DEF User, UserSetsOwn, UserSetsCursor, UserSetsBox, UserResyncsOwn, UserOpens, UserCloses,
                          UserResyncsBox, UserDespawnsBox, Call
      <3>2. QED
        BY <3>1, <1>2
    <2>3. QED
      BY <2>1, <2>2
  <1>9. CASE StartUpdate \/ StartPostUpdate \/ UNCHANGED vars
    BY <1>2, <1>9 DEF StartUpdate, StartPostUpdate, vars, serverVars
  <1>10. QED
    BY <1>5, <1>6, <1>7, <1>8, <1>9 DEF Next

\* The inductive invariant.
IInv == TInv /\ dropped \in Int /\ SplitsApart /\ ItemsConserved

\* Neither the clicks of clients nor what handlers and systems make of them add
\* items or lose any, if no drag or double click meets a read-only inventory.
THEOREM SpecItemsConserved ==
    ASSUME "split" \in Avoided
    PROVE  Spec => []ItemsConserved
  <1>1. Init => IInv
    <2> SUFFICES ASSUME Init PROVE IInv
      OBVIOUS
    <2>1. TInv
      BY InitTypes
    <2>2. Items \in Int
      BY <2>1, ItemsAre, TotalIs DEF TInv, TypeOK
    <2>3. dropped = 0 /\ supplied = Items
      BY DEF Init
    <2>4. SplitsApart
      BY DEF Init, SplitsApart
    <2>5. QED
      BY <2>1, <2>2, <2>3, <2>4 DEF IInv, ItemsConserved
  <1>2. IInv /\ [Next]_vars => IInv'
    <2> SUFFICES ASSUME IInv, [Next]_vars PROVE IInv'
      OBVIOUS
    <2>1. TInv /\ dropped \in Int /\ SplitsApart /\ ItemsConserved
      BY DEF IInv
    <2>2. TInv' /\ SplitsApart'
      BY <2>1, NextTypes, SplitsStayApart
    <2>3. Items \in Int /\ supplied \in Int
      <3>1. Items \in Int
        BY <2>1, ItemsAre, TotalIs DEF TInv, TypeOK
      <3>2. QED
        BY <2>1, <3>1 DEF ItemsConserved
    <2>4. ASSUME Kept /\ supplied' = supplied PROVE IInv'
      BY <2>1, <2>2, <2>4 DEF IInv, ItemsConserved, Kept
    <2>5. CASE \E c \in Clients : Client(c) \/ Packet(c) \/ PostUpdate(c)
      BY <2>1, <2>4, <2>5, ClientKeeps, PacketKeeps, PostUpdateKeeps
    <2>6. CASE StartUpdate \/ StartPostUpdate \/ UNCHANGED vars
      <3>1. UNCHANGED <<inv, box, dropped, supplied>>
        BY <2>6 DEF StartUpdate, StartPostUpdate, vars, serverVars
      <3>2. Kept
        BY <2>1, <2>2, <3>1, ItemsSame DEF TInv
      <3>3. QED
        BY <2>4, <3>1, <3>2
    <2>7. CASE User
      <3>1. dropped' = dropped /\ Items' \in Int /\ supplied' = supplied + (Items' - Items)
        BY <2>1, <2>3, <2>7, UserSupplies
      <3>2. QED
        BY <2>1, <2>2, <2>3, <3>1 DEF IInv, ItemsConserved
    <2>8. QED
      BY <2>5, <2>6, <2>7 DEF Next
  <1>3. IInv => ItemsConserved
    BY DEF IInv
  <1>4. QED
    BY <1>1, <1>2, <1>3, PTL DEF Spec

-----------------------------------------------------------------------------
(***************************************************************************)
(* What is on its way to a client, and what it shows when it has got it.   *)
(***************************************************************************)
\* The recursion of Showing, step by step.
LEMMA ShowingSteps ==
    ASSUME NEW v \in Views, NEW s \in Seq(Messages)
    PROVE  /\ \A k \in 0..Len(s) :
                 Showing(v, s)[k] = IF k = 0 THEN v ELSE Shown(Showing(v, s)[k - 1], s[k])
           /\ \A k \in 0..Len(s) : Showing(v, s)[k] \in Views
  <1> DEFINE n == Len(s)
             step == [x \in (1..n) \X Views |-> Shown(x[2], s[x[1]])]
             Step(f) == [k \in 0..n |-> IF k = 0 THEN v ELSE Shown(f[k - 1], s[k])]
             P == Showing(v, s)
  <1>1. n \in Nat /\ \A i \in 1..n : s[i] \in Messages
    OBVIOUS
  <1>2. step \in [(1..n) \X Views -> Views]
    <2>1. \A x \in (1..n) \X Views : Shown(x[2], s[x[1]]) \in Views
      BY <1>1, ShownIn
    <2>2. QED
      BY <2>1
  <1>3. PICK f \in [0..n -> Views] : f[0] = v /\ \A i \in 1..n : f[i] = step[<<i, f[i - 1]>>]
    <2> HIDE DEF step, n
    <2>1. Iterated(n, Views, v, step)
      BY <1>1, <1>2, Iterates
    <2>2. QED
      BY <2>1 DEF Iterated
  <1>4. \A i \in 1..n : f[i] = Shown(f[i - 1], s[i])
    <2>1. \A i \in 1..n : <<i, f[i - 1]>> \in (1..n) \X Views
      BY <1>1
    <2>2. QED
      BY <1>3, <2>1
  <1>5. f = Step(f)
    BY <1>3, <1>4
  <1>6. P = CHOOSE g : g = Step(g)
    BY DEF Showing
  <1>7. P = Step(P)
    <2> HIDE DEF Step
    <2>1. QED
      BY <1>5, <1>6
  <1> HIDE DEF P
  <1>8. \A k \in 0..n : P[k] = IF k = 0 THEN v ELSE Shown(P[k - 1], s[k])
    BY <1>7, Zenon
  <1> DEFINE U == {k \in 0..n : P[k] \in Views}
  <1>9. 0 \in U
    BY <1>8, <1>1
  <1>10. \A k \in 0..(n - 1) : k \in U => k + 1 \in U
    <2> SUFFICES ASSUME NEW k \in 0..(n - 1), k \in U PROVE k + 1 \in U
      OBVIOUS
    <2>1. k + 1 \in 1..n /\ (k + 1) - 1 = k
      BY <1>1
    <2>2. P[k + 1] = Shown(P[k], s[k + 1])
      BY <1>8, <2>1
    <2>3. P[k] \in Views /\ s[k + 1] \in Messages
      BY <1>1, <2>1
    <2>4. P[k + 1] \in Views
      BY <2>2, <2>3, ShownIn
    <2>5. QED
      BY <2>1, <2>4
  <1> HIDE DEF U
  <1>11. 0..n \subseteq U
    BY <1>1, <1>9, <1>10, InductionOverSet
  <1>12. QED
    BY <1>8, <1>11 DEF U, P

-----------------------------------------------------------------------------
\* What holds of a view and stays so with each message holds in the end: of two
\* views that get the same messages, and of one.
LEMMA ShowsPairs ==
    ASSUME NEW v \in Views, NEW w \in Views, NEW s \in Seq(Messages), NEW P,
           <<v, w>> \in P,
           \A a, b \in Views, k \in DOMAIN s :
               <<a, b>> \in P => <<Shown(a, s[k]), Shown(b, s[k])>> \in P
    PROVE  <<Shows(v, s), Shows(w, s)>> \in P
  <1> DEFINE n == Len(s)
             A == Showing(v, s)
             B == Showing(w, s)
             U == {k \in 0..n : <<A[k], B[k]>> \in P}
  <1>1. n \in Nat /\ DOMAIN s = 1..n
    OBVIOUS
  <1>2. /\ \A k \in 0..n : A[k] = IF k = 0 THEN v ELSE Shown(A[k - 1], s[k])
        /\ \A k \in 0..n : B[k] = IF k = 0 THEN w ELSE Shown(B[k - 1], s[k])
        /\ \A k \in 0..n : A[k] \in Views /\ B[k] \in Views
    BY ShowingSteps
  <1> HIDE DEF A, B
  <1>3. 0 \in U
    BY <1>1, <1>2
  <1>4. \A k \in 0..(n - 1) : k \in U => k + 1 \in U
    <2> SUFFICES ASSUME NEW k \in 0..(n - 1), k \in U PROVE k + 1 \in U
      OBVIOUS
    <2>1. k + 1 \in 1..n /\ (k + 1) - 1 = k /\ k \in 0..n
      BY <1>1
    <2>2. A[k + 1] = Shown(A[k], s[k + 1]) /\ B[k + 1] = Shown(B[k], s[k + 1])
      BY <1>2, <2>1
    <2>3. <<A[k], B[k]>> \in P /\ A[k] \in Views /\ B[k] \in Views
      BY <1>2, <2>1
    <2>4. <<A[k + 1], B[k + 1]>> \in P
      BY <1>1, <2>1, <2>2, <2>3
    <2>5. QED
      BY <2>1, <2>4
  <1> HIDE DEF U
  <1>5. 0..n \subseteq U
    BY <1>1, <1>3, <1>4, InductionOverSet
  <1>6. n \in U
    BY <1>1, <1>5
  <1>7. QED
    BY <1>6 DEF U, A, B, Shows

\* What holds of a view and survives each message holds in the end.
LEMMA ShowsSet ==
    ASSUME NEW v \in Views, NEW s \in Seq(Messages), NEW P, v \in P,
           \A a \in Views, k \in DOMAIN s : a \in P => Shown(a, s[k]) \in P
    PROVE  Shows(v, s) \in P
  <1>1. <<Shows(v, s), Shows(v, s)>> \in P \X P
    BY ShowsPairs
  <1>2. QED
    BY <1>1

\* What is shown is a view.
LEMMA ShowsIn ==
    ASSUME NEW v \in Views, NEW s \in Seq(Messages)
    PROVE  Shows(v, s) \in Views
  BY ShowingIn DEF Shows

\* With no messages nothing changes.
LEMMA ShowsNone ==
    ASSUME NEW v \in Views, NEW s \in Seq(Messages), s = <<>>
    PROVE  Shows(v, s) = v
  <1>1. Len(s) = 0 /\ 0 \in 0..Len(s)
    OBVIOUS
  <1>2. \A k \in 0..Len(s) : Showing(v, s)[k] = IF k = 0 THEN v ELSE Shown(Showing(v, s)[k - 1], s[k])
    BY ShowingSteps
  <1>3. QED
    BY <1>1, <1>2 DEF Shows

\* One message is shown as the client shows it.
LEMMA ShowsOne ==
    ASSUME NEW v \in Views, NEW m \in Messages
    PROVE  Shows(v, <<m>>) = Shown(v, m)
  <1> DEFINE s == <<m>>
             P == Showing(v, s)
  <1>1. s \in Seq(Messages) /\ Len(s) = 1 /\ s[1] = m
    OBVIOUS
  <1>2. Shows(v, s) = P[Len(s)]
    BY DEF Shows
  <1> HIDE DEF s
  <1>3. \A k \in 0..Len(s) : P[k] = IF k = 0 THEN v ELSE Shown(P[k - 1], s[k])
    BY <1>1, ShowingSteps
  <1> HIDE DEF P
  <1>4. P[0] = v /\ P[1] = Shown(P[0], s[1])
    BY <1>1, <1>3
  <1>5. QED
    BY <1>1, <1>2, <1>4 DEF s

\* Messages can be shown in two goes.
LEMMA ShowsConcat ==
    ASSUME NEW v \in Views, NEW s \in Seq(Messages), NEW t \in Seq(Messages)
    PROVE  Shows(v, s \o t) = Shows(Shows(v, s), t)
  <1> DEFINE n == Len(s)
             m == Len(t)
             w == Shows(v, s)
             A == Showing(v, s)
             B == Showing(w, t)
             C == Showing(v, s \o t)
             U == {k \in 0..n : C[k] = A[k]}
             V == {k \in 0..m : C[n + k] = B[k]}
  <1>1. /\ n \in Nat /\ m \in Nat /\ s \o t \in Seq(Messages) /\ Len(s \o t) = n + m
        /\ \A k \in 1..n : (s \o t)[k] = s[k]
        /\ \A k \in 1..m : (s \o t)[n + k] = t[k]
    OBVIOUS
  <1>2. w \in Views
    BY ShowsIn
  <1>3. /\ \A k \in 0..n : A[k] = IF k = 0 THEN v ELSE Shown(A[k - 1], s[k])
        /\ \A k \in 0..m : B[k] = IF k = 0 THEN w ELSE Shown(B[k - 1], t[k])
        /\ \A k \in 0..(n + m) : C[k] = IF k = 0 THEN v ELSE Shown(C[k - 1], (s \o t)[k])
    <2>1. \A k \in 0..n : A[k] = IF k = 0 THEN v ELSE Shown(A[k - 1], s[k])
      BY ShowingSteps
    <2> HIDE DEF w
    <2>2. \A k \in 0..m : B[k] = IF k = 0 THEN w ELSE Shown(B[k - 1], t[k])
      BY <1>2, ShowingSteps
    <2> DEFINE u == s \o t
    <2>3. u \in Seq(Messages) /\ Len(u) = n + m
      BY <1>1
    <2> HIDE DEF u
    <2>4. \A k \in 0..Len(u) : Showing(v, u)[k] = IF k = 0 THEN v ELSE Shown(Showing(v, u)[k - 1], u[k])
      BY <2>3, ShowingSteps
    <2>5. QED
      BY <2>1, <2>2, <2>3, <2>4 DEF u
  <1>4. w = A[n]
    BY DEF Shows
  <1> HIDE DEF A, B, C, w
  <1>5. 0 \in U
    BY <1>1, <1>3
  <1>6. \A k \in 0..(n - 1) : k \in U => k + 1 \in U
    <2> SUFFICES ASSUME NEW k \in 0..(n - 1), k \in U PROVE k + 1 \in U
      OBVIOUS
    <2>1. k + 1 \in 1..n /\ (k + 1) - 1 = k /\ k + 1 \in 0..(n + m)
      BY <1>1
    <2>2. A[k + 1] = Shown(A[k], s[k + 1]) /\ C[k + 1] = Shown(C[k], (s \o t)[k + 1])
      BY <1>3, <2>1
    <2>3. QED
      BY <1>1, <2>1, <2>2
  <1>7. 0..n \subseteq U
    <2> HIDE DEF U
    <2>1. QED
      BY <1>1, <1>5, <1>6, InductionOverSet
  <1>8. C[n] = w
    BY <1>1, <1>4, <1>7
  <1>9. 0 \in V
    BY <1>1, <1>3, <1>8
  <1>10. \A k \in 0..(m - 1) : k \in V => k + 1 \in V
    <2> SUFFICES ASSUME NEW k \in 0..(m - 1), k \in V PROVE k + 1 \in V
      OBVIOUS
    <2>1. /\ k + 1 \in 1..m /\ (k + 1) - 1 = k
          /\ n + (k + 1) \in 0..(n + m) /\ n + (k + 1) # 0 /\ (n + (k + 1)) - 1 = n + k
      BY <1>1
    <2>2. B[k + 1] = Shown(B[k], t[k + 1]) /\ C[n + (k + 1)] = Shown(C[n + k], (s \o t)[n + (k + 1)])
      BY <1>3, <2>1
    <2>3. (s \o t)[n + (k + 1)] = t[k + 1]
      BY <1>1, <2>1
    <2>4. QED
      BY <1>1, <2>1, <2>2, <2>3
  <1>11. 0..m \subseteq V
    <2> HIDE DEF V
    <2>1. QED
      BY <1>1, <1>9, <1>10, InductionOverSet
  <1>12. C[n + m] = B[m]
    BY <1>1, <1>11
  <1>13. QED
    BY <1>1, <1>12 DEF B, C, w, Shows

\* The last message comes last.
LEMMA ShowsAppended ==
    ASSUME NEW v \in Views, NEW s \in Seq(Messages), NEW m \in Messages
    PROVE  Shows(v, s \o <<m>>) = Shown(Shows(v, s), m)
  <1>1. <<m>> \in Seq(Messages)
    OBVIOUS
  <1>2. QED
    BY <1>1, ShowsIn, ShowsOne, ShowsConcat

-----------------------------------------------------------------------------
\* The recursion of Joined, step by step.
LEMMA JoinedSteps ==
    ASSUME NEW bs \in Seq(Seq(Messages))
    PROVE  /\ Joined(bs)[0] = <<>>
           /\ \A k \in 1..Len(bs) : Joined(bs)[k] = Joined(bs)[k - 1] \o bs[k]
           /\ \A k \in 0..Len(bs) : Joined(bs)[k] \in Seq(Messages)
  <1> DEFINE n == Len(bs)
             step == [x \in (1..n) \X Seq(Messages) |-> x[2] \o bs[x[1]]]
             Step(f) == [k \in 0..n |-> IF k = 0 THEN <<>> ELSE f[k - 1] \o bs[k]]
             P == Joined(bs)
  <1>1. n \in Nat /\ \A i \in 1..n : bs[i] \in Seq(Messages)
    OBVIOUS
  <1>2. step \in [(1..n) \X Seq(Messages) -> Seq(Messages)]
    <2>1. \A x \in (1..n) \X Seq(Messages) : x[2] \o bs[x[1]] \in Seq(Messages)
      BY <1>1
    <2>2. QED
      BY <2>1
  <1>3. PICK f \in [0..n -> Seq(Messages)] :
            f[0] = <<>> /\ \A i \in 1..n : f[i] = step[<<i, f[i - 1]>>]
    <2>1. <<>> \in Seq(Messages)
      OBVIOUS
    <2> HIDE DEF step, n
    <2>2. Iterated(n, Seq(Messages), <<>>, step)
      BY <1>1, <1>2, <2>1, Iterates
    <2>3. QED
      BY <2>2 DEF Iterated
  <1>4. \A i \in 1..n : f[i] = f[i - 1] \o bs[i]
    <2> SUFFICES ASSUME NEW i \in 1..n PROVE f[i] = f[i - 1] \o bs[i]
      OBVIOUS
    <2> DEFINE x == <<i, f[i - 1]>>
    <2>1. i - 1 \in 0..n
      BY <1>1
    <2>2. f[i - 1] \in Seq(Messages)
      BY <2>1
    <2>3. x \in (1..n) \X Seq(Messages) /\ x[1] = i /\ x[2] = f[i - 1]
      BY <2>2
    <2>4. f[i] = step[x]
      BY <1>3
    <2> HIDE DEF x
    <2>5. QED
      BY <2>3, <2>4
  <1>5. f = Step(f)
    BY <1>3, <1>4
  <1>6. P = CHOOSE g : g = Step(g)
    BY DEF Joined
  <1>7. P = Step(P)
    <2> HIDE DEF Step
    <2>1. QED
      BY <1>5, <1>6
  <1> HIDE DEF P
  <1> DEFINE Cat(k) == P[k - 1] \o bs[k]
  <1>8. P[0] = <<>> /\ \A k \in 1..n : P[k] = Cat(k)
    <2>1. \A k \in 0..n : P[k] = IF k = 0 THEN <<>> ELSE Cat(k)
      BY <1>7, Zenon
    <2> HIDE DEF Cat
    <2>2. QED
      BY <1>1, <2>1
  <1> DEFINE U == {k \in 0..n : P[k] \in Seq(Messages)}
  <1>9. 0 \in U
    <2>1. <<>> \in Seq(Messages) /\ 0 \in 0..n
      BY <1>1
    <2>2. QED
      BY <1>8, <2>1
  <1>10. \A k \in 0..(n - 1) : k \in U => k + 1 \in U
    <2> SUFFICES ASSUME NEW k \in 0..(n - 1), k \in U PROVE k + 1 \in U
      OBVIOUS
    <2>1. k + 1 \in 1..n /\ (k + 1) - 1 = k
      BY <1>1
    <2>2. P[k + 1] = P[k] \o bs[k + 1]
      BY <1>8, <2>1
    <2>3. P[k] \in Seq(Messages) /\ bs[k + 1] \in Seq(Messages)
      BY <1>1, <2>1
    <2>4. P[k + 1] \in Seq(Messages)
      BY <2>2, <2>3
    <2>5. QED
      BY <2>1, <2>4
  <1> HIDE DEF U
  <1>11. 0..n \subseteq U
    BY <1>1, <1>9, <1>10, InductionOverSet
  <1>12. QED
    BY <1>8, <1>11 DEF U, P

\* Batches of messages make a sequence of them.
LEMMA AllOfIn ==
    ASSUME NEW bs \in Seq(Seq(Messages))
    PROVE  AllOf(bs) \in Seq(Messages) /\ (bs = <<>> => AllOf(bs) = <<>>)
  <1>1. Len(bs) \in 0..Len(bs) /\ (bs = <<>> => Len(bs) = 0)
    OBVIOUS
  <1>2. Joined(bs)[0] = <<>> /\ \A k \in 0..Len(bs) : Joined(bs)[k] \in Seq(Messages)
    BY JoinedSteps
  <1>3. QED
    BY <1>1, <1>2 DEF AllOf

\* A batch flushed comes after all others.
LEMMA AllOfAppended ==
    ASSUME NEW bs \in Seq(Seq(Messages)), NEW b \in Seq(Messages)
    PROVE  AllOf(Append(bs, b)) = AllOf(bs) \o b
  <1> DEFINE n == Len(bs)
             A == Joined(bs)
             B == Joined(Append(bs, b))
             U == {k \in 0..n : B[k] = A[k]}
  <1>1. /\ n \in Nat /\ Append(bs, b) \in Seq(Seq(Messages)) /\ Len(Append(bs, b)) = n + 1
        /\ Append(bs, b)[n + 1] = b /\ \A k \in 1..n : Append(bs, b)[k] = bs[k]
    OBVIOUS
  <1>2. /\ A[0] = <<>> /\ \A k \in 1..n : A[k] = A[k - 1] \o bs[k]
        /\ B[0] = <<>> /\ \A k \in 1..(n + 1) : B[k] = B[k - 1] \o Append(bs, b)[k]
    <2>1. A[0] = <<>> /\ \A k \in 1..n : A[k] = A[k - 1] \o bs[k]
      BY JoinedSteps
    <2> DEFINE cs == Append(bs, b)
    <2>2. cs \in Seq(Seq(Messages)) /\ Len(cs) = n + 1
      BY <1>1
    <2> HIDE DEF cs
    <2>3. Joined(cs)[0] = <<>> /\ \A k \in 1..Len(cs) : Joined(cs)[k] = Joined(cs)[k - 1] \o cs[k]
      BY <2>2, JoinedSteps
    <2>4. QED
      BY <2>1, <2>2, <2>3 DEF cs
  <1> HIDE DEF A, B
  <1>3. 0 \in U
    BY <1>1, <1>2
  <1>4. \A k \in 0..(n - 1) : k \in U => k + 1 \in U
    <2> SUFFICES ASSUME NEW k \in 0..(n - 1), k \in U PROVE k + 1 \in U
      OBVIOUS
    <2>1. k + 1 \in 1..n /\ (k + 1) - 1 = k /\ k + 1 \in 1..(n + 1)
      BY <1>1
    <2>2. A[k + 1] = A[k] \o bs[k + 1] /\ B[k + 1] = B[k] \o Append(bs, b)[k + 1]
      BY <1>2, <2>1
    <2>3. Append(bs, b)[k + 1] = bs[k + 1] /\ B[k] = A[k]
      BY <1>1, <2>1
    <2>4. B[k + 1] = A[k + 1]
      BY <2>2, <2>3
    <2>5. QED
      BY <2>1, <2>4
  <1>5. 0..n \subseteq U
    <2> HIDE DEF U
    <2>1. QED
      BY <1>1, <1>3, <1>4, InductionOverSet
  <1>6. B[n] = A[n]
    BY <1>1, <1>5
  <1>7. n + 1 \in 1..(n + 1) /\ (n + 1) - 1 = n
    BY <1>1
  <1>8. B[n + 1] = B[n] \o b
    BY <1>1, <1>2, <1>7
  <1>9. QED
    BY <1>1, <1>6, <1>8 DEF A, B, AllOf

\* Nothing added is nothing changed.
LEMMA AppendEmpties ==
    ASSUME NEW s \in Seq(Messages)
    PROVE  <<>> \o s = s /\ s \o <<>> = s
  OBVIOUS

\* Concatenation is associative.
LEMMA AppendThree ==
    ASSUME NEW s \in Seq(Messages), NEW t \in Seq(Messages), NEW u \in Seq(Messages)
    PROVE  (s \o t) \o u = s \o (t \o u)
  OBVIOUS

\* The first batch comes first.
LEMMA AllOfTail ==
    ASSUME NEW bs \in Seq(Seq(Messages)), bs # <<>>
    PROVE  AllOf(bs) = Head(bs) \o AllOf(Tail(bs))
  <1> DEFINE n == Len(Tail(bs))
             h == Head(bs)
             A == Joined(Tail(bs))
             B == Joined(bs)
             Rest(k) == h \o A[k]
             U == {k \in 0..n : B[k + 1] = Rest(k)}
  <1>1. /\ n \in Nat /\ Tail(bs) \in Seq(Seq(Messages)) /\ Len(bs) = n + 1
        /\ h \in Seq(Messages) /\ h = bs[1]
        /\ \A k \in 1..n : Tail(bs)[k] = bs[k + 1] /\ bs[k + 1] \in Seq(Messages)
    OBVIOUS
  <1>2. /\ A[0] = <<>> /\ \A k \in 1..n : A[k] = A[k - 1] \o Tail(bs)[k]
        /\ \A k \in 0..n : A[k] \in Seq(Messages)
        /\ B[0] = <<>> /\ \A k \in 1..(n + 1) : B[k] = B[k - 1] \o bs[k]
    <2>1. B[0] = <<>> /\ \A k \in 1..Len(bs) : B[k] = B[k - 1] \o bs[k]
      BY JoinedSteps
    <2> DEFINE cs == Tail(bs)
    <2>2. cs \in Seq(Seq(Messages)) /\ Len(cs) = n
      BY <1>1
    <2> HIDE DEF cs
    <2>3. /\ Joined(cs)[0] = <<>> /\ \A k \in 1..Len(cs) : Joined(cs)[k] = Joined(cs)[k - 1] \o cs[k]
          /\ \A k \in 0..Len(cs) : Joined(cs)[k] \in Seq(Messages)
      BY <2>2, JoinedSteps
    <2>4. QED
      BY <1>1, <2>1, <2>2, <2>3 DEF cs
  <1> HIDE DEF A, B, h
  <1>3. 0 \in U
    <2>1. 1 \in 1..(n + 1) /\ 1 - 1 = 0 /\ 0 \in 0..n /\ 0 + 1 = 1
      BY <1>1
    <2>2. B[1] = B[0] \o bs[1]
      BY <1>2, <2>1
    <2>3. B[1] = h /\ h \o A[0] = h
      BY <1>1, <1>2, <2>2, AppendEmpties
    <2>4. QED
      BY <2>1, <2>3
  <1>4. \A k \in 0..(n - 1) : k \in U => k + 1 \in U
    <2> SUFFICES ASSUME NEW k \in 0..(n - 1), k \in U PROVE k + 1 \in U
      OBVIOUS
    <2>1. /\ k \in 0..n /\ k + 1 \in 1..n /\ (k + 1) - 1 = k
          /\ (k + 1) + 1 \in 1..(n + 1) /\ ((k + 1) + 1) - 1 = k + 1
      BY <1>1
    <2> DEFINE x == bs[(k + 1) + 1]
    <2>2. A[k + 1] = A[k] \o x /\ x \in Seq(Messages)
      <3>1. A[k + 1] = A[k] \o Tail(bs)[k + 1]
        BY <1>2, <2>1
      <3>2. Tail(bs)[k + 1] = x /\ x \in Seq(Messages)
        BY <1>1, <2>1
      <3>3. QED
        BY <3>1, <3>2
    <2>3. B[(k + 1) + 1] = B[k + 1] \o x
      BY <1>2, <2>1
    <2>4. B[k + 1] = h \o A[k] /\ A[k] \in Seq(Messages)
      BY <1>2, <2>1
    <2> HIDE DEF x
    <2>5. (h \o A[k]) \o x = h \o (A[k] \o x)
      BY <1>1, <2>2, <2>4, AppendThree
    <2>6. B[(k + 1) + 1] = Rest(k + 1)
      BY <2>2, <2>3, <2>4, <2>5
    <2> HIDE DEF Rest
    <2>7. QED
      BY <1>1, <2>1, <2>6
  <1>5. 0..n \subseteq U
    <2> HIDE DEF U
    <2>1. QED
      BY <1>1, <1>3, <1>4, InductionOverSet
  <1>6. B[n + 1] = h \o A[n]
    <2>1. B[n + 1] = Rest(n)
      <3> HIDE DEF Rest
      <3>1. QED
        BY <1>1, <1>5
    <2>2. QED
      BY <2>1
  <1>7. QED
    BY <1>1, <1>6 DEF A, B, h, AllOf

\* What c will show when it has got all that is coming.
Will(c) == Shows(view[c], Coming(c))

\* The types of what is kept for one client.
LEMMA TrafficOf ==
    ASSUME TInv, NEW c \in Clients
    PROVE  /\ view[c] \in Views /\ toServer[c] \in Seq(Packets)
           /\ toClient[c] \in Seq(Seq(Messages)) /\ out[c] \in Seq(Messages)
           /\ inv[c] \in Players
  BY DEF TInv, TrafficOK, TypeOK

\* The types of what is coming.
LEMMA ComingIn ==
    ASSUME TInv, NEW c \in Clients
    PROVE  Coming(c) \in Seq(Messages) /\ Will(c) \in Views
  <1>1. toClient[c] \in Seq(Seq(Messages)) /\ out[c] \in Seq(Messages) /\ view[c] \in Views
    BY TrafficOf
  <1>2. AllOf(toClient[c]) \in Seq(Messages)
    BY <1>1, AllOfIn
  <1>3. Coming(c) \in Seq(Messages)
    <2> DEFINE a == AllOf(toClient[c])
               b == out[c]
    <2>1. a \in Seq(Messages) /\ b \in Seq(Messages)
      BY <1>1, <1>2
    <2> HIDE DEF a, b
    <2>2. a \o b \in Seq(Messages)
      BY <2>1
    <2>3. QED
      BY <2>2 DEF a, b, Coming
  <1>4. QED
    BY <1>1, <1>3, ShowsIn DEF Will

\* Only flushing, writing and receiving change what is coming.
LEMMA ComingSame ==
    ASSUME NEW c \in Clients, toClient'[c] = toClient[c], out'[c] = out[c]
    PROVE  Coming(c)' = Coming(c)
  BY DEF Coming

\* What is written comes last.
LEMMA ComingWritten ==
    ASSUME TInv, NEW c \in Clients, NEW msgs \in Seq(Messages), Write(c, msgs), UNCHANGED toClient
    PROVE  /\ Coming(c)' = Coming(c) \o msgs
           /\ \A d \in Clients \ {c} : Coming(d)' = Coming(d)
  <1>1. /\ out \in [Clients -> Seq(Messages)] /\ toClient[c] \in Seq(Seq(Messages))
        /\ out' = [out EXCEPT ![c] = out[c] \o msgs]
    BY DEF TInv, TrafficOK, Write
  <1>2. AllOf(toClient[c]) \in Seq(Messages) /\ out[c] \in Seq(Messages)
    BY <1>1, AllOfIn
  <1>3. out'[c] = out[c] \o msgs /\ \A d \in Clients \ {c} : out'[d] = out[d]
    BY <1>1
  <1>4. Coming(c)' = AllOf(toClient[c]) \o (out[c] \o msgs)
    BY <1>3 DEF Coming
  <1>5. Coming(c)' = Coming(c) \o msgs
    BY <1>2, <1>4, AppendThree DEF Coming
  <1>6. QED
    BY <1>3, <1>5 DEF Coming

\* What the client handles has been coming, so what it will show is the same.
LEMMA ComingReceived ==
    ASSUME TInv, NEW c \in Clients, ClientReceives(c)
    PROVE  /\ \E h \in Seq(Messages) :
                 /\ Coming(c) = h \o Coming(c)'
                 /\ view'[c] = Shows(view[c], h)
                 /\ Will(c)' = Will(c)
           /\ Coming(c)' \in Seq(Messages) /\ view'[c] \in Views
           /\ \A d \in Clients \ {c} : Coming(d)' = Coming(d) /\ view'[d] = view[d]
  <1> DEFINE h == Head(toClient[c])
             w == Shows(view[c], h)
  <1>1. /\ toClient[c] # <<>>
        /\ view' = [view EXCEPT ![c] = w]
        /\ toClient' = [toClient EXCEPT ![c] = Tail(toClient[c])]
        /\ UNCHANGED out
    BY DEF ClientReceives, Shows
  <1>2. /\ view \in [Clients -> Views] /\ toClient \in [Clients -> Seq(Seq(Messages))]
        /\ toClient[c] \in Seq(Seq(Messages)) /\ out[c] \in Seq(Messages)
    BY TrafficOf DEF TInv, TrafficOK
  <1>3. h \in Seq(Messages) /\ Tail(toClient[c]) \in Seq(Seq(Messages))
    BY <1>1, <1>2
  <1> HIDE DEF h
  <1>4. w \in Views
    BY <1>2, <1>3, ShowsIn
  <1> HIDE DEF w
  <1>5. /\ view'[c] = w /\ toClient'[c] = Tail(toClient[c])
        /\ \A d \in Clients \ {c} : toClient'[d] = toClient[d] /\ view'[d] = view[d]
    BY <1>1, <1>2, <1>4
  <1>6. Coming(c)' = AllOf(Tail(toClient[c])) \o out[c]
    BY <1>1, <1>5 DEF Coming
  <1>7. AllOf(toClient[c]) = h \o AllOf(Tail(toClient[c])) /\ AllOf(Tail(toClient[c])) \in Seq(Messages)
    BY <1>1, <1>2, <1>3, AllOfTail, AllOfIn DEF h
  <1>8. Coming(c) = h \o Coming(c)'
    <2> DEFINE x == AllOf(Tail(toClient[c]))
               y == out[c]
    <2>1. x \in Seq(Messages) /\ y \in Seq(Messages)
      BY <1>2, <1>7
    <2>2. Coming(c) = (h \o x) \o y /\ Coming(c)' = x \o y
      BY <1>6, <1>7 DEF Coming
    <2> HIDE DEF x, y
    <2>3. (h \o x) \o y = h \o (x \o y)
      BY <1>3, <2>1, AppendThree
    <2>4. QED
      BY <2>2, <2>3
  <1>9. Coming(c)' \in Seq(Messages)
    <2> DEFINE a == AllOf(Tail(toClient[c]))
               b == out[c]
    <2>1. a \in Seq(Messages) /\ b \in Seq(Messages)
      BY <1>2, <1>7
    <2> HIDE DEF a, b
    <2>2. a \o b \in Seq(Messages)
      BY <2>1
    <2>3. QED
      BY <1>6, <2>2 DEF a, b
  <1>10. Will(c)' = Will(c)
    <2> DEFINE t == Coming(c)'
    <2>1. Will(c) = Shows(view[c], h \o t)
      BY <1>8 DEF Will
    <2>2. Will(c)' = Shows(w, t)
      BY <1>5 DEF Will
    <2>3. t \in Seq(Messages)
      BY <1>9
    <2> HIDE DEF t
    <2>4. Shows(view[c], h \o t) = Shows(w, t)
      BY <1>2, <1>3, <2>3, ShowsConcat DEF w
    <2>5. QED
      BY <2>1, <2>2, <2>4
  <1>11. \A d \in Clients \ {c} : Coming(d)' = Coming(d)
    BY <1>1, <1>5 DEF Coming
  <1>12. w = Shows(view[c], h)
    BY DEF w
  <1>13. QED
    BY <1>3, <1>4, <1>5, <1>8, <1>9, <1>10, <1>11, <1>12

\* The flush at the end of the tick only moves what is coming.
LEMMA ComingFinished ==
    ASSUME TInv, NEW c \in Clients, NEW s, NEW b, NEW msgs \in Seq(Messages), Comes(c), Finish(c, s, b, msgs)
    PROVE  /\ Coming(c)' = ((Coming(c) \o ClosedMessage(c)) \o msgs) \o CursorMessage(c)
           /\ \A d \in Clients \ {c} : Coming(d)' = Coming(d)
           /\ phase' = "idle" => \A d \in Clients : out'[d] = <<>>
  <1> DEFINE closed == ClosedMessage(c)
             cursor == CursorMessage(c)
             now == ((out[c] \o closed) \o msgs) \o cursor
             written == [out EXCEPT ![c] = now]
             last == todo = {c}
  <1>1. /\ out' = IF last THEN [d \in Clients |-> <<>>] ELSE written
        /\ toClient' = IF last THEN [d \in Clients |->
                IF written[d] = <<>> THEN toClient[d] ELSE Append(toClient[d], written[d])] ELSE toClient
    BY DEF Finish
  <1>2. /\ out \in [Clients -> Seq(Messages)] /\ toClient \in [Clients -> Seq(Seq(Messages))]
        /\ inv[c].cursor \in Stacks
    BY TrafficOf DEF TInv, TrafficOK, Players
  <1>3. closed \in Seq(Messages) /\ cursor \in Seq(Messages)
    BY MessagesOfTheTick
  <1> HIDE DEF closed, cursor
  <1>4. now \in Seq(Messages)
    <2> DEFINE x == out[c]
    <2>1. x \in Seq(Messages)
      BY <1>2
    <2> HIDE DEF x
    <2>2. ((x \o closed) \o msgs) \o cursor \in Seq(Messages)
      BY <1>3, <2>1
    <2>3. QED
      BY <2>2 DEF x
  <1> HIDE DEF now
  <1>5. written \in [Clients -> Seq(Messages)] /\ written[c] = now /\ \A d \in Clients \ {c} : written[d] = out[d]
    BY <1>2, <1>4
  <1> HIDE DEF written
  <1>6. \A d \in Clients : AllOf(toClient[d]) \in Seq(Messages) /\ toClient[d] \in Seq(Seq(Messages))
    BY <1>2, AllOfIn
  <1>7. \A d \in Clients : Coming(d)' = AllOf(toClient[d]) \o written[d]
    <2> SUFFICES ASSUME NEW d \in Clients PROVE Coming(d)' = AllOf(toClient[d]) \o written[d]
      OBVIOUS
    <2>1. written[d] \in Seq(Messages)
      BY <1>5
    <2>2. CASE ~last
      BY <1>1, <2>2 DEF Coming
    <2>3. CASE last /\ written[d] = <<>>
      <3>1. out'[d] = <<>> /\ toClient'[d] = toClient[d]
        BY <1>1, <2>3
      <3>2. QED
        BY <2>3, <3>1 DEF Coming
    <2>4. CASE last /\ written[d] # <<>>
      <3>1. out'[d] = <<>> /\ toClient'[d] = Append(toClient[d], written[d])
        BY <1>1, <2>4
      <3>2. AllOf(toClient'[d]) = AllOf(toClient[d]) \o written[d]
        BY <1>6, <2>1, <3>1, AllOfAppended
      <3>3. Coming(d)' = (AllOf(toClient[d]) \o written[d]) \o <<>>
        BY <3>1, <3>2 DEF Coming
      <3> DEFINE x == AllOf(toClient[d])
                 y == written[d]
      <3>4. x \in Seq(Messages) /\ y \in Seq(Messages)
        BY <1>6, <2>1
      <3> HIDE DEF x, y
      <3>5. (x \o y) \o <<>> = x \o y
        BY <3>4
      <3>6. QED
        BY <3>3, <3>5 DEF x, y
    <2>5. QED
      BY <2>2, <2>3, <2>4
  <1>8. \A d \in Clients \ {c} : Coming(d)' = Coming(d)
    BY <1>5, <1>7 DEF Coming
  <1>9. Coming(c)' = ((Coming(c) \o closed) \o msgs) \o cursor
    <2> DEFINE x == AllOf(toClient[c])
               y == out[c]
    <2>1. x \in Seq(Messages) /\ y \in Seq(Messages)
      BY <1>2, <1>6
    <2>2. Coming(c)' = x \o (((y \o closed) \o msgs) \o cursor)
      BY <1>5, <1>7 DEF now
    <2>3. Coming(c) = x \o y
      BY DEF Coming
    <2> HIDE DEF x, y
    <2>4. /\ (x \o y) \o closed = x \o (y \o closed)
          /\ y \o closed \in Seq(Messages) /\ (y \o closed) \o msgs \in Seq(Messages)
      BY <1>3, <2>1
    <2>5. (x \o (y \o closed)) \o msgs = x \o ((y \o closed) \o msgs)
      BY <2>1, <2>4, AppendThree
    <2>6. (x \o ((y \o closed) \o msgs)) \o cursor = x \o (((y \o closed) \o msgs) \o cursor)
      <3> DEFINE z == (y \o closed) \o msgs
      <3>1. z \in Seq(Messages)
        BY <2>4
      <3> HIDE DEF z
      <3>2. (x \o z) \o cursor = x \o (z \o cursor)
        BY <1>3, <2>1, <3>1, AppendThree
      <3>3. QED
        BY <3>2 DEF z
    <2>7. (Coming(c) \o closed) \o msgs = x \o ((y \o closed) \o msgs)
      BY <2>3, <2>4, <2>5
    <2>8. QED
      BY <2>2, <2>6, <2>7
  <1>10. phase' = "idle" => \A d \in Clients : out'[d] = <<>>
    <2>1. phase = "post" /\ phase' = IF last THEN "idle" ELSE phase
      BY DEF Comes, Finish
    <2>2. QED
      BY <1>1, <2>1
  <1>11. QED
    BY <1>8, <1>9, <1>10 DEF closed, cursor

-----------------------------------------------------------------------------
(***************************************************************************)
(* A client that has never had a window open: what holds of its record, of *)
(* what it shows and of the packets both ways.  Its clicks come one at a   *)
(* time and last, after drops; of slots that are not marked the client     *)
(* shows what the server will have when it has come to them, or else the   *)
(* contents will be sent again.                                            *)
(***************************************************************************)

-----------------------------------------------------------------------------
(***************************************************************************)
(* What the parts of this say, one message or packet more or less.         *)
(***************************************************************************)
\* Queues with one packet more at the end, and one less in front.
\* Packet p behind queue q, and a queue without its first.
Sent(q, p, r) == r = Append(q, p)
Taken(q, r) == r = Tail(q)

\* A queue with one packet more.
LEMMA QueueSent ==
    ASSUME NEW q \in Seq(Packets), NEW p \in Packets, NEW r \in Seq(Packets), Sent(q, p, r)
    PROVE  /\ r \in Seq(Packets) /\ Len(q) \in Nat /\ Len(r) = Len(q) + 1 /\ r # <<>>
           /\ DOMAIN q = 1..Len(q) /\ DOMAIN r = 1..(Len(q) + 1)
           /\ r[Len(q) + 1] = p /\ \A k \in 1..Len(q) : r[k] = q[k]
           /\ TypesIn(r) = TypesIn(q) \cup {p.type}
  <1>1. /\ r \in Seq(Packets) /\ Len(q) \in Nat /\ Len(r) = Len(q) + 1 /\ r # <<>>
        /\ DOMAIN q = 1..Len(q) /\ DOMAIN r = 1..(Len(q) + 1)
        /\ r[Len(q) + 1] = p /\ \A k \in 1..Len(q) : r[k] = q[k]
    BY DEF Sent
  <1>2. \A k \in 1..(Len(q) + 1) : k \in 1..Len(q) \/ k = Len(q) + 1
    BY <1>1
  <1>3. Len(q) + 1 \in 1..(Len(q) + 1) /\ 1..Len(q) \subseteq 1..(Len(q) + 1)
    BY <1>1
  <1>4. TypesIn(r) = TypesIn(q) \cup {p.type}
    BY <1>1, <1>2, <1>3 DEF TypesIn
  <1>5. QED
    BY <1>1, <1>4

\* A queue without its head.
LEMMA QueueTaken ==
    ASSUME NEW q \in Seq(Packets), q # <<>>, NEW r \in Seq(Packets), Taken(q, r)
    PROVE  /\ r \in Seq(Packets) /\ Len(q) \in Nat /\ Len(q) >= 1 /\ Len(r) = Len(q) - 1
           /\ DOMAIN q = 1..Len(q) /\ DOMAIN r = 1..(Len(q) - 1)
           /\ q[1] = Head(q) /\ 1 \in DOMAIN q
           /\ \A k \in DOMAIN r : k + 1 \in DOMAIN q /\ r[k] = q[k + 1]
           /\ \A k \in DOMAIN q : k = 1 \/ (k - 1 \in DOMAIN r /\ r[k - 1] = q[k])
           /\ TypesIn(q) = TypesIn(r) \cup {Head(q).type}
  <1>1. /\ r \in Seq(Packets) /\ Len(q) \in Nat /\ Len(q) >= 1 /\ Len(r) = Len(q) - 1
        /\ DOMAIN q = 1..Len(q) /\ DOMAIN r = 1..(Len(q) - 1)
        /\ q[1] = Head(q)
        /\ \A k \in 1..(Len(q) - 1) : r[k] = q[k + 1]
    BY DEF Taken
  <1>2. 1 \in DOMAIN q /\ \A k \in DOMAIN r : k + 1 \in DOMAIN q /\ r[k] = q[k + 1]
    BY <1>1
  <1>3. \A k \in DOMAIN q : k = 1 \/ (k - 1 \in DOMAIN r /\ r[k - 1] = q[k])
    <2> SUFFICES ASSUME NEW k \in DOMAIN q, k # 1 PROVE k - 1 \in DOMAIN r /\ r[k - 1] = q[k]
      OBVIOUS
    <2>1. k - 1 \in 1..(Len(q) - 1) /\ (k - 1) + 1 = k
      BY <1>1
    <2>2. QED
      BY <1>1, <2>1
  <1>4. TypesIn(q) = TypesIn(r) \cup {Head(q).type}
    <2>1. \A k \in DOMAIN q : q[k].type \in TypesIn(r) \cup {Head(q).type}
      BY <1>1, <1>3 DEF TypesIn
    <2>2. \A k \in DOMAIN r : r[k].type \in TypesIn(q)
      BY <1>2 DEF TypesIn
    <2>3. Head(q).type \in TypesIn(q)
      BY <1>1, <1>2 DEF TypesIn
    <2>4. QED
      BY <2>1, <2>2, <2>3 DEF TypesIn
  <1>5. QED
    BY <1>1, <1>2, <1>3, <1>4

-----------------------------------------------------------------------------
\* Packets for a client without a window.
OwnMessage(m) == m.type # "screen" /\ (Sided(m) => m.win = 0)

\* A message about window 0, shown.
LEMMA ShownOwn ==
    ASSUME NEW v \in Views, v.win = 0, NEW m \in Messages, OwnMessage(m)
    PROVE  LET w == Shown(v, m)
           IN  /\ w \in Views /\ w.win = 0
               /\ w.ownSid = IF Sided(m) THEN m.sid ELSE v.ownSid
               /\ w.own = IF m.type = "content" THEN m.slots
                          ELSE IF m.type = "slots" THEN Updated(v.own, m.stacks) ELSE v.own
               /\ w.cursor = IF m.type = "content" THEN m.carried
                             ELSE IF m.type = "cursor" THEN m.stack ELSE v.cursor
  <1> DEFINE w == Shown(v, m)
  <1>1. w \in Views
    BY ShownIn
  <1>2. /\ m.type \in {"content", "slots", "cursor", "close"}
        /\ m.type \in {"content", "slots"} => m.win = 0
    BY DEF OwnMessage, Sided, Messages, Contents
  <1>3. CASE m.type = "content"
    <2>1. w = [v EXCEPT !.own = m.slots, !.ownSid = m.sid, !.cursor = m.carried]
      BY <1>2, <1>3 DEF Shown
    <2>2. QED
      BY <1>1, <1>3, <2>1 DEF Sided, Views
  <1>4. CASE m.type = "slots"
    <2>1. w = [v EXCEPT !.own = Updated(v.own, m.stacks), !.ownSid = m.sid]
      BY <1>2, <1>4 DEF Shown
    <2>2. QED
      BY <1>1, <1>4, <2>1 DEF Sided, Views
  <1>5. CASE m.type = "cursor"
    <2>1. w = [v EXCEPT !.cursor = m.stack]
      BY <1>5 DEF Shown
    <2>2. QED
      BY <1>1, <1>5, <2>1 DEF Sided, Views
  <1>6. CASE m.type = "close"
    <2>1. w = [v EXCEPT !.win = 0]
      BY <1>6 DEF Shown
    <2>2. QED
      BY <1>1, <1>6, <2>1 DEF Sided, Views
  <1>7. QED
    BY <1>2, <1>3, <1>4, <1>5, <1>6

\* A slot after the update of some.
LEMMA UpdatedAt ==
    ASSUME NEW own \in [OwnSlots -> Stacks], NEW f, NEW j \in OwnSlots
    PROVE  Updated(own, f)[j] = IF j \in DOMAIN f THEN f[j] ELSE own[j]
  BY DEF Updated

\* Two views that get the same news of slots and none of contents.
LEMMA ShowsSlots ==
    ASSUME NEW v \in Views, v.win = 0, NEW w \in Views, w.win = 0, NEW msgs \in Seq(Messages),
           \A k \in DOMAIN msgs : OwnMessage(msgs[k]) /\ msgs[k].type \notin {"content", "cursor"}
    PROVE  LET x == Shows(v, msgs)
               y == Shows(w, msgs)
           IN  /\ x \in Views /\ y \in Views
               /\ x.cursor = v.cursor /\ y.cursor = w.cursor
               /\ \A j \in OwnSlots :
                     \/ x.own[j] = y.own[j]
                     \/ x.own[j] = v.own[j] /\ y.own[j] = w.own[j]
               /\ \A j \in OwnSlots :
                     (\A k \in DOMAIN msgs : msgs[k].type = "slots" => j \notin DOMAIN msgs[k].stacks) =>
                         x.own[j] = v.own[j] /\ y.own[j] = w.own[j]
  <1> DEFINE Silent == {j \in OwnSlots : \A k \in DOMAIN msgs :
                            msgs[k].type = "slots" => j \notin DOMAIN msgs[k].stacks}
             Pair(a, b) == /\ a \in Views /\ b \in Views /\ a.win = 0 /\ b.win = 0
                           /\ a.cursor = v.cursor /\ b.cursor = w.cursor
                           /\ \A j \in OwnSlots : \/ a.own[j] = b.own[j]
                                                  \/ a.own[j] = v.own[j] /\ b.own[j] = w.own[j]
                           /\ \A j \in Silent : a.own[j] = v.own[j] /\ b.own[j] = w.own[j]
             P == {x \in Views \X Views : Pair(x[1], x[2])}
  <1>1. \A a, b \in Views : <<a, b>> \in P <=> Pair(a, b)
    OBVIOUS
  <1>2. <<v, w>> \in P
    <2>1. Pair(v, w)
      OBVIOUS
    <2> HIDE DEF P, Pair
    <2>2. QED
      BY <1>1, <2>1
  <1>3. ASSUME NEW a \in Views, NEW b \in Views, NEW k \in DOMAIN msgs, <<a, b>> \in P
        PROVE  <<Shown(a, msgs[k]), Shown(b, msgs[k])>> \in P
    <2> DEFINE m == msgs[k]
               c == Shown(a, m)
               d == Shown(b, m)
    <2>1. Pair(a, b)
      <3> HIDE DEF P, Pair
      <3>1. QED
        BY <1>1, <1>3
    <2>2. m \in Messages /\ OwnMessage(m) /\ m.type \notin {"content", "cursor"}
      OBVIOUS
    <2>3. /\ c \in Views /\ c.win = 0 /\ c.cursor = a.cursor
          /\ c.own = IF m.type = "slots" THEN Updated(a.own, m.stacks) ELSE a.own
      BY <2>1, <2>2, ShownOwn
    <2>4. /\ d \in Views /\ d.win = 0 /\ d.cursor = b.cursor
          /\ d.own = IF m.type = "slots" THEN Updated(b.own, m.stacks) ELSE b.own
      BY <2>1, <2>2, ShownOwn
    <2>5. a.own \in [OwnSlots -> Stacks] /\ b.own \in [OwnSlots -> Stacks]
      BY DEF Views
    <2>6. \A j \in Silent : m.type = "slots" => j \notin DOMAIN m.stacks
      OBVIOUS
    <2> HIDE DEF c, d, m, Silent
    <2>7. Pair(c, d)
      <3>1. CASE m.type = "slots"
        <4>1. \A j \in OwnSlots :
                  /\ c.own[j] = IF j \in DOMAIN m.stacks THEN m.stacks[j] ELSE a.own[j]
                  /\ d.own[j] = IF j \in DOMAIN m.stacks THEN m.stacks[j] ELSE b.own[j]
          BY <2>3, <2>4, <2>5, <3>1, UpdatedAt
        <4>2. Silent \subseteq OwnSlots
          BY DEF Silent
        <4>3. \A j \in Silent : c.own[j] = v.own[j] /\ d.own[j] = w.own[j]
          BY <2>1, <2>6, <3>1, <4>1, <4>2
        <4>4. \A j \in OwnSlots : \/ c.own[j] = d.own[j]
                                  \/ c.own[j] = v.own[j] /\ d.own[j] = w.own[j]
          BY <2>1, <4>1
        <4>5. QED
          BY <2>1, <2>3, <2>4, <4>3, <4>4
      <3>2. CASE m.type # "slots"
        BY <2>1, <2>3, <2>4, <3>2
      <3>3. QED
        BY <3>1, <3>2
    <2> HIDE DEF P, Pair
    <2>8. <<c, d>> \in P
      BY <1>1, <2>3, <2>4, <2>7
    <2>9. QED
      BY <2>8 DEF c, d, m
  <1> HIDE DEF P
  <1>4. <<Shows(v, msgs), Shows(w, msgs)>> \in P
    BY <1>2, <1>3, ShowsPairs
  <1> DEFINE x == Shows(v, msgs)
             y == Shows(w, msgs)
  <1>5. x \in Views /\ y \in Views
    BY ShowsIn
  <1>6. Pair(x, y)
    <2> HIDE DEF Pair, x, y
    <2>1. <<x, y>> \in P
      BY <1>4 DEF x, y
    <2>2. QED
      BY <1>1, <1>5, <2>1
  <1> HIDE DEF x, y
  <1>7. QED
    BY <1>5, <1>6 DEF x, y

\* What a client without a window shows after some messages: no window, and a
\* state id that came with one of them.
LEMMA ShowsOwn ==
    ASSUME NEW v \in Views, v.win = 0, NEW msgs \in Seq(Messages),
           \A k \in DOMAIN msgs : OwnMessage(msgs[k])
    PROVE  LET w == Shows(v, msgs)
           IN  /\ w \in Views /\ w.win = 0
               /\ \/ w.ownSid = v.ownSid
                  \/ \E k \in DOMAIN msgs : Sided(msgs[k]) /\ w.ownSid = msgs[k].sid
  <1> DEFINE P == {a \in Views : /\ a.win = 0
                                 /\ \/ a.ownSid = v.ownSid
                                    \/ \E k \in DOMAIN msgs : Sided(msgs[k]) /\ a.ownSid = msgs[k].sid}
  <1>1. v \in P
    OBVIOUS
  <1>2. ASSUME NEW a \in Views, NEW k \in DOMAIN msgs, a \in P
        PROVE  Shown(a, msgs[k]) \in P
    <2>1. msgs[k] \in Messages /\ OwnMessage(msgs[k]) /\ a.win = 0
      BY <1>2
    <2>2. LET b == Shown(a, msgs[k])
          IN  b \in Views /\ b.win = 0 /\ b.ownSid = IF Sided(msgs[k]) THEN msgs[k].sid ELSE a.ownSid
      BY <2>1, ShownOwn
    <2>3. QED
      BY <1>2, <2>2
  <1> HIDE DEF P
  <1>3. Shows(v, msgs) \in P
    BY <1>1, <1>2, ShowsSet
  <1>4. QED
    BY <1>3 DEF P

\* State ids are numbers.
LEMMA SidIn ==
    ASSUME NEW s \in Players
    PROVE  s.sid \in Nat
  BY DEF Players

\* So are those of messages.
LEMMA MessageSid ==
    ASSUME NEW m \in Messages, Sided(m)
    PROVE  m.sid \in Nat
  BY DEF Messages, Contents, Sided

\* All that is coming is about window 0.
LEMMA OwnComingMessages ==
    ASSUME NEW s, NEW v, NEW msgs, OwnComing(s, v, msgs)
    PROVE  \A k \in DOMAIN msgs : OwnMessage(msgs[k])
  BY DEF OwnComing, OwnMessage

\* The rest is still in order when the first messages are shown.
LEMMA OwnComingReceived ==
    ASSUME NEW s \in Players, NEW v \in Views, NEW h \in Seq(Messages), NEW t \in Seq(Messages),
           OwnComing(s, v, h \o t)
    PROVE  /\ OwnComing(s, Shows(v, h), t)
           /\ \A k \in DOMAIN t : \E l \in DOMAIN (h \o t) : t[k] = (h \o t)[l]
  <1> DEFINE msgs == h \o t
             n == Len(h)
             w == Shows(v, h)
  <1>1. /\ n \in Nat /\ Len(t) \in Nat /\ DOMAIN h = 1..n /\ DOMAIN t = 1..Len(t)
        /\ msgs \in Seq(Messages) /\ DOMAIN msgs = 1..(n + Len(t))
        /\ \A k \in 1..n : msgs[k] = h[k]
        /\ \A k \in 1..Len(t) : msgs[n + k] = t[k]
        /\ OwnComing(s, v, msgs)
    OBVIOUS
  <1> HIDE DEF msgs
  <1>2. /\ \A k \in DOMAIN h : k \in DOMAIN msgs /\ msgs[k] = h[k]
        /\ \A k \in DOMAIN t : n + k \in DOMAIN msgs /\ msgs[n + k] = t[k]
    BY <1>1
  <1>3. v.win = 0 /\ \A k \in DOMAIN h : OwnMessage(h[k])
    BY <1>1, <1>2 DEF OwnComing, OwnMessage
  <1>4. /\ w \in Views /\ w.win = 0
        /\ \/ w.ownSid = v.ownSid
           \/ \E k \in DOMAIN h : Sided(h[k]) /\ w.ownSid = h[k].sid
    BY <1>3, ShowsOwn
  <1> HIDE DEF w
  <1>5. w.ownSid <= s.sid
    BY <1>1, <1>2, <1>4 DEF OwnComing
  <1>6. ASSUME NEW k \in DOMAIN t
        PROVE  /\ t[k].type # "screen"
               /\ Sided(t[k]) => t[k].win = 0 /\ w.ownSid <= t[k].sid /\ t[k].sid <= s.sid
               /\ t[k].type = "slots" => w.ownSid < t[k].sid
    <2>1. n + k \in DOMAIN msgs /\ msgs[n + k] = t[k]
      BY <1>2
    <2>2. \A l \in DOMAIN h : l \in DOMAIN msgs /\ msgs[l] = h[l] /\ l < n + k
      BY <1>1, <1>2
    <2>3. t[k].type = "slots" => Sided(t[k])
      BY DEF Sided
    <2>4. CASE w.ownSid = v.ownSid
      BY <1>1, <2>1, <2>4 DEF OwnComing
    <2>5. CASE \E l \in DOMAIN h : Sided(h[l]) /\ w.ownSid = h[l].sid
      <3>1. PICK l \in DOMAIN h : Sided(h[l]) /\ w.ownSid = h[l].sid
        BY <2>5
      <3>2. l \in DOMAIN msgs /\ n + k \in DOMAIN msgs /\ l < n + k /\ msgs[l] = h[l]
        BY <2>1, <2>2
      <3>3. QED
        BY <1>1, <2>1, <2>3, <3>1, <3>2 DEF OwnComing
    <2>6. QED
      BY <1>4, <2>4, <2>5
  <1>7. ASSUME NEW k \in DOMAIN t, NEW l \in DOMAIN t, k < l, Sided(t[k]), Sided(t[l])
        PROVE  t[k].sid <= t[l].sid /\ (t[l].type = "slots" => t[k].sid < t[l].sid)
    <2>1. /\ n + k \in DOMAIN msgs /\ msgs[n + k] = t[k]
          /\ n + l \in DOMAIN msgs /\ msgs[n + l] = t[l]
      BY <1>2
    <2>2. n + k < n + l
      BY <1>1, <1>7
    <2>3. QED
      BY <1>1, <1>7, <2>1, <2>2 DEF OwnComing
  <1>8. OwnComing(s, w, t)
    BY <1>4, <1>5, <1>6, <1>7 DEF OwnComing
  <1>9. QED
    BY <1>2, <1>8 DEF w, msgs

\* A sequence with one message more.
LEMMA Appended ==
    ASSUME NEW msgs \in Seq(Messages), NEW m \in Messages, NEW more, more = msgs \o <<m>>
    PROVE  /\ more \in Seq(Messages) /\ Len(msgs) \in Nat
           /\ DOMAIN msgs = 1..Len(msgs) /\ DOMAIN more = 1..(Len(msgs) + 1)
           /\ more[Len(msgs) + 1] = m /\ \A k \in 1..Len(msgs) : more[k] = msgs[k]
           /\ \A k \in DOMAIN more : k = Len(msgs) + 1 \/ (k \in DOMAIN msgs /\ k < Len(msgs) + 1)
  <1>1. /\ more \in Seq(Messages) /\ Len(msgs) \in Nat
        /\ DOMAIN msgs = 1..Len(msgs) /\ DOMAIN more = 1..(Len(msgs) + 1)
        /\ more[Len(msgs) + 1] = m /\ \A k \in 1..Len(msgs) : more[k] = msgs[k]
    OBVIOUS
  <1>2. QED
    BY <1>1

\* A message with the newest state id comes in order.
LEMMA OwnComingAppended ==
    ASSUME NEW s \in Players, NEW v \in Views, NEW msgs \in Seq(Messages), OwnComing(s, v, msgs),
           NEW r \in Players, s.sid <= r.sid, NEW m \in Messages, OwnMessage(m),
           Sided(m) => m.sid = r.sid, m.type = "slots" => s.sid < r.sid
    PROVE  OwnComing(r, v, msgs \o <<m>>)
  <1> DEFINE more == msgs \o <<m>>
             n == Len(msgs)
  <1>1. /\ more \in Seq(Messages) /\ n \in Nat
        /\ DOMAIN msgs = 1..n /\ DOMAIN more = 1..(n + 1)
        /\ more[n + 1] = m /\ \A k \in 1..n : more[k] = msgs[k]
        /\ \A k \in DOMAIN more : k = n + 1 \/ (k \in DOMAIN msgs /\ k < n + 1)
    BY Appended
  <1> HIDE DEF more, n
  <1>2. s.sid \in Nat /\ r.sid \in Nat /\ v.ownSid \in Nat
    BY SidIn DEF Views
  <1>3. \A k \in DOMAIN msgs : Sided(msgs[k]) => msgs[k].sid \in Nat
    BY MessageSid
  <1>4. v.ownSid <= r.sid
    BY <1>2 DEF OwnComing
  <1>5. ASSUME NEW k \in DOMAIN more
        PROVE  /\ more[k].type # "screen"
               /\ Sided(more[k]) => more[k].win = 0 /\ v.ownSid <= more[k].sid /\ more[k].sid <= r.sid
               /\ more[k].type = "slots" => v.ownSid < more[k].sid
    <2>1. CASE k = n + 1
      <3>1. more[k] = m /\ v.ownSid <= s.sid
        BY <1>1, <2>1 DEF OwnComing
      <3>2. m.type = "slots" => Sided(m)
        BY DEF Sided
      <3>3. QED
        BY <1>2, <1>4, <3>1, <3>2 DEF OwnMessage
    <2>2. CASE k \in DOMAIN msgs
      <3>1. more[k] = msgs[k]
        BY <1>1, <2>2
      <3>2. QED
        BY <1>2, <1>3, <2>2, <3>1 DEF OwnComing
    <2>3. QED
      BY <1>1, <2>1, <2>2
  <1>6. ASSUME NEW k \in DOMAIN more, NEW l \in DOMAIN more, k < l, Sided(more[k]), Sided(more[l])
        PROVE  more[k].sid <= more[l].sid /\ (more[l].type = "slots" => more[k].sid < more[l].sid)
    <2>1. k \in DOMAIN msgs /\ more[k] = msgs[k]
      BY <1>1, <1>6
    <2>2. CASE l = n + 1
      <3>1. more[l] = m /\ msgs[k].sid <= s.sid
        BY <1>1, <1>6, <2>1, <2>2 DEF OwnComing
      <3>2. m.sid = r.sid
        BY <1>6, <3>1
      <3>3. QED
        BY <1>2, <1>3, <1>6, <2>1, <3>1, <3>2
    <2>3. CASE l \in DOMAIN msgs
      <3>1. more[l] = msgs[l]
        BY <1>1, <2>3
      <3>2. QED
        BY <1>6, <2>1, <2>3, <3>1 DEF OwnComing
    <2>4. QED
      BY <1>1, <2>2, <2>3
  <1>7. v.win = 0
    BY DEF OwnComing
  <1>8. OwnComing(r, v, more)
    BY <1>4, <1>5, <1>6, <1>7 DEF OwnComing
  <1>9. QED
    BY <1>8 DEF more

\* Only window and state ids matter to the order.
LEMMA OwnComingSame ==
    ASSUME NEW s \in Players, NEW r \in Players, r.sid = s.sid, NEW v, NEW w,
           w.win = v.win, w.ownSid = v.ownSid, NEW msgs, OwnComing(s, v, msgs)
    PROVE  OwnComing(r, w, msgs)
  BY DEF OwnComing

-----------------------------------------------------------------------------
\* Receiving does not change what will be shown.
LEMMA OwnReceived ==
    ASSUME NEW s \in Players, NEW q, NEW v \in Views, NEW h \in Seq(Messages), NEW t \in Seq(Messages),
           NEW frozen, NEW since, NEW stuck, OwnIn(s, q, v, h \o t, frozen, since, stuck)
    PROVE  OwnIn(s, q, Shows(v, h), t, frozen, since, stuck)
  <1> DEFINE msgs == h \o t
  <1>1. OwnComing(s, v, msgs) /\ OwnDrops(s, q, msgs, frozen) /\ OwnShown(s, q, Shows(v, msgs), frozen)
    BY DEF OwnIn
  <1>2. Shows(v, msgs) = Shows(Shows(v, h), t)
    BY ShowsConcat
  <1>4. /\ OwnComing(s, Shows(v, h), t)
        /\ \A k \in DOMAIN t : \E l \in DOMAIN msgs : t[k] = msgs[l]
    BY <1>1, OwnComingReceived
  <1> HIDE DEF msgs
  <1>5. OwnDrops(s, q, t, frozen)
    BY <1>1, <1>4 DEF OwnDrops
  <1>6. QED
    BY <1>1, <1>2, <1>4, <1>5 DEF OwnIn

\* With nothing under way to the server.
LEMMA OwnUnasked ==
    ASSUME NEW s \in Players, NEW q, q = <<>>, NEW v, NEW msgs, NEW frozen, NEW since, NEW stuck,
           OwnComing(s, v, msgs), s.touched \subseteq s.changed,
           since = "told" \/ stuck => s.changed = {},
           ~CursorDue(s) => Shows(v, msgs).cursor = s.cursor,
           \A j \in OwnSlots \ Due(s) : Shows(v, msgs).own[j] = s.slots[j]
    PROVE  OwnIn(s, q, v, msgs, frozen, since, stuck)
  <1>1. DOMAIN q = {} /\ \A t : ~Has(q, t)
    BY DEF Has, TypesIn
  <1>2. OwnQueue(s, q) /\ OwnMarks(s, q, since, stuck) /\ OwnCursor(s, q) /\ OwnDrops(s, q, msgs, frozen)
    BY <1>1 DEF OwnQueue, OwnMarks, OwnCursor, OwnDrops
  <1>3. \A j \in OwnSlots : HeldThen(s, q, j) = s.slots[j]
    BY <1>1 DEF HeldThen, AfterDrops
  <1>4. OwnShown(s, q, Shows(v, msgs), frozen)
    BY <1>1, <1>3 DEF OwnShown
  <1>5. QED
    BY <1>2, <1>4 DEF OwnIn

-----------------------------------------------------------------------------
(***************************************************************************)
(* What the client does, by what it shows and has sent.                    *)
(***************************************************************************)
\* What the client's clicks change, by mode.
LEMMA ClickFacts ==
    ASSUME NEW isOpen \in BOOLEAN, NEW window \in [WindowSlots(isOpen) -> Stacks],
           NEW cursor \in Stacks, NEW k \in Clicks(isOpen, window, cursor)
    PROVE  /\ k.mode = "Click" /\ k.at = Outside => DOMAIN k.after = {} /\ cursor # Empty
           /\ k.mode = "DropKey" =>
                 /\ cursor = Empty /\ k.carried = Empty
                 /\ k.at \in WindowSlots(isOpen) /\ window[k.at] # Empty
                 /\ DOMAIN k.after = {k.at}
                 /\ k.after[k.at] = WithCount(window[k.at], IF k.button = 1 THEN 0 ELSE window[k.at].count - 1)
           /\ k.mode = "DoubleClick" =>
                 \A i \in DOMAIN k.after : k.after[i] = WithCount(window[i], k.after[i].count)
  <1>1. DOMAIN window = WindowSlots(isOpen) /\ Outside \notin WindowSlots(isOpen)
    BY Sizes DEF WindowSlots, Outside, OwnSlots, OffHand
  <1>2. \/ k \in ClicksOutside(cursor) \/ k \in Drags(window, cursor)
        \/ \E i \in WindowSlots(isOpen) :
               \/ k = LeftClick(window, cursor, i) \/ k = RightClick(window, cursor, i)
               \/ k \in HotbarSwaps(window, cursor, i, IF isOpen THEN WindowSlot(FirstMain) ELSE FirstMain)
               \/ k \in DropKeys(window, cursor, i)
               \/ k \in DoubleClicks(window, cursor, i)
               \/ k \in ShiftClicks(window, cursor, i)
    BY <1>1 DEF Clicks
  <1>3. CASE k \in ClicksOutside(cursor)
    <2>1. k.mode = "Click" /\ DOMAIN k.after = {} /\ cursor # Empty
      BY <1>3 DEF ClicksOutside, Click
    <2>2. QED
      BY <2>1
  <1>4. CASE k \in Drags(window, cursor)
    <2>1. k.mode = "Drag"
      BY <1>4 DEF Drags, Click
    <2>2. QED
      BY <2>1
  <1>5. ASSUME NEW i \in WindowSlots(isOpen), k = LeftClick(window, cursor, i) \/ k = RightClick(window, cursor, i)
        PROVE  k.mode = "Click" /\ k.at = i
    <2>1. LeftClick(window, cursor, i).mode = "Click" /\ LeftClick(window, cursor, i).at = i
      BY DEF LeftClick, Click
    <2>2. RightClick(window, cursor, i).mode = "Click" /\ RightClick(window, cursor, i).at = i
      BY DEF RightClick, Click
    <2>3. QED
      BY <1>5, <2>1, <2>2
  <1>6. ASSUME NEW i \in WindowSlots(isOpen),
               \/ k \in HotbarSwaps(window, cursor, i, IF isOpen THEN WindowSlot(FirstMain) ELSE FirstMain)
               \/ k \in ShiftClicks(window, cursor, i)
        PROVE  k.mode \in {"Hotbar", "ShiftClick"}
    BY <1>6 DEF HotbarSwaps, ShiftClicks, Click
  <1>7. ASSUME NEW i \in WindowSlots(isOpen), k \in DropKeys(window, cursor, i)
        PROVE  /\ k.mode = "DropKey" /\ cursor = Empty /\ k.carried = Empty
               /\ k.at = i /\ window[i] # Empty /\ DOMAIN k.after = {i}
               /\ k.after[i] = WithCount(window[i], IF k.button = 1 THEN 0 ELSE window[i].count - 1)
    <2>1. PICK all \in 0..1 :
            /\ cursor = Empty /\ window[i] # Empty
            /\ k = Click("DropKey", all, i,
                         In(i, WithCount(window[i], IF all = 1 THEN 0 ELSE window[i].count - 1)), Empty)
      BY <1>7 DEF DropKeys
    <2>2. QED
      BY <2>1 DEF Click, In
  <1>8. ASSUME NEW i \in WindowSlots(isOpen), k \in DoubleClicks(window, cursor, i)
        PROVE  /\ k.mode = "DoubleClick" /\ DOMAIN k.after = {i}
               /\ k.after[i] = WithCount(window[i], k.after[i].count)
    <2> DEFINE n == Fit(window[i].count, cursor)
               left == WithCount(cursor, window[i].count - n)
    <2>1. /\ cursor # Empty /\ window[i].item = cursor.item
          /\ k = Click("DoubleClick", 0, i, In(i, left), WithCount(cursor, cursor.count + n))
      BY <1>8 DEF DoubleClicks
    <2>2. k.mode = "DoubleClick" /\ DOMAIN k.after = {i} /\ k.after[i] = left
      BY <2>1 DEF Click, In
    <2>3. window[i] \in Stacks /\ window[i] # Empty
      BY <2>1, AirAssumption DEF Stacks, FullStacks, Empty
    <2>4. window[i].count \in 0..MaxStack /\ cursor.count \in 0..MaxStack
      BY <2>3, StackFacts
    <2>5. n \in 0..window[i].count
      BY <2>4, FitIn
    <2> DEFINE m == window[i].count - n
    <2>6. m \in 0..MaxStack
      BY <2>4, <2>5, Sizes
    <2> HIDE DEF m, n
    <2>7. left = WithCount(cursor, m)
      BY DEF m
    <2> HIDE DEF left
    <2>8. left.count = m
      BY <2>1, <2>6, <2>7, WithCountIn
    <2>9. WithCount(cursor, m) = WithCount(window[i], m)
      <3>1. CASE m = 0
        BY <3>1 DEF WithCount
      <3>2. CASE m # 0
        <4>1. WithCount(cursor, m) = [cursor EXCEPT !.count = m] /\ WithCount(window[i], m) = [window[i] EXCEPT !.count = m]
          BY <2>1, <2>3, <3>2 DEF WithCount
        <4>2. cursor \in FullStacks /\ window[i] \in FullStacks
          BY <2>1, <2>3, StackFacts
        <4>3. QED
          BY <2>1, <4>1, <4>2 DEF FullStacks
      <3>3. QED
        BY <3>1, <3>2
    <2>10. QED
      BY <2>2, <2>7, <2>8, <2>9
  <1>9. QED
    BY <1>1, <1>2, <1>3, <1>4, <1>5, <1>6, <1>7, <1>8

\* The packet p of a click without a window, and the view before and after it.
Becomes(v, w, p) ==
    /\ w \in Views /\ w.win = 0 /\ w.ownSid = v.ownSid /\ w.cursor = p.carried
    /\ p \in ClickPackets /\ p.win = 0 /\ p.sid = v.ownSid
    /\ DOMAIN p.changes \subseteq OwnSlots
    /\ \A j \in OwnSlots :
          IF j \in DOMAIN p.changes THEN w.own[j] = p.changes[j] /\ p.changes[j] # v.own[j]
          ELSE w.own[j] = v.own[j]
    /\ OutsideClick(p) => DOMAIN p.changes = {} /\ v.cursor # Empty
    /\ DropKeyClick(p) =>
          /\ v.cursor = Empty /\ p.carried = Empty
          /\ p.at \in OwnSlots /\ v.own[p.at] # Empty /\ DOMAIN p.changes = {p.at}
          /\ p.changes[p.at] =
                 WithCount(v.own[p.at], IF p.button = 1 THEN 0 ELSE v.own[p.at].count - 1)
    /\ p.mode = "DoubleClick" =>
          \A j \in DOMAIN p.changes : p.changes[j] = WithCount(v.own[j], p.changes[j].count)

\* One item less, or none, is something else.
LEMMA LessIsOther ==
    ASSUME NEW s \in Stacks, s # Empty, NEW n, n = 0 \/ n = s.count - 1
    PROVE  WithCount(s, n) # s
  <1>1. s.count \in 1..MaxStack
    BY StackFacts, Sizes
  <1>2. n \in 0..MaxStack /\ n # s.count
    BY <1>1, Sizes
  <1>3. WithCount(s, n).count = n
    BY <1>2, WithCountIn
  <1>4. QED
    BY <1>2, <1>3

\* The packet of a click says what the client now shows.
LEMMA OwnClickPacket ==
    ASSUME TInv, NEW c \in Clients, view[c].win = 0,
           NEW k \in Clicks(ViewOpen(c), ViewWindow(c), view[c].cursor)
    PROVE  Becomes(view[c], Predicted(c, k), ClickPacket(c, k))
  <1> DEFINE v == view[c]
             p == ClickPacket(c, k)
             w == Predicted(c, k)
             D == {i \in DOMAIN k.after : k.after[i] # v.own[i]}
  <1>1. /\ ViewOpen(c) = FALSE /\ ViewWindow(c) = v.own /\ v \in Views /\ TrafficOK
        /\ \A j \in OwnSlots : ViewIndex(c, j) = j
    BY DEF ViewOpen, ViewWindow, Window, TInv, TrafficOK, ViewIndex
  <1>2. v.own \in [OwnSlots -> Stacks] /\ v.cursor \in Stacks /\ WindowSlots(FALSE) = OwnSlots
    BY <1>1 DEF Views, WindowSlots
  <1>3. k \in Clicks(FALSE, v.own, v.cursor)
    BY <1>1
  <1>4. ClickIn(FALSE, k)
    BY <1>2, <1>3, ClicksIn
  <1>5. p \in Packets /\ w \in Views
    BY <1>1, <1>4, ClickPacketIn, PredictedIn
  <1>6. k.after \in StackMaps /\ DOMAIN k.after \subseteq OwnSlots
    BY <1>2, <1>4 DEF ClickIn
  <1>7. RestrictDomain(k.after, LAMBDA i : k.after[i] # ViewWindow(c)[i]) = Restrict(k.after, D)
    BY <1>1 DEF RestrictDomain
  <1> DEFINE f == Restrict(k.after, D)
  <1>8. f \in StackMaps /\ DOMAIN f = D /\ \A i \in D : f[i] = k.after[i]
    BY <1>6, RestrictIn
  <1>9. p = [type |-> "click", win |-> v.win, sid |-> v.ownSid, mode |-> k.mode, button |-> k.button,
             at |-> k.at, changes |-> f, carried |-> k.carried]
    BY <1>1, <1>7 DEF ClickPacket
  <1> HIDE DEF f, p
  <1>10. /\ p.type = "click" /\ p.win = 0 /\ p.sid = v.ownSid /\ p.mode = k.mode /\ p.button = k.button
         /\ p.at = k.at /\ p.carried = k.carried /\ p.changes = f
    BY <1>9
  <1>11. p \in ClickPackets
    BY <1>5, <1>10 DEF Packets
  <1>12. w.win = 0 /\ w.ownSid = v.ownSid /\ w.cursor = k.carried
    BY <1>1 DEF Predicted, Views
  <1>13. \A j \in OwnSlots : w.own[j] = IF j \in DOMAIN k.after THEN k.after[j] ELSE v.own[j]
    BY <1>1 DEF Predicted, Views
  <1> HIDE DEF w
  <1>14. \A j \in OwnSlots : IF j \in D THEN w.own[j] = f[j] /\ f[j] # v.own[j] ELSE w.own[j] = v.own[j]
    BY <1>8, <1>13
  <1>15. D \subseteq OwnSlots
    BY <1>6
  <1>16. /\ k.mode = "Click" /\ k.at = Outside => DOMAIN k.after = {} /\ v.cursor # Empty
         /\ k.mode = "DropKey" =>
                 /\ v.cursor = Empty /\ k.carried = Empty
                 /\ k.at \in OwnSlots /\ v.own[k.at] # Empty
                 /\ DOMAIN k.after = {k.at}
                 /\ k.after[k.at] = WithCount(v.own[k.at], IF k.button = 1 THEN 0 ELSE v.own[k.at].count - 1)
         /\ k.mode = "DoubleClick" =>
                 \A i \in DOMAIN k.after : k.after[i] = WithCount(v.own[i], k.after[i].count)
    <2> DEFINE own == v.own
               cursor == v.cursor
               closed == FALSE
    <2>1. own \in [WindowSlots(closed) -> Stacks] /\ cursor \in Stacks /\ closed \in BOOLEAN
          /\ k \in Clicks(closed, own, cursor) /\ WindowSlots(closed) = OwnSlots
      BY <1>2, <1>3
    <2> HIDE DEF own, cursor, closed, v
    <2>2. /\ k.mode = "Click" /\ k.at = Outside => DOMAIN k.after = {} /\ cursor # Empty
          /\ k.mode = "DropKey" =>
                 /\ cursor = Empty /\ k.carried = Empty
                 /\ k.at \in WindowSlots(closed) /\ own[k.at] # Empty
                 /\ DOMAIN k.after = {k.at}
                 /\ k.after[k.at] = WithCount(own[k.at], IF k.button = 1 THEN 0 ELSE own[k.at].count - 1)
          /\ k.mode = "DoubleClick" =>
                 \A i \in DOMAIN k.after : k.after[i] = WithCount(own[i], k.after[i].count)
      BY <2>1, ClickFacts
    <2>3. QED
      BY <2>1, <2>2 DEF own, cursor
  <1>17. OutsideClick(p) => D = {} /\ v.cursor # Empty
    BY <1>10, <1>16 DEF OutsideClick
  <1>18. ASSUME DropKeyClick(p)
         PROVE  /\ v.cursor = Empty /\ p.carried = Empty
                /\ p.at \in OwnSlots /\ v.own[p.at] # Empty /\ D = {p.at}
                /\ f[p.at] = WithCount(v.own[p.at], IF p.button = 1 THEN 0 ELSE v.own[p.at].count - 1)
    <2>1. /\ v.cursor = Empty /\ p.carried = Empty
          /\ p.at \in OwnSlots /\ v.own[p.at] # Empty /\ DOMAIN k.after = {p.at}
          /\ k.after[p.at] = WithCount(v.own[p.at], IF p.button = 1 THEN 0 ELSE v.own[p.at].count - 1)
      BY <1>10, <1>16, <1>18 DEF DropKeyClick
    <2>2. v.own[p.at] \in Stacks
      BY <1>2, <2>1
    <2>3. k.after[p.at] # v.own[p.at]
      BY <2>1, <2>2, LessIsOther
    <2>4. D = {p.at}
      BY <2>1, <2>3
    <2>5. QED
      BY <1>8, <2>1, <2>4
  <1>19. p.mode = "DoubleClick" => \A j \in D : f[j] = WithCount(v.own[j], f[j].count)
    BY <1>8, <1>10, <1>16
  <1> HIDE DEF D
  <1>20. Becomes(v, w, p)
    BY <1>5, <1>8, <1>10, <1>11, <1>12, <1>14, <1>15, <1>17, <1>18, <1>19 DEF Becomes
  <1>21. QED
    BY <1>20 DEF p, w

\* Nothing to send, for who has been told all.
LEMMA NothingDue ==
    ASSUME NEW s \in Players, s.changed = {}
    PROVE  Due(s) = {}
  <1>1. AllBits # {}
    BY Sizes DEF AllBits, OffHand
  <1>2. QED
    BY <1>1 DEF Due

\* The kinds of packets.
LEMMA PacketTypesAre ==
    ASSUME NEW p \in Packets
    PROVE  /\ p.type \in {"click", "close", "drop", "swap"}
           /\ p.type = "click" => p \in ClickPackets
           /\ p.type = "drop" => p.all \in BOOLEAN
  BY DEF Packets, ClickPackets, ClickRecords

\* A client that has been told all, with drops under way only.
LEMMA OnlyDrops ==
    ASSUME NEW s \in Players, NEW q \in Seq(Packets), NEW v \in Views, NEW msgs \in Seq(Messages),
           NEW frozen, NEW stuck, OwnIn(s, q, v, msgs, frozen, "told", stuck), Telling(s, "told"),
           ~Has(q, "click"), ~Has(q, "swap"),
           \A k \in DOMAIN msgs : msgs[k].type # "cursor" /\ msgs[k].type # "content"
    PROVE  /\ s.changed = {} /\ s.touched = {} /\ Due(s) = {}
           /\ ~s.cursorChanged /\ ~CursorDue(s)
           /\ \A k \in DOMAIN q : q[k].type = "drop"
           /\ v.win = 0 /\ v.cursor = s.cursor /\ Shows(v, msgs) \in Views
           /\ \A k \in DOMAIN msgs : OwnMessage(msgs[k])
           /\ ~(frozen /\ q # <<>>) => \A j \in OwnSlots : Shows(v, msgs).own[j] = HeldThen(s, q, j)
  <1>1. s.changed = {} /\ s.touched = {}
    BY DEF OwnIn, OwnMarks
  <1>2. Due(s) = {}
    BY <1>1, NothingDue
  <1>3. ~s.cursorChanged /\ ~CursorDue(s)
    BY DEF Telling, CursorDue
  <1>4. \A k \in DOMAIN q : q[k].type = "drop"
    <2>1. \A k \in DOMAIN q : q[k] \in Packets
      OBVIOUS
    <2>2. ~Has(q, "close")
      BY DEF OwnIn, OwnQueue
    <2>3. QED
      BY <2>1, <2>2, PacketTypesAre DEF Has, TypesIn
  <1>5. v.win = 0 /\ \A k \in DOMAIN msgs : OwnMessage(msgs[k])
    BY OwnComingMessages DEF OwnIn, OwnComing
  <1>6. Shows(v, msgs) \in Views /\ Shows(v, msgs).cursor = v.cursor
    BY <1>5, ShowsSlots
  <1>7. \A k \in DOMAIN q : ~SlotClick(q[k]) /\ ~OutsideClick(q[k]) /\ ~DropKeyClick(q[k])
    BY <1>4 DEF SlotClick, OutsideClick, DropKeyClick
  <1>8. v.cursor = s.cursor
    BY <1>3, <1>6, <1>7 DEF OwnIn, OwnShown
  <1>9. ASSUME ~(frozen /\ q # <<>>)
        PROVE  \A j \in OwnSlots : Shows(v, msgs).own[j] = HeldThen(s, q, j)
    <2>1. ~Resends(s, q, frozen)
      BY <1>7, <1>9 DEF Resends
    <2>2. QED
      BY <1>2, <1>7, <2>1 DEF OwnIn, OwnShown
  <1>10. QED
    BY <1>1, <1>2, <1>3, <1>4, <1>5, <1>6, <1>8, <1>9

\* The client clicks.
LEMMA OwnClicked ==
    ASSUME NEW s \in Players, NEW q \in Seq(Packets), NEW v \in Views, NEW msgs \in Seq(Messages),
           NEW frozen, NEW stuck, OwnIn(s, q, v, msgs, frozen, "told", stuck), Telling(s, "told"),
           ~Has(q, "click"), ~Has(q, "swap"),
           \A k \in DOMAIN msgs : msgs[k].type # "cursor" /\ msgs[k].type # "content",
           NEW w, NEW p, Becomes(v, w, p), NEW r \in Seq(Packets), Sent(q, p, r)
    PROVE  OwnIn(s, r, w, msgs, frozen, "told", stuck)
  <1> DEFINE W == Shows(v, msgs)
             X == Shows(w, msgs)
  <1>1. /\ s.changed = {} /\ s.touched = {} /\ Due(s) = {}
        /\ ~s.cursorChanged /\ ~CursorDue(s)
        /\ \A k \in DOMAIN q : q[k].type = "drop"
        /\ v.win = 0 /\ v.cursor = s.cursor /\ W \in Views
        /\ \A k \in DOMAIN msgs : OwnMessage(msgs[k])
        /\ ~(frozen /\ q # <<>>) => \A j \in OwnSlots : W.own[j] = HeldThen(s, q, j)
    BY OnlyDrops
  <1>2. /\ w \in Views /\ w.win = 0 /\ w.ownSid = v.ownSid /\ w.cursor = p.carried
        /\ p \in ClickPackets /\ p.win = 0 /\ p.sid = v.ownSid
    BY DEF Becomes
  <1>3. p \in Packets /\ p.type = "click"
    BY <1>2 DEF Packets, ClickPackets, ClickRecords
  <1>4. /\ r \in Seq(Packets) /\ Len(q) \in Nat /\ Len(r) = Len(q) + 1 /\ r # <<>>
        /\ DOMAIN q = 1..Len(q) /\ DOMAIN r = 1..(Len(q) + 1)
        /\ r[Len(q) + 1] = p /\ \A k \in 1..Len(q) : r[k] = q[k]
        /\ TypesIn(r) = TypesIn(q) \cup {p.type}
    BY <1>3, QueueSent
  <1>5. Has(r, "click") /\ ~Has(r, "swap") /\ ~Has(r, "close") /\ (Has(r, "drop") => Has(q, "drop"))
        /\ (Has(q, "drop") => Has(r, "drop"))
    <2>1. ~Has(q, "close")
      BY DEF OwnIn, OwnQueue
    <2>2. QED
      BY <1>3, <1>4, <2>1 DEF Has
  <1>6. \A k \in DOMAIN r : r[k].type # "drop" => k = Len(q) + 1 /\ r[k] = p
    BY <1>1, <1>4
  <1>7. OwnQueue(s, r)
    <2>1. p.sid <= s.sid
      BY <1>2 DEF OwnIn, OwnComing
    <2>2. QED
      BY <1>2, <1>4, <1>5, <1>6, <2>1 DEF OwnQueue
  <1>8. OwnComing(s, w, msgs)
    BY <1>1, <1>2, OwnComingSame DEF OwnIn
  <1>9. OwnMarks(s, r, "told", stuck)
    BY <1>1, <1>5 DEF OwnMarks
  <1>10. /\ OutsideClick(p) => DOMAIN p.changes = {} /\ s.cursor # Empty
         /\ DropKeyClick(p) => s.cursor = Empty /\ p.carried = Empty
    BY <1>1 DEF Becomes
  <1>11. OwnCursor(s, r)
    <2>1. Has(r, "drop") => s.cursor = Empty
      BY <1>5 DEF OwnIn, OwnCursor
    <2>2. \A k \in DOMAIN r : (~DropKeyClick(r[k]) /\ ~OutsideClick(r[k])) \/ r[k] = p
      BY <1>6 DEF DropKeyClick, OutsideClick
    <2>3. QED
      BY <1>1, <1>5, <1>10, <2>1, <2>2 DEF OwnCursor
  <1>12. Drops(r) = Drops(q) /\ (DropsAll(r) => DropsAll(q)) /\ (DropsAll(q) => DropsAll(r))
    <2>1. Drops(r) = Drops(q)
      BY <1>4, <1>5 DEF Drops
    <2>2. \A k \in DOMAIN r : r[k].type = "drop" => k \in DOMAIN q /\ r[k] = q[k]
      BY <1>3, <1>4
    <2>3. \A k \in DOMAIN q : k \in DOMAIN r /\ r[k] = q[k]
      BY <1>4
    <2>4. QED
      BY <2>1, <2>2, <2>3 DEF DropsAll
  <1>13. \A j \in OwnSlots : HeldThen(s, r, j) = HeldThen(s, q, j)
    BY <1>5, <1>12 DEF HeldThen, AfterDrops
  <1>14. OwnDrops(s, r, msgs, frozen)
    <2> SUFFICES ASSUME Has(q, "drop"), ~frozen
                 PROVE  /\ \A k, l \in DOMAIN r : k < l /\ r[k].type = "drop" /\ r[k].all => r[l].type # "drop"
                        /\ Drops(r) <= s.slots[FirstMain].count
                        /\ \A k \in DOMAIN msgs :
                              /\ msgs[k].type # "content"
                              /\ msgs[k].type = "slots" => FirstMain \notin DOMAIN msgs[k].stacks
      BY <1>5 DEF OwnDrops
    <2>1. /\ \A k, l \in DOMAIN q : k < l /\ q[k].type = "drop" /\ q[k].all => q[l].type # "drop"
          /\ Drops(q) <= s.slots[FirstMain].count
          /\ \A k \in DOMAIN msgs :
                /\ msgs[k].type # "content"
                /\ msgs[k].type = "slots" => FirstMain \notin DOMAIN msgs[k].stacks
      BY DEF OwnIn, OwnDrops
    <2>2. \A k \in DOMAIN r : r[k].type = "drop" => k \in DOMAIN q /\ r[k] = q[k]
      BY <1>3, <1>4
    <2>3. QED
      BY <1>12, <2>1, <2>2
  <1>15. /\ X \in Views /\ X.cursor = w.cursor
         /\ \A j \in OwnSlots : X.own[j] = W.own[j] \/ (X.own[j] = w.own[j] /\ W.own[j] = v.own[j])
         /\ \A j \in OwnSlots :
               (\A k \in DOMAIN msgs : msgs[k].type = "slots" => j \notin DOMAIN msgs[k].stacks) =>
                   X.own[j] = w.own[j] /\ W.own[j] = v.own[j]
    BY <1>1, <1>2, ShowsSlots
  <1> HIDE DEF W, X
  <1>16. ASSUME SlotClick(p), ~Resends(s, r, frozen)
         PROVE  SlotsPredicted(s, r, X, p)
    <2>1. Len(q) + 1 \in DOMAIN r /\ r[Len(q) + 1] = p
      BY <1>4
    <2>2. ~frozen /\ p.sid = s.sid
      BY <1>16, <2>1 DEF Resends, SlotClick
    <2>3. \A k \in DOMAIN msgs : msgs[k].type # "slots"
      <3> SUFFICES ASSUME NEW k \in DOMAIN msgs, msgs[k].type = "slots"
                   PROVE  FALSE
        OBVIOUS
      <3>1. v.ownSid < msgs[k].sid /\ msgs[k].sid <= s.sid
        BY DEF OwnIn, OwnComing, Sided
      <3>2. msgs[k].sid \in Nat /\ s.sid \in Nat
        BY MessageSid, SidIn DEF Sided
      <3>3. QED
        BY <1>2, <2>2, <3>1, <3>2
    <2>4. \A j \in OwnSlots : X.own[j] = w.own[j] /\ v.own[j] = HeldThen(s, r, j)
      BY <1>1, <1>13, <1>15, <2>2, <2>3
    <2>5. /\ \A j \in OwnSlots : IF j \in DOMAIN p.changes THEN w.own[j] = p.changes[j] /\ p.changes[j] # v.own[j]
                                 ELSE w.own[j] = v.own[j]
          /\ p.mode = "DoubleClick" => \A j \in DOMAIN p.changes : p.changes[j] = WithCount(v.own[j], p.changes[j].count)
      BY DEF Becomes
    <2>6. QED
      BY <1>2, <1>15, <2>4, <2>5 DEF SlotsPredicted
  <1>17. ASSUME DropKeyClick(p), ~Resends(s, r, frozen)
         PROVE  KeyPredicted(s, r, X, p)
    <2>1. Len(q) + 1 \in DOMAIN r /\ r[Len(q) + 1] = p
      BY <1>4
    <2>2. ~frozen
      BY <1>17, <2>1 DEF Resends, DropKeyClick, OutsideClick
    <2>3. /\ p.at \in OwnSlots /\ v.own[p.at] # Empty /\ DOMAIN p.changes = {p.at}
          /\ p.changes[p.at] = WithCount(v.own[p.at], IF p.button = 1 THEN 0 ELSE v.own[p.at].count - 1)
          /\ \A j \in OwnSlots : w.own[j] = IF j = p.at THEN p.changes[j] ELSE v.own[j]
      BY <1>17 DEF Becomes
    <2>4. \A j \in OwnSlots : W.own[j] = HeldThen(s, r, j)
      BY <1>1, <1>13, <2>2
    <2>5. \A j \in OwnSlots \ Due(s) : X.own[j] = HeldThen(s, r, j) \/ (j = p.at /\ X.own[j] = p.changes[j])
      BY <1>15, <2>3, <2>4
    <2>6. ASSUME p.at = FirstMain, Has(r, "drop") \/ FirstMain \in s.touched
          PROVE  /\ X.own[FirstMain] = p.changes[FirstMain]
                 /\ HeldThen(s, r, FirstMain) # Empty
                 /\ p.changes[FirstMain] = WithCount(HeldThen(s, r, FirstMain),
                        IF p.button = 1 THEN 0 ELSE HeldThen(s, r, FirstMain).count - 1)
      <3>1. \A k \in DOMAIN msgs : msgs[k].type = "slots" => FirstMain \notin DOMAIN msgs[k].stacks
        BY <1>1, <1>5, <2>2, <2>6 DEF OwnIn, OwnDrops
      <3>2. X.own[FirstMain] = w.own[FirstMain] /\ W.own[FirstMain] = v.own[FirstMain]
        BY <1>15, <2>3, <2>6, <3>1
      <3>3. v.own[FirstMain] = HeldThen(s, r, FirstMain)
        BY <2>3, <2>4, <2>6, <3>2
      <3>4. QED
        BY <2>3, <2>6, <3>2, <3>3
    <2>7. QED
      BY <2>3, <2>5, <2>6 DEF KeyPredicted
  <1>18. ASSUME OutsideClick(p), ~Resends(s, r, frozen)
         PROVE  \A j \in OwnSlots : X.own[j] = HeldThen(s, r, j)
    <2>1. ~(frozen /\ q # <<>>)
      <3>1. ASSUME frozen, q # <<>> PROVE FALSE
        <4>1. 1 \in DOMAIN q /\ 1 \in DOMAIN r /\ r[1].type = "drop"
          BY <1>1, <1>4, <3>1
        <4>2. QED
          BY <1>18, <3>1, <4>1 DEF Resends, OutsideClick
      <3>2. QED
        BY <3>1
    <2>2. \A j \in OwnSlots : w.own[j] = v.own[j]
      BY <1>10, <1>18 DEF Becomes
    <2>3. QED
      BY <1>1, <1>13, <1>15, <2>1, <2>2
  <1>19. OwnShown(s, r, X, frozen)
    <2>1. Len(q) + 1 \in DOMAIN r /\ r[Len(q) + 1] = p
      BY <1>4
    <2>2. ASSUME \A k \in DOMAIN r : ~SlotClick(r[k]) /\ ~OutsideClick(r[k])
          PROVE  X.cursor = s.cursor
      <3>1. DropKeyClick(p)
        BY <1>3, <2>1, <2>2 DEF SlotClick
      <3>2. QED
        BY <1>2, <1>10, <1>15, <3>1
    <2>3. ASSUME ~Resends(s, r, frozen), NEW k \in DOMAIN r, SlotClick(r[k])
          PROVE  SlotsPredicted(s, r, X, r[k])
      BY <1>6, <1>16, <2>3 DEF SlotClick
    <2>4. ASSUME ~Resends(s, r, frozen), NEW k \in DOMAIN r, DropKeyClick(r[k])
          PROVE  KeyPredicted(s, r, X, r[k])
      BY <1>6, <1>17, <2>4 DEF DropKeyClick
    <2>5. ASSUME ~Resends(s, r, frozen), \A k \in DOMAIN r : ~SlotClick(r[k]) /\ ~DropKeyClick(r[k])
          PROVE  \A j \in OwnSlots : X.own[j] = HeldThen(s, r, j)
      <3>1. OutsideClick(p)
        BY <1>3, <2>1, <2>5 DEF SlotClick
      <3>2. QED
        BY <1>18, <2>5, <3>1
    <2>6. QED
      BY <2>2, <2>3, <2>4, <2>5 DEF OwnShown
  <1>20. QED
    BY <1>7, <1>8, <1>9, <1>11, <1>14, <1>19 DEF OwnIn, X

\* The last count counts.
LEMMA WithCountTwice ==
    ASSUME NEW s \in Stacks, NEW n \in 1..MaxStack, NEW m
    PROVE  WithCount(WithCount(s, n), m) = WithCount(s, m)
  <1>1. CASE s = Empty
    BY <1>1 DEF WithCount
  <1>2. CASE s # Empty
    <2>1. WithCount(s, n) = [s EXCEPT !.count = n]
      BY <1>2, Sizes DEF WithCount
    <2>2. s \in FullStacks
      BY <1>2, StackFacts
    <2>3. [s EXCEPT !.count = n] # Empty
      BY <2>2, AirAssumption DEF FullStacks, Empty
    <2>4. [[s EXCEPT !.count = n] EXCEPT !.count = m] = [s EXCEPT !.count = m]
      BY <2>2 DEF FullStacks
    <2>5. QED
      BY <1>2, <2>1, <2>3, <2>4 DEF WithCount
  <1>3. QED
    BY <1>1, <1>2

\* A stack of none is Empty.
LEMMA NoneLeft ==
    ASSUME NEW s
    PROVE  WithCount(s, 0) = Empty
  BY DEF WithCount

Nothing(msgs) == msgs = <<>>

\* The client drops from its hand.
LEMMA OwnDropped ==
    ASSUME NEW s \in Players, NEW q \in Seq(Packets), NEW v \in Views, NEW msgs \in Seq(Messages), Nothing(msgs),
           NEW frozen, NEW stuck, OwnIn(s, q, v, msgs, frozen, "told", stuck), Telling(s, "told"),
           ~Has(q, "click"), ~Has(q, "swap"),
           v.cursor = Empty, v.own[FirstMain] # Empty,
           NEW p \in Packets, p.type = "drop", NEW w \in Views,
           w.win = v.win, w.ownSid = v.ownSid, w.cursor = v.cursor,
           \A j \in OwnSlots : w.own[j] =
               IF j = FirstMain THEN WithCount(v.own[j], IF p.all THEN 0 ELSE v.own[j].count - 1) ELSE v.own[j],
           NEW r \in Seq(Packets), Sent(q, p, r)
    PROVE  OwnIn(s, r, w, msgs, frozen, "told", stuck)
  <1> DEFINE st == s.slots[FirstMain]
             n == Len(q)
  <1>0. DOMAIN msgs = {} /\ \A k \in DOMAIN msgs : msgs[k].type # "cursor" /\ msgs[k].type # "content"
    BY DEF Nothing
  <1> HIDE DEF st, n
  <1>1. /\ s.changed = {} /\ s.touched = {} /\ Due(s) = {}
        /\ ~s.cursorChanged /\ ~CursorDue(s)
        /\ \A k \in DOMAIN q : q[k].type = "drop"
        /\ v.win = 0 /\ v.cursor = s.cursor /\ Shows(v, msgs) \in Views
        /\ \A k \in DOMAIN msgs : OwnMessage(msgs[k])
        /\ ~(frozen /\ q # <<>>) => \A j \in OwnSlots : Shows(v, msgs).own[j] = HeldThen(s, q, j)
    BY <1>0, OnlyDrops
  <1>2. Shows(v, msgs) = v /\ Shows(w, msgs) = w
    BY ShowsNone DEF Nothing
  <1>3. /\ n \in Nat /\ Len(r) = n + 1 /\ r # <<>>
        /\ DOMAIN q = 1..n /\ DOMAIN r = 1..(n + 1)
        /\ r[n + 1] = p /\ \A k \in 1..n : r[k] = q[k]
        /\ TypesIn(r) = TypesIn(q) \cup {p.type}
    BY QueueSent DEF n
  <1> USE DEF st
  <1>4. \A k \in DOMAIN r : r[k].type = "drop"
    BY <1>1, <1>3
  <1>5. Has(r, "drop") /\ ~Has(r, "click") /\ ~Has(r, "swap") /\ ~Has(r, "close")
    BY <1>3, <1>4 DEF Has, TypesIn
  <1>6. \A k \in DOMAIN r : ~SlotClick(r[k]) /\ ~OutsideClick(r[k]) /\ ~DropKeyClick(r[k])
    BY <1>4 DEF SlotClick, OutsideClick, DropKeyClick
  <1>7. OwnQueue(s, r)
    BY <1>4, <1>5 DEF OwnQueue
  <1>8. OwnComing(s, w, msgs)
    BY OwnComingSame DEF OwnIn
  <1>9. OwnMarks(s, r, "told", stuck)
    BY <1>1 DEF OwnMarks
  <1>10. OwnCursor(s, r)
    BY <1>1, <1>6 DEF OwnCursor
  <1>11. st \in Stacks /\ FirstMain \in OwnSlots /\ v.own[FirstMain] \in Stacks
    BY SlotsAre DEF Players, Views
  <1>12. st.count \in 0..MaxStack /\ MaxStack \in Nat
    BY <1>11, StackFacts, Sizes
  <1>13. ASSUME ~frozen
         PROVE  /\ ~DropsAll(q) /\ n + 1 <= st.count
                /\ v.own[FirstMain] = WithCount(st, st.count - n)
    <2>1. v.own[FirstMain] = AfterDrops(st, q)
      BY <1>1, <1>2, <1>11, <1>13 DEF HeldThen
    <2> HIDE DEF st
    <2>2. CASE n = 0
      <3>1. ~Has(q, "drop") /\ ~DropsAll(q)
        BY <1>3, <2>2 DEF Has, TypesIn, DropsAll
      <3>2. v.own[FirstMain] = st
        BY <2>1, <3>1 DEF AfterDrops
      <3>3. st # Empty
        BY <3>2
      <3>4. st.count # 0 /\ st \in FullStacks
        BY <1>11, <3>3, StackFacts
      <3>5. WithCount(st, st.count - n) = st
        BY <1>12, <2>2, <3>4 DEF WithCount, FullStacks
      <3>6. QED
        BY <1>12, <2>2, <3>1, <3>2, <3>4, <3>5
    <2>3. CASE n # 0
      <3>1. Has(q, "drop")
        <4>1. 1 \in DOMAIN q
          BY <1>3, <2>3
        <4>2. QED
          BY <1>1, <4>1 DEF Has, TypesIn
      <3>2. ~DropsAll(q) /\ v.own[FirstMain] = WithCount(st, st.count - Drops(q))
        BY <2>1, <3>1 DEF AfterDrops
      <3>3. Drops(q) = n
        BY DEF Drops, n
      <3>4. n <= st.count
        BY <1>13, <3>1, <3>3 DEF OwnIn, OwnDrops, st
      <3>5. st.count - n # 0
        BY <3>2, <3>3, NoneLeft
      <3>6. QED
        BY <1>3, <1>12, <3>2, <3>3, <3>4, <3>5
    <2>4. QED
      BY <2>2, <2>3
  <1>14. Drops(r) = n + 1
    BY <1>3, <1>5 DEF Drops
  <1>15. ASSUME ~frozen
         PROVE  /\ \A k, l \in DOMAIN r : k < l /\ r[k].type = "drop" /\ r[k].all => r[l].type # "drop"
                /\ DropsAll(r) <=> p.all
    <2>1. \A k \in DOMAIN q : ~q[k].all
      BY <1>1, <1>13, <1>15 DEF DropsAll
    <2>2. \A k \in DOMAIN r : r[k].all => k = n + 1 /\ p.all
      BY <1>3, <2>1
    <2>3. n + 1 \in DOMAIN r
      BY <1>3
    <2>4. \A k, l \in DOMAIN r : k < l /\ r[k].type = "drop" /\ r[k].all => r[l].type # "drop"
      BY <1>3, <2>2
    <2>5. DropsAll(r) => p.all
      BY <2>2 DEF DropsAll
    <2>6. p.all => DropsAll(r)
      BY <1>3, <2>3 DEF DropsAll
    <2>7. QED
      BY <2>4, <2>5, <2>6
  <1>16. OwnDrops(s, r, msgs, frozen)
    BY <1>0, <1>13, <1>14, <1>15 DEF OwnDrops
  <1>17. ASSUME ~frozen, NEW j \in OwnSlots
         PROVE  w.own[j] = HeldThen(s, r, j)
    <2>1. CASE j # FirstMain
      <3>1. w.own[j] = v.own[j] /\ v.own[j] = s.slots[j]
        BY <1>1, <1>2, <1>17, <2>1 DEF HeldThen
      <3>2. QED
        BY <2>1, <3>1 DEF HeldThen
    <2>2. CASE j = FirstMain
      <3>1. w.own[j] = WithCount(v.own[j], IF p.all THEN 0 ELSE v.own[j].count - 1)
        BY <2>2
      <3>2. HeldThen(s, r, j) = IF p.all THEN Empty ELSE WithCount(st, st.count - (n + 1))
        BY <1>5, <1>14, <1>15, <1>17, <2>2 DEF HeldThen, AfterDrops
      <3>3. CASE p.all
        BY <3>1, <3>2, <3>3, NoneLeft
      <3>4. CASE ~p.all
        <4> DEFINE m == st.count - n
        <4>1. m \in 1..MaxStack /\ st.count - (n + 1) = m - 1 /\ v.own[j] = WithCount(st, m)
          BY <1>3, <1>12, <1>13, <1>17, <2>2
        <4>2. st # Empty
          BY <1>3, <1>12, <1>13, <1>17, StackFacts
        <4> HIDE DEF m, st
        <4>3. WithCount(st, m).count = m
          BY <1>11, <4>1, <4>2, WithCountIn
        <4>4. WithCount(WithCount(st, m), m - 1) = WithCount(st, m - 1)
          BY <1>11, <4>1, WithCountTwice
        <4>5. QED
          BY <3>1, <3>2, <3>4, <4>1, <4>3, <4>4
      <3>5. QED
        BY <3>3, <3>4
    <2>3. QED
      BY <2>1, <2>2
  <1>18. OwnShown(s, r, w, frozen)
    <2>1. n + 1 \in DOMAIN r
      BY <1>3
    <2>2. ~Resends(s, r, frozen) => ~frozen
      BY <1>6, <2>1 DEF Resends
    <2>3. QED
      BY <1>1, <1>6, <1>17, <2>2 DEF OwnShown
  <1>19. QED
    BY <1>2, <1>7, <1>8, <1>9, <1>10, <1>16, <1>18 DEF OwnIn

\* The client swaps hands.
LEMMA OwnSwapped ==
    ASSUME NEW s \in Players, NEW q \in Seq(Packets), NEW v \in Views, NEW msgs \in Seq(Messages),
           NEW frozen, NEW stuck, OwnIn(s, q, v, msgs, frozen, "told", stuck), Telling(s, "told"),
           ~Has(q, "click"), ~Has(q, "drop"),
           \A k \in DOMAIN msgs : msgs[k].type # "cursor" /\ msgs[k].type # "content",
           v.cursor = Empty,
           NEW p \in Packets, p.type = "swap", NEW r \in Seq(Packets), Sent(q, p, r)
    PROVE  OwnIn(s, r, v, msgs, frozen, "told", stuck)
  <1>1. /\ s.changed = {} /\ s.touched = {}
    BY DEF OwnIn, OwnMarks
  <1>2. Due(s) = {}
    BY <1>1, NothingDue
  <1>3. ~s.cursorChanged /\ ~CursorDue(s)
    BY DEF Telling, CursorDue
  <1>4. \A k \in DOMAIN q : q[k].type = "swap"
    <2>1. \A k \in DOMAIN q : q[k] \in Packets
      OBVIOUS
    <2>2. ~Has(q, "close")
      BY DEF OwnIn, OwnQueue
    <2>3. QED
      BY <2>1, <2>2, PacketTypesAre DEF Has, TypesIn
  <1>5. /\ Len(q) \in Nat /\ Len(r) = Len(q) + 1 /\ r # <<>>
        /\ DOMAIN q = 1..Len(q) /\ DOMAIN r = 1..(Len(q) + 1)
        /\ r[Len(q) + 1] = p /\ \A k \in 1..Len(q) : r[k] = q[k]
    BY QueueSent
  <1>6. \A k \in DOMAIN r : r[k].type = "swap"
    BY <1>4, <1>5
  <1>7. Len(q) + 1 \in DOMAIN r /\ DOMAIN q \subseteq DOMAIN r
    BY <1>5
  <1>8. Has(r, "swap") /\ ~Has(r, "click") /\ ~Has(r, "drop") /\ ~Has(r, "close")
    BY <1>6, <1>7 DEF Has, TypesIn
  <1>9. /\ \A k \in DOMAIN r : ~SlotClick(r[k]) /\ ~OutsideClick(r[k]) /\ ~DropKeyClick(r[k])
        /\ \A k \in DOMAIN q : ~SlotClick(q[k]) /\ ~OutsideClick(q[k]) /\ ~DropKeyClick(q[k])
    BY <1>4, <1>6 DEF SlotClick, OutsideClick, DropKeyClick
  <1>10. v.win = 0 /\ \A k \in DOMAIN msgs : OwnMessage(msgs[k])
    BY OwnComingMessages DEF OwnIn, OwnComing
  <1>11. Shows(v, msgs).cursor = v.cursor
    BY <1>10, ShowsSlots
  <1>12. s.cursor = Empty
    BY <1>3, <1>9, <1>11 DEF OwnIn, OwnShown
  <1>13. OwnQueue(s, r)
    BY <1>6, <1>8 DEF OwnQueue
  <1>14. OwnMarks(s, r, "told", stuck)
    BY <1>1, <1>8 DEF OwnMarks
  <1>15. OwnCursor(s, r)
    BY <1>3, <1>8, <1>9, <1>12 DEF OwnCursor
  <1>16. OwnDrops(s, r, msgs, frozen)
    BY <1>8 DEF OwnDrops
  <1>17. \A j \in OwnSlots : HeldThen(s, r, j) = s.slots[j] /\ HeldThen(s, q, j) = s.slots[j]
    BY <1>8 DEF HeldThen, AfterDrops
  <1>18. OwnShown(s, r, Shows(v, msgs), frozen)
    <2>1. Resends(s, q, frozen) => Resends(s, r, frozen)
      BY <1>5, <1>7, <1>9 DEF Resends
    <2>2. QED
      BY <1>9, <1>11, <1>12, <1>17, <2>1 DEF OwnIn, OwnShown
  <1>19. QED
    BY <1>13, <1>14, <1>15, <1>16, <1>18 DEF OwnIn

-----------------------------------------------------------------------------
(***************************************************************************)
(* What the server does: the values.                                       *)
(***************************************************************************)
\* What is said of a client that has been told all is said of one that has sent
\* packets since, and that of one for which user code has run as well.
LEMMA OwnLater ==
    ASSUME NEW s, NEW q, NEW v, NEW msgs, NEW frozen, NEW stuck, NEW since, NEW then,
           OwnIn(s, q, v, msgs, frozen, since, stuck), Telling(s, since),
           since = "told" \/ then = since \/ then = "user", then # "told" \/ since = "told"
    PROVE  OwnIn(s, q, v, msgs, frozen, then, stuck) /\ Telling(s, then)
  <1>1. OwnMarks(s, q, then, stuck)
    BY DEF OwnIn, OwnMarks
  <1>2. Telling(s, then)
    BY DEF Telling
  <1>3. QED
    BY <1>1, <1>2 DEF OwnIn

\* A click is the last of the queue.
LEMMA OneClick ==
    ASSUME NEW s \in Players, NEW q \in Seq(Packets), q # <<>>, OwnQueue(s, q), Head(q).type = "click",
           NEW r \in Seq(Packets), Taken(q, r)
    PROVE  /\ r = <<>> /\ Len(q) = 1 /\ DOMAIN q = {1} /\ q[1] = Head(q) /\ Head(q) \in ClickPackets
           /\ Has(q, "click") /\ ~Has(q, "drop") /\ ~Has(q, "swap")
           /\ Head(q).win = 0 /\ \A j \in OwnSlots : HeldThen(s, q, j) = s.slots[j]
  <1>1. /\ Len(q) \in Nat /\ Len(q) >= 1 /\ Len(r) = Len(q) - 1
        /\ DOMAIN q = 1..Len(q) /\ q[1] = Head(q) /\ 1 \in DOMAIN q
    BY QueueTaken
  <1>2. Len(q) = 1 /\ Head(q).win = 0
    BY <1>1 DEF OwnQueue
  <1>3. DOMAIN q = {1}
    BY <1>1, <1>2
  <1>4. r = <<>>
    BY <1>1, <1>2
  <1>5. Has(q, "click") /\ ~Has(q, "drop") /\ ~Has(q, "swap")
    BY <1>1, <1>3 DEF Has, TypesIn
  <1>6. Head(q) \in ClickPackets
    <2>1. q[1] \in Packets
      BY <1>1
    <2>2. QED
      BY <1>1, <2>1, PacketTypesAre
  <1>7. \A j \in OwnSlots : HeldThen(s, q, j) = s.slots[j]
    BY <1>5 DEF HeldThen, AfterDrops
  <1>8. QED
    BY <1>1, <1>2, <1>3, <1>4, <1>5, <1>6, <1>7

\* All contents are sent, and nothing is under way to the server.
LEMMA OwnContentSent ==
    ASSUME NEW s \in Players, NEW v \in Views, NEW msgs \in Seq(Messages), OwnComing(s, v, msgs),
           NEW r \in Players, s.sid <= r.sid, r.touched \subseteq r.changed,
           NEW q, q = <<>>, NEW frozen, NEW since, NEW stuck, since = "told" \/ stuck => r.changed = {}
    PROVE  OwnIn(r, q, v, msgs \o <<OwnContent(r)>>, frozen, since, stuck)
  <1> DEFINE m == OwnContent(r)
             more == msgs \o <<m>>
             W == Shows(v, msgs)
  <1>1. m \in Messages
    BY OwnContentIn
  <1>2. /\ m.type = "content" /\ m.win = 0 /\ m.sid = r.sid /\ m.slots = r.slots /\ m.carried = r.cursor
        /\ Sided(m) /\ OwnMessage(m)
    BY DEF OwnContent, Content, Sided, OwnMessage
  <1>3. v.win = 0 /\ \A k \in DOMAIN msgs : OwnMessage(msgs[k])
    BY OwnComingMessages DEF OwnComing
  <1>4. W \in Views /\ W.win = 0
    BY <1>3, ShowsOwn
  <1> HIDE DEF m
  <1>5. OwnComing(r, v, more)
    BY <1>1, <1>2, OwnComingAppended
  <1>6. Shows(v, more) = Shown(W, m)
    BY <1>1, ShowsAppended
  <1> HIDE DEF W, more
  <1>7. Shows(v, more).own = r.slots /\ Shows(v, more).cursor = r.cursor
    BY <1>1, <1>2, <1>4, <1>6, ShownOwn
  <1>8. OwnIn(r, q, v, more, frozen, since, stuck)
    BY <1>5, <1>7, OwnUnasked
  <1>9. QED
    BY <1>8 DEF more, m

\* A click outside of a window: DropCursor.
LEMMA OwnOutside ==
    ASSUME NEW s \in Players, NEW q \in Seq(Packets), q # <<>>, NEW v \in Views, NEW msgs \in Seq(Messages),
           NEW frozen, OwnIn(s, q, v, msgs, frozen, "packets", FALSE), Telling(s, "packets"),
           OutsideClick(Head(q)), NEW r \in Seq(Packets), Taken(q, r),
           NEW t \in Players, t = [s EXCEPT !.cursor = Empty, !.cursorChanged = TRUE]
    PROVE  OwnIn(t, r, v, msgs, frozen, "packets", FALSE)
  <1>1. Head(q).type = "click"
    BY DEF OutsideClick
  <1>2. OwnQueue(s, q) /\ OwnComing(s, v, msgs) /\ OwnMarks(s, q, "packets", FALSE) /\ OwnCursor(s, q)
        /\ OwnShown(s, q, Shows(v, msgs), frozen)
    BY DEF OwnIn
  <1>3. /\ r = <<>> /\ DOMAIN q = {1} /\ q[1] = Head(q)
        /\ ~Has(q, "swap") /\ \A j \in OwnSlots : HeldThen(s, q, j) = s.slots[j]
    BY <1>1, <1>2, OneClick
  <1>4. t.slots = s.slots /\ t.changed = s.changed /\ t.touched = s.touched /\ t.sid = s.sid
        /\ t.told = s.told /\ t.cursor = Empty /\ t.cursorChanged = TRUE
    BY DEF Players
  <1>5. Due(t) = Due(s)
    BY <1>4 DEF Due
  <1>6. CursorDue(t)
    <2>1. ~s.cursorChanged /\ s.cursor # Empty
      BY <1>3, <1>2 DEF OwnCursor
    <2>2. s.told # Empty
      BY <2>1, NotToldAssumption, StackFacts DEF Telling
    <2>3. QED
      BY <1>4, <2>2 DEF CursorDue
  <1>7. \A j \in OwnSlots \ Due(t) : Shows(v, msgs).own[j] = t.slots[j]
    <2>1. ~Resends(s, q, frozen)
      BY <1>3 DEF Resends, SlotClick
    <2>2. \A k \in DOMAIN q : ~SlotClick(q[k]) /\ ~DropKeyClick(q[k])
      BY <1>3 DEF SlotClick, DropKeyClick, OutsideClick
    <2>3. QED
      BY <1>2, <1>3, <1>4, <1>5, <2>1, <2>2 DEF OwnShown
  <1>8. OwnComing(t, v, msgs)
    BY <1>2, <1>4, OwnComingSame
  <1>9. t.touched \subseteq t.changed
    BY <1>2, <1>4 DEF OwnMarks
  <1>10. QED
    BY <1>3, <1>6, <1>7, <1>8, <1>9, OwnUnasked

\* More is due when more has changed.
LEMMA DueGrows ==
    ASSUME NEW s \in Players, NEW t \in Players, s.changed \subseteq t.changed, t.touched = s.touched
    PROVE  Due(s) \subseteq Due(t)
  <1>1. t.changed = AllBits \/ t.changed \subseteq OwnSlots
    BY DEF Players
  <1>2. OffHand + 1 \in AllBits /\ OffHand + 1 \notin OwnSlots
    BY Sizes DEF AllBits, OwnSlots, OffHand
  <1>3. s.changed = AllBits => t.changed = AllBits
    BY <1>1, <1>2
  <1>4. QED
    BY <1>3 DEF Due

\* SetSlots, by what it does to the rest.
LEMMA SetSlotsRest ==
    ASSUME NEW s \in Players, NEW slots \in [OwnSlots -> Stacks]
    PROVE  LET t == SetSlots(s, slots)
           IN  /\ t \in Players /\ t.slots = slots /\ t.cursor = s.cursor /\ t.cursorChanged = s.cursorChanged
               /\ t.told = s.told /\ t.touched = s.touched /\ t.sid = s.sid /\ t.win = s.win
               /\ t.open = s.open /\ t.closed = s.closed
               /\ t.changed = s.changed \cup {i \in OwnSlots : slots[i] # s.slots[i]}
  <1>1. SetSlots(s, slots) \in Players
    BY SetSlotsPlayer
  <1>2. DOMAIN slots = OwnSlots
    OBVIOUS
  <1>3. QED
    BY <1>1, <1>2 DEF SetSlots, Players

\* What the client will show, of which it has sent the drop key p.
KeyTold(s, p, w) ==
    /\ s.touched \subseteq {FirstMain} /\ s.cursor = Empty
    /\ ~CursorDue(s) => w.cursor = s.cursor
    /\ DOMAIN p.changes = {p.at}
    /\ \A j \in OwnSlots \ Due(s) :
          \/ w.own[j] = s.slots[j]
          \/ j = p.at /\ w.own[j] = p.changes[j]
    /\ p.at = FirstMain /\ FirstMain \in s.touched =>
          w.own[FirstMain] =
              WithCount(s.slots[FirstMain], IF p.button = 1 THEN 0 ELSE s.slots[FirstMain].count - 1)

\* The drop key at a slot: what a click without a window has to say of it.
LEMMA OwnKey ==
    ASSUME NEW s \in Players, NEW q \in Seq(Packets), q # <<>>, NEW v \in Views, NEW msgs \in Seq(Messages),
           OwnIn(s, q, v, msgs, FALSE, "packets", FALSE),
           DropKeyClick(Head(q)), NEW r \in Seq(Packets), Taken(q, r)
    PROVE  Nothing(r) /\ KeyTold(s, Head(q), Shows(v, msgs))
  <1> DEFINE p == Head(q)
  <1>1. p.type = "click"
    BY DEF DropKeyClick
  <1>2. /\ OwnQueue(s, q) /\ OwnMarks(s, q, "packets", FALSE) /\ OwnCursor(s, q)
        /\ OwnShown(s, q, Shows(v, msgs), FALSE)
    BY DEF OwnIn
  <1>3. /\ r = <<>> /\ DOMAIN q = {1} /\ q[1] = p /\ Has(q, "click")
        /\ ~Has(q, "drop") /\ \A j \in OwnSlots : HeldThen(s, q, j) = s.slots[j]
    BY <1>1, <1>2, OneClick
  <1>4. ~SlotClick(p) /\ ~OutsideClick(p)
    BY DEF SlotClick, OutsideClick, DropKeyClick
  <1>5. ~Resends(s, q, FALSE)
    BY <1>3, <1>4 DEF Resends
  <1>6. KeyPredicted(s, q, Shows(v, msgs), p)
    BY <1>2, <1>3, <1>5 DEF OwnShown
  <1>7. s.touched \subseteq {FirstMain} /\ s.cursor = Empty
    BY <1>2, <1>3 DEF OwnMarks, OwnCursor
  <1>8. ~CursorDue(s) => Shows(v, msgs).cursor = s.cursor
    BY <1>2, <1>3, <1>4 DEF OwnShown
  <1> HIDE DEF p
  <1>9. FirstMain \in OwnSlots
    BY SlotsAre
  <1>10. QED
    BY <1>3, <1>6, <1>7, <1>8, <1>9 DEF KeyPredicted, KeyTold, Nothing, p

\* The server applies the drop key at a slot.
LEMMA OwnKeyDropped ==
    ASSUME NEW s \in Players, NEW q \in Seq(Packets), q # <<>>, NEW v \in Views, NEW msgs \in Seq(Messages),
           OwnIn(s, q, v, msgs, FALSE, "packets", FALSE),
           DropKeyClick(Head(q)), NEW r \in Seq(Packets), Taken(q, r),
           NEW at \in OwnSlots, at = Head(q).at, s.slots[at] # Empty,
           NEW n, n = IF Head(q).button = 1 THEN 0 ELSE s.slots[at].count - 1,
           NEW t \in Players, t = SetSlots(s, [s.slots EXCEPT ![at] = WithCount(s.slots[at], n)])
    PROVE  OwnIn(t, r, v, msgs, FALSE, "packets", FALSE)
  <1> DEFINE slots == [s.slots EXCEPT ![at] = WithCount(s.slots[at], n)]
             W == Shows(v, msgs)
  <1>1. Nothing(r) /\ KeyTold(s, Head(q), W)
    BY OwnKey
  <1>2. s.slots \in [OwnSlots -> Stacks] /\ s.slots[at] \in Stacks
    BY DEF Players
  <1>3. s.slots[at].count \in 1..MaxStack
    BY <1>2, StackFacts, Sizes
  <1>4. n \in 0..MaxStack /\ (n = 0 \/ n = s.slots[at].count - 1)
    BY <1>3, Sizes
  <1>5. WithCount(s.slots[at], n) \in Stacks /\ WithCount(s.slots[at], n) # s.slots[at]
    BY <1>2, <1>4, WithCountIn, LessIsOther
  <1>6. slots \in [OwnSlots -> Stacks]
    BY <1>2, <1>5
  <1>7. \A j \in OwnSlots : slots[j] = IF j = at THEN WithCount(s.slots[at], n) ELSE s.slots[j]
    BY <1>2
  <1> HIDE DEF slots, W
  <1>8. /\ t.slots = slots /\ t.cursor = s.cursor /\ t.cursorChanged = s.cursorChanged
        /\ t.told = s.told /\ t.touched = s.touched /\ t.sid = s.sid /\ t.win = s.win
        /\ t.changed = s.changed \cup {i \in OwnSlots : slots[i] # s.slots[i]}
    <2> DEFINE u == SetSlots(s, slots)
    <2>1. /\ u.slots = slots /\ u.cursor = s.cursor /\ u.cursorChanged = s.cursorChanged
          /\ u.told = s.told /\ u.touched = s.touched /\ u.sid = s.sid /\ u.win = s.win
          /\ u.changed = s.changed \cup {i \in OwnSlots : slots[i] # s.slots[i]}
      BY <1>6, SetSlotsRest
    <2>2. t = u
      BY DEF slots
    <2> HIDE DEF u
    <2>3. QED
      BY <2>1, <2>2
  <1>9. Due(s) \subseteq Due(t)
    <2>1. s.changed \subseteq t.changed /\ t.touched = s.touched
      BY <1>8
    <2>2. \A u \in Players : s.changed \subseteq u.changed /\ u.touched = s.touched => Due(s) \subseteq Due(u)
      BY DueGrows
    <2>3. QED
      BY <2>1, <2>2
  <1>10. ASSUME NEW j \in OwnSlots \ Due(t) PROVE W.own[j] = t.slots[j]
    <2>1. CASE j # at
      <3>1. j \in OwnSlots \ Due(s)
        BY <1>9, <1>10
      <3>2. W.own[j] = s.slots[j]
        BY <1>1, <2>1, <3>1 DEF KeyTold
      <3>3. QED
        BY <1>7, <1>8, <2>1, <3>1, <3>2
    <2>2. CASE j = at
      <3>1. at \in t.changed
        BY <1>5, <1>7, <1>8
      <3>2. at \in s.touched
        BY <1>8, <1>10, <2>2, <3>1 DEF Due
      <3>3. at = FirstMain
        BY <1>1, <3>2 DEF KeyTold
      <3>4. W.own[at] = WithCount(s.slots[at], n)
        BY <1>1, <3>2, <3>3 DEF KeyTold
      <3>5. QED
        BY <1>7, <1>8, <2>2, <3>4
    <2>3. QED
      BY <2>1, <2>2
  <1>11. ~CursorDue(t) => W.cursor = t.cursor
    BY <1>1, <1>8 DEF CursorDue, KeyTold
  <1>12. OwnComing(t, v, msgs)
    <2>1. OwnComing(s, v, msgs) /\ t.sid = s.sid
      BY <1>8 DEF OwnIn
    <2>2. QED
      BY <2>1, OwnComingSame
  <1>13. t.touched \subseteq t.changed
    BY <1>8 DEF OwnIn, OwnMarks
  <1>14. QED
    BY <1>1, <1>10, <1>11, <1>12, <1>13, OwnUnasked DEF W, Nothing

\* There is nothing to drop.
LEMMA OwnKeyIdle ==
    ASSUME NEW s \in Players, NEW q \in Seq(Packets), q # <<>>, NEW v \in Views, NEW msgs \in Seq(Messages),
           OwnIn(s, q, v, msgs, FALSE, "packets", FALSE),
           DropKeyClick(Head(q)), NEW r \in Seq(Packets), Taken(q, r),
           Head(q).at \in OwnSlots, s.slots[Head(q).at] = Empty,
           DOMAIN Head(q).changes = {Head(q).at} => Head(q).changes[Head(q).at] = Empty
    PROVE  OwnIn(s, r, v, msgs, FALSE, "packets", FALSE)
  <1> DEFINE W == Shows(v, msgs)
             p == Head(q)
  <1>1. Nothing(r) /\ KeyTold(s, p, W)
    BY OwnKey
  <1> HIDE DEF W, p
  <1>2. \A j \in OwnSlots \ Due(s) : W.own[j] = s.slots[j]
    BY <1>1 DEF p, KeyTold
  <1>3. OwnComing(s, v, msgs) /\ s.touched \subseteq s.changed
    BY DEF OwnIn, OwnMarks
  <1>4. QED
    BY <1>1, <1>2, <1>3, OwnUnasked DEF W, KeyTold, Nothing

\* What ApplyClick does to s for the click p: the slots D are set as in new.
Applies(s, p, D, new, t) ==
    /\ SlotClick(p) /\ p.sid = s.sid
    /\ D = DOMAIN p.changes /\ D \subseteq OwnSlots
    /\ \A j \in D : new[j] = IF p.mode = "DoubleClick"
                           THEN WithCount(s.slots[j], p.changes[j].count) ELSE p.changes[j]
    /\ t.cursor = p.carried /\ t.told = t.cursor /\ t.sid = s.sid
    /\ \A j \in OwnSlots : t.slots[j] = IF j \in D THEN new[j] ELSE s.slots[j]
    /\ t.touched = s.touched \cup D
    /\ t.changed = s.changed \cup {i \in OwnSlots : t.slots[i] # s.slots[i]}

\* Any other click, applied by ApplyClick to a player who is not read-only.
LEMMA OwnApplied ==
    ASSUME NEW s \in Players, NEW q \in Seq(Packets), q # <<>>, NEW v \in Views, NEW msgs \in Seq(Messages),
           OwnIn(s, q, v, msgs, FALSE, "packets", FALSE),
           NEW r \in Seq(Packets), Taken(q, r),
           NEW D, NEW new, NEW t \in Players, Applies(s, Head(q), D, new, t)
    PROVE  OwnIn(t, r, v, msgs, FALSE, "packets", FALSE)
  <1> DEFINE p == Head(q)
             W == Shows(v, msgs)
  <1> USE DEF Applies
  <1>1. p.type = "click" /\ ~DropKeyClick(p) /\ ~OutsideClick(p)
    BY DEF SlotClick
  <1>2. /\ OwnQueue(s, q) /\ OwnMarks(s, q, "packets", FALSE) /\ OwnShown(s, q, W, FALSE)
        /\ OwnComing(s, v, msgs)
    BY DEF OwnIn
  <1>3. /\ r = <<>> /\ DOMAIN q = {1} /\ q[1] = p /\ Has(q, "click")
        /\ \A j \in OwnSlots : HeldThen(s, q, j) = s.slots[j]
    BY <1>1, <1>2, OneClick
  <1>4. ~Resends(s, q, FALSE)
    BY <1>3 DEF Resends
  <1>5. SlotsPredicted(s, q, W, p)
    BY <1>2, <1>3, <1>4 DEF OwnShown
  <1>6. s.changed \subseteq {FirstMain} /\ s.changed = s.touched
    BY <1>2, <1>3 DEF OwnMarks
  <1>7. Due(s) = {}
    <2>1. s.changed # AllBits
      <3>1. 0 \in AllBits /\ 0 # FirstMain
        BY Sizes DEF AllBits, OffHand, FirstMain
      <3>2. QED
        BY <1>6, <3>1
    <2>2. QED
      BY <1>6, <2>1 DEF Due
  <1> HIDE DEF p, W
  <1>8. /\ W.cursor = p.carried
        /\ \A j \in OwnSlots :
              IF j \in D
              THEN /\ W.own[j] = p.changes[j] /\ p.changes[j] # s.slots[j]
                   /\ p.mode = "DoubleClick" => p.changes[j] = WithCount(s.slots[j], p.changes[j].count)
              ELSE W.own[j] = s.slots[j]
    BY <1>3, <1>5, <1>7 DEF SlotsPredicted, p
  <1>9. \A j \in OwnSlots : W.own[j] = t.slots[j] /\ (j \in D => t.slots[j] # s.slots[j])
    BY <1>8 DEF p
  <1>10. t.touched \subseteq t.changed
    BY <1>6, <1>9
  <1>11. OwnComing(t, v, msgs)
    BY <1>2, OwnComingSame
  <1>12. W.cursor = t.cursor
    BY <1>8 DEF p
  <1>13. QED
    BY <1>3, <1>9, <1>10, <1>11, <1>12, OwnUnasked DEF W

\* The rest of a queue that began with a drop or a swap.
LEMMA QueueRest ==
    ASSUME NEW s \in Players, NEW q \in Seq(Packets), q # <<>>, OwnQueue(s, q),
           NEW r \in Seq(Packets), Taken(q, r), NEW t, t.sid = s.sid
    PROVE  /\ OwnQueue(t, r)
           /\ Len(q) \in Nat /\ Len(q) >= 1 /\ Len(r) = Len(q) - 1
           /\ DOMAIN q = 1..Len(q) /\ DOMAIN r = 1..Len(r)
           /\ q[1] = Head(q) /\ 1 \in DOMAIN q
           /\ \A k \in DOMAIN r : k + 1 \in DOMAIN q /\ r[k] = q[k + 1]
           /\ \A k \in DOMAIN q : k = 1 \/ (k - 1 \in DOMAIN r /\ r[k - 1] = q[k])
           /\ TypesIn(q) = TypesIn(r) \cup {Head(q).type}
  <1>1. /\ Len(q) \in Nat /\ Len(q) >= 1 /\ Len(r) = Len(q) - 1
        /\ DOMAIN q = 1..Len(q) /\ DOMAIN r = 1..(Len(q) - 1)
        /\ q[1] = Head(q) /\ 1 \in DOMAIN q
        /\ \A k \in DOMAIN r : k + 1 \in DOMAIN q /\ r[k] = q[k + 1]
        /\ \A k \in DOMAIN q : k = 1 \/ (k - 1 \in DOMAIN r /\ r[k - 1] = q[k])
        /\ TypesIn(q) = TypesIn(r) \cup {Head(q).type}
    BY QueueTaken
  <1>2. ~Has(r, "close")
    BY <1>1 DEF OwnQueue, Has
  <1>3. ASSUME NEW k \in DOMAIN r, r[k].type = "click" PROVE k = Len(r) /\ r[k].win = 0 /\ r[k].sid <= t.sid
    <2>1. k + 1 \in DOMAIN q /\ q[k + 1].type = "click"
      BY <1>1, <1>3
    <2>2. k + 1 = Len(q) /\ q[k + 1].win = 0 /\ q[k + 1].sid <= s.sid
      BY <2>1 DEF OwnQueue
    <2>3. QED
      BY <1>1, <1>3, <2>2
  <1>4. Has(r, "swap") => \A k \in DOMAIN r : r[k].type = "swap"
    BY <1>1 DEF OwnQueue, Has
  <1>5. QED
    BY <1>1, <1>2, <1>3, <1>4 DEF OwnQueue

\* The server refuses a drop or swap: the contents, with the same state id.
LEMMA OwnHeldReadonly ==
    ASSUME NEW s \in Players, NEW q \in Seq(Packets), q # <<>>, NEW v \in Views, NEW msgs \in Seq(Messages),
           OwnIn(s, q, v, msgs, TRUE, "packets", FALSE),
           Head(q).type \in {"drop", "swap"}, NEW r \in Seq(Packets), Taken(q, r)
    PROVE  OwnIn(s, r, v, msgs \o <<Content(0, s.sid, s.slots, Empty)>>, TRUE, "packets", FALSE)
  <1> DEFINE m == Content(0, s.sid, s.slots, Empty)
             more == msgs \o <<m>>
             W == Shows(v, msgs)
  <1>1. m \in Messages
    BY OwnContentIn
  <1>2. /\ m.type = "content" /\ m.win = 0 /\ m.sid = s.sid /\ m.slots = s.slots /\ m.carried = Empty
        /\ Sided(m) /\ OwnMessage(m)
    BY DEF Content, Sided, OwnMessage
  <1>3. OwnQueue(s, q) /\ OwnComing(s, v, msgs) /\ OwnMarks(s, q, "packets", FALSE) /\ OwnCursor(s, q)
    BY DEF OwnIn
  <1>4. v.win = 0 /\ \A k \in DOMAIN msgs : OwnMessage(msgs[k])
    BY <1>3, OwnComingMessages DEF OwnComing
  <1>5. W \in Views /\ W.win = 0
    BY <1>4, ShowsOwn
  <1> HIDE DEF m
  <1>6. OwnComing(s, v, more)
    <2>1. s.sid <= s.sid
      BY SidIn
    <2>2. QED
      BY <1>1, <1>2, <1>3, <2>1, OwnComingAppended
  <1>7. Shows(v, more) = Shown(W, m)
    BY <1>1, ShowsAppended
  <1> HIDE DEF W, more
  <1>8. Shows(v, more).own = s.slots /\ Shows(v, more).cursor = Empty
    BY <1>1, <1>2, <1>5, <1>7, ShownOwn
  <1>9. /\ OwnQueue(s, r) /\ 1 \in DOMAIN q /\ q[1] = Head(q)
        /\ \A k \in DOMAIN r : k + 1 \in DOMAIN q /\ r[k] = q[k + 1]
        /\ TypesIn(q) = TypesIn(r) \cup {Head(q).type}
    BY <1>3, QueueRest
  <1>10. /\ Has(q, "drop") \/ Has(q, "swap")
         /\ Has(r, "drop") => Has(q, "drop")
         /\ Has(r, "swap") => Has(q, "swap")
         /\ Has(r, "click") => Has(q, "click")
    BY <1>9 DEF Has
  <1>11. s.cursor = Empty /\ ~CursorDue(s)
    BY <1>3, <1>10 DEF OwnCursor
  <1>12. OwnMarks(s, r, "packets", FALSE)
    BY <1>3, <1>10 DEF OwnMarks
  <1>13. OwnCursor(s, r)
    <2>1. r # <<>> /\ ~Has(r, "swap") => ~s.cursorChanged
      <3>1. r # <<>> /\ ~Has(r, "swap") => ~Has(q, "swap")
        <4>1. ASSUME r # <<>>, Has(q, "swap") PROVE Has(r, "swap")
          <5>1. 1 \in DOMAIN r
            BY <4>1
          <5>2. r[1].type = "swap"
            BY <1>3, <1>9, <4>1, <5>1 DEF OwnQueue
          <5>3. QED
            BY <5>1, <5>2 DEF Has, TypesIn
        <4>2. QED
          BY <4>1
      <3>2. QED
        BY <1>3, <3>1 DEF OwnCursor
    <2>2. \A k \in DOMAIN r : /\ DropKeyClick(r[k]) => s.cursor = Empty
                              /\ OutsideClick(r[k]) => s.cursor # Empty
      BY <1>3, <1>9 DEF OwnCursor
    <2>3. QED
      BY <1>11, <2>1, <2>2 DEF OwnCursor
  <1>14. OwnDrops(s, r, more, TRUE)
    BY DEF OwnDrops
  <1>15. OwnShown(s, r, Shows(v, more), TRUE)
    <2>1. \A k \in DOMAIN r : ~OutsideClick(r[k])
      BY <1>11, <1>13 DEF OwnCursor
    <2>2. r # <<>> => Resends(s, r, TRUE)
      <3>1. r # <<>> => 1 \in DOMAIN r
        OBVIOUS
      <3>2. QED
        BY <2>1, <3>1 DEF Resends
    <2>3. r = <<>> => \A j \in OwnSlots : HeldThen(s, r, j) = s.slots[j]
      BY DEF HeldThen, AfterDrops, Has, TypesIn
    <2>4. r = <<>> => DOMAIN r = {}
      OBVIOUS
    <2>5. QED
      BY <1>8, <1>11, <2>2, <2>3, <2>4 DEF OwnShown
  <1>16. OwnIn(s, r, v, more, TRUE, "packets", FALSE)
    BY <1>6, <1>9, <1>12, <1>13, <1>14, <1>15 DEF OwnIn
  <1>17. QED
    BY <1>16 DEF more, m

\* The server swaps hands.
LEMMA OwnHandsSwapped ==
    ASSUME NEW s \in Players, NEW q \in Seq(Packets), q # <<>>, NEW v \in Views, NEW msgs \in Seq(Messages),
           OwnIn(s, q, v, msgs, FALSE, "packets", FALSE),
           Head(q).type = "swap", NEW r \in Seq(Packets), Taken(q, r),
           NEW slots \in [OwnSlots -> Stacks], NEW t \in Players, t = SetSlots(s, slots)
    PROVE  OwnIn(t, r, v, msgs, FALSE, "packets", FALSE)
  <1> DEFINE W == Shows(v, msgs)
  <1>1. OwnQueue(s, q) /\ OwnComing(s, v, msgs) /\ OwnMarks(s, q, "packets", FALSE) /\ OwnCursor(s, q)
        /\ OwnShown(s, q, W, FALSE)
    BY DEF OwnIn
  <1> HIDE DEF W
  <1>2. /\ t.slots = slots /\ t.cursor = s.cursor /\ t.cursorChanged = s.cursorChanged
        /\ t.told = s.told /\ t.touched = s.touched /\ t.sid = s.sid
        /\ t.changed = s.changed \cup {i \in OwnSlots : slots[i] # s.slots[i]}
    BY SetSlotsRest
  <1>3. /\ OwnQueue(t, r) /\ 1 \in DOMAIN q /\ q[1] = Head(q)
        /\ \A k \in DOMAIN r : k + 1 \in DOMAIN q /\ r[k] = q[k + 1]
        /\ TypesIn(q) = TypesIn(r) \cup {Head(q).type}
    BY <1>1, <1>2, QueueRest
  <1>4. Has(q, "swap")
    BY <1>3 DEF Has
  <1>5. \A k \in DOMAIN q : q[k].type = "swap"
    BY <1>1, <1>4 DEF OwnQueue
  <1>6. \A k \in DOMAIN r : r[k].type = "swap"
    BY <1>3, <1>5
  <1>7. ~Has(q, "drop") /\ ~Has(q, "click") /\ ~Has(r, "drop") /\ ~Has(r, "click")
    BY <1>5, <1>6 DEF Has, TypesIn
  <1>8. /\ \A k \in DOMAIN r : ~SlotClick(r[k]) /\ ~OutsideClick(r[k]) /\ ~DropKeyClick(r[k])
        /\ \A k \in DOMAIN q : ~SlotClick(q[k]) /\ ~OutsideClick(q[k]) /\ ~DropKeyClick(q[k])
    BY <1>5, <1>6 DEF SlotClick, OutsideClick, DropKeyClick
  <1>9. s.touched = {} /\ s.cursor = Empty /\ ~CursorDue(s)
    BY <1>1, <1>4 DEF OwnMarks, OwnCursor
  <1>10. OwnMarks(t, r, "packets", FALSE)
    BY <1>2, <1>7, <1>9 DEF OwnMarks
  <1>11. OwnCursor(t, r)
    <2>1. r # <<>> => Has(r, "swap")
      <3>1. r # <<>> => 1 \in DOMAIN r
        OBVIOUS
      <3>2. QED
        BY <1>6, <3>1 DEF Has, TypesIn
    <2>2. QED
      BY <1>2, <1>8, <1>9, <2>1 DEF OwnCursor, CursorDue
  <1>12. OwnDrops(t, r, msgs, FALSE)
    BY <1>7 DEF OwnDrops
  <1>13. Due(s) \subseteq Due(t)
    BY <1>2, DueGrows
  <1>14. ASSUME NEW j \in OwnSlots \ Due(t) PROVE W.own[j] = HeldThen(t, r, j)
    <2>1. ~Resends(s, q, FALSE)
      BY <1>8 DEF Resends
    <2>2. W.own[j] = HeldThen(s, q, j)
      BY <1>1, <1>8, <1>13, <1>14, <2>1 DEF OwnShown
    <2>3. HeldThen(s, q, j) = s.slots[j] /\ HeldThen(t, r, j) = slots[j]
      BY <1>2, <1>7 DEF HeldThen, AfterDrops
    <2>4. slots[j] = s.slots[j]
      BY <1>2, <1>9, <1>14 DEF Due
    <2>5. QED
      BY <2>2, <2>3, <2>4
  <1>15. W.cursor = s.cursor
    BY <1>1, <1>8, <1>9 DEF OwnShown
  <1>16. OwnShown(t, r, W, FALSE)
    BY <1>2, <1>8, <1>14, <1>15 DEF OwnShown
  <1>17. OwnComing(t, v, msgs)
    BY <1>1, <1>2, OwnComingSame
  <1>18. QED
    BY <1>3, <1>10, <1>11, <1>12, <1>16, <1>17 DEF OwnIn, W

\* A queue that begins with a drop.
LEMMA DropFirst ==
    ASSUME NEW s \in Players, NEW q \in Seq(Packets), q # <<>>, OwnQueue(s, q),
           Head(q).type = "drop", NEW r \in Seq(Packets), Taken(q, r)
    PROVE  /\ Has(q, "drop") /\ ~Has(q, "swap") /\ ~Has(r, "swap")
           /\ Has(q, "click") => Has(r, "click")
           /\ Has(r, "click") => Has(q, "click")
           /\ Drops(q) = Drops(r) + 1 /\ Drops(r) \in Nat
           /\ ~Has(r, "drop") => Drops(r) = 0
           /\ DropsAll(q) => Head(q).all \/ DropsAll(r)
           /\ Head(q).all \/ DropsAll(r) => DropsAll(q)
           /\ DropsAll(r) => Has(r, "drop")
  <1>1. /\ OwnQueue(s, r)
        /\ Len(q) \in Nat /\ Len(q) >= 1 /\ Len(r) = Len(q) - 1
        /\ DOMAIN q = 1..Len(q) /\ DOMAIN r = 1..Len(r)
        /\ q[1] = Head(q) /\ 1 \in DOMAIN q
        /\ \A k \in DOMAIN r : k + 1 \in DOMAIN q /\ r[k] = q[k + 1]
        /\ \A k \in DOMAIN q : k = 1 \/ (k - 1 \in DOMAIN r /\ r[k - 1] = q[k])
        /\ TypesIn(q) = TypesIn(r) \cup {Head(q).type}
    BY QueueRest
  <1>2. Has(q, "drop") /\ (Has(q, "click") => Has(r, "click")) /\ (Has(r, "click") => Has(q, "click"))
        /\ (Has(r, "swap") => Has(q, "swap"))
    BY <1>1 DEF Has
  <1>3. ~Has(q, "swap")
    BY <1>1 DEF OwnQueue
  <1>4. Len(r) \in Nat
    BY <1>1
  <1>5. Has(r, "click") => Len(r) >= 1
    BY <1>1 DEF Has, TypesIn
  <1>6. Drops(q) = Drops(r) + 1 /\ Drops(r) \in Nat
    BY <1>1, <1>2, <1>4, <1>5 DEF Drops
  <1>7. ASSUME ~Has(r, "drop") PROVE Drops(r) = 0
    <2>1. \A k \in DOMAIN r : r[k].type = "click"
      <3>1. \A k \in DOMAIN r : r[k] \in Packets
        OBVIOUS
      <3>2. ~Has(r, "close") /\ ~Has(r, "swap")
        BY <1>1, <1>2, <1>3 DEF OwnQueue
      <3>3. QED
        BY <1>7, <3>1, <3>2, PacketTypesAre DEF Has, TypesIn
    <2>2. \A k \in DOMAIN r : k = Len(r)
      BY <1>1, <2>1 DEF OwnQueue
    <2>3. Len(r) = 0 \/ (Len(r) = 1 /\ 1 \in DOMAIN r)
      <3>1. Len(r) >= 1 => 1 \in DOMAIN r
        BY <1>1, <1>4
      <3>2. 1 \in DOMAIN r => 1 = Len(r)
        BY <2>2
      <3>3. Len(r) = 0 \/ Len(r) >= 1
        BY <1>4
      <3>4. QED
        BY <3>1, <3>2, <3>3
    <2>4. Len(r) = 1 => Has(r, "click")
      BY <2>1, <2>3 DEF Has, TypesIn
    <2>5. QED
      BY <1>5, <2>3, <2>4 DEF Drops
  <1>8. /\ DropsAll(q) => Head(q).all \/ DropsAll(r)
        /\ Head(q).all \/ DropsAll(r) => DropsAll(q)
    BY <1>1 DEF DropsAll
  <1>9. DropsAll(r) => Has(r, "drop")
    BY DEF DropsAll, Has, TypesIn
  <1>10. QED
    BY <1>2, <1>3, <1>6, <1>7, <1>8, <1>9

\* What is left of a stack after all drops under way is what is left after the
\* others of what the first has left.
LEMMA AfterFirstDrop ==
    ASSUME NEW s \in Players, NEW q \in Seq(Packets), q # <<>>, OwnQueue(s, q),
           Head(q).type = "drop", NEW r \in Seq(Packets), Taken(q, r),
           NEW st \in Stacks, Drops(q) <= st.count, Head(q).all => ~Has(r, "drop"),
           NEW left, left = WithCount(st, IF Head(q).all THEN 0 ELSE st.count - 1)
    PROVE  /\ st # Empty /\ left \in Stacks /\ left # st
           /\ AfterDrops(left, r) = AfterDrops(st, q)
           /\ Has(r, "drop") => Drops(r) <= left.count
  <1>1. /\ Has(q, "drop") /\ Drops(q) = Drops(r) + 1 /\ Drops(r) \in Nat
        /\ ~Has(r, "drop") => Drops(r) = 0
        /\ DropsAll(q) => Head(q).all \/ DropsAll(r)
        /\ Head(q).all \/ DropsAll(r) => DropsAll(q)
        /\ DropsAll(r) => Has(r, "drop")
    BY DropFirst
  <1>2. st.count \in 1..MaxStack /\ MaxStack \in Nat
    BY <1>1, StackFacts, Sizes
  <1>3. st # Empty
    BY <1>2, StackFacts
  <1> DEFINE n == IF Head(q).all THEN 0 ELSE st.count - 1
  <1>4. n \in 0..MaxStack /\ (n = 0 \/ n = st.count - 1)
    BY <1>2
  <1>5. left \in Stacks /\ left # st /\ left.count = n
    BY <1>3, <1>4, LessIsOther, WithCountIn
  <1>6. CASE Head(q).all
    <2>1. left = Empty
      BY <1>6, NoneLeft
    <2>2. QED
      BY <1>1, <1>3, <1>5, <1>6, <2>1 DEF AfterDrops
  <1>7. CASE ~Head(q).all
    <2>1. n = st.count - 1
      BY <1>7
    <2>2. CASE ~Has(r, "drop")
      <3>1. ~DropsAll(q) /\ Drops(q) = 1
        BY <1>1, <1>7, <2>2
      <3>2. QED
        BY <1>1, <1>3, <1>5, <1>7, <2>2, <3>1 DEF AfterDrops
    <2>3. CASE Has(r, "drop")
      <3>1. Drops(r) <= left.count
        BY <1>1, <1>2, <1>5, <2>1
      <3>2. CASE DropsAll(r)
        <4>1. AfterDrops(left, r) = Empty /\ AfterDrops(st, q) = Empty
          BY <1>1, <2>3, <3>2 DEF AfterDrops
        <4>2. QED
          BY <1>3, <1>5, <3>1, <4>1
      <3>3. CASE ~DropsAll(r)
        <4>1. ~DropsAll(q)
          BY <1>1, <1>7, <3>3
        <4>2. AfterDrops(left, r) = WithCount(left, left.count - Drops(r))
          BY <2>3, <3>3 DEF AfterDrops
        <4>3. AfterDrops(st, q) = WithCount(st, st.count - Drops(q))
          BY <1>1, <4>1 DEF AfterDrops
        <4>4. st.count - Drops(q) = left.count - Drops(r)
          BY <1>1, <1>2, <1>5, <2>1
        <4>5. CASE n = 0
          <5>1. left.count - Drops(r) = 0
            BY <1>1, <1>5, <3>1, <4>5
          <5>2. QED
            BY <1>3, <1>5, <3>1, <4>2, <4>3, <4>4, <5>1, NoneLeft
        <4>6. CASE n # 0
          <5>1. left = WithCount(st, n)
            OBVIOUS
          <5> HIDE DEF n
          <5>4. n \in 1..MaxStack
            BY <1>2, <1>4, <4>6
          <5> DEFINE m == left.count - Drops(r)
          <5>2. WithCount(left, m) = WithCount(st, m)
            <6> HIDE DEF m
            <6>1. WithCount(WithCount(st, n), m) = WithCount(st, m)
              BY <5>4, WithCountTwice
            <6>2. QED
              BY <5>1, <6>1
          <5>3. QED
            BY <1>3, <1>5, <3>1, <4>2, <4>3, <4>4, <5>2
        <4>7. QED
          BY <4>5, <4>6
      <3>4. QED
        BY <3>2, <3>3
    <2>4. QED
      BY <2>2, <2>3
  <1>8. QED
    BY <1>6, <1>7

\* A player of whose stack in hand something is left.
HeldLess(s, left) ==
    [SetSlots(s, [s.slots EXCEPT ![FirstMain] = left]) EXCEPT !.touched = @ \cup {FirstMain}]

\* The server drops from the hand.
LEMMA OwnHeldDropped ==
    ASSUME NEW s \in Players, NEW q \in Seq(Packets), q # <<>>, NEW v \in Views, NEW msgs \in Seq(Messages),
           OwnIn(s, q, v, msgs, FALSE, "packets", FALSE),
           Head(q).type = "drop", NEW r \in Seq(Packets), Taken(q, r),
           NEW left, left = WithCount(s.slots[FirstMain], IF Head(q).all THEN 0 ELSE s.slots[FirstMain].count - 1),
           NEW t \in Players, t = HeldLess(s, left)
    PROVE  s.slots[FirstMain] # Empty /\ OwnIn(t, r, v, msgs, FALSE, "packets", FALSE)
  <1> DEFINE W == Shows(v, msgs)
             st == s.slots[FirstMain]
             slots == [s.slots EXCEPT ![FirstMain] = left]
  <1>1. OwnQueue(s, q) /\ OwnComing(s, v, msgs) /\ OwnMarks(s, q, "packets", FALSE) /\ OwnCursor(s, q)
        /\ OwnDrops(s, q, msgs, FALSE) /\ OwnShown(s, q, W, FALSE)
    BY DEF OwnIn
  <1>2. /\ Has(q, "drop") /\ ~Has(q, "swap") /\ ~Has(r, "swap")
        /\ Has(q, "click") => Has(r, "click")
        /\ Has(r, "click") => Has(q, "click")
        /\ Drops(q) = Drops(r) + 1 /\ Drops(r) \in Nat
        /\ ~Has(r, "drop") => Drops(r) = 0
        /\ DropsAll(q) => Head(q).all \/ DropsAll(r)
        /\ Head(q).all \/ DropsAll(r) => DropsAll(q)
        /\ DropsAll(r) => Has(r, "drop")
    BY <1>1, DropFirst
  <1>3. /\ Len(q) \in Nat /\ Len(q) >= 1 /\ Len(r) = Len(q) - 1
        /\ DOMAIN q = 1..Len(q) /\ DOMAIN r = 1..Len(r)
        /\ q[1] = Head(q) /\ 1 \in DOMAIN q
        /\ \A k \in DOMAIN r : k + 1 \in DOMAIN q /\ r[k] = q[k + 1]
        /\ \A k \in DOMAIN q : k = 1 \/ (k - 1 \in DOMAIN r /\ r[k - 1] = q[k])
        /\ TypesIn(q) = TypesIn(r) \cup {Head(q).type}
    BY <1>1, QueueRest
  <1>4. s.slots \in [OwnSlots -> Stacks] /\ FirstMain \in OwnSlots /\ st \in Stacks
    BY SlotsAre DEF Players
  <1>5. /\ \A k, l \in DOMAIN q : k < l /\ q[k].type = "drop" /\ q[k].all => q[l].type # "drop"
        /\ Drops(q) <= st.count
        /\ \A k \in DOMAIN msgs :
              /\ msgs[k].type # "content"
              /\ msgs[k].type = "slots" => FirstMain \notin DOMAIN msgs[k].stacks
    BY <1>1, <1>2 DEF OwnDrops
  <1>6. Head(q).all => ~Has(r, "drop")
    <2> SUFFICES ASSUME Head(q).all, NEW k \in DOMAIN r, r[k].type = "drop" PROVE FALSE
      BY DEF Has, TypesIn
    <2>1. k + 1 \in DOMAIN q /\ q[k + 1].type = "drop" /\ 1 < k + 1
      BY <1>3
    <2>2. 1 \in DOMAIN q /\ q[1].type = "drop" /\ q[1].all
      BY <1>3
    <2>3. QED
      BY <1>5, <2>1, <2>2
  <1> HIDE DEF st, W
  <1>7. /\ st # Empty /\ left \in Stacks /\ left # st
        /\ AfterDrops(left, r) = AfterDrops(st, q)
        /\ Has(r, "drop") => Drops(r) <= left.count
    BY <1>1, <1>4, <1>5, <1>6, AfterFirstDrop DEF st
  <1>8. slots \in [OwnSlots -> Stacks]
    BY <1>4, <1>7
  <1>9. \A j \in OwnSlots : slots[j] = IF j = FirstMain THEN left ELSE s.slots[j]
    BY <1>4
  <1> DEFINE u == SetSlots(s, slots)
  <1> HIDE DEF slots
  <1>10. /\ u \in Players /\ u.slots = slots /\ u.cursor = s.cursor /\ u.cursorChanged = s.cursorChanged
         /\ u.told = s.told /\ u.touched = s.touched /\ u.sid = s.sid
         /\ u.changed = s.changed \cup {i \in OwnSlots : slots[i] # s.slots[i]}
    BY <1>8, SetSlotsRest
  <1>11. t = [u EXCEPT !.touched = @ \cup {FirstMain}]
    BY DEF slots, HeldLess
  <1> HIDE DEF u
  <1>12. /\ t.slots = slots /\ t.cursor = s.cursor /\ t.cursorChanged = s.cursorChanged
         /\ t.told = s.told /\ t.touched = s.touched \cup {FirstMain} /\ t.sid = s.sid
         /\ t.changed = s.changed \cup {i \in OwnSlots : slots[i] # s.slots[i]}
    BY <1>10, <1>11 DEF Players
  <1>13. s.touched \subseteq {FirstMain} /\ s.changed \subseteq {FirstMain}
    BY <1>1, <1>2 DEF OwnMarks
  <1>14. t.touched = {FirstMain} /\ t.changed = {FirstMain}
    <2>1. \A i \in OwnSlots : slots[i] # s.slots[i] <=> i = FirstMain
      BY <1>4, <1>7, <1>9 DEF st
    <2>2. {i \in OwnSlots : slots[i] # s.slots[i]} = {FirstMain}
      BY <1>4, <2>1
    <2>3. QED
      BY <1>12, <1>13, <2>2
  <1>15. Due(t) = {} /\ Due(s) = {}
    <2>1. 0 \in AllBits /\ 0 # FirstMain
      BY Sizes DEF AllBits, OffHand, FirstMain
    <2>2. t.changed # AllBits /\ s.changed # AllBits
      <3>1. 0 \notin {FirstMain}
        BY <2>1
      <3>2. QED
        BY <1>13, <1>14, <2>1, <3>1
    <2>3. s.changed \subseteq s.touched
      BY <1>1, <1>2 DEF OwnMarks
    <2>4. QED
      BY <1>14, <2>2, <2>3 DEF Due
  <1>16. OwnMarks(t, r, "packets", FALSE)
    BY <1>2, <1>14, <1>15 DEF OwnMarks
  <1>17. OwnQueue(t, r)
    BY <1>1, <1>12, QueueRest
  <1>18. OwnCursor(t, r)
    <2>1. s.cursor = Empty /\ ~CursorDue(s) /\ ~s.cursorChanged
      BY <1>1, <1>2 DEF OwnCursor
    <2>2. \A k \in DOMAIN r : DropKeyClick(r[k]) => s.cursor = Empty
      BY <2>1
    <2>3. \A k \in DOMAIN r : OutsideClick(r[k]) => s.cursor # Empty
      BY <1>1, <1>3 DEF OwnCursor
    <2>4. QED
      BY <1>12, <2>1, <2>2, <2>3 DEF OwnCursor, CursorDue
  <1>19. OwnDrops(t, r, msgs, FALSE)
    <2>1. \A k, l \in DOMAIN r : k < l /\ r[k].type = "drop" /\ r[k].all => r[l].type # "drop"
      <3> SUFFICES ASSUME NEW k \in DOMAIN r, NEW l \in DOMAIN r, k < l, r[k].type = "drop", r[k].all
                   PROVE  r[l].type # "drop"
        OBVIOUS
      <3>1. k + 1 < l + 1 /\ k + 1 \in DOMAIN q /\ l + 1 \in DOMAIN q /\ r[k] = q[k + 1] /\ r[l] = q[l + 1]
        BY <1>3
      <3>2. QED
        BY <1>5, <3>1
    <2>2. Has(r, "drop") => Drops(r) <= t.slots[FirstMain].count
      BY <1>4, <1>7, <1>9, <1>12
    <2>3. QED
      BY <1>5, <2>1, <2>2 DEF OwnDrops
  <1>20. ASSUME NEW j \in OwnSlots PROVE HeldThen(t, r, j) = HeldThen(s, q, j)
    BY <1>7, <1>9, <1>12 DEF HeldThen, st
  <1>21. OwnShown(t, r, W, FALSE)
    <2>1. ASSUME \A k \in DOMAIN r : ~SlotClick(r[k]) /\ ~OutsideClick(r[k]), ~CursorDue(t)
          PROVE  W.cursor = t.cursor
      <3>1. \A k \in DOMAIN q : ~SlotClick(q[k]) /\ ~OutsideClick(q[k])
        BY <1>3, <2>1 DEF SlotClick, OutsideClick
      <3>2. ~CursorDue(s)
        BY <1>12, <2>1 DEF CursorDue
      <3>3. QED
        BY <1>1, <1>12, <3>1, <3>2 DEF OwnShown
    <2>2. Resends(s, q, FALSE) => Resends(t, r, FALSE)
      <3> SUFFICES ASSUME NEW k \in DOMAIN q, SlotClick(q[k]), q[k].sid # s.sid
                   PROVE  \E l \in DOMAIN r : SlotClick(r[l]) /\ r[l].sid # t.sid
        BY DEF Resends
      <3>1. k # 1
        BY <1>3 DEF SlotClick
      <3>2. k - 1 \in DOMAIN r /\ r[k - 1] = q[k]
        BY <1>3, <3>1
      <3>3. QED
        BY <1>12, <3>2
    <2>3. ASSUME ~Resends(s, q, FALSE), NEW k \in DOMAIN r, SlotClick(r[k])
          PROVE  SlotsPredicted(t, r, W, r[k])
      <3>1. SlotsPredicted(s, q, W, r[k])
        BY <1>1, <1>3, <2>3 DEF OwnShown
      <3>2. QED
        BY <1>15, <1>20, <3>1 DEF SlotsPredicted
    <2>4. ASSUME ~Resends(s, q, FALSE), NEW k \in DOMAIN r, DropKeyClick(r[k])
          PROVE  KeyPredicted(t, r, W, r[k])
      <3>1. KeyPredicted(s, q, W, r[k])
        BY <1>1, <1>3, <2>4 DEF OwnShown
      <3>2. QED
        BY <1>2, <1>4, <1>15, <1>20, <3>1 DEF KeyPredicted
    <2>5. ASSUME ~Resends(s, q, FALSE), \A k \in DOMAIN r : ~SlotClick(r[k]) /\ ~DropKeyClick(r[k])
          PROVE  \A j \in OwnSlots \ Due(t) : W.own[j] = HeldThen(t, r, j)
      <3>1. \A k \in DOMAIN q : ~SlotClick(q[k]) /\ ~DropKeyClick(q[k])
        BY <1>3, <2>5 DEF SlotClick, DropKeyClick
      <3>2. QED
        BY <1>1, <1>15, <1>20, <2>5, <3>1 DEF OwnShown
    <2>6. QED
      BY <2>1, <2>2, <2>3, <2>4, <2>5 DEF OwnShown
  <1>22. OwnComing(t, v, msgs)
    BY <1>1, <1>12, OwnComingSame
  <1>23. QED
    BY <1>7, <1>16, <1>17, <1>18, <1>19, <1>21, <1>22 DEF OwnIn, W, st

-----------------------------------------------------------------------------
(***************************************************************************)
(* What the server does: the packets, one by one.                          *)
(***************************************************************************)
\* OwnIn, with equivalent arguments.
LEMMA OwnSame ==
    ASSUME NEW s, NEW q, NEW v, NEW msgs, NEW since,
           NEW a \in BOOLEAN, NEW b \in BOOLEAN, a => b, b => a,
           NEW x \in BOOLEAN, NEW y \in BOOLEAN, y => x,
           OwnIn(s, q, v, msgs, a, since, x)
    PROVE  OwnIn(s, q, v, msgs, b, since, y)
  <1>1. OwnMarks(s, q, since, y)
    BY DEF OwnIn, OwnMarks
  <1>2. a = b
    OBVIOUS
  <1>3. QED
    BY <1>1, <1>2 DEF OwnIn

\* A client with no window, when the server comes to one of its packets.
LEMMA OwnTakes ==
    ASSUME TInv, NEW c \in Clients, inv[c].win = 0, OwnIs(c), Telling(inv[c], Since(c)),
           NEW t, Takes(c, t)
    PROVE  /\ inv[c] \in Players /\ toServer[c] \in Seq(Packets) /\ toServer[c] # <<>>
           /\ view[c] \in Views /\ Coming(c) \in Seq(Messages)
           /\ inv[c].open = "none" /\ ~IsOpen(c) /\ ~HasBox(c) /\ ServerWindow(c) = inv[c].slots
           /\ \A i : ~InBox(c, i)
           /\ Head(toServer[c]).type = t /\ Head(toServer[c]) \in Packets
           /\ toServer'[c] \in Seq(Packets) /\ Taken(toServer[c], toServer'[c])
           /\ readonly' = readonly /\ view' = view /\ phase' = "packets"
           /\ Telling(inv[c], "packets")
           /\ c \in readonly => OwnIn(inv[c], toServer[c], view[c], Coming(c), TRUE, "packets", FALSE)
           /\ c \notin readonly => OwnIn(inv[c], toServer[c], view[c], Coming(c), FALSE, "packets", FALSE)
  <1>1. inv[c] \in Players /\ toServer[c] \in Seq(Packets) /\ view[c] \in Views
    BY TrafficOf
  <1>2. Coming(c) \in Seq(Messages)
    BY ComingIn
  <1>3. phase \in {"idle", "packets"} /\ phase' = "packets" /\ readonly' = readonly /\ view' = view
        /\ toServer[c] # <<>> /\ Head(toServer[c]).type = t
    BY DEF Takes
  <1>4. inv[c].open = "none"
    BY <1>3, WindowNumbered DEF IsOpen
  <1>5. ~IsOpen(c) /\ ~HasBox(c) /\ \A i : ~InBox(c, i)
    BY <1>4 DEF IsOpen, HasBox, InBox
  <1>6. ServerWindow(c) = inv[c].slots
    BY <1>5 DEF ServerWindow, Window
  <1>7. Head(toServer[c]) \in Packets
    BY <1>1, <1>3
  <1>8. toServer'[c] = Tail(toServer[c]) /\ toServer'[c] \in Seq(Packets)
    BY <1>1, <1>3 DEF Takes, TInv, TrafficOK
  <1>9. Taken(toServer[c], toServer'[c])
    BY <1>8 DEF Taken
  <1>10. Since(c) \in {"told", "packets"}
    BY <1>3 DEF Since
  <1>11. OwnIn(inv[c], toServer[c], view[c], Coming(c), c \in readonly, Since(c), Stuck(c))
    BY DEF OwnIs
  <1>12. Stuck(c) \in BOOLEAN /\ ~Stuck(c)
    BY <1>5 DEF Stuck
  <1> DEFINE s == inv[c]
             q == toServer[c]
             v == view[c]
             msgs == Coming(c)
             frozen == c \in readonly
             since == Since(c)
             stuck == Stuck(c)
  <1>13. /\ OwnIn(s, q, v, msgs, frozen, since, stuck) /\ frozen \in BOOLEAN /\ stuck \in BOOLEAN /\ ~stuck
         /\ since \in {"told", "packets"} /\ Telling(s, since)
    BY <1>10, <1>11, <1>12
  <1> HIDE DEF s, q, v, msgs, frozen, since, stuck
  <1>14. OwnIn(s, q, v, msgs, frozen, "packets", stuck) /\ Telling(s, "packets")
    BY <1>13, OwnLater
  <1>15. frozen => OwnIn(s, q, v, msgs, TRUE, "packets", FALSE)
    BY <1>13, <1>14, OwnSame
  <1>16. ~frozen => OwnIn(s, q, v, msgs, FALSE, "packets", FALSE)
    BY <1>13, <1>14, OwnSame
  <1>17. QED
    BY <1>1, <1>2, <1>3, <1>4, <1>5, <1>6, <1>7, <1>8, <1>9, <1>14, <1>15, <1>16
       DEF s, q, v, msgs, frozen

\* The packet is gone from the queue.
LEMMA OwnTook ==
    ASSUME NEW c \in Clients, NEW t, Takes(c, t), inv'[c].open = "none",
           c \in readonly => OwnIn(inv'[c], toServer'[c], view[c], Coming(c)', TRUE, "packets", FALSE),
           c \notin readonly => OwnIn(inv'[c], toServer'[c], view[c], Coming(c)', FALSE, "packets", FALSE)
    PROVE  OwnIs(c)'
  <1>1. phase' = "packets" /\ readonly' = readonly /\ view' = view
    BY DEF Takes
  <1>2. Since(c)' = "packets"
    BY <1>1 DEF Since
  <1>3. Stuck(c)' = FALSE
    BY DEF Stuck, IsOpen
  <1> DEFINE s == inv'[c]
             q == toServer'[c]
             v == view'[c]
             msgs == Coming(c)'
             frozen == c \in readonly'
             since == Since(c)'
             stuck == Stuck(c)'
  <1>4. /\ frozen \in BOOLEAN /\ stuck = FALSE /\ since = "packets"
        /\ frozen => OwnIn(s, q, v, msgs, TRUE, "packets", FALSE)
        /\ ~frozen => OwnIn(s, q, v, msgs, FALSE, "packets", FALSE)
    <2>1. frozen \in BOOLEAN /\ stuck = FALSE /\ since = "packets"
      BY <1>2, <1>3
    <2>2. v = view[c] /\ (frozen => c \in readonly) /\ (~frozen => c \notin readonly)
      BY <1>1
    <2> HIDE DEF s, q, v, msgs, frozen, since, stuck
    <2>3. frozen => OwnIn(s, q, v, msgs, TRUE, "packets", FALSE)
      BY <2>2 DEF s, q, msgs
    <2>4. ~frozen => OwnIn(s, q, v, msgs, FALSE, "packets", FALSE)
      BY <2>2 DEF s, q, msgs
    <2>5. QED
      BY <2>1, <2>3, <2>4
  <1> HIDE DEF s, q, v, msgs, frozen, since, stuck
  <1>5. CASE frozen
    <2>1. OwnIn(s, q, v, msgs, frozen, since, stuck)
      BY <1>4, <1>5, OwnSame
    <2>2. QED
      BY <2>1 DEF OwnIs, s, q, v, msgs, frozen, since, stuck
  <1>6. CASE ~frozen
    <2>1. OwnIn(s, q, v, msgs, frozen, since, stuck)
      BY <1>4, <1>6, OwnSame
    <2>2. QED
      BY <2>1 DEF OwnIs, s, q, v, msgs, frozen, since, stuck
  <1>7. QED
    BY <1>4, <1>5, <1>6

\* The contents come in answer to a click.
LEMMA OwnAnswered ==
    ASSUME NEW s \in Players, NEW q \in Seq(Packets), q # <<>>, NEW v \in Views, NEW msgs \in Seq(Messages),
           NEW frozen, OwnIn(s, q, v, msgs, frozen, "packets", FALSE), Head(q).type = "click",
           NEW r \in Seq(Packets), Taken(q, r),
           NEW t \in Players, s.sid <= t.sid, t.touched \subseteq t.changed
    PROVE  OwnIn(t, r, v, msgs \o <<OwnContent(t)>>, frozen, "packets", FALSE)
  <1>1. OwnQueue(s, q) /\ OwnComing(s, v, msgs)
    BY DEF OwnIn
  <1>2. r = <<>>
    BY <1>1, OneClick
  <1>3. QED
    BY <1>1, <1>2, OwnContentSent

\* RefuseClick: the contents are sent again.
LEMMA RefuseClickOwn ==
    ASSUME TInv, NEW c \in Clients, inv[c].win = 0, OwnIs(c), Telling(inv[c], Since(c)), RefuseClick(c)
    PROVE  OwnIs(c)' /\ inv'[c].win = 0
  <1>1. Takes(c, "click") /\ UNCHANGED inv
    BY DEF RefuseClick
  <1>2. /\ inv[c] \in Players /\ toServer[c] \in Seq(Packets) /\ toServer[c] # <<>>
        /\ view[c] \in Views /\ Coming(c) \in Seq(Messages)
        /\ inv[c].open = "none" /\ ~IsOpen(c) /\ ~HasBox(c)
        /\ Head(toServer[c]).type = "click"
        /\ toServer'[c] \in Seq(Packets) /\ Taken(toServer[c], toServer'[c])
        /\ c \in readonly => OwnIn(inv[c], toServer[c], view[c], Coming(c), TRUE, "packets", FALSE)
        /\ c \notin readonly => OwnIn(inv[c], toServer[c], view[c], Coming(c), FALSE, "packets", FALSE)
    BY <1>1, OwnTakes
  <1>3. Write(c, <<OwnContent(inv[c])>>)
    BY <1>2 DEF RefuseClick, Ignored, Resync
  <1>4. OwnContent(inv[c]) \in Messages
    BY <1>2, OwnContentIn
  <1>5. <<OwnContent(inv[c])>> \in Seq(Messages)
    BY <1>4
  <1>6. Coming(c)' = Coming(c) \o <<OwnContent(inv[c])>>
    BY <1>1, <1>3, <1>5, ComingWritten DEF Takes
  <1>7. inv[c].sid <= inv[c].sid /\ inv[c].touched \subseteq inv[c].changed
    <2>1. inv[c].sid <= inv[c].sid
      BY <1>2, SidIn
    <2>2. inv[c].touched \subseteq inv[c].changed
      BY <1>2 DEF OwnIn, OwnMarks
    <2>3. QED
      BY <2>1, <2>2
  <1>8. c \in readonly => OwnIn(inv[c], toServer'[c], view[c], Coming(c) \o <<OwnContent(inv[c])>>, TRUE, "packets", FALSE)
    BY <1>2, <1>7, OwnAnswered
  <1>9. c \notin readonly => OwnIn(inv[c], toServer'[c], view[c], Coming(c) \o <<OwnContent(inv[c])>>, FALSE, "packets", FALSE)
    BY <1>2, <1>7, OwnAnswered
  <1>10. inv'[c] = inv[c]
    BY <1>1
  <1>11. QED
    BY <1>1, <1>2, <1>6, <1>8, <1>9, <1>10, OwnTook

\* What the server finds when it comes to a packet of a client without a window.
Finds(c, t) ==
    /\ inv[c] \in Players /\ toServer[c] \in Seq(Packets) /\ toServer[c] # <<>>
    /\ view[c] \in Views /\ Coming(c) \in Seq(Messages)
    /\ inv[c].open = "none" /\ ~IsOpen(c) /\ ~HasBox(c) /\ ServerWindow(c) = inv[c].slots
    /\ \A i : ~InBox(c, i)
    /\ Head(toServer[c]).type = t /\ Head(toServer[c]) \in Packets
    /\ toServer'[c] \in Seq(Packets) /\ Taken(toServer[c], toServer'[c])
    /\ Telling(inv[c], "packets")
    /\ c \in readonly => OwnIn(inv[c], toServer[c], view[c], Coming(c), TRUE, "packets", FALSE)
    /\ c \notin readonly => OwnIn(inv[c], toServer[c], view[c], Coming(c), FALSE, "packets", FALSE)

\* What the server finds when it takes a packet.
LEMMA ServerFinds ==
    ASSUME TInv, NEW c \in Clients, inv[c].win = 0, OwnIs(c), Telling(inv[c], Since(c)),
           NEW t, Takes(c, t)
    PROVE  Finds(c, t)
  BY OwnTakes DEF Finds

\* The contents are sent in answer to a click.
LEMMA AnsweredOwn ==
    ASSUME TInv, NEW c \in Clients, Takes(c, "click"), Finds(c, "click"),
           NEW s \in Players, inv'[c] = s, s.open = "none", inv[c].sid <= s.sid, s.touched \subseteq s.changed,
           Write(c, <<OwnContent(s)>>)
    PROVE  OwnIs(c)'
  <1>1. OwnContent(s) \in Messages
    BY OwnContentIn
  <1>2. <<OwnContent(s)>> \in Seq(Messages)
    BY <1>1
  <1>3. Coming(c)' = Coming(c) \o <<OwnContent(s)>>
    BY <1>2, ComingWritten DEF Takes
  <1>4. c \in readonly => OwnIn(s, toServer'[c], view[c], Coming(c) \o <<OwnContent(s)>>, TRUE, "packets", FALSE)
    BY OwnAnswered DEF Finds
  <1>5. c \notin readonly => OwnIn(s, toServer'[c], view[c], Coming(c) \o <<OwnContent(s)>>, FALSE, "packets", FALSE)
    BY OwnAnswered DEF Finds
  <1>6. QED
    BY <1>3, <1>4, <1>5, OwnTook

\* A packet of the client changes its record and nothing is sent.
LEMMA UnansweredOwn ==
    ASSUME NEW c \in Clients, NEW t, Takes(c, t), UNCHANGED out,
           NEW s, inv'[c] = s, s.open = "none",
           c \in readonly => OwnIn(s, toServer'[c], view[c], Coming(c), TRUE, "packets", FALSE),
           c \notin readonly => OwnIn(s, toServer'[c], view[c], Coming(c), FALSE, "packets", FALSE)
    PROVE  OwnIs(c)'
  <1>1. Coming(c)' = Coming(c)
    BY ComingSame DEF Takes
  <1>2. QED
    BY <1>1, OwnTook

\* DropCursor.
LEMMA DropCursorOwn ==
    ASSUME TInv, NEW c \in Clients, inv[c].win = 0, OwnIs(c), Telling(inv[c], Since(c)), DropCursor(c)
    PROVE  OwnIs(c)' /\ inv'[c].win = 0
  <1> DEFINE s == [inv[c] EXCEPT !.cursor = Empty, !.cursorChanged = TRUE]
             q == toServer[c]
             r == toServer'[c]
             v == view[c]
             msgs == Coming(c)
  <1>1. Takes(c, "click") /\ UNCHANGED out /\ OutsideClick(Head(q))
        /\ inv' = [inv EXCEPT ![c].cursor = Empty, ![c].cursorChanged = TRUE]
    BY DEF DropCursor, OutsideClick, Takes
  <1>2. Finds(c, "click")
    BY <1>1, ServerFinds
  <1>3. inv[c] \in Players
    BY <1>2 DEF Finds
  <1>4. s \in Players /\ s.open = inv[c].open /\ s.win = inv[c].win
    BY <1>3, StackFacts DEF Players
  <1>5. inv'[c] = s
    BY <1>1 DEF TInv, TypeOK
  <1>6. c \in readonly => OwnIn(s, r, v, msgs, TRUE, "packets", FALSE)
    BY <1>1, <1>2, <1>4, OwnOutside DEF Finds
  <1>7. c \notin readonly => OwnIn(s, r, v, msgs, FALSE, "packets", FALSE)
    BY <1>1, <1>2, <1>4, OwnOutside DEF Finds
  <1> HIDE DEF s
  <1>8. QED
    BY <1>1, <1>2, <1>4, <1>5, <1>6, <1>7, UnansweredOwn DEF Finds

\* ResyncClick: so they are, with a new state id.
LEMMA ResyncClickOwn ==
    ASSUME TInv, NEW c \in Clients, inv[c].win = 0, OwnIs(c), Telling(inv[c], Since(c)), ResyncClick(c)
    PROVE  OwnIs(c)' /\ inv'[c].win = 0
  <1> DEFINE s == [inv[c] EXCEPT !.sid = @ + 1]
  <1>1. Takes(c, "click") /\ inv' = [inv EXCEPT ![c] = s]
    BY DEF ResyncClick
  <1>2. Finds(c, "click")
    BY <1>1, ServerFinds
  <1>3. inv[c] \in Players
    BY <1>2 DEF Finds
  <1>4. s \in Players /\ s.open = inv[c].open /\ s.win = inv[c].win /\ inv[c].sid <= s.sid
        /\ s.touched = inv[c].touched /\ s.changed = inv[c].changed
    BY <1>3 DEF Players
  <1>5. inv'[c] = s
    BY <1>1 DEF TInv, TypeOK
  <1>6. Write(c, <<Content(s.win, s.sid, s.slots, s.cursor)>>)
    BY <1>2 DEF ResyncClick, Finds
  <1> HIDE DEF s
  <1>7. Content(s.win, s.sid, s.slots, s.cursor) = OwnContent(s)
    BY <1>4 DEF OwnContent
  <1>8. s.touched \subseteq s.changed
    BY <1>2, <1>4 DEF Finds, OwnIn, OwnMarks
  <1>9. QED
    BY <1>1, <1>2, <1>4, <1>5, <1>6, <1>7, <1>8, AnsweredOwn DEF Finds

\* DropFromWindow.
LEMMA DropFromWindowOwn ==
    ASSUME TInv, NEW c \in Clients, inv[c].win = 0, OwnIs(c), Telling(inv[c], Since(c)), DropFromWindow(c)
    PROVE  OwnIs(c)' /\ inv'[c].win = 0
  <1> DEFINE q == toServer[c]
             r == toServer'[c]
             v == view[c]
             msgs == Coming(c)
             p == Head(toServer[c])
             at == p.at
             stack == inv[c].slots[at]
             n == IF p.button = 1 THEN 0 ELSE stack.count - 1
             s == SetSlots(inv[c], [inv[c].slots EXCEPT ![at] = WithCount(stack, n)])
  <1>1. Takes(c, "click") /\ PlainClick(c, p) /\ p.mode = "DropKey"
    BY DEF DropFromWindow
  <1>2. Finds(c, "click")
    BY <1>1, ServerFinds
  <1>3. inv[c] \in Players /\ ~IsOpen(c) /\ inv[c].open = "none" /\ ServerWindow(c) = inv[c].slots /\ DropKeyClick(p)
    BY <1>1, <1>2 DEF Finds, DropKeyClick
  <1>4. p \in ClickPackets /\ p.win = 0 /\ \A i \in DOMAIN p.changes : p.changes[i] \in Stacks
    BY <1>1, <1>3, PlainClickFits
  <1>5. at \in OwnSlots
    BY <1>1, <1>4 DEF ClickPackets, ClickFits, WindowSlots
  <1>6. stack \in Stacks
    BY <1>3, <1>5 DEF Players
  <1>7. \/ /\ c \in readonly
           /\ Write(c, <<OwnContent(inv[c])>>) /\ UNCHANGED inv
        \/ /\ c \notin readonly /\ stack # Empty /\ UNCHANGED out
           /\ inv' = [inv EXCEPT ![c] = SetSlots(inv[c], [inv[c].slots EXCEPT
                        ![at] = WithCount(stack, stack.count - (IF p.button = 1 THEN stack.count ELSE 1))])]
        \/ /\ c \notin readonly /\ stack = Empty /\ UNCHANGED <<inv, out>>
    BY <1>2, <1>3 DEF DropFromWindow, Finds
  <1>8. CASE c \in readonly
    <2>1. inv[c].sid <= inv[c].sid
      BY <1>3, SidIn
    <2>2. inv[c].touched \subseteq inv[c].changed
      BY <1>2 DEF Finds, OwnIn, OwnMarks
    <2>3. inv'[c] = inv[c] /\ Write(c, <<OwnContent(inv[c])>>)
      BY <1>7, <1>8
    <2>4. QED
      BY <1>1, <1>2, <1>3, <2>1, <2>2, <2>3, AnsweredOwn
  <1>9. CASE c \notin readonly /\ stack # Empty
    <2>1. stack.count \in 1..MaxStack
      BY <1>6, <1>9, StackFacts, Sizes
    <2> HIDE DEF stack, p, s
    <2>2. stack.count - (IF p.button = 1 THEN stack.count ELSE 1) = n
      BY <2>1, Sizes
    <2>3. n \in 0..MaxStack
      BY <2>1, Sizes
    <2> USE DEF stack, p, s
    <2>4. UNCHANGED out /\ inv' = [inv EXCEPT ![c] = s]
      BY <1>7, <1>9, <2>2
    <2>5. inv'[c] = s
      BY <2>4 DEF TInv, TypeOK
    <2>6. WithCount(stack, n) \in Stacks
      BY <1>6, <2>3, WithCountIn
    <2>7. [inv[c].slots EXCEPT ![at] = WithCount(stack, n)] \in [OwnSlots -> Stacks]
      BY <1>3, <2>6 DEF Players
    <2>8. s \in Players /\ s.open = "none" /\ s.win = 0
      <3> DEFINE slots == [inv[c].slots EXCEPT ![at] = WithCount(stack, n)]
                 u == SetSlots(inv[c], slots)
      <3>1. slots \in [OwnSlots -> Stacks]
        BY <2>7
      <3> HIDE DEF slots
      <3>2. u \in Players /\ u.open = inv[c].open /\ u.win = inv[c].win
        BY <1>3, <3>1, SetSlotsRest
      <3> HIDE DEF u
      <3>3. s = u
        BY DEF u, slots
      <3> HIDE DEF s
      <3>4. QED
        BY <1>3, <3>2, <3>3
    <2>9. OwnIn(inv[c], q, v, msgs, FALSE, "packets", FALSE)
      BY <1>2, <1>9 DEF Finds
    <2>10. OwnIn(s, r, v, msgs, FALSE, "packets", FALSE)
      BY <1>2, <1>3, <1>5, <1>9, <2>8, <2>9, OwnKeyDropped DEF Finds
    <2> HIDE DEF s
    <2>11. OwnIs(c)'
      BY <1>1, <1>9, <2>4, <2>5, <2>8, <2>10, UnansweredOwn
    <2>12. QED
      BY <2>5, <2>8, <2>11
  <1>10. CASE c \notin readonly /\ stack = Empty
    <2>1. UNCHANGED out /\ inv'[c] = inv[c]
      BY <1>7, <1>10
    <2>2. ASSUME DOMAIN p.changes = {at} PROVE p.changes[at] = Empty
      <3>1. p.changes[at] \in Stacks
        BY <1>4, <2>2
      <3>2. ValidDropKey(p, inv[c].slots, inv[c].cursor)
        <4>1. ValidPacket(p, ServerWindow(c), inv[c].cursor)
          BY <1>1 DEF PlainClick, Valid
        <4>2. QED
          BY <1>1, <1>3, <4>1 DEF ValidPacket
      <3>3. Found(p.changes[at], {Empty})
        BY <1>10, <2>2, <3>2 DEF ValidDropKey
      <3>4. p.changes[at] = Empty \/ p.changes[at].item = Air
        BY <3>3 DEF Found, Empty
      <3>5. QED
        BY <3>1, <3>4, AirAssumption DEF Stacks, FullStacks
    <2>3. OwnIn(inv[c], q, v, msgs, FALSE, "packets", FALSE)
      BY <1>2, <1>10 DEF Finds
    <2>4. OwnIn(inv[c], r, v, msgs, FALSE, "packets", FALSE)
      BY <1>2, <1>3, <1>5, <1>10, <2>2, <2>3, OwnKeyIdle DEF Finds
    <2>5. OwnIs(c)'
      BY <1>1, <1>3, <1>10, <2>1, <2>4, UnansweredOwn
    <2>6. QED
      BY <2>1, <2>5
  <1>11. QED
    BY <1>8, <1>9, <1>10

\* Which slots of a click without a window are applied: all, or none.
LEMMA AppliedAlone ==
    ASSUME TInv, NEW c \in Clients, Takes(c, "click"), Finds(c, "click"), PlainClick(c, Clicked(c)),
           Clicked(c).mode # "DropKey"
    PROVE  /\ DOMAIN Clicked(c).changes \subseteq OwnSlots
           /\ c \in readonly => AppliedOwn(c) = {}
           /\ c \notin readonly => AppliedOwn(c) = DOMAIN Clicked(c).changes
           /\ c \notin readonly => CursorAfter(c) = Clicked(c).carried
           /\ SlotClick(Clicked(c))
           /\ \A j \in OwnSlots : Index(c, j) = j
  <1> DEFINE p == Clicked(c)
  <1>1. ~IsOpen(c) /\ ServerWindow(c) = inv[c].slots /\ (\A i : ~InBox(c, i)) /\ p.type = "click"
    BY DEF Finds, Clicked
  <1>2. /\ DOMAIN p.changes \subseteq WindowSlots(IsOpen(c))
        /\ ValidPacket(p, ServerWindow(c), inv[c].cursor)
        /\ ~(p.mode = "Click" /\ p.at = Outside)
        /\ p \in ClickPackets
    BY PlainClickFits DEF Clicked
  <1>3. DOMAIN p.changes \subseteq OwnSlots
    BY <1>1, <1>2 DEF WindowSlots
  <1>4. \A j \in OwnSlots : Index(c, j) = j
    BY <1>1 DEF Index
  <1>5. (c \in readonly => \A i : Frozen(c, p, i)) /\ (c \notin readonly => \A i : ~Frozen(c, p, i))
    BY <1>1 DEF Frozen
  <1>6. AppliedBox(c) = {}
    BY <1>1 DEF AppliedBox
  <1>7. AppliedOwn(c) = {j \in OwnSlots : j \in Applied(c)}
    BY <1>4, <1>6 DEF AppliedOwn
  <1>8. ASSUME c \in readonly PROVE AppliedOwn(c) = {}
    <2>1. Applied(c) = {}
      BY <1>5, <1>8 DEF Applied, p
    <2>2. QED
      BY <1>7, <2>1
  <1>9. ASSUME c \notin readonly
        PROVE  AppliedOwn(c) = DOMAIN p.changes /\ CursorAfter(c) = p.carried
    <2>1. Applied(c) = DOMAIN p.changes
      BY <1>5, <1>9 DEF Applied, p
    <2>2. AppliedOwn(c) = DOMAIN p.changes
      BY <1>3, <1>7, <2>1
    <2>3. CursorAfter(c) = NewCursor(p)
      BY <2>1 DEF CursorAfter, p
    <2>4. p.mode \in {"ShiftClick", "Hotbar"} => p.carried = Empty
      BY <1>2 DEF ValidPacket, ValidShiftClick, ValidHotbar
    <2>5. NewCursor(p) = p.carried
      BY <1>2, <2>4 DEF NewCursor, p
    <2>6. QED
      BY <2>2, <2>3, <2>5
  <1>10. SlotClick(p)
    BY <1>1, <1>2 DEF SlotClick, OutsideClick, DropKeyClick, p
  <1>11. QED
    BY <1>3, <1>4, <1>8, <1>9, <1>10 DEF p

\* What is left of a player after a click without a window.
LEMMA PlayerAfterIs ==
    ASSUME TInv, NEW c \in Clients, ApplyClick(c), Finds(c, "click")
    PROVE  LET t == PlayerAfter(c) IN
           /\ t \in Players /\ t.open = "none" /\ t.win = inv[c].win /\ t.sid = inv[c].sid
           /\ t.cursor = CursorAfter(c) /\ t.told = t.cursor
           /\ t.touched = inv[c].touched \cup AppliedOwn(c)
           /\ t.slots = OwnAfter(c)
           /\ t.changed = inv[c].changed \cup {i \in OwnSlots : OwnAfter(c)[i] # inv[c].slots[i]}
  <1> DEFINE r == SetSlots(inv[c], OwnAfter(c))
             changed == CursorAfter(c) # inv[c].cursor
             t == PlayerAfter(c)
  <1>1. Takes(c, "click") /\ PlainClick(c, Clicked(c))
    BY ApplyClickIs DEF TInv
  <1>2. /\ OwnAfter(c) \in [OwnSlots -> Stacks] /\ CursorAfter(c) \in Stacks
        /\ AppliedBox(c) \in SUBSET BoxSlots /\ AppliedOwn(c) \in SUBSET OwnSlots
    BY <1>1, ClickedSlotsIn
  <1>3. inv[c] \in Players /\ inv[c].open = "none"
    BY DEF Finds
  <1>4. /\ r \in Players /\ r.slots = OwnAfter(c)
        /\ r.touched = inv[c].touched /\ r.sid = inv[c].sid /\ r.win = inv[c].win
        /\ r.open = inv[c].open
        /\ r.changed = inv[c].changed \cup {i \in OwnSlots : OwnAfter(c)[i] # inv[c].slots[i]}
    BY <1>2, <1>3, SetSlotsRest
  <1>5. changed \in BOOLEAN
    OBVIOUS
  <1>6. t = Marked(r, AppliedOwn(c), AppliedBox(c), CursorAfter(c), changed)
    BY DEF PlayerAfter
  <1> HIDE DEF r, t, changed
  <1>7. t \in Players /\ t.slots = r.slots /\ t.cursor = CursorAfter(c) /\ t.win = r.win /\ t.open = r.open
    BY <1>2, <1>4, <1>5, <1>6, MarkedIn
  <1>8. /\ t.touched = r.touched \cup AppliedOwn(c) /\ t.changed = r.changed /\ t.sid = r.sid
        /\ t.told = CursorAfter(c)
    BY <1>4, <1>6 DEF Marked, Players
  <1>9. QED
    BY <1>3, <1>4, <1>7, <1>8 DEF t

\* ApplyClick: what the client says becomes so.
LEMMA ApplyClickOwn ==
    ASSUME TInv, NEW c \in Clients, inv[c].win = 0, OwnIs(c), Telling(inv[c], Since(c)), ApplyClick(c)
    PROVE  OwnIs(c)' /\ inv'[c].win = 0
  <1> DEFINE p == Clicked(c)
             t == PlayerAfter(c)
  <1>1. /\ Takes(c, "click") /\ PlainClick(c, p) /\ p.mode # "DropKey"
        /\ inv' = [inv EXCEPT ![c] = t]
        /\ Write(c, CASE IsOpen(c) /\ readonly \cap {c, Box} # {} ->
                               <<BoxContent(t, BoxAfter(c)), OwnContent(t)>>
                         [] ~IsOpen(c) /\ c \in readonly -> <<OwnContent(t)>>
                         [] OTHER -> <<>>)
    BY ApplyClickIs DEF TInv
  <1>2. Finds(c, "click")
    BY <1>1, ServerFinds
  <1>3. /\ t \in Players /\ t.open = "none" /\ t.win = inv[c].win /\ t.sid = inv[c].sid
        /\ t.cursor = CursorAfter(c) /\ t.told = t.cursor
        /\ t.touched = inv[c].touched \cup AppliedOwn(c)
        /\ t.slots = OwnAfter(c)
        /\ t.changed = inv[c].changed \cup {i \in OwnSlots : OwnAfter(c)[i] # inv[c].slots[i]}
    BY <1>2, PlayerAfterIs
  <1>4. /\ DOMAIN p.changes \subseteq OwnSlots
        /\ c \in readonly => AppliedOwn(c) = {}
        /\ c \notin readonly => AppliedOwn(c) = DOMAIN p.changes
        /\ c \notin readonly => CursorAfter(c) = p.carried
        /\ SlotClick(p)
        /\ \A j \in OwnSlots : Index(c, j) = j
    BY <1>1, <1>2, AppliedAlone
  <1>5. inv'[c] = t
    BY <1>1 DEF TInv, TypeOK
  <1>6. ~IsOpen(c) /\ inv[c] \in Players
    BY <1>2 DEF Finds
  <1>7. p.sid = inv[c].sid
    <2>1. ~OutOfSync(c, p)
      BY DEF ApplyClick, Clicked
    <2>2. QED
      BY <1>1, <2>1 DEF OutOfSync
  <1> HIDE DEF t
  <1>8. CASE c \in readonly
    <2>1. AppliedOwn(c) = {}
      BY <1>4, <1>8
    <2>2. OwnAfter(c) = inv[c].slots
      BY <1>6, <2>1 DEF OwnAfter, Players
    <2>3. t.touched = inv[c].touched /\ t.changed = inv[c].changed
      BY <1>3, <2>1, <2>2
    <2>4. inv[c].touched \subseteq inv[c].changed
      BY <1>2, <1>8 DEF Finds, OwnIn, OwnMarks
    <2>5. Write(c, <<OwnContent(t)>>)
      BY <1>1, <1>6, <1>8
    <2>6. inv[c].sid <= t.sid
      BY <1>3, <1>6, SidIn
    <2>7. t.touched \subseteq t.changed
      BY <2>3, <2>4
    <2>8. OwnIs(c)'
      BY <1>1, <1>2, <1>3, <1>5, <2>5, <2>6, <2>7, AnsweredOwn
    <2>9. QED
      BY <1>3, <1>5, <2>8
  <1>9. CASE c \notin readonly
    <2> DEFINE q == toServer[c]
               r == toServer'[c]
               v == view[c]
               msgs == Coming(c)
               s == inv[c]
               D == DOMAIN p.changes
               new == ClickedSlots(c)
    <2>1. out' = out
      <3>1. Write(c, <<>>)
        BY <1>1, <1>6, <1>9
      <3>2. out \in [Clients -> Seq(Messages)]
        BY DEF TInv, TrafficOK
      <3>3. out[c] \o <<>> = out[c]
        BY <3>2
      <3>4. QED
        BY <3>1, <3>2, <3>3 DEF Write
    <2>2. \A j \in D : new[j] = IF Head(q).mode = "DoubleClick"
                        THEN WithCount(s.slots[j], Head(q).changes[j].count) ELSE Head(q).changes[j]
      BY <1>2 DEF ClickedSlots, NewSlots, Finds, Clicked
    <2>3. \A j \in OwnSlots : t.slots[j] = IF j \in D THEN new[j] ELSE s.slots[j]
      BY <1>3, <1>4, <1>9 DEF OwnAfter
    <2>4. t.touched = s.touched \cup D /\ t.cursor = Head(q).carried
      BY <1>3, <1>4, <1>9 DEF Clicked
    <2>5. t.changed = s.changed \cup {i \in OwnSlots : t.slots[i] # s.slots[i]}
      BY <1>3
    <2>6. /\ s \in Players /\ q \in Seq(Packets) /\ q # <<>> /\ v \in Views /\ msgs \in Seq(Messages)
          /\ r \in Seq(Packets) /\ Taken(q, r)
          /\ OwnIn(s, q, v, msgs, FALSE, "packets", FALSE)
      BY <1>2, <1>9 DEF Finds
    <2>7. D \subseteq OwnSlots /\ SlotClick(Head(q)) /\ Head(q).sid = s.sid /\ t.told = t.cursor /\ t.sid = s.sid
          /\ t \in Players
      BY <1>3, <1>4, <1>7 DEF Clicked
    <2>8. D = DOMAIN Head(q).changes
      BY DEF Clicked
    <2> HIDE DEF q, r, v, msgs, s, D, new, p
    <2>10. OwnIn(t, r, v, msgs, FALSE, "packets", FALSE)
      <3>1. Applies(s, Head(q), D, new, t)
        BY <2>2, <2>3, <2>4, <2>5, <2>7, <2>8 DEF Applies
      <3>2. QED
        BY <2>6, <2>7, <3>1, OwnApplied
    <2>11. OwnIs(c)'
      BY <1>1, <1>3, <1>5, <1>9, <2>1, <2>10, UnansweredOwn DEF q, r, v, msgs
    <2>12. QED
      BY <1>3, <1>5, <2>11
  <1>10. QED
    BY <1>8, <1>9

\* A read-only inventory is sent again in answer to a key.
LEMMA HeldReadonlyOwn ==
    ASSUME TInv, NEW c \in Clients, NEW t \in {"drop", "swap"}, Takes(c, t), Finds(c, t), inv[c].win = 0,
           HeldIsReadonly(c)
    PROVE  OwnIs(c)' /\ inv'[c].win = 0
  <1> DEFINE m == Content(0, inv[c].sid, inv[c].slots, Empty)
  <1>1. c \in readonly /\ Write(c, <<m>>) /\ inv' = inv
    BY DEF HeldIsReadonly
  <1>2. m \in Messages
    BY OwnContentIn DEF Finds
  <1>3. <<m>> \in Seq(Messages)
    BY <1>2
  <1>4. Coming(c)' = Coming(c) \o <<m>>
    BY <1>1, <1>3, ComingWritten DEF Takes
  <1>5. OwnIn(inv[c], toServer'[c], view[c], Coming(c) \o <<m>>, TRUE, "packets", FALSE)
    BY <1>1, OwnHeldReadonly DEF Finds
  <1> HIDE DEF m
  <1>6. QED
    BY <1>1, <1>4, <1>5, OwnTook DEF Finds

\* DropHeld.
LEMMA DropHeldOwn ==
    ASSUME TInv, NEW c \in Clients, inv[c].win = 0, OwnIs(c), Telling(inv[c], Since(c)), DropHeld(c)
    PROVE  OwnIs(c)' /\ inv'[c].win = 0
  <1> DEFINE s == inv[c]
             q == toServer[c]
             p == Head(q)
             stack == s.slots[FirstMain]
             left == WithCount(stack, IF p.all THEN 0 ELSE stack.count - 1)
             t == HeldLess(s, left)
  <1>1. Takes(c, "drop")
    BY DEF DropHeld
  <1>2. Finds(c, "drop")
    BY <1>1, ServerFinds
  <1>3. s \in Players /\ stack \in Stacks /\ FirstMain \in OwnSlots
    BY <1>2, SlotsAre DEF Finds, Players
  <1>4. CASE HeldIsReadonly(c)
    BY <1>1, <1>2, <1>4, HeldReadonlyOwn
  <1>5. CASE ~HeldIsReadonly(c)
    <2>1. c \notin readonly
      BY <1>5 DEF DropHeld, HeldIsReadonly
    <2>2. stack.count - (IF p.all THEN stack.count ELSE 1) = IF p.all THEN 0 ELSE stack.count - 1
      BY <1>3, StackFacts
    <2>3. left \in Stacks
      <3>1. stack = Empty \/ stack.count \in 1..MaxStack
        BY <1>3, StackFacts
      <3>2. CASE stack = Empty
        BY <3>2, StackFacts DEF WithCount
      <3>3. CASE stack.count \in 1..MaxStack
        <4>1. stack.count - 1 \in 0..MaxStack /\ 0 \in 0..MaxStack
          BY <3>3, Sizes
        <4>2. WithCount(stack, stack.count - 1) \in Stacks /\ WithCount(stack, 0) \in Stacks
          BY <1>3, <4>1, WithCountIn
        <4>3. QED
          BY <4>2
      <3>4. QED
        BY <3>1, <3>2, <3>3
    <2>4. t \in Players /\ t.open = s.open /\ t.win = s.win
      <3> DEFINE slots == [s.slots EXCEPT ![FirstMain] = left]
                 u == SetSlots(s, slots)
      <3>1. slots \in [OwnSlots -> Stacks]
        BY <1>3, <2>3 DEF Players
      <3> HIDE DEF slots
      <3>2. u \in Players /\ u.open = s.open /\ u.win = s.win
        BY <1>3, <3>1, SetSlotsRest
      <3>3. t = [u EXCEPT !.touched = @ \cup {FirstMain}]
        BY DEF HeldLess, slots
      <3> HIDE DEF u, t
      <3>4. QED
        BY <1>3, <3>2, <3>3 DEF Players
    <2>5. p.all \in BOOLEAN /\ p.type = "drop"
      BY <1>2 DEF Finds, Packets, ClickPackets, ClickRecords
    <2>6. OwnIn(s, q, view[c], Coming(c), FALSE, "packets", FALSE)
      BY <1>2, <2>1 DEF Finds
    <2>7. stack # Empty /\ OwnIn(t, toServer'[c], view[c], Coming(c), FALSE, "packets", FALSE)
      <3> DEFINE r == toServer'[c]
                 v == view[c]
                 msgs == Coming(c)
      <3>1. left = WithCount(s.slots[FirstMain], IF Head(q).all THEN 0 ELSE s.slots[FirstMain].count - 1)
        OBVIOUS
      <3>2. t = HeldLess(s, left) /\ t \in Players
        BY <2>4
      <3>3. /\ s \in Players /\ q \in Seq(Packets) /\ q # <<>> /\ v \in Views /\ msgs \in Seq(Messages)
            /\ r \in Seq(Packets) /\ Taken(q, r) /\ Head(q).type = "drop"
            /\ OwnIn(s, q, v, msgs, FALSE, "packets", FALSE)
        BY <1>2, <2>6 DEF Finds
      <3>4. stack = s.slots[FirstMain]
        OBVIOUS
      <3> HIDE DEF s, q, p, stack, left, t, r, v, msgs
      <3>5. s.slots[FirstMain] # Empty /\ OwnIn(t, r, v, msgs, FALSE, "packets", FALSE)
        BY <3>1, <3>2, <3>3, OwnHeldDropped
      <3>6. QED
        BY <3>4, <3>5 DEF r, v, msgs
    <2> HIDE DEF t, left
    <2>8. UNCHANGED out /\ inv' = [inv EXCEPT ![c] = t]
      BY <1>5, <2>1, <2>2, <2>7 DEF DropHeld, HeldLess, t, left
    <2>9. inv'[c] = t
      BY <2>8 DEF TInv, TypeOK
    <2>10. t.open = "none"
      BY <1>2, <2>4 DEF Finds
    <2>11. OwnIs(c)'
      BY <1>1, <2>1, <2>7, <2>8, <2>9, <2>10, UnansweredOwn
    <2>12. QED
      BY <2>4, <2>9, <2>11
  <1>6. QED
    BY <1>4, <1>5

\* SwapHands.
LEMMA SwapHandsOwn ==
    ASSUME TInv, NEW c \in Clients, inv[c].win = 0, OwnIs(c), Telling(inv[c], Since(c)), SwapHands(c)
    PROVE  OwnIs(c)' /\ inv'[c].win = 0
  <1> DEFINE s == inv[c]
             slots == [s.slots EXCEPT ![FirstMain] = s.slots[OffHand], ![OffHand] = s.slots[FirstMain]]
             t == SetSlots(s, slots)
  <1>1. Takes(c, "swap")
    BY DEF SwapHands
  <1>2. Finds(c, "swap")
    BY <1>1, ServerFinds
  <1>3. s \in Players /\ s.open = "none" /\ FirstMain \in OwnSlots /\ OffHand \in OwnSlots
    BY <1>2, SlotsAre DEF Finds
  <1>4. CASE HeldIsReadonly(c)
    BY <1>1, <1>2, <1>4, HeldReadonlyOwn
  <1>5. CASE ~HeldIsReadonly(c)
    <2>1. c \notin readonly /\ UNCHANGED out /\ inv' = [inv EXCEPT ![c] = t]
      BY <1>5 DEF SwapHands
    <2>2. slots \in [OwnSlots -> Stacks]
      BY <1>3 DEF Players
    <2> HIDE DEF slots
    <2>3. t \in Players /\ t.open = s.open /\ t.win = s.win
      BY <1>3, <2>2, SetSlotsRest
    <2>4. OwnIn(t, toServer'[c], view[c], Coming(c), FALSE, "packets", FALSE)
      BY <1>2, <2>1, <2>2, <2>3, OwnHandsSwapped DEF Finds
    <2>5. inv'[c] = t
      BY <2>1 DEF TInv, TypeOK
    <2> HIDE DEF t
    <2>6. OwnIs(c)'
      BY <1>1, <1>3, <2>1, <2>3, <2>4, <2>5, UnansweredOwn
    <2>7. QED
      BY <2>3, <2>5, <2>6
  <1>6. QED
    BY <1>4, <1>5

\* Any packet.
LEMMA PacketOwn ==
    ASSUME TInv, NEW c \in Clients, inv[c].win = 0, OwnIs(c), Telling(inv[c], Since(c)), Packet(c)
    PROVE  OwnIs(c)' /\ inv'[c].win = 0
  <1>1. ~HandleClose(c)
    <2> SUFFICES ASSUME HandleClose(c) PROVE FALSE
      OBVIOUS
    <2>1. Takes(c, "close")
      BY DEF HandleClose
    <2>2. Finds(c, "close")
      BY <2>1, ServerFinds
    <2>3. OwnQueue(inv[c], toServer[c])
      BY DEF OwnIs, OwnIn
    <2>4. Has(toServer[c], "close")
      BY <2>2, QueueTaken DEF Finds, Has
    <2>5. QED
      BY <2>3, <2>4 DEF OwnQueue
  <1>2. QED
    BY <1>1, RefuseClickOwn, DropCursorOwn, ResyncClickOwn, DropFromWindowOwn, ApplyClickOwn, DropHeldOwn,
       SwapHandsOwn DEF Packet

-----------------------------------------------------------------------------
(***************************************************************************)
(* User code.                                                              *)
(***************************************************************************)
\* What is said of a player is said by some of the fields.
LEMMA OwnLike ==
    ASSUME NEW s, NEW t, t.slots = s.slots, t.changed = s.changed, t.touched = s.touched,
           t.cursor = s.cursor, t.cursorChanged = s.cursorChanged, t.told = s.told, t.sid = s.sid,
           NEW q, NEW v, NEW msgs, NEW frozen, NEW since, NEW stuck,
           OwnIn(s, q, v, msgs, frozen, since, stuck), Telling(s, since)
    PROVE  OwnIn(t, q, v, msgs, frozen, since, stuck) /\ Telling(t, since)
  <1>1. Telling(t, since)
    BY DEF Telling
  <1>2. CursorDue(t) = CursorDue(s) /\ Due(t) = Due(s)
    BY DEF CursorDue, Due
  <1>3. \A j : HeldThen(t, q, j) = HeldThen(s, q, j)
    BY DEF HeldThen
  <1>4. OwnQueue(t, q)
    BY DEF OwnIn, OwnQueue
  <1>5. OwnComing(t, v, msgs)
    BY DEF OwnIn, OwnComing
  <1>6. OwnMarks(t, q, since, stuck)
    BY <1>2 DEF OwnIn, OwnMarks
  <1>7. OwnCursor(t, q)
    BY <1>2 DEF OwnIn, OwnCursor
  <1>8. OwnDrops(t, q, msgs, frozen)
    BY DEF OwnIn, OwnDrops
  <1>9. OwnShown(t, q, Shows(v, msgs), frozen)
    <2> DEFINE W == Shows(v, msgs)
    <2>1. OwnShown(s, q, W, frozen)
      BY DEF OwnIn
    <2> HIDE DEF W
    <2>2. \A k : SlotsPredicted(s, q, W, q[k]) => SlotsPredicted(t, q, W, q[k])
      BY <1>2, <1>3 DEF SlotsPredicted
    <2>3. \A k : KeyPredicted(s, q, W, q[k]) => KeyPredicted(t, q, W, q[k])
      BY <1>2, <1>3 DEF KeyPredicted
    <2>4. Resends(s, q, frozen) => Resends(t, q, frozen)
      BY DEF Resends
    <2>5. OwnShown(t, q, W, frozen)
      BY <1>2, <1>3, <2>1, <2>2, <2>3, <2>4 DEF OwnShown
    <2>6. QED
      BY <2>5 DEF W
  <1>10. QED
    BY <1>1, <1>4, <1>5, <1>6, <1>7, <1>8, <1>9 DEF OwnIn

\* More becomes due, and nothing else changes: the slots in hand and those the
\* client has touched keep their stacks.
LEMMA OwnMoreDue ==
    ASSUME NEW s \in Players, NEW q, NEW v, NEW msgs, NEW frozen, OwnIn(s, q, v, msgs, frozen, "user", FALSE),
           NEW t \in Players, t.touched = s.touched, t.cursor = s.cursor, t.cursorChanged = s.cursorChanged,
           t.told = s.told, t.sid = s.sid, s.touched \subseteq t.changed,
           Due(s) \subseteq Due(t), \A j \in OwnSlots \ Due(t) : t.slots[j] = s.slots[j],
           Has(q, "drop") => FirstMain \notin Due(t),
           FirstMain \in s.touched => t.slots[FirstMain] = s.slots[FirstMain]
    PROVE  OwnIn(t, q, v, msgs, frozen, "user", FALSE)
  <1> DEFINE W == Shows(v, msgs)
  <1>1. /\ OwnQueue(s, q) /\ OwnComing(s, v, msgs) /\ OwnMarks(s, q, "user", FALSE) /\ OwnCursor(s, q)
        /\ OwnDrops(s, q, msgs, frozen) /\ OwnShown(s, q, W, frozen)
    BY DEF OwnIn
  <1> HIDE DEF W
  <1>2. CursorDue(t) = CursorDue(s)
    BY DEF CursorDue
  <1>3. FirstMain \in OwnSlots
    BY SlotsAre
  <1>4. Has(q, "drop") => t.slots[FirstMain] = s.slots[FirstMain]
    BY <1>3
  <1>5. \A j \in OwnSlots \ Due(t) : HeldThen(t, q, j) = HeldThen(s, q, j)
    BY DEF HeldThen
  <1>6. Has(q, "drop") \/ FirstMain \in s.touched => HeldThen(t, q, FirstMain) = HeldThen(s, q, FirstMain)
    BY <1>4 DEF HeldThen
  <1>7. OwnQueue(t, q)
    BY <1>1 DEF OwnQueue
  <1>8. OwnComing(t, v, msgs)
    BY <1>1 DEF OwnComing
  <1>9. OwnMarks(t, q, "user", FALSE)
    BY <1>1 DEF OwnMarks
  <1>10. OwnCursor(t, q)
    BY <1>1, <1>2 DEF OwnCursor
  <1>11. OwnDrops(t, q, msgs, frozen)
    BY <1>1, <1>4 DEF OwnDrops
  <1>12. ASSUME NEW p, SlotsPredicted(s, q, W, p) PROVE SlotsPredicted(t, q, W, p)
    BY <1>5, <1>12 DEF SlotsPredicted
  <1>13. ASSUME NEW p, KeyPredicted(s, q, W, p) PROVE KeyPredicted(t, q, W, p)
    <2>1. DOMAIN p.changes = {p.at}
      BY <1>13 DEF KeyPredicted
    <2>2. \A j \in OwnSlots \ Due(t) :
              \/ W.own[j] = HeldThen(t, q, j)
              \/ j = p.at /\ W.own[j] = p.changes[j]
      BY <1>5, <1>13 DEF KeyPredicted
    <2>3. p.at = FirstMain /\ (Has(q, "drop") \/ FirstMain \in t.touched) =>
              LET held == HeldThen(t, q, FirstMain)
              IN  /\ W.own[FirstMain] = p.changes[FirstMain]
                  /\ held # Empty
                  /\ p.changes[FirstMain] = WithCount(held, IF p.button = 1 THEN 0 ELSE held.count - 1)
      BY <1>6, <1>13 DEF KeyPredicted
    <2>4. QED
      BY <2>1, <2>2, <2>3 DEF KeyPredicted
  <1>14. Resends(s, q, frozen) => Resends(t, q, frozen)
    BY DEF Resends
  <1>15. OwnShown(t, q, W, frozen)
    BY <1>1, <1>2, <1>5, <1>12, <1>13, <1>14 DEF OwnShown
  <1>16. QED
    BY <1>7, <1>8, <1>9, <1>10, <1>11, <1>15 DEF OwnIn, W

\* User code sets a slot that the client has not touched.
LEMMA OwnSet ==
    ASSUME NEW s \in Players, NEW q, NEW v, NEW msgs, NEW frozen, OwnIn(s, q, v, msgs, frozen, "user", FALSE),
           NEW i \in OwnSlots, i \notin s.touched, Has(q, "drop") => i # FirstMain,
           NEW stack \in Stacks, NEW t \in Players, t = SetSlots(s, [s.slots EXCEPT ![i] = stack])
    PROVE  OwnIn(t, q, v, msgs, frozen, "user", FALSE)
  <1> DEFINE slots == [s.slots EXCEPT ![i] = stack]
  <1>1. slots \in [OwnSlots -> Stacks] /\ \A j \in OwnSlots : slots[j] = IF j = i THEN stack ELSE s.slots[j]
    BY DEF Players
  <1> DEFINE u == SetSlots(s, slots)
  <1>2. t = u
    OBVIOUS
  <1> HIDE DEF slots
  <1>20. /\ u.slots = slots /\ u.cursor = s.cursor /\ u.cursorChanged = s.cursorChanged
         /\ u.told = s.told /\ u.touched = s.touched /\ u.sid = s.sid
         /\ u.changed = s.changed \cup {j \in OwnSlots : slots[j] # s.slots[j]}
    BY <1>1, SetSlotsRest
  <1> HIDE DEF u
  <1>3. /\ t.slots = slots /\ t.cursor = s.cursor /\ t.cursorChanged = s.cursorChanged
        /\ t.told = s.told /\ t.touched = s.touched /\ t.sid = s.sid
        /\ t.changed = s.changed \cup {j \in OwnSlots : slots[j] # s.slots[j]}
    BY <1>2, <1>20
  <1>4. s.touched \subseteq t.changed
    BY <1>3 DEF OwnIn, OwnMarks
  <1>5. Due(s) \subseteq Due(t)
    BY <1>3, DueGrows
  <1>6. ASSUME NEW j \in OwnSlots \ Due(t) PROVE t.slots[j] = s.slots[j]
    BY <1>1, <1>3, <1>6 DEF Due
  <1>7. ASSUME Has(q, "drop") PROVE FirstMain \notin Due(t)
    <2>1. FirstMain \notin Due(s) /\ FirstMain \in OwnSlots
      BY <1>7, SlotsAre DEF OwnIn, OwnMarks
    <2>2. t.changed \subseteq s.changed \cup {i} /\ i # FirstMain
      BY <1>1, <1>3, <1>7
    <2>3. t.changed = AllBits => s.changed = AllBits
      <3>1. OffHand + 1 \in AllBits /\ OffHand + 1 \notin OwnSlots
        BY Sizes DEF AllBits, OwnSlots, OffHand
      <3>2. s.changed = AllBits \/ s.changed \subseteq OwnSlots
        BY DEF Players
      <3>3. QED
        BY <2>2, <3>1, <3>2
    <2>4. QED
      BY <1>3, <2>1, <2>2, <2>3 DEF Due
  <1>8. FirstMain \in s.touched => t.slots[FirstMain] = s.slots[FirstMain]
    BY <1>1, <1>3, SlotsAre
  <1>9. QED
    BY <1>3, <1>4, <1>5, <1>6, <1>7, <1>8, OwnMoreDue

\* User code asks for the whole inventory to be sent.
LEMMA OwnResynced ==
    ASSUME NEW s \in Players, NEW q, NEW v, NEW msgs, NEW frozen, OwnIn(s, q, v, msgs, frozen, "user", FALSE),
           ~Has(q, "drop"), NEW t \in Players, t.changed = AllBits,
           t.slots = s.slots, t.cursor = s.cursor, t.cursorChanged = s.cursorChanged,
           t.told = s.told, t.touched = s.touched, t.sid = s.sid
    PROVE  OwnIn(t, q, v, msgs, frozen, "user", FALSE)
  <1>1. /\ t.slots = s.slots /\ t.cursor = s.cursor /\ t.cursorChanged = s.cursorChanged
        /\ t.told = s.told /\ t.touched = s.touched /\ t.sid = s.sid /\ t.changed = AllBits
    OBVIOUS
  <1>2. Due(t) = OwnSlots /\ Due(s) \subseteq OwnSlots
    BY <1>1 DEF Due
  <1>3. s.touched \subseteq AllBits
    BY Sizes DEF Players, AllBits, OwnSlots, OffHand
  <1>4. QED
    BY <1>1, <1>2, <1>3, OwnMoreDue

\* User code sets the cursor while nothing is under way to the server.
LEMMA OwnCursorSet ==
    ASSUME NEW s \in Players, NEW q, q = <<>>, NEW v, NEW msgs, NEW frozen, NEW stuck,
           OwnIn(s, q, v, msgs, frozen, "user", stuck), Telling(s, "user"), ~s.cursorChanged,
           NEW stack \in Stacks, NEW t \in Players, t = [s EXCEPT !.cursor = stack, !.cursorChanged = TRUE]
    PROVE  OwnIn(t, q, v, msgs, frozen, "user", stuck) /\ Telling(t, "user")
  <1>1. /\ t.slots = s.slots /\ t.changed = s.changed /\ t.touched = s.touched /\ t.sid = s.sid
        /\ t.told = s.told /\ t.cursor = stack /\ t.cursorChanged = TRUE
    BY DEF Players
  <1>2. Telling(t, "user")
    BY <1>1 DEF Telling
  <1>3. s.told \in {NotTold, s.cursor} /\ ~CursorDue(s)
    BY DEF Telling, CursorDue
  <1>4. /\ Shows(v, msgs).cursor = s.cursor
        /\ \A j \in OwnSlots \ Due(s) : Shows(v, msgs).own[j] = s.slots[j]
    <2>1. OwnShown(s, q, Shows(v, msgs), frozen)
      BY DEF OwnIn
    <2>2. ~Has(q, "drop") /\ ~Resends(s, q, frozen)
      BY DEF Has, TypesIn, Resends
    <2>3. QED
      BY <1>3, <2>1, <2>2 DEF OwnShown, HeldThen, AfterDrops
  <1>5. ~CursorDue(t) => Shows(v, msgs).cursor = t.cursor
    BY <1>1, <1>3, <1>4, NotToldAssumption DEF CursorDue
  <1>6. Due(t) = Due(s)
    BY <1>1 DEF Due
  <1>7. OwnComing(t, v, msgs)
    BY <1>1 DEF OwnIn, OwnComing
  <1>8. t.touched \subseteq t.changed /\ (stuck => t.changed = {})
    BY <1>1 DEF OwnIn, OwnMarks
  <1>9. OwnIn(t, q, v, msgs, frozen, "user", stuck)
    BY <1>1, <1>4, <1>5, <1>6, <1>7, <1>8, OwnUnasked
  <1>10. QED
    BY <1>2, <1>9

\* Whether an inventory is read-only says nothing while nothing is under way to the
\* server.
LEMMA OwnThawed ==
    ASSUME NEW s, NEW q, q = <<>>, NEW v, NEW msgs, NEW frozen, NEW then, NEW since, NEW stuck,
           OwnIn(s, q, v, msgs, frozen, since, stuck)
    PROVE  OwnIn(s, q, v, msgs, then, since, stuck)
  <1>1. ~Has(q, "drop") /\ ~Resends(s, q, frozen) /\ ~Resends(s, q, then)
    BY DEF Has, TypesIn, Resends
  <1>2. OwnDrops(s, q, msgs, then)
    BY <1>1 DEF OwnDrops
  <1>3. OwnShown(s, q, Shows(v, msgs), then)
    BY <1>1 DEF OwnIn, OwnShown
  <1>4. QED
    BY <1>2, <1>3 DEF OwnIn

\* The container of the window that is to be opened goes, and nothing is to be sent.
LEMMA OwnStuck ==
    ASSUME NEW s, NEW q, NEW v, NEW msgs, NEW frozen, NEW since, NEW stuck, NEW then,
           OwnIn(s, q, v, msgs, frozen, since, stuck), then => s.changed = {}
    PROVE  OwnIn(s, q, v, msgs, frozen, since, then)
  <1>1. OwnMarks(s, q, since, then)
    BY DEF OwnIn, OwnMarks
  <1>2. QED
    BY <1>1 DEF OwnIn

\* A step that leaves a client as it is.
LEMMA OwnKept ==
    ASSUME NEW c \in Clients, OwnIs(c), Telling(inv[c], Since(c)),
           inv'[c] = inv[c], toServer'[c] = toServer[c], view'[c] = view[c], Coming(c)' = Coming(c),
           c \in readonly' <=> c \in readonly, Stuck(c)' => Stuck(c) \/ Since(c) = "told",
           Since(c) = "told" \/ Since(c)' = Since(c) \/ Since(c)' = "user",
           Since(c)' # "told" \/ Since(c) = "told"
    PROVE  OwnIs(c)'
  <1> DEFINE s == inv[c]
             q == toServer[c]
             v == view[c]
             msgs == Coming(c)
             frozen == c \in readonly
             frozen1 == c \in readonly'
             since == Since(c)
             since1 == Since(c)'
             stuck == Stuck(c)
             stuck1 == Stuck(c)'
  <1>1. /\ OwnIn(s, q, v, msgs, frozen, since, stuck) /\ Telling(s, since)
        /\ frozen = frozen1
        /\ stuck1 => stuck \/ since = "told"
        /\ since = "told" \/ since1 = since \/ since1 = "user"
        /\ since1 # "told" \/ since = "told"
    BY DEF OwnIs
  <1> HIDE DEF s, q, v, msgs, frozen, frozen1, since, since1, stuck, stuck1
  <1>2. stuck1 => s.changed = {}
    BY <1>1 DEF OwnIn, OwnMarks
  <1>3. OwnIn(s, q, v, msgs, frozen, since, stuck1)
    BY <1>1, <1>2, OwnStuck
  <1>4. OwnIn(s, q, v, msgs, frozen, since1, stuck1)
    BY <1>1, <1>3, OwnLater
  <1>5. OwnIn(s, q, v, msgs, frozen1, since1, stuck1)
    BY <1>1, <1>4
  <1>6. QED
    BY <1>5 DEF OwnIs, s, q, v, msgs, frozen1, since1, stuck1

\* A step of user code that changes the record of a client.
LEMMA OwnCalled ==
    ASSUME NEW c \in Clients, Call, Stuck(c)' = Stuck(c), readonly' = readonly,
           NEW s, inv'[c] = s, OwnIn(s, toServer[c], view[c], Coming(c), c \in readonly, "user", Stuck(c))
    PROVE  OwnIs(c)'
  <1>1. phase = "user" /\ UNCHANGED <<dropped, view, toServer, toClient, out, phase, todo, packets>>
    BY DEF Call
  <1>2. Since(c)' = "user"
    BY <1>1 DEF Since
  <1>3. Coming(c)' = Coming(c)
    BY <1>1, ComingSame
  <1>4. QED
    BY <1>1, <1>2, <1>3 DEF OwnIs

\* What is known of a client when user code runs.
LEMMA UserFinds ==
    ASSUME TInv, NEW c \in Clients, OwnIs(c), Telling(inv[c], Since(c)), Call
    PROVE  /\ inv[c] \in Players /\ toServer[c] \in Seq(Packets) /\ view[c] \in Views
           /\ Coming(c) \in Seq(Messages)
           /\ OwnIn(inv[c], toServer[c], view[c], Coming(c), c \in readonly, "user", Stuck(c))
           /\ Telling(inv[c], "user")
           /\ UNCHANGED <<dropped, view, toServer, toClient, out, phase, todo, packets>>
           /\ Since(c) = "user" /\ Since(c)' = "user" /\ Coming(c)' = Coming(c)
           /\ inv \in [Clients -> Players]
  <1>1. phase = "user" /\ UNCHANGED <<dropped, view, toServer, toClient, out, phase, todo, packets>>
    BY DEF Call
  <1>2. Since(c) = "user" /\ Since(c)' = "user"
    BY <1>1 DEF Since
  <1>3. Coming(c)' = Coming(c)
    BY <1>1, ComingSame
  <1>4. inv \in [Clients -> Players]
    BY DEF TInv, TypeOK
  <1>5. QED
    BY <1>1, <1>2, <1>3, <1>4, TrafficOf, ComingIn DEF OwnIs

\* A client that user code has not to do with.
LEMMA UncalledOwn ==
    ASSUME TInv, NEW c \in Clients, OwnIs(c), Telling(inv[c], Since(c)), Call,
           inv'[c] = inv[c], c \in readonly' <=> c \in readonly, Stuck(c)' => Stuck(c)
    PROVE  OwnIs(c)'
  <1>1. /\ UNCHANGED <<dropped, view, toServer, toClient, out, phase, todo, packets>>
        /\ Since(c) = "user" /\ Since(c)' = "user" /\ Coming(c)' = Coming(c)
    BY UserFinds
  <1>2. QED
    BY <1>1, OwnKept

\* Stuck depends on the window and the box only.
LEMMA StuckSame ==
    ASSUME NEW c \in Clients, inv'[c].open = inv[c].open, box'.life = box.life
    PROVE  Stuck(c)' = Stuck(c)
  BY DEF Stuck, IsOpen

\* UserSetsOwn marks the slot.
LEMMA UserSetsOwnOwn ==
    ASSUME TInv, {"overwrite", "drop"} \subseteq Avoided, NEW c \in Clients, OwnIs(c), Telling(inv[c], Since(c)),
           NEW d \in Clients, NEW i \in OwnSlots, NEW stack \in Stacks, UserSetsOwn(d, i, stack)
    PROVE  OwnIs(c)' /\ inv'[c].win = inv[c].win
  <1> DEFINE t == SetSlots(inv[d], [inv[d].slots EXCEPT ![i] = stack])
  <1>1. /\ Call /\ UNCHANGED <<box, readonly>> /\ inv' = [inv EXCEPT ![d] = t]
        /\ i \notin inv[d].touched /\ (IsOpen(d) => HasBox(d))
        /\ i = FirstMain => ~OnTheWay(toServer[d], IsDrop)
    BY DEF UserSetsOwn
  <1>2. inv \in [Clients -> Players]
    BY DEF TInv, TypeOK
  <1>3. t \in Players /\ t.open = inv[d].open /\ t.win = inv[d].win
    <2> DEFINE slots == [inv[d].slots EXCEPT ![i] = stack]
    <2>1. slots \in [OwnSlots -> Stacks]
      BY <1>2 DEF Players
    <2> HIDE DEF slots
    <2>2. QED
      BY <1>2, <2>1, SetSlotsRest DEF slots
  <1>4. CASE c = d
    <2>1. /\ inv[c] \in Players
          /\ OwnIn(inv[c], toServer[c], view[c], Coming(c), c \in readonly, "user", Stuck(c))
      BY <1>1, UserFinds
    <2>2. Stuck(c) = FALSE
      BY <1>1, <1>4 DEF Stuck, HasBox
    <2>3. Has(toServer[c], "drop") => i # FirstMain
      BY <1>1, <1>4 DEF Has, TypesIn, OnTheWay, IsDrop
    <2>8. OwnIn(inv[c], toServer[c], view[c], Coming(c), c \in readonly, "user", FALSE)
      BY <2>1, <2>2
    <2>9. t \in Players /\ t = SetSlots(inv[c], [inv[c].slots EXCEPT ![i] = stack]) /\ i \notin inv[c].touched
      BY <1>1, <1>3, <1>4
    <2>4. OwnIn(t, toServer[c], view[c], Coming(c), c \in readonly, "user", FALSE)
      BY <2>1, <2>3, <2>8, <2>9, OwnSet
    <2>5. inv'[c] = t
      BY <1>1, <1>2, <1>4
    <2> HIDE DEF t
    <2>6. Stuck(c)' = Stuck(c)
      BY <1>1, <1>3, <1>4, <2>5, StuckSame
    <2>7. QED
      BY <1>1, <1>3, <1>4, <2>2, <2>4, <2>5, <2>6, OwnCalled
  <1>5. CASE c # d
    <2>1. inv'[c] = inv[c]
      BY <1>1, <1>2, <1>5
    <2>2. Stuck(c)' = Stuck(c)
      BY <1>1, <2>1, StuckSame
    <2>3. QED
      BY <1>1, <2>1, <2>2, UncalledOwn
  <1>6. QED
    BY <1>4, <1>5

\* UserSetsCursor marks the cursor.
LEMMA UserSetsCursorOwn ==
    ASSUME TInv, {"overwrite", "cursor"} \subseteq Avoided, NEW c \in Clients, OwnIs(c), Telling(inv[c], Since(c)),
           NEW d \in Clients, NEW stack \in Stacks, UserSetsCursor(d, stack)
    PROVE  OwnIs(c)' /\ inv'[c].win = inv[c].win
  <1> DEFINE t == [inv[d] EXCEPT !.cursor = stack, !.cursorChanged = TRUE]
  <1>1. /\ Call /\ UNCHANGED <<box, readonly>>
        /\ inv' = [inv EXCEPT ![d].cursor = stack, ![d].cursorChanged = TRUE]
        /\ toServer[d] = <<>> /\ ~inv[d].cursorChanged
    BY DEF UserSetsCursor
  <1>2. inv \in [Clients -> Players]
    BY DEF TInv, TypeOK
  <1>3. t \in Players /\ t.open = inv[d].open /\ t.win = inv[d].win /\ inv'[d] = t
    BY <1>1, <1>2 DEF Players
  <1> HIDE DEF t
  <1>4. CASE c = d
    <2>1. /\ inv[c] \in Players /\ Telling(inv[c], "user")
          /\ OwnIn(inv[c], toServer[c], view[c], Coming(c), c \in readonly, "user", Stuck(c))
      BY <1>1, UserFinds
    <2>2. OwnIn(t, toServer[c], view[c], Coming(c), c \in readonly, "user", Stuck(c))
      BY <1>1, <1>3, <1>4, <2>1, OwnCursorSet DEF t
    <2>3. Stuck(c)' = Stuck(c)
      BY <1>1, <1>3, <1>4, StuckSame
    <2>4. QED
      BY <1>1, <1>3, <1>4, <2>2, <2>3, OwnCalled
  <1>5. CASE c # d
    <2>1. inv'[c] = inv[c]
      BY <1>1, <1>2, <1>5
    <2>2. Stuck(c)' = Stuck(c)
      BY <1>1, <2>1, StuckSame
    <2>3. QED
      BY <1>1, <2>1, <2>2, UncalledOwn
  <1>6. QED
    BY <1>4, <1>5

\* UserResyncsOwn marks all slots.
LEMMA UserResyncsOwnOwn ==
    ASSUME TInv, {"overwrite", "drop"} \subseteq Avoided, NEW c \in Clients, OwnIs(c), Telling(inv[c], Since(c)),
           NEW d \in Clients, UserResyncsOwn(d)
    PROVE  OwnIs(c)' /\ inv'[c].win = inv[c].win
  <1> DEFINE t == [inv[d] EXCEPT !.changed = AllBits]
  <1>1. /\ Call /\ UNCHANGED <<box, readonly>> /\ inv' = [inv EXCEPT ![d].changed = AllBits]
        /\ ~OnTheWay(toServer[d], IsDrop) /\ (IsOpen(d) => HasBox(d))
    BY DEF UserResyncsOwn
  <1>2. inv \in [Clients -> Players]
    BY DEF TInv, TypeOK
  <1>3. t \in Players /\ t.open = inv[d].open /\ t.win = inv[d].win /\ inv'[d] = t
    BY <1>1, <1>2 DEF Players
  <1>4. CASE c = d
    <2>1. /\ inv[c] \in Players
          /\ OwnIn(inv[c], toServer[c], view[c], Coming(c), c \in readonly, "user", Stuck(c))
      BY <1>1, UserFinds
    <2>2. Stuck(c) = FALSE
      BY <1>1, <1>4 DEF Stuck, HasBox
    <2>3. ~Has(toServer[c], "drop")
      BY <1>1, <1>4 DEF Has, TypesIn, OnTheWay, IsDrop
    <2>7. /\ t.changed = AllBits /\ t.slots = inv[c].slots /\ t.cursor = inv[c].cursor
          /\ t.cursorChanged = inv[c].cursorChanged /\ t.told = inv[c].told
          /\ t.touched = inv[c].touched /\ t.sid = inv[c].sid
      BY <1>2, <1>4 DEF Players
    <2> HIDE DEF t
    <2>8. t \in Players /\ OwnIn(inv[c], toServer[c], view[c], Coming(c), c \in readonly, "user", FALSE)
      BY <1>3, <2>1, <2>2
    <2>4. OwnIn(t, toServer[c], view[c], Coming(c), c \in readonly, "user", FALSE)
      BY <2>1, <2>3, <2>7, <2>8, OwnResynced
    <2>5. Stuck(c)' = Stuck(c)
      BY <1>1, <1>3, <1>4, StuckSame
    <2>6. QED
      BY <1>1, <1>3, <1>4, <2>2, <2>4, <2>5, OwnCalled
  <1>5. CASE c # d
    <2>1. inv'[c] = inv[c]
      BY <1>1, <1>2, <1>5
    <2>2. Stuck(c)' = Stuck(c)
      BY <1>1, <2>1, StuckSame
    <2>3. QED
      BY <1>1, <2>1, <2>2, UncalledOwn
  <1>6. QED
    BY <1>4, <1>5

\* A window is opened or closed by user code: nothing that concerns the own one.
LEMMA UserWindowOwn ==
    ASSUME TInv, NEW c \in Clients, OwnIs(c), Telling(inv[c], Since(c)),
           NEW d \in Clients, UserOpens(d) \/ UserCloses(d)
    PROVE  OwnIs(c)' /\ inv'[c].win = inv[c].win
  <1>1. /\ Call /\ UNCHANGED <<box, readonly>>
        /\ \/ inv' = [inv EXCEPT ![d].open = "new"] /\ box.life # "gone"
           \/ inv' = [inv EXCEPT ![d] = WithoutWindow(inv[d])]
    BY DEF UserOpens, UserCloses
  <1>2. inv \in [Clients -> Players]
    BY DEF TInv, TypeOK
  <1>3. CASE c = d
    <2> DEFINE s == inv[c]
               t == inv'[c]
    <2>1. /\ s \in Players /\ Telling(s, "user")
          /\ OwnIn(s, toServer[c], view[c], Coming(c), c \in readonly, "user", Stuck(c))
          /\ UNCHANGED <<dropped, view, toServer, toClient, out, phase, todo, packets>>
          /\ Since(c)' = "user" /\ Coming(c)' = Coming(c)
      BY <1>1, UserFinds
    <2>2. /\ t.slots = s.slots /\ t.changed = s.changed /\ t.touched = s.touched
          /\ t.cursor = s.cursor /\ t.cursorChanged = s.cursorChanged /\ t.told = s.told /\ t.sid = s.sid
          /\ t.win = s.win
      <3>1. s \in Players
        BY <1>2
      <3>2. CASE inv' = [inv EXCEPT ![d].open = "new"]
        <4>1. t = [s EXCEPT !.open = "new"]
          BY <1>2, <1>3, <3>2
        <4> HIDE DEF s, t
        <4>2. QED
          BY <3>1, <4>1 DEF Players
      <3>3. CASE inv' = [inv EXCEPT ![d] = WithoutWindow(inv[d])]
        <4>1. t = WithoutWindow(s)
          BY <1>2, <1>3, <3>3
        <4> HIDE DEF s, t
        <4>2. QED
          BY <3>1, <4>1 DEF Players, WithoutWindow
      <3>4. QED
        BY <1>1, <3>2, <3>3
    <2>3. ~Stuck(c)'
      <3>1. CASE inv' = [inv EXCEPT ![d].open = "new"] /\ box.life # "gone"
        BY <1>1, <3>1 DEF Stuck
      <3>2. CASE inv' = [inv EXCEPT ![d] = WithoutWindow(inv[d])]
        <4>1. inv'[c].open = "none"
          BY <1>2, <1>3, <3>2 DEF WithoutWindow, Players
        <4>2. QED
          BY <4>1 DEF Stuck, IsOpen
      <3>3. QED
        BY <1>1, <3>1, <3>2
    <2> DEFINE q == toServer[c]
               v == view[c]
               msgs == Coming(c)
               frozen == c \in readonly
               stuck == Stuck(c)
               stuck1 == Stuck(c)'
    <2>4. OwnIn(s, q, v, msgs, frozen, "user", stuck) /\ Telling(s, "user") /\ ~stuck1
      BY <2>1, <2>3
    <2> HIDE DEF q, v, msgs, frozen, stuck, s, t, stuck1
    <2>5. OwnIn(t, q, v, msgs, frozen, "user", stuck)
      BY <2>2, <2>4, OwnLike
    <2>6. OwnIn(t, q, v, msgs, frozen, "user", stuck1)
      BY <2>4, <2>5, OwnStuck
    <2>7. OwnIs(c)'
      BY <1>1, <2>1, <2>6 DEF OwnIs, q, v, msgs, frozen, t, stuck1
    <2>8. QED
      BY <2>2, <2>7 DEF s, t
  <1>4. CASE c # d
    <2>1. inv'[c] = inv[c]
      BY <1>1, <1>2, <1>4
    <2>2. Stuck(c)' = Stuck(c)
      BY <1>1, <2>1, StuckSame
    <2>3. QED
      BY <1>1, <2>1, <2>2, UncalledOwn
  <1>5. QED
    BY <1>3, <1>4

\* UserFreezes: with drops under way a thaw would leave contents unmatched.
LEMMA UserFreezesOwn ==
    ASSUME TInv, "thaw" \in Avoided, NEW c \in Clients, OwnIs(c), Telling(inv[c], Since(c)),
           NEW x \in Clients \cup {Box}, UserFreezes(x)
    PROVE  OwnIs(c)' /\ inv'[c].win = inv[c].win
  <1>1. /\ Call /\ UNCHANGED <<inv, box>> /\ (x \in Clients => toServer[x] = <<>>)
        /\ readonly' = IF x \in readonly THEN readonly \ {x} ELSE readonly \cup {x}
    BY DEF UserFreezes
  <1>2. Stuck(c)' = Stuck(c)
    BY <1>1, StuckSame
  <1>3. CASE x = c
    <2>1. /\ OwnIn(inv[c], toServer[c], view[c], Coming(c), c \in readonly, "user", Stuck(c))
          /\ UNCHANGED <<dropped, view, toServer, toClient, out, phase, todo, packets>>
          /\ Since(c)' = "user" /\ Coming(c)' = Coming(c)
      BY <1>1, UserFinds
    <2>2. toServer[c] = <<>>
      BY <1>1, <1>3
    <2>3. OwnIn(inv[c], toServer[c], view[c], Coming(c), c \in readonly', "user", Stuck(c))
      BY <2>1, <2>2, OwnThawed
    <2>4. QED
      BY <1>1, <1>2, <2>1, <2>3 DEF OwnIs
  <1>4. CASE x # c
    BY <1>1, <1>2, <1>4, UncalledOwn
  <1>5. QED
    BY <1>3, <1>4

\* User code that has to do with the container only.
LEMMA UserBoxOwn ==
    ASSUME TInv, "overwrite" \in Avoided, NEW c \in Clients, OwnIs(c), Telling(inv[c], Since(c)),
           \/ \E i \in BoxSlots, stack \in Stacks : UserSetsBox(i, stack)
           \/ UserResyncsBox
           \/ \E life \in {"despawned", "gone"} : UserDespawnsBox(life)
    PROVE  OwnIs(c)' /\ inv'[c].win = inv[c].win
  <1>1. Call /\ UNCHANGED <<inv, readonly>>
    BY DEF UserSetsBox, UserResyncsBox, UserDespawnsBox
  <1>2. box \in Boxes
    BY DEF TInv, TypeOK
  <1>3. CASE ~(Stuck(c)' /\ ~Stuck(c))
    BY <1>1, <1>3, UncalledOwn
  <1>4. CASE Stuck(c)' /\ ~Stuck(c)
    <2>1. IsOpen(c) /\ box.life # "gone" /\ box'.life = "gone"
      BY <1>1, <1>4 DEF Stuck, IsOpen
    <2>2. ~(\E i \in BoxSlots, stack \in Stacks : UserSetsBox(i, stack)) /\ ~UserResyncsBox
      BY <1>2, <2>1 DEF UserSetsBox, UserResyncsBox, SetSlots, Boxes
    <2>3. PICK life \in {"despawned", "gone"} : UserDespawnsBox(life)
      BY <2>2
    <2>4. life = "gone"
      BY <1>2, <2>1, <2>3 DEF UserDespawnsBox, Boxes
    <2>5. inv[c].changed = {}
      BY <2>1, <2>3, <2>4 DEF UserDespawnsBox
    <2>6. /\ OwnIn(inv[c], toServer[c], view[c], Coming(c), c \in readonly, "user", Stuck(c))
          /\ UNCHANGED <<dropped, view, toServer, toClient, out, phase, todo, packets>>
          /\ Since(c)' = "user" /\ Coming(c)' = Coming(c)
      BY <1>1, UserFinds
    <2>7. OwnIn(inv[c], toServer[c], view[c], Coming(c), c \in readonly, "user", Stuck(c)')
      BY <2>5, <2>6, OwnStuck
    <2>8. QED
      BY <1>1, <2>6, <2>7 DEF OwnIs
  <1>5. QED
    BY <1>3, <1>4

\* All user code.
LEMMA UserOwn ==
    ASSUME TInv, {"overwrite", "drop", "cursor", "thaw"} \subseteq Avoided, User,
           NEW c \in Clients, OwnIs(c), Telling(inv[c], Since(c))
    PROVE  OwnIs(c)' /\ inv'[c].win = inv[c].win
  BY UserSetsOwnOwn, UserSetsCursorOwn, UserResyncsOwnOwn, UserWindowOwn, UserFreezesOwn, UserBoxOwn DEF User

\* The passes of the event loop end, and user code runs; then PostUpdate.
LEMMA StartOwn ==
    ASSUME TInv, StartUpdate \/ StartPostUpdate, NEW c \in Clients, OwnIs(c), Telling(inv[c], Since(c))
    PROVE  OwnIs(c)' /\ inv'[c].win = inv[c].win
  <1>1. UNCHANGED <<serverVars, view, toServer, toClient, out>>
    BY DEF StartUpdate, StartPostUpdate
  <1>2. UNCHANGED <<inv, box, readonly>>
    BY <1>1 DEF serverVars
  <1>3. Since(c)' = "user"
    BY DEF StartUpdate, StartPostUpdate, Since
  <1>4. Stuck(c)' = Stuck(c)
    BY <1>2, StuckSame
  <1>5. Coming(c)' = Coming(c)
    BY <1>1, ComingSame
  <1>6. QED
    BY <1>1, <1>2, <1>3, <1>4, <1>5, OwnKept

-----------------------------------------------------------------------------
(***************************************************************************)
(* The client, between two ticks.                                          *)
(***************************************************************************)
\* No message of a type in either, none in both.
LEMMA NoneInBoth ==
    ASSUME NEW a \in Seq(Messages), NEW b \in Seq(Messages), NEW t,
           \A i \in DOMAIN a : a[i].type # t, \A i \in DOMAIN b : b[i].type # t
    PROVE  \A i \in DOMAIN (a \o b) : (a \o b)[i].type # t
  <1>1. /\ DOMAIN a = 1..Len(a) /\ DOMAIN b = 1..Len(b) /\ Len(a) \in Nat /\ Len(b) \in Nat
        /\ DOMAIN (a \o b) = 1..(Len(a) + Len(b))
    OBVIOUS
  <1>2. ASSUME NEW i \in DOMAIN (a \o b) PROVE (a \o b)[i].type # t
    <2>1. CASE i <= Len(a)
      <3>1. i \in DOMAIN a /\ (a \o b)[i] = a[i]
        BY <1>1, <1>2, <2>1
      <3>2. QED
        BY <3>1
    <2>2. CASE i > Len(a)
      <3>1. i - Len(a) \in DOMAIN b /\ (a \o b)[i] = b[i - Len(a)]
        BY <1>1, <1>2, <2>2
      <3>2. QED
        BY <3>1
    <2>3. QED
      BY <1>1, <1>2, <2>1, <2>2
  <1>3. QED
    BY <1>2

\* The same of batches.
LEMMA NoneInAll ==
    ASSUME NEW bs \in Seq(Seq(Messages)), NEW t,
           \A k \in DOMAIN bs : \A l \in DOMAIN bs[k] : bs[k][l].type # t
    PROVE  \A i \in DOMAIN AllOf(bs) : AllOf(bs)[i].type # t
  <1> DEFINE n == Len(bs)
             P == Joined(bs)
             Free(q) == \A i \in DOMAIN q : q[i].type # t
             U == {k \in 0..n : Free(P[k])}
  <1>1. n \in Nat /\ DOMAIN bs = 1..n /\ \A k \in 1..n : bs[k] \in Seq(Messages)
    OBVIOUS
  <1>2. /\ P[0] = <<>> /\ \A k \in 1..n : P[k] = P[k - 1] \o bs[k]
        /\ \A k \in 0..n : P[k] \in Seq(Messages)
    BY JoinedSteps
  <1> HIDE DEF P
  <1>3. 0 \in U
    BY <1>1, <1>2
  <1>4. \A k \in 0..(n - 1) : k \in U => k + 1 \in U
    <2> SUFFICES ASSUME NEW k \in 0..(n - 1), k \in U PROVE k + 1 \in U
      OBVIOUS
    <2>1. k + 1 \in 1..n /\ k \in 0..n /\ k + 1 \in 0..n /\ (k + 1) - 1 = k
      BY <1>1
    <2> DEFINE a == P[k]
               b == bs[k + 1]
    <2>2. a \in Seq(Messages) /\ b \in Seq(Messages)
      BY <1>1, <1>2, <2>1
    <2>3. (\A i \in DOMAIN a : a[i].type # t) /\ (\A i \in DOMAIN b : b[i].type # t)
      BY <1>1, <2>1
    <2>4. P[k + 1] = a \o b
      BY <1>2, <2>1
    <2> HIDE DEF a, b
    <2>5. \A i \in DOMAIN (a \o b) : (a \o b)[i].type # t
      BY <2>2, <2>3, NoneInBoth
    <2>6. QED
      BY <2>1, <2>4, <2>5
  <1>5. 0..n \subseteq U
    <2> HIDE DEF U
    <2>1. QED
      BY <1>1, <1>3, <1>4, InductionOverSet
  <1>6. Free(P[n])
    <2>1. n \in U
      <3> HIDE DEF U
      <3>1. QED
        BY <1>1, <1>5
    <2>2. QED
      BY <2>1
  <1>7. QED
    BY <1>6 DEF P, AllOf

\* What Untold denies is not coming.
LEMMA NotUntold ==
    ASSUME TInv, NEW c \in Clients, out[c] = <<>>, NEW t, ~Untold(c, t)
    PROVE  \A k \in DOMAIN Coming(c) : Coming(c)[k].type # t
  <1>1. toClient[c] \in Seq(Seq(Messages)) /\ out[c] \in Seq(Messages)
    BY TrafficOf
  <1>2. \A k \in DOMAIN toClient[c] : \A l \in DOMAIN toClient[c][k] : toClient[c][k][l].type # t
    BY DEF Untold, OnTheWay
  <1> DEFINE a == AllOf(toClient[c])
             b == out[c]
  <1>3. a \in Seq(Messages) /\ b \in Seq(Messages)
    BY <1>1, AllOfIn
  <1>4. \A i \in DOMAIN a : a[i].type # t
    BY <1>1, <1>2, NoneInAll
  <1>5. \A i \in DOMAIN b : b[i].type # t
    OBVIOUS
  <1> HIDE DEF a, b
  <1>6. \A i \in DOMAIN (a \o b) : (a \o b)[i].type # t
    BY <1>3, <1>4, <1>5, NoneInBoth
  <1>7. QED
    BY <1>6 DEF Coming, a, b

\* Nothing flushed, nothing written: nothing is coming.
LEMMA NothingComing ==
    ASSUME TInv, NEW c \in Clients, out[c] = <<>>, toClient[c] = <<>>
    PROVE  Coming(c) = <<>>
  <1>1. toClient[c] \in Seq(Seq(Messages))
    BY TrafficOf
  <1>2. AllOf(toClient[c]) = <<>>
    BY <1>1, AllOfIn
  <1>3. QED
    BY <1>2 DEF Coming

\* What is known of a client without a window between two ticks.
ClientFinds(c) ==
    /\ inv[c] \in Players /\ toServer[c] \in Seq(Packets) /\ view[c] \in Views
    /\ Coming(c) \in Seq(Messages) /\ view[c].win = 0
    /\ OwnIn(inv[c], toServer[c], view[c], Coming(c), c \in readonly, "told", Stuck(c))
    /\ Telling(inv[c], "told")
    /\ toServer \in [Clients -> Seq(Packets)] /\ view \in [Clients -> Views]

\* What the client finds between two ticks.
LEMMA ClientKnows ==
    ASSUME TInv, NEW c \in Clients, OwnIs(c), Telling(inv[c], Since(c)), phase = "idle"
    PROVE  ClientFinds(c)
  <1>1. Since(c) = "told"
    BY DEF Since
  <1>2. OwnIn(inv[c], toServer[c], view[c], Coming(c), c \in readonly, "told", Stuck(c))
    BY <1>1 DEF OwnIs
  <1>3. view[c].win = 0
    BY <1>2 DEF OwnIn, OwnComing
  <1>4. toServer \in [Clients -> Seq(Packets)] /\ view \in [Clients -> Views]
    BY DEF TInv, TrafficOK
  <1>5. QED
    BY <1>1, <1>2, <1>3, <1>4, TrafficOf, ComingIn DEF ClientFinds

\* A packet is sent.
LEMMA SentOwn ==
    ASSUME NEW c \in Clients, phase = "idle", NEW p, Send(c, p), toServer \in [Clients -> Seq(Packets)],
           NEW w, view'[c] = w, NEW r, r = Append(toServer[c], p),
           OwnIn(inv[c], r, w, Coming(c), c \in readonly, "told", Stuck(c))
    PROVE  OwnIs(c)' /\ inv'[c].win = inv[c].win
  <1>1. /\ toServer'[c] = r
        /\ UNCHANGED <<serverVars, toClient, out, phase, todo, supplied, calls>>
    BY DEF Send
  <1>2. UNCHANGED <<inv, box, readonly>>
    BY <1>1 DEF serverVars
  <1>3. Since(c)' = "told"
    BY <1>1 DEF Since
  <1>4. Stuck(c)' = Stuck(c)
    BY <1>2, StuckSame
  <1>5. Coming(c)' = Coming(c)
    BY <1>1, ComingSame
  <1>6. QED
    BY <1>1, <1>2, <1>3, <1>4, <1>5 DEF OwnIs

\* ClientClicks.
LEMMA ClientClicksOwn ==
    ASSUME TInv, Quiet, {"cursor", "hurry"} \subseteq Avoided, NEW c \in Clients,
           OwnIs(c), Telling(inv[c], Since(c)), ClientClicks(c)
    PROVE  OwnIs(c)' /\ inv'[c].win = inv[c].win
  <1>1. PICK k \in Clicks(ViewOpen(c), ViewWindow(c), view[c].cursor) :
           /\ ~Untold(c, "cursor") /\ ~Untold(c, "content")
           /\ ~OnTheWay(toServer[c], LAMBDA p : p.type \in {"click", "swap"})
           /\ view' = [view EXCEPT ![c] = Predicted(c, k)] /\ Send(c, ClickPacket(c, k))
    BY DEF ClientClicks
  <1>2. phase = "idle" /\ out[c] = <<>>
    BY DEF ClientClicks, Quiet
  <1>3. ClientFinds(c)
    BY <1>2, ClientKnows
  <1> DEFINE q == toServer[c]
             v == view[c]
             msgs == Coming(c)
             s == inv[c]
             p == ClickPacket(c, k)
             w == Predicted(c, k)
             r == Append(q, p)
             frozen == c \in readonly
             stuck == Stuck(c)
  <1>4. Becomes(v, w, p)
    BY <1>1, <1>3, OwnClickPacket DEF ClientFinds
  <1>5. p \in Packets
    BY <1>4 DEF Becomes, Packets
  <1>6. r \in Seq(Packets) /\ Sent(q, p, r)
    BY <1>3, <1>5 DEF ClientFinds, Sent
  <1>7. \A l \in DOMAIN msgs : msgs[l].type # "cursor" /\ msgs[l].type # "content"
    BY <1>1, <1>2, NotUntold
  <1>8. ~Has(q, "click") /\ ~Has(q, "swap")
    BY <1>1 DEF Has, TypesIn, OnTheWay
  <1>9. /\ s \in Players /\ q \in Seq(Packets) /\ v \in Views /\ msgs \in Seq(Messages)
        /\ OwnIn(s, q, v, msgs, frozen, "told", stuck) /\ Telling(s, "told")
    BY <1>3 DEF ClientFinds
  <1>10. view'[c] = w /\ r = Append(toServer[c], p) /\ Send(c, p)
    BY <1>1, <1>3 DEF ClientFinds
  <1> HIDE DEF q, v, msgs, s, p, w, r, frozen, stuck
  <1>11. OwnIn(s, r, w, msgs, frozen, "told", stuck)
    BY <1>4, <1>6, <1>7, <1>8, <1>9, OwnClicked
  <1>12. QED
    BY <1>2, <1>3, <1>10, <1>11, SentOwn DEF q, v, msgs, s, frozen, stuck, ClientFinds

\* ClientDrops.
LEMMA ClientDropsOwn ==
    ASSUME TInv, Quiet, "drop" \in Avoided, NEW c \in Clients,
           OwnIs(c), Telling(inv[c], Since(c)), ClientDrops(c)
    PROVE  OwnIs(c)' /\ inv'[c].win = inv[c].win
  <1>1. PICK all \in BOOLEAN :
           /\ view' = [view EXCEPT ![c].own[FirstMain] =
                          WithCount(@, IF all THEN 0 ELSE @.count - 1)]
           /\ Send(c, [type |-> "drop", all |-> all])
    BY DEF ClientDrops
  <1>2. /\ phase = "idle" /\ out[c] = <<>> /\ toClient[c] = <<>>
        /\ ~OnTheWay(toServer[c], LAMBDA p : p.type \in {"click", "swap"})
        /\ view[c].cursor = Empty /\ view[c].own[FirstMain] # Empty
    BY DEF ClientDrops, Quiet
  <1>3. ClientFinds(c)
    BY <1>2, ClientKnows
  <1> DEFINE q == toServer[c]
             v == view[c]
             msgs == Coming(c)
             s == inv[c]
             p == [type |-> "drop", all |-> all]
             w == view'[c]
             r == Append(q, p)
             frozen == c \in readonly
             stuck == Stuck(c)
  <1>4. p \in Packets /\ p.type = "drop" /\ p.all = all
    BY DEF Packets
  <1>5. r \in Seq(Packets) /\ Sent(q, p, r)
    BY <1>3, <1>4 DEF ClientFinds, Sent
  <1>6. Nothing(msgs)
    BY <1>2, NothingComing DEF Nothing
  <1>7. ~Has(q, "click") /\ ~Has(q, "swap")
    BY <1>2 DEF Has, TypesIn, OnTheWay
  <1>8. /\ s \in Players /\ q \in Seq(Packets) /\ v \in Views /\ msgs \in Seq(Messages)
        /\ OwnIn(s, q, v, msgs, frozen, "told", stuck) /\ Telling(s, "told")
    BY <1>3 DEF ClientFinds
  <1>9. v.own \in [OwnSlots -> Stacks] /\ FirstMain \in OwnSlots /\ v.own[FirstMain] \in Stacks
    BY <1>8, SlotsAre DEF Views
  <1>10. /\ w.win = v.win /\ w.ownSid = v.ownSid /\ w.cursor = v.cursor
         /\ \A j \in OwnSlots : w.own[j] =
               IF j = FirstMain THEN WithCount(v.own[j], IF p.all THEN 0 ELSE v.own[j].count - 1) ELSE v.own[j]
    <2> DEFINE left == WithCount(v.own[FirstMain], IF all THEN 0 ELSE v.own[FirstMain].count - 1)
    <2>1. w = [v EXCEPT !.own = [v.own EXCEPT ![FirstMain] = left]]
      BY <1>1, <1>3 DEF ClientFinds
    <2> HIDE DEF left, w
    <2>2. /\ w.win = v.win /\ w.ownSid = v.ownSid /\ w.cursor = v.cursor
          /\ w.own = [v.own EXCEPT ![FirstMain] = left]
      BY <1>8, <2>1 DEF Views
    <2>3. \A j \in OwnSlots : w.own[j] = IF j = FirstMain THEN left ELSE v.own[j]
      BY <1>9, <2>2
    <2>4. QED
      BY <1>4, <2>2, <2>3 DEF left
  <1>11. w \in Views
    <2>1. TInv'
      BY ClientDropsTypes
    <2>2. QED
      BY <2>1 DEF TInv, TrafficOK
  <1>12. v.cursor = Empty /\ v.own[FirstMain] # Empty
    BY <1>2
  <1>13. r = Append(toServer[c], p) /\ Send(c, p)
    BY <1>1
  <1> HIDE DEF q, v, msgs, s, p, w, r, frozen, stuck
  <1>14. OwnIn(s, r, w, msgs, frozen, "told", stuck)
    BY <1>4, <1>5, <1>6, <1>7, <1>8, <1>10, <1>11, <1>12, OwnDropped
  <1>15. QED
    BY <1>2, <1>3, <1>13, <1>14, SentOwn DEF q, v, msgs, s, w, frozen, stuck, ClientFinds

\* ClientSwapsHands.
LEMMA ClientSwapsHandsOwn ==
    ASSUME TInv, Quiet, {"overwrite", "cursor", "hurry"} \subseteq Avoided, NEW c \in Clients,
           OwnIs(c), Telling(inv[c], Since(c)), ClientSwapsHands(c)
    PROVE  OwnIs(c)' /\ inv'[c].win = inv[c].win
  <1>1. /\ ~Untold(c, "cursor") /\ ~Untold(c, "content")
        /\ ~OnTheWay(toServer[c], LAMBDA p : p.type \in {"click", "drop"})
        /\ view[c].cursor = Empty /\ UNCHANGED view /\ Send(c, [type |-> "swap"])
    BY DEF ClientSwapsHands
  <1>2. phase = "idle" /\ out[c] = <<>>
    BY DEF ClientSwapsHands, Quiet
  <1>3. ClientFinds(c)
    BY <1>2, ClientKnows
  <1> DEFINE q == toServer[c]
             v == view[c]
             msgs == Coming(c)
             s == inv[c]
             p == [type |-> "swap"]
             r == Append(q, p)
             frozen == c \in readonly
             stuck == Stuck(c)
  <1>4. p \in Packets /\ p.type = "swap"
    BY DEF Packets
  <1>5. r \in Seq(Packets) /\ Sent(q, p, r)
    BY <1>3, <1>4 DEF ClientFinds, Sent
  <1>6. \A l \in DOMAIN msgs : msgs[l].type # "cursor" /\ msgs[l].type # "content"
    BY <1>1, <1>2, NotUntold
  <1>7. ~Has(q, "click") /\ ~Has(q, "drop")
    BY <1>1 DEF Has, TypesIn, OnTheWay
  <1>8. /\ s \in Players /\ q \in Seq(Packets) /\ v \in Views /\ msgs \in Seq(Messages)
        /\ OwnIn(s, q, v, msgs, frozen, "told", stuck) /\ Telling(s, "told") /\ v.cursor = Empty
    BY <1>1, <1>3 DEF ClientFinds
  <1>9. view'[c] = v /\ r = Append(toServer[c], p) /\ Send(c, p)
    BY <1>1
  <1> HIDE DEF q, v, msgs, s, p, r, frozen, stuck
  <1>10. OwnIn(s, r, v, msgs, frozen, "told", stuck)
    BY <1>4, <1>5, <1>6, <1>7, <1>8, OwnSwapped
  <1>11. QED
    BY <1>2, <1>3, <1>9, <1>10, SentOwn DEF q, msgs, s, frozen, stuck, ClientFinds

\* ClientReceives.
LEMMA ClientReceivesOwn ==
    ASSUME TInv, NEW c \in Clients, OwnIs(c), Telling(inv[c], Since(c)), ClientReceives(c)
    PROVE  OwnIs(c)' /\ inv'[c].win = inv[c].win
  <1>1. phase = "idle" /\ UNCHANGED <<serverVars, toServer, out, phase, todo>>
    BY DEF ClientReceives
  <1>2. UNCHANGED <<inv, box, readonly>>
    BY <1>1 DEF serverVars
  <1>3. ClientFinds(c)
    BY <1>1, ClientKnows
  <1>4. PICK h \in Seq(Messages) : Coming(c) = h \o Coming(c)' /\ view'[c] = Shows(view[c], h)
    BY ComingReceived
  <1>5. Coming(c)' \in Seq(Messages)
    BY ComingReceived
  <1> DEFINE t == Coming(c)'
             msgs == Coming(c)
             s == inv[c]
             q == toServer[c]
             v == view[c]
             frozen == c \in readonly
             stuck == Stuck(c)
  <1>6. /\ s \in Players /\ v \in Views /\ OwnIn(s, q, v, msgs, frozen, "told", stuck)
        /\ msgs = h \o t /\ t \in Seq(Messages)
    BY <1>3, <1>4, <1>5 DEF ClientFinds
  <1> HIDE DEF t, msgs, s, q, v, frozen, stuck
  <1>7. OwnIn(s, q, Shows(v, h), t, frozen, "told", stuck)
    <2>1. OwnIn(s, q, v, h \o t, frozen, "told", stuck)
      BY <1>6
    <2>2. QED
      BY <1>6, <2>1, OwnReceived
  <1>8. Since(c)' = "told"
    BY <1>1 DEF Since
  <1>9. Stuck(c)' = Stuck(c)
    BY <1>2, StuckSame
  <1>10. QED
    BY <1>1, <1>2, <1>4, <1>7, <1>8, <1>9 DEF OwnIs, t, s, q, v, frozen, stuck

\* All the client does.
LEMMA ClientOwn ==
    ASSUME TInv, Quiet, {"overwrite", "drop", "cursor", "hurry"} \subseteq Avoided, NEW c \in Clients,
           OwnIs(c), Telling(inv[c], Since(c)), Client(c)
    PROVE  OwnIs(c)' /\ inv'[c].win = inv[c].win
  <1>1. ~ClientCloses(c)
    BY ClientKnows DEF ClientCloses, ClientFinds, ViewOpen
  <1>2. QED
    BY <1>1, ClientClicksOwn, ClientDropsOwn, ClientSwapsHandsOwn, ClientReceivesOwn DEF Client

-----------------------------------------------------------------------------
(***************************************************************************)
(* PostUpdate.                                                             *)
(***************************************************************************)
\* Nothing is said of the stack in hand.
SilentOn(msgs) ==
    \A k \in DOMAIN msgs :
        /\ msgs[k].type # "content"
        /\ msgs[k].type = "slots" => FirstMain \notin DOMAIN msgs[k].stacks

\* One more message is written.
LEMMA OneMore ==
    ASSUME NEW s \in Players, NEW t \in Players, s.sid <= t.sid,
           NEW v \in Views, NEW msgs \in Seq(Messages), OwnComing(s, v, msgs),
           NEW m \in Messages, OwnMessage(m), Sided(m) => m.sid = t.sid, m.type = "slots" => s.sid < t.sid
    PROVE  LET more == msgs \o <<m>>
               W == Shows(v, msgs)
               X == Shows(v, more)
           IN  /\ more \in Seq(Messages) /\ OwnComing(t, v, more) /\ W \in Views /\ X \in Views
               /\ X.own = IF m.type = "content" THEN m.slots
                          ELSE IF m.type = "slots" THEN Updated(W.own, m.stacks) ELSE W.own
               /\ X.cursor = IF m.type = "content" THEN m.carried
                             ELSE IF m.type = "cursor" THEN m.stack ELSE W.cursor
               /\ SilentOn(msgs) /\ m.type # "content"
                      /\ (m.type = "slots" => FirstMain \notin DOMAIN m.stacks) => SilentOn(more)
  <1> DEFINE more == msgs \o <<m>>
             W == Shows(v, msgs)
             X == Shows(v, more)
  <1>1. /\ more \in Seq(Messages) /\ Len(msgs) \in Nat
        /\ DOMAIN msgs = 1..Len(msgs) /\ DOMAIN more = 1..(Len(msgs) + 1)
        /\ more[Len(msgs) + 1] = m /\ \A k \in 1..Len(msgs) : more[k] = msgs[k]
        /\ \A k \in DOMAIN more : k = Len(msgs) + 1 \/ (k \in DOMAIN msgs /\ k < Len(msgs) + 1)
    BY Appended
  <1>2. OwnComing(t, v, more)
    BY OwnComingAppended
  <1>3. (\A k \in DOMAIN msgs : OwnMessage(msgs[k])) /\ v.win = 0
    BY OwnComingMessages DEF OwnComing
  <1>4. W \in Views /\ W.win = 0
    BY <1>3, ShowsOwn
  <1>5. X = Shown(W, m)
    BY ShowsAppended
  <1>6. /\ X \in Views
        /\ X.own = IF m.type = "content" THEN m.slots
                   ELSE IF m.type = "slots" THEN Updated(W.own, m.stacks) ELSE W.own
        /\ X.cursor = IF m.type = "content" THEN m.carried
                      ELSE IF m.type = "cursor" THEN m.stack ELSE W.cursor
    <2> HIDE DEF X, W
    <2>1. QED
      BY <1>4, <1>5, ShownOwn
  <1>7. ASSUME SilentOn(msgs), m.type # "content", m.type = "slots" => FirstMain \notin DOMAIN m.stacks
        PROVE  SilentOn(more)
    <2> HIDE DEF more
    <2>1. ASSUME NEW k \in DOMAIN more
          PROVE  more[k].type # "content" /\ (more[k].type = "slots" => FirstMain \notin DOMAIN more[k].stacks)
      <3>1. CASE k = Len(msgs) + 1
        BY <1>1, <1>7, <3>1
      <3>2. CASE k \in DOMAIN msgs
        <4>1. more[k] = msgs[k]
          BY <1>1, <3>2
        <4>2. QED
          BY <1>7, <3>2, <4>1 DEF SilentOn
      <3>3. QED
        BY <1>1, <2>1, <3>1, <3>2
    <2>2. QED
      BY <2>1 DEF SilentOn
  <1>8. QED
    BY <1>1, <1>2, <1>4, <1>6, <1>7

\* Messages after which the slots and the cursor are shown as before.
Unnoticed(s, v, msgs, more) ==
    /\ more \in Seq(Messages) /\ OwnComing(s, v, more)
    /\ Shows(v, more).own = Shows(v, msgs).own /\ Shows(v, more).cursor = Shows(v, msgs).cursor
    /\ SilentOn(msgs) => SilentOn(more)

\* No message goes unnoticed,
LEMMA NothingMore ==
    ASSUME NEW s \in Players, NEW v \in Views, NEW msgs \in Seq(Messages), OwnComing(s, v, msgs)
    PROVE  Unnoticed(s, v, msgs, msgs \o <<>>)
  <1>1. msgs \o <<>> = msgs
    OBVIOUS
  <1>2. QED
    BY <1>1 DEF Unnoticed

\* and so does CloseScreen, to a client with no window,
LEMMA ClosedMore ==
    ASSUME NEW s \in Players, NEW v \in Views, NEW msgs \in Seq(Messages), OwnComing(s, v, msgs)
    PROVE  Unnoticed(s, v, msgs, msgs \o <<CloseScreen>>)
  <1> DEFINE m == CloseScreen
             more == msgs \o <<m>>
             W == Shows(v, msgs)
             X == Shows(v, more)
  <1>1. m \in Messages /\ m.type = "close"
    BY DEF CloseScreen, Messages
  <1> HIDE DEF m
  <1>2. OwnMessage(m) /\ ~Sided(m)
    BY <1>1 DEF OwnMessage, Sided
  <1>3. s.sid <= s.sid
    BY SidIn
  <1>4. /\ more \in Seq(Messages) /\ OwnComing(s, v, more)
        /\ X.own = IF m.type = "content" THEN m.slots
                   ELSE IF m.type = "slots" THEN Updated(W.own, m.stacks) ELSE W.own
        /\ X.cursor = IF m.type = "content" THEN m.carried
                      ELSE IF m.type = "cursor" THEN m.stack ELSE W.cursor
        /\ SilentOn(msgs) /\ m.type # "content"
               /\ (m.type = "slots" => FirstMain \notin DOMAIN m.stacks) => SilentOn(more)
    BY <1>1, <1>2, <1>3, OneMore
  <1> HIDE DEF more, W, X
  <1>5. /\ more \in Seq(Messages) /\ OwnComing(s, v, more) /\ X.own = W.own /\ X.cursor = W.cursor
        /\ SilentOn(msgs) => SilentOn(more)
    BY <1>1, <1>4
  <1>6. QED
    BY <1>5 DEF Unnoticed, more, W, X, m

\* and one after the other.
LEMMA UnnoticedTwice ==
    ASSUME NEW s, NEW v, NEW a, NEW b, NEW c, Unnoticed(s, v, a, b), Unnoticed(s, v, b, c)
    PROVE  Unnoticed(s, v, a, c)
  BY DEF Unnoticed

\* The cursor as it is, if it has to be told.
CursorAdded(s, due, msgs, more) == more = msgs \o (IF due THEN <<CursorUpdate(s.cursor)>> ELSE <<>>)

\* The cursor is added if it is due.
LEMMA CursorMore ==
    ASSUME NEW s \in Players, NEW v \in Views, NEW msgs \in Seq(Messages), OwnComing(s, v, msgs),
           NEW due \in BOOLEAN, NEW more, CursorAdded(s, due, msgs, more)
    PROVE  /\ more \in Seq(Messages) /\ OwnComing(s, v, more)
           /\ Shows(v, more).own = Shows(v, msgs).own
           /\ Shows(v, more).cursor = IF due THEN s.cursor ELSE Shows(v, msgs).cursor
           /\ SilentOn(msgs) => SilentOn(more)
  <1>1. CASE due
    <2> DEFINE m == CursorUpdate(s.cursor)
               two == msgs \o <<m>>
               W == Shows(v, msgs)
               X == Shows(v, two)
    <2>1. m \in Messages /\ m.type = "cursor" /\ m.stack = s.cursor
      BY DEF CursorUpdate, Messages, Players
    <2> HIDE DEF m
    <2>2. OwnMessage(m) /\ ~Sided(m) /\ s.sid <= s.sid
      BY <2>1, SidIn DEF OwnMessage, Sided
    <2>3. /\ two \in Seq(Messages) /\ OwnComing(s, v, two)
          /\ X.own = IF m.type = "content" THEN m.slots
                     ELSE IF m.type = "slots" THEN Updated(W.own, m.stacks) ELSE W.own
          /\ X.cursor = IF m.type = "content" THEN m.carried
                        ELSE IF m.type = "cursor" THEN m.stack ELSE W.cursor
          /\ SilentOn(msgs) /\ m.type # "content"
                 /\ (m.type = "slots" => FirstMain \notin DOMAIN m.stacks) => SilentOn(two)
      BY <2>1, <2>2, OneMore
    <2>4. more = two
      BY <1>1 DEF m, CursorAdded
    <2> HIDE DEF two, W, X
    <2>5. /\ two \in Seq(Messages) /\ OwnComing(s, v, two) /\ X.own = W.own /\ X.cursor = s.cursor
          /\ SilentOn(msgs) => SilentOn(two)
      BY <2>1, <2>3
    <2>6. QED
      BY <1>1, <2>4, <2>5 DEF W, X
  <1>2. CASE ~due
    <2>1. more = msgs
      BY <1>2 DEF CursorAdded
    <2>2. QED
      BY <1>2, <2>1
  <1>3. QED
    BY <1>1, <1>2

\* What the client shows when it gets what is sent of its slots: those that were due.
Heard(s, t, v, msgs, mid) ==
    /\ mid \in Seq(Messages) /\ OwnComing(t, v, mid)
    /\ \A j \in OwnSlots :
          Shows(v, mid).own[j] = IF j \in Due(s) THEN s.slots[j] ELSE Shows(v, msgs).own[j]
    /\ \/ Shows(v, mid).cursor = Shows(v, msgs).cursor
       \/ Shows(v, mid).cursor = s.cursor /\ t.sid # s.sid
    /\ FirstMain \notin Due(s) /\ SilentOn(msgs) => SilentOn(mid)
    /\ t.sid \in {s.sid, s.sid + 1}
    /\ t.sid = s.sid => Due(s) = {}

\* PostUpdate clears the marks and sends what they were for.
LEMMA OwnTold ==
    ASSUME NEW s \in Players, NEW q \in Seq(Packets), NEW v \in Views, NEW msgs \in Seq(Messages),
           NEW frozen, NEW stuck, OwnIn(s, q, v, msgs, frozen, "user", stuck),
           NEW t \in Players, t.slots = s.slots, t.changed = {}, t.touched = {},
           t.cursor = s.cursor, ~t.cursorChanged,
           NEW mid, Heard(s, t, v, msgs, mid),
           NEW more \in Seq(Messages), OwnComing(t, v, more), Shows(v, more).own = Shows(v, mid).own,
           Shows(v, more).cursor = IF CursorDue(s) THEN s.cursor ELSE Shows(v, mid).cursor,
           SilentOn(mid) => SilentOn(more), NEW then
    PROVE  OwnIn(t, q, v, more, frozen, "told", then)
  <1> DEFINE W == Shows(v, msgs)
             X == Shows(v, more)
             Y == Shows(v, mid)
  <1>1. /\ OwnQueue(s, q) /\ OwnMarks(s, q, "user", stuck) /\ OwnCursor(s, q)
        /\ OwnDrops(s, q, msgs, frozen) /\ OwnShown(s, q, W, frozen)
    BY DEF OwnIn
  <1>2. /\ \A j \in OwnSlots : X.own[j] = IF j \in Due(s) THEN s.slots[j] ELSE W.own[j]
        /\ Y.cursor = W.cursor \/ (Y.cursor = s.cursor /\ t.sid # s.sid)
        /\ X.cursor = IF CursorDue(s) THEN s.cursor ELSE Y.cursor
        /\ FirstMain \notin Due(s) /\ SilentOn(msgs) => SilentOn(more)
        /\ t.sid \in {s.sid, s.sid + 1} /\ (t.sid = s.sid => Due(s) = {})
    BY DEF Heard
  <1> HIDE DEF W, X, Y
  <1>3. s.sid \in Nat /\ s.sid <= t.sid /\ (t.sid # s.sid => s.sid < t.sid)
    BY <1>2, SidIn
  <1>4. Due(t) = {} /\ ~CursorDue(t)
    BY NothingDue DEF CursorDue
  <1>5. \A j \in OwnSlots : HeldThen(t, q, j) = HeldThen(s, q, j)
    BY DEF HeldThen
  <1>6. \A j \in Due(s) : HeldThen(s, q, j) = s.slots[j]
    BY <1>1 DEF HeldThen, AfterDrops, OwnMarks
  <1>7. OwnQueue(t, q)
    <2>1. ASSUME NEW k \in DOMAIN q, q[k].type = "click" PROVE q[k].sid <= t.sid
      <3>1. q[k].sid <= s.sid
        BY <1>1, <2>1 DEF OwnQueue
      <3>2. q[k] \in ClickPackets
        BY <2>1, PacketTypesAre
      <3>3. q[k].sid \in Nat
        BY <3>2 DEF ClickPackets, ClickRecords
      <3>4. QED
        BY <1>3, <3>1, <3>3, SidIn
    <2>2. QED
      BY <1>1, <2>1 DEF OwnQueue
  <1>8. OwnMarks(t, q, "told", then)
    BY <1>1, <1>4 DEF OwnMarks
  <1>9. OwnCursor(t, q)
    BY <1>1, <1>4 DEF OwnCursor
  <1>10. OwnDrops(t, q, more, frozen)
    <2> SUFFICES ASSUME Has(q, "drop"), ~frozen PROVE OwnDrops(t, q, more, frozen)
      BY DEF OwnDrops
    <2>1. FirstMain \notin Due(s) /\ SilentOn(msgs)
      BY <1>1 DEF OwnMarks, OwnDrops, SilentOn
    <2>2. SilentOn(more)
      BY <1>2, <2>1
    <2>3. QED
      BY <1>1, <2>2 DEF OwnDrops, SilentOn
  <1>11. OwnShown(t, q, X, frozen)
    <2>1. ASSUME \A k \in DOMAIN q : ~SlotClick(q[k]) /\ ~OutsideClick(q[k]) PROVE X.cursor = t.cursor
      BY <1>1, <1>2, <2>1 DEF OwnShown
    <2>2. ASSUME ~Resends(t, q, frozen), NEW k \in DOMAIN q, SlotClick(q[k])
          PROVE  SlotsPredicted(t, q, X, q[k])
      <3>1. q[k].sid = t.sid
        BY <2>2 DEF Resends
      <3>2. q[k].sid <= s.sid
        BY <1>1, <2>2 DEF OwnQueue, SlotClick
      <3>3. t.sid = s.sid
        BY <1>2, <1>3, <3>1, <3>2
      <3>4. Due(s) = {} /\ Y.cursor = W.cursor
        BY <1>2, <3>3
      <3>5. ~Resends(s, q, frozen)
        BY <2>2, <3>3 DEF Resends
      <3>6. SlotsPredicted(s, q, W, q[k])
        BY <1>1, <2>2, <3>5 DEF OwnShown
      <3>7. ~CursorDue(s)
        <4>1. q # <<>> /\ ~Has(q, "swap")
          BY <1>1, <2>2 DEF OwnQueue, SlotClick
        <4>2. QED
          BY <1>1, <4>1 DEF OwnCursor, CursorDue
      <3>8. X.cursor = W.cursor /\ \A j \in OwnSlots : X.own[j] = W.own[j]
        BY <1>2, <3>4, <3>7
      <3>9. QED
        BY <1>4, <1>5, <3>4, <3>6, <3>8 DEF SlotsPredicted
    <2>3. ASSUME ~Resends(t, q, frozen), \A k \in DOMAIN q : ~SlotClick(q[k])
          PROVE  ~Resends(s, q, frozen)
      BY <2>3 DEF Resends
    <2>4. ASSUME ~Resends(t, q, frozen), NEW k \in DOMAIN q, DropKeyClick(q[k])
          PROVE  KeyPredicted(t, q, X, q[k])
      <3> DEFINE p == q[k]
      <3>1. \A l \in DOMAIN q : ~SlotClick(q[l])
        <4> SUFFICES ASSUME NEW l \in DOMAIN q, SlotClick(q[l]) PROVE FALSE
          OBVIOUS
        <4>1. l = Len(q) /\ k = Len(q)
          BY <1>1, <2>4 DEF OwnQueue, SlotClick, DropKeyClick
        <4>2. QED
          BY <2>4, <4>1 DEF SlotClick
      <3>2. KeyPredicted(s, q, W, p)
        BY <1>1, <2>3, <2>4, <3>1 DEF OwnShown
      <3> HIDE DEF p
      <3>3. DOMAIN p.changes = {p.at}
        BY <3>2 DEF KeyPredicted
      <3>4. \A j \in OwnSlots \ Due(t) :
                \/ X.own[j] = HeldThen(t, q, j)
                \/ j = p.at /\ X.own[j] = p.changes[j]
        BY <1>2, <1>5, <1>6, <3>2 DEF KeyPredicted
      <3>5. ASSUME p.at = FirstMain, Has(q, "drop")
            PROVE  LET held == HeldThen(t, q, FirstMain)
                   IN  /\ X.own[FirstMain] = p.changes[FirstMain]
                       /\ held # Empty
                       /\ p.changes[FirstMain] = WithCount(held, IF p.button = 1 THEN 0 ELSE held.count - 1)
        <4>1. FirstMain \in OwnSlots /\ FirstMain \notin Due(s)
          BY <1>1, <3>5, SlotsAre DEF OwnMarks
        <4>2. X.own[FirstMain] = W.own[FirstMain] /\ HeldThen(t, q, FirstMain) = HeldThen(s, q, FirstMain)
          BY <1>2, <1>5, <4>1
        <4>3. QED
          BY <3>2, <3>5, <4>2 DEF KeyPredicted
      <3>6. KeyPredicted(t, q, X, p)
        BY <3>3, <3>4, <3>5 DEF KeyPredicted
      <3>7. QED
        BY <3>6 DEF p
    <2>5. ASSUME ~Resends(t, q, frozen), \A k \in DOMAIN q : ~SlotClick(q[k]) /\ ~DropKeyClick(q[k])
          PROVE  \A j \in OwnSlots \ Due(t) : X.own[j] = HeldThen(t, q, j)
      <3>1. \A j \in OwnSlots \ Due(s) : W.own[j] = HeldThen(s, q, j)
        BY <1>1, <2>3, <2>5 DEF OwnShown
      <3>2. QED
        BY <1>2, <1>5, <1>6, <3>1
    <2>6. QED
      BY <2>1, <2>2, <2>4, <2>5 DEF OwnShown
  <1>12. QED
    BY <1>7, <1>8, <1>9, <1>10, <1>11 DEF OwnIn, X

\* Nothing is sent of the slots.
LEMMA HeardNone ==
    ASSUME NEW s \in Players, NEW t \in Players, t.sid = s.sid, NEW v, NEW msgs, NEW mid,
           Unnoticed(s, v, msgs, mid), Due(s) = {}
    PROVE  Heard(s, t, v, msgs, mid)
  <1>1. OwnComing(t, v, mid)
    BY DEF Unnoticed, OwnComing
  <1>2. QED
    BY <1>1 DEF Unnoticed, Heard

\* All contents are sent.
LEMMA HeardContent ==
    ASSUME NEW s \in Players, NEW t \in Players, t.sid = s.sid + 1, t.slots = s.slots, t.cursor = s.cursor,
           NEW v \in Views, NEW msgs, NEW first, Unnoticed(s, v, msgs, first), s.changed = AllBits
    PROVE  Heard(s, t, v, msgs, first \o <<OwnContent(t)>>)
  <1> DEFINE m == OwnContent(t)
             mid == first \o <<m>>
             W == Shows(v, first)
             X == Shows(v, mid)
  <1>1. m \in Messages /\ m.type = "content" /\ m.slots = s.slots /\ m.carried = s.cursor /\ m.sid = t.sid /\ m.win = 0
    BY OwnContentIn DEF OwnContent, Content
  <1> HIDE DEF m
  <1>2. OwnMessage(m) /\ (Sided(m) => m.sid = t.sid) /\ (m.type = "slots" => s.sid < t.sid)
    BY <1>1 DEF OwnMessage
  <1>3. s.sid <= t.sid /\ t.sid # s.sid
    BY SidIn
  <1>4. first \in Seq(Messages) /\ OwnComing(s, v, first)
    BY DEF Unnoticed
  <1>5. /\ mid \in Seq(Messages) /\ OwnComing(t, v, mid)
        /\ X.own = IF m.type = "content" THEN m.slots
                   ELSE IF m.type = "slots" THEN Updated(W.own, m.stacks) ELSE W.own
        /\ X.cursor = IF m.type = "content" THEN m.carried
                      ELSE IF m.type = "cursor" THEN m.stack ELSE W.cursor
    BY <1>1, <1>2, <1>3, <1>4, OneMore
  <1>6. X.own = s.slots /\ X.cursor = s.cursor
    <2> HIDE DEF X
    <2>1. QED
      BY <1>1, <1>5
  <1>7. Due(s) = OwnSlots /\ FirstMain \in OwnSlots
    BY SlotsAre DEF Due
  <1> HIDE DEF mid
  <1>8. Heard(s, t, v, msgs, mid)
    BY <1>3, <1>5, <1>6, <1>7 DEF Heard, X
  <1>9. QED
    BY <1>8 DEF mid, m

\* The slots that others have changed are sent.
LEMMA HeardSlots ==
    ASSUME NEW s \in Players, NEW t \in Players, t.sid = s.sid + 1,
           NEW v \in Views, NEW msgs, NEW first, Unnoticed(s, v, msgs, first), s.changed # AllBits
    PROVE  Heard(s, t, v, msgs, first \o <<SlotUpdates(0, t.sid, Restrict(s.slots, s.changed \ s.touched))>>)
  <1> DEFINE others == s.changed \ s.touched
             f == Restrict(s.slots, others)
             m == SlotUpdates(0, t.sid, f)
             mid == first \o <<m>>
             W == Shows(v, first)
             X == Shows(v, mid)
  <1>1. s.slots \in [OwnSlots -> Stacks] /\ t.sid \in Nat /\ others \subseteq OwnSlots
    BY DEF Players
  <1>2. Due(s) = others
    BY <1>1 DEF Due
  <1>3. s.slots \in StackMaps
    BY <1>1, SlotsAre, MapOf
  <1> HIDE DEF others
  <1>4. f \in StackMaps /\ DOMAIN f = others /\ \A i \in others : f[i] = s.slots[i]
    BY <1>1, <1>3, RestrictIn
  <1> HIDE DEF f
  <1>5. m \in Messages /\ m.type = "slots" /\ m.stacks = f /\ m.sid = t.sid /\ m.win = 0
    BY <1>1, <1>4, SlotUpdatesIn DEF SlotUpdates
  <1> HIDE DEF m
  <1>6. s.sid < t.sid /\ s.sid <= t.sid /\ t.sid # s.sid
    BY SidIn
  <1>7. OwnMessage(m) /\ (Sided(m) => m.sid = t.sid)
    BY <1>5 DEF OwnMessage
  <1>8. first \in Seq(Messages) /\ OwnComing(s, v, first)
    BY DEF Unnoticed
  <1>9. /\ mid \in Seq(Messages) /\ OwnComing(t, v, mid) /\ W \in Views
        /\ X.own = IF m.type = "content" THEN m.slots
                   ELSE IF m.type = "slots" THEN Updated(W.own, m.stacks) ELSE W.own
        /\ X.cursor = IF m.type = "content" THEN m.carried
                      ELSE IF m.type = "cursor" THEN m.stack ELSE W.cursor
        /\ SilentOn(first) /\ m.type # "content"
               /\ (m.type = "slots" => FirstMain \notin DOMAIN m.stacks) => SilentOn(mid)
    BY <1>5, <1>6, <1>7, <1>8, OneMore
  <1> HIDE DEF mid, W, X
  <1>10. /\ X.own = Updated(W.own, f) /\ X.cursor = W.cursor
         /\ SilentOn(first) /\ FirstMain \notin others => SilentOn(mid)
    BY <1>4, <1>5, <1>9
  <1>11. W.own \in [OwnSlots -> Stacks]
    BY <1>9 DEF Views
  <1>12. \A j \in OwnSlots : X.own[j] = IF j \in others THEN s.slots[j] ELSE W.own[j]
    BY <1>4, <1>10, <1>11, UpdatedAt
  <1>13. /\ W.own = Shows(v, msgs).own /\ W.cursor = Shows(v, msgs).cursor
         /\ SilentOn(msgs) => SilentOn(first)
    BY DEF Unnoticed, W
  <1>14. Heard(s, t, v, msgs, mid)
    BY <1>2, <1>6, <1>9, <1>10, <1>12, <1>13 DEF Heard, X
  <1>15. QED
    BY <1>14 DEF mid, m, f, others

\* What is written before: that the last window was closed.
LEMMA ClosedFirst ==
    ASSUME TInv, NEW c \in Clients, OwnIs(c)
    PROVE  /\ Unnoticed(inv[c], view[c], Coming(c), Coming(c) \o ClosedMessage(c))
           /\ Unnoticed(inv[c], view[c], Coming(c), (Coming(c) \o ClosedMessage(c)) \o <<>>)
           /\ Unnoticed(inv[c], view[c], Coming(c), (Coming(c) \o ClosedMessage(c)) \o <<CloseScreen>>)
  <1> DEFINE s == inv[c]
             v == view[c]
             msgs == Coming(c)
             closed == ClosedMessage(c)
             first == msgs \o closed
  <1>1. s \in Players /\ v \in Views /\ msgs \in Seq(Messages) /\ OwnComing(s, v, msgs)
    BY TrafficOf, ComingIn DEF OwnIs, OwnIn
  <1>2. closed = <<>> \/ closed = <<CloseScreen>>
    BY DEF ClosedMessage
  <1> HIDE DEF s, v, msgs, closed
  <1>3. Unnoticed(s, v, msgs, first)
    <2>1. Unnoticed(s, v, msgs, msgs \o <<>>) /\ Unnoticed(s, v, msgs, msgs \o <<CloseScreen>>)
      BY <1>1, NothingMore, ClosedMore
    <2>2. QED
      BY <1>2, <2>1
  <1>4. first \in Seq(Messages) /\ OwnComing(s, v, first)
    BY <1>3 DEF Unnoticed
  <1> HIDE DEF first
  <1>5. Unnoticed(s, v, first, first \o <<>>) /\ Unnoticed(s, v, first, first \o <<CloseScreen>>)
    BY <1>1, <1>4, NothingMore, ClosedMore
  <1>6. Unnoticed(s, v, msgs, first \o <<>>) /\ Unnoticed(s, v, msgs, first \o <<CloseScreen>>)
    BY <1>3, <1>5, UnnoticedTwice
  <1>7. QED
    BY <1>3, <1>6 DEF s, v, msgs, closed, first

\* What becomes of a client that is told of its cursor.
LEMMA CursorToldFields ==
    ASSUME NEW t \in Players
    PROVE  LET u == CursorTold(t)
           IN  /\ u \in Players /\ u.slots = t.slots /\ u.changed = t.changed /\ u.touched = t.touched
               /\ u.cursor = t.cursor /\ ~u.cursorChanged /\ u.sid = t.sid /\ u.open = t.open /\ u.win = t.win
  <1> DEFINE w == IF t.cursorChanged THEN NotTold ELSE t.told
             a == [t EXCEPT !.told = w]
             u == [a EXCEPT !.cursorChanged = FALSE]
  <1>1. u = CursorTold(t)
    BY DEF CursorTold, Players
  <1> HIDE DEF w
  <1>2. /\ DOMAIN a = DOMAIN t /\ a.slots = t.slots /\ a.changed = t.changed /\ a.touched = t.touched
        /\ a.cursor = t.cursor /\ a.sid = t.sid /\ a.open = t.open /\ a.win = t.win
    BY DEF Players
  <1>3. "cursorChanged" \in DOMAIN a
    BY <1>2 DEF Players
  <1> HIDE DEF a
  <1>4. /\ u.slots = a.slots /\ u.changed = a.changed /\ u.touched = a.touched
        /\ u.cursor = a.cursor /\ u.sid = a.sid /\ u.open = a.open /\ u.win = a.win
        /\ u.cursorChanged = FALSE
    BY <1>2, <1>3 DEF Players
  <1> HIDE DEF u
  <1>5. QED
    BY <1>1, <1>2, <1>4, CursorToldIn

\* The share of a client whose own window has been brought up to date.
LEMMA FinishOwn ==
    ASSUME TInv, NEW c \in Clients, OwnIs(c), Telling(inv[c], Since(c)), Comes(c),
           NEW t \in Players, t.open = "none", t.slots = inv[c].slots, t.changed = {}, t.touched = {},
           t.cursor = inv[c].cursor, t.win = inv[c].win,
           NEW m \in Seq(Messages), Finish(c, t, box, m),
           Heard(inv[c], t, view[c], Coming(c), (Coming(c) \o ClosedMessage(c)) \o m)
    PROVE  OwnIs(c)' /\ inv'[c].win = inv[c].win
  <1> DEFINE s == inv[c]
             v == view[c]
             q == toServer[c]
             msgs == Coming(c)
             mid == (Coming(c) \o ClosedMessage(c)) \o m
             due == CursorDue(s)
             more == Coming(c)'
             u == CursorTold(t)
             frozen == c \in readonly
             stuck == Stuck(c)
  <1>1. /\ s \in Players /\ v \in Views /\ q \in Seq(Packets) /\ msgs \in Seq(Messages)
        /\ OwnIn(s, q, v, msgs, frozen, "user", stuck)
    <2>1. Since(c) = "user"
      BY DEF Comes, Since
    <2>2. QED
      BY <2>1, TrafficOf, ComingIn DEF OwnIs
  <1>2. /\ u \in Players /\ u.slots = s.slots /\ u.changed = {} /\ u.touched = {} /\ u.cursor = s.cursor
        /\ ~u.cursorChanged /\ u.sid = t.sid /\ u.open = "none" /\ u.win = s.win
    <2> HIDE DEF u
    <2>1. /\ u \in Players /\ u.slots = t.slots /\ u.changed = t.changed /\ u.touched = t.touched
          /\ u.cursor = t.cursor /\ ~u.cursorChanged /\ u.sid = t.sid /\ u.open = t.open /\ u.win = t.win
      BY CursorToldFields DEF u
    <2>2. QED
      BY <2>1
  <1>3. more = mid \o CursorMessage(c)
    BY ComingFinished
  <1>4. due \in BOOLEAN /\ CursorMessage(c) = IF due THEN <<CursorUpdate(u.cursor)>> ELSE <<>>
    <2>1. s.cursorChanged \in BOOLEAN
      BY <1>1 DEF Players
    <2>2. QED
      BY <1>2, <2>1 DEF CursorMessage, CursorDue
  <1>5. /\ inv' = [inv EXCEPT ![c] = u] /\ UNCHANGED <<readonly, view, toServer>>
        /\ todo' = todo \ {c} /\ (phase' = "idle" \/ phase' = phase)
    BY DEF Finish
  <1>6. inv'[c] = u
    BY <1>5 DEF TInv, TypeOK
  <1>7. Since(c)' = "told"
    BY <1>5 DEF Since, Comes
  <1>8. Heard(s, t, v, msgs, mid)
    OBVIOUS
  <1> HIDE DEF s, v, q, msgs, mid, more, due, u, frozen, stuck
  <1>9. Heard(s, u, v, msgs, mid)
    <2>1. OwnComing(u, v, mid)
      BY <1>2, <1>8 DEF Heard, OwnComing
    <2>2. QED
      BY <1>2, <1>8, <2>1 DEF Heard
  <1>10. mid \in Seq(Messages) /\ OwnComing(u, v, mid)
    BY <1>9 DEF Heard
  <1>11. /\ more \in Seq(Messages) /\ OwnComing(u, v, more)
         /\ Shows(v, more).own = Shows(v, mid).own
         /\ Shows(v, more).cursor = IF due THEN u.cursor ELSE Shows(v, mid).cursor
         /\ SilentOn(mid) => SilentOn(more)
    <2>1. CursorAdded(u, due, mid, more)
      BY <1>3, <1>4 DEF CursorAdded
    <2>2. QED
      BY <1>1, <1>2, <1>4, <1>10, <2>1, CursorMore
  <1>12. Shows(v, more).cursor = IF CursorDue(s) THEN s.cursor ELSE Shows(v, mid).cursor
    BY <1>2, <1>11 DEF due
  <1> DEFINE then == Stuck(c)'
  <1> HIDE DEF then
  <1>13. OwnIn(u, q, v, more, frozen, "told", then)
    BY <1>1, <1>2, <1>9, <1>11, <1>12, OwnTold
  <1>14. OwnIs(c)'
    BY <1>5, <1>6, <1>7, <1>13 DEF OwnIs, q, v, more, frozen, then
  <1>15. QED
    BY <1>2, <1>6, <1>14 DEF s

\* UpdateOwn.
LEMMA UpdateOwnOwn ==
    ASSUME TInv, NEW c \in Clients, OwnIs(c), Telling(inv[c], Since(c)), UpdateOwn(c)
    PROVE  OwnIs(c)' /\ inv'[c].win = inv[c].win
  <1> DEFINE o == inv[c]
             s == [inv[c] EXCEPT !.closed = FALSE]
             told == [s EXCEPT !.changed = {}, !.touched = {}]
             next == [told EXCEPT !.sid = told.sid + 1]
             others == o.changed \ o.touched
             msgs == Coming(c)
             first == Coming(c) \o ClosedMessage(c)
             v == view[c]
  <1>1. /\ Comes(c) /\ o.open = "none"
        /\ \/ o.changed = AllBits /\ Finish(c, next, box, <<OwnContent(next)>>)
           \/ /\ o.changed # AllBits
              /\ Finish(c, next, box, <<SlotUpdates(0, next.sid, Restrict(o.slots, others))>>)
           \/ o.changed # {} /\ others = {} /\ o.changed # AllBits /\ Finish(c, told, box, <<>>)
           \/ o.changed = {} /\ Finish(c, s, box, <<>>)
    <2>1. Comes(c) /\ o.open = "none"
      BY DEF UpdateOwn, IsOpen
    <2>2. o \in Players
      BY DEF TInv, TypeOK
    <2>3. s.changed = o.changed /\ s.touched = o.touched /\ s.slots = o.slots
      BY <2>2 DEF Players
    <2>4. next.sid = s.sid + 1 /\ told.sid = s.sid
      BY <2>2 DEF Players
    <2>5. others = {} => o.changed # AllBits
      <3>1. OffHand + 1 \in AllBits /\ OffHand + 1 \notin OwnSlots
        BY Sizes DEF AllBits, OwnSlots, OffHand
      <3>2. o.touched \subseteq OwnSlots
        BY <2>2 DEF Players
      <3>3. QED
        BY <3>1, <3>2
    <2>6. \/ s.changed = AllBits /\ Finish(c, next, box, <<OwnContent(next)>>)
          \/ /\ s.changed # AllBits
             /\ Finish(c, next, box, <<SlotUpdates(0, s.sid + 1, Restrict(s.slots, s.changed \ s.touched))>>)
          \/ s.changed # {} /\ s.changed \ s.touched = {} /\ Finish(c, told, box, <<>>)
          \/ s.changed = {} /\ Finish(c, s, box, <<>>)
      BY <2>4 DEF UpdateOwn
    <2> HIDE DEF s, told, next
    <2>7. QED
      BY <2>1, <2>3, <2>4, <2>5, <2>6
  <1>2. /\ o \in Players /\ v \in Views /\ msgs \in Seq(Messages)
        /\ o.touched \subseteq o.changed
        /\ Unnoticed(o, v, msgs, first) /\ Unnoticed(o, v, msgs, first \o <<>>)
    BY TrafficOf, ComingIn, ClosedFirst DEF OwnIs, OwnIn, OwnMarks
  <1>3. /\ s \in Players /\ s.open = o.open /\ s.slots = o.slots /\ s.changed = o.changed /\ s.touched = o.touched
        /\ s.cursor = o.cursor /\ s.win = o.win /\ s.sid = o.sid
    BY <1>2 DEF Players
  <1> HIDE DEF s
  <1>4. /\ told \in Players /\ told.open = o.open /\ told.slots = o.slots /\ told.changed = {} /\ told.touched = {}
        /\ told.cursor = o.cursor /\ told.win = o.win /\ told.sid = o.sid
    BY <1>3 DEF Players
  <1> HIDE DEF told
  <1>5. /\ next \in Players /\ next.open = o.open /\ next.slots = o.slots /\ next.changed = {} /\ next.touched = {}
        /\ next.cursor = o.cursor /\ next.win = o.win /\ next.sid = o.sid + 1
    BY <1>4 DEF Players
  <1> HIDE DEF next
  <1>6. CASE o.changed = AllBits /\ Finish(c, next, box, <<OwnContent(next)>>)
    <2> DEFINE m == <<OwnContent(next)>>
    <2>1. OwnContent(next) \in Messages
      BY <1>5, OwnContentIn
    <2>2. m \in Seq(Messages)
      BY <2>1, OneMessage
    <2>3. Heard(o, next, v, msgs, first \o m)
      <3> HIDE DEF o, v, msgs, first
      <3>1. QED
        BY <1>2, <1>5, <1>6, HeardContent
    <2>4. Finish(c, next, box, m)
      BY <1>6
    <2> HIDE DEF m
    <2>5. QED
      BY <1>1, <1>5, <2>2, <2>3, <2>4, FinishOwn
  <1>7. CASE /\ o.changed # AllBits
             /\ Finish(c, next, box, <<SlotUpdates(0, next.sid, Restrict(o.slots, others))>>)
    <2> DEFINE f == Restrict(o.slots, others)
               m == <<SlotUpdates(0, next.sid, f)>>
    <2>1. o.slots \in [OwnSlots -> Stacks] /\ next.sid \in Nat /\ others \subseteq OwnSlots
      BY <1>2, <1>5, <1>7 DEF Players
    <2>2. o.slots \in StackMaps /\ others \subseteq DOMAIN o.slots
      BY <2>1, SlotsAre, MapOf
    <2>3. f \in StackMaps
      <3> HIDE DEF others
      <3>1. QED
        BY <2>2, RestrictIn
    <2>4. SlotUpdates(0, next.sid, f) \in Messages
      BY <2>1, <2>3, SlotUpdatesIn
    <2>5. m \in Seq(Messages)
      BY <2>4, OneMessage
    <2>6. Heard(o, next, v, msgs, first \o m)
      <3> HIDE DEF o, v, msgs, first
      <3>1. QED
        BY <1>2, <1>5, <1>7, HeardSlots
    <2>7. Finish(c, next, box, m)
      BY <1>7
    <2> HIDE DEF m
    <2>8. QED
      BY <1>1, <1>5, <2>5, <2>6, <2>7, FinishOwn
  <1>8. <<>> \in Seq(Messages)
    OBVIOUS
  <1>9. CASE o.changed # {} /\ others = {} /\ o.changed # AllBits /\ Finish(c, told, box, <<>>)
    <2>1. Due(o) = {}
      BY <1>9 DEF Due
    <2>2. Heard(o, told, v, msgs, first \o <<>>)
      BY <1>2, <1>4, <2>1, HeardNone
    <2>3. QED
      BY <1>1, <1>4, <1>8, <1>9, <2>2, FinishOwn
  <1>10. CASE o.changed = {} /\ Finish(c, s, box, <<>>)
    <2>1. Due(o) = {} /\ s.touched = {} /\ s.changed = {}
      BY <1>2, <1>3, <1>10, NothingDue
    <2>2. Heard(o, s, v, msgs, first \o <<>>)
      BY <1>2, <1>3, <2>1, HeardNone
    <2>3. QED
      BY <1>1, <1>3, <1>8, <1>10, <2>1, <2>2, FinishOwn
  <1>11. QED
    BY <1>1, <1>6, <1>7, <1>9, <1>10

\* UpdateGone, which would keep marks: there are none.
LEMMA UpdateGoneOwn ==
    ASSUME TInv, NEW c \in Clients, OwnIs(c), Telling(inv[c], Since(c)), UpdateGone(c)
    PROVE  OwnIs(c)' /\ inv'[c].win = inv[c].win
  <1> DEFINE o == inv[c]
             t == [WithoutWindow(o) EXCEPT !.closed = TRUE]
             m == <<CloseScreen>>
  <1>1. Comes(c) /\ Stuck(c) /\ Finish(c, t, box, m)
    BY DEF UpdateGone, HasBox, Stuck
  <1>2. o \in Players /\ o.changed = {} /\ o.touched = {}
    BY <1>1, TrafficOf DEF OwnIs, OwnIn, OwnMarks
  <1>3. /\ t \in Players /\ t.open = "none" /\ t.slots = o.slots /\ t.changed = {} /\ t.touched = {}
        /\ t.cursor = o.cursor /\ t.win = o.win /\ t.sid = o.sid
    <2> DEFINE r == WithoutWindow(o)
    <2>1. /\ r \in Players /\ r.open = "none" /\ r.slots = o.slots /\ r.cursor = o.cursor /\ r.win = o.win
      BY <1>2, WithoutWindowIn
    <2>2. r.changed = o.changed /\ r.touched = o.touched /\ r.sid = o.sid
      BY <1>2 DEF WithoutWindow, Players
    <2>3. t = [r EXCEPT !.closed = TRUE]
      OBVIOUS
    <2> HIDE DEF t, r
    <2>4. /\ t \in Players /\ t.open = r.open /\ t.slots = r.slots /\ t.changed = r.changed
          /\ t.touched = r.touched /\ t.cursor = r.cursor /\ t.win = r.win /\ t.sid = r.sid
      BY <2>1, <2>3 DEF Players
    <2>5. QED
      BY <1>2, <2>1, <2>2, <2>4
  <1>4. CloseScreen \in Messages
    BY DEF CloseScreen, Messages
  <1>5. m \in Seq(Messages)
    BY <1>4, OneMessage
  <1>6. Due(o) = {}
    BY <1>2, NothingDue
  <1>7. Unnoticed(o, view[c], Coming(c), (Coming(c) \o ClosedMessage(c)) \o m)
    BY ClosedFirst
  <1> HIDE DEF t
  <1>8. Heard(o, t, view[c], Coming(c), (Coming(c) \o ClosedMessage(c)) \o m)
    BY <1>2, <1>3, <1>6, <1>7, HeardNone
  <1> HIDE DEF m
  <1>9. QED
    BY <1>1, <1>3, <1>5, <1>8, FinishOwn

-----------------------------------------------------------------------------
(***************************************************************************)
(* What is done for one client leaves the others as they are.              *)
(***************************************************************************)
\* Another client acts.
LEMMA ClientOthers ==
    ASSUME TInv, NEW c \in Clients, NEW d \in Clients, c # d, Client(d), OwnIs(c), Telling(inv[c], Since(c))
    PROVE  OwnIs(c)' /\ inv'[c].win = inv[c].win
  <1>1. /\ toServer \in [Clients -> Seq(Packets)] /\ view \in [Clients -> Views]
        /\ toClient \in [Clients -> Seq(Seq(Messages))]
    BY DEF TInv, TrafficOK
  <1>2. ASSUME ClientClicks(d) \/ ClientCloses(d) \/ ClientDrops(d) \/ ClientSwapsHands(d)
        PROVE  /\ UNCHANGED <<serverVars, toClient, out, phase, todo>>
               /\ toServer'[c] = toServer[c] /\ view'[c] = view[c]
    <2>1. CASE ClientClicks(d)
      BY <1>1, <2>1 DEF ClientClicks, Send
    <2>2. CASE ClientCloses(d)
      BY <1>1, <2>2 DEF ClientCloses, Send
    <2>3. CASE ClientDrops(d)
      BY <1>1, <2>3 DEF ClientDrops, Send
    <2>4. CASE ClientSwapsHands(d)
      BY <1>1, <2>4 DEF ClientSwapsHands, Send
    <2>5. QED
      BY <1>2, <2>1, <2>2, <2>3, <2>4
  <1>3. /\ UNCHANGED <<serverVars, phase, todo>>
        /\ toServer'[c] = toServer[c] /\ view'[c] = view[c] /\ Coming(c)' = Coming(c)
    <2>1. CASE ClientReceives(d)
      BY <2>1, ComingReceived DEF ClientReceives
    <2>2. CASE ~ClientReceives(d)
      BY <1>2, <2>2, ComingSame DEF Client
    <2>3. QED
      BY <2>1, <2>2
  <1>4. UNCHANGED <<inv, box, readonly>>
    BY <1>3 DEF serverVars
  <1>5. Stuck(c)' = Stuck(c)
    BY <1>4, StuckSame
  <1>6. Since(c)' = Since(c)
    BY <1>3 DEF Since
  <1>7. QED
    BY <1>3, <1>4, <1>5, <1>6, OwnKept

\* What a packet of one client does to the others: nothing.
LEMMA PacketTo ==
    ASSUME TInv, NEW c \in Clients, NEW d \in Clients, c # d, Packet(d)
    PROVE  /\ \E t : Takes(d, t)
           /\ inv'[c] = inv[c] /\ out'[c] = out[c] /\ box'.life = box.life
  <1>1. inv \in [Clients -> Players] /\ out \in [Clients -> Seq(Messages)] /\ box \in Boxes
    BY DEF TInv, TypeOK, TrafficOK
  <1>2. \A slots : SetSlots(box, slots).life = box.life
    BY <1>1 DEF SetSlots, Boxes
  <1>3. \A msgs : Write(d, msgs) => out'[c] = out[c]
    BY <1>1 DEF Write
  <1>4. \A s : inv' = [inv EXCEPT ![d] = s] => inv'[c] = inv[c]
    BY <1>1
  <1>5. CASE RefuseClick(d)
    BY <1>3, <1>5 DEF RefuseClick
  <1>6. CASE DropCursor(d)
    BY <1>1, <1>6 DEF DropCursor
  <1>7. CASE ResyncClick(d)
    BY <1>3, <1>4, <1>7 DEF ResyncClick
  <1>8. CASE DropFromWindow(d)
    <2>1. /\ \E t : Takes(d, t)
          /\ inv' = inv \/ (\E s : inv' = [inv EXCEPT ![d] = s])
          /\ out' = out \/ (\E msgs : Write(d, msgs))
          /\ box' = box \/ (\E slots : box' = SetSlots(box, slots))
      BY <1>8 DEF DropFromWindow
    <2>2. QED
      BY <1>2, <1>3, <1>4, <2>1
  <1>9. CASE ApplyClick(d)
    <2>1. /\ \E t : Takes(d, t)
          /\ \E s : inv' = [inv EXCEPT ![d] = s]
          /\ \E msgs : Write(d, msgs)
          /\ \E slots : box' = SetSlots(box, slots)
      BY <1>9 DEF ApplyClick
    <2>2. QED
      BY <1>2, <1>3, <1>4, <2>1
  <1>10. CASE DropHeld(d)
    <2>1. /\ \E t : Takes(d, t)
          /\ inv' = inv \/ (\E s : inv' = [inv EXCEPT ![d] = s])
          /\ out' = out \/ (\E msgs : Write(d, msgs))
          /\ box' = box
      BY <1>10 DEF DropHeld, HeldIsReadonly
    <2>2. QED
      BY <1>3, <1>4, <2>1
  <1>11. CASE SwapHands(d)
    <2>1. /\ \E t : Takes(d, t)
          /\ inv' = inv \/ (\E s : inv' = [inv EXCEPT ![d] = s])
          /\ out' = out \/ (\E msgs : Write(d, msgs))
          /\ box' = box
      BY <1>11 DEF SwapHands, HeldIsReadonly
    <2>2. QED
      BY <1>3, <1>4, <2>1
  <1>12. CASE HandleClose(d)
    BY <1>4, <1>12 DEF HandleClose
  <1>13. QED
    BY <1>5, <1>6, <1>7, <1>8, <1>9, <1>10, <1>11, <1>12 DEF Packet

\* The packet is another's.
LEMMA PacketOthers ==
    ASSUME TInv, NEW c \in Clients, NEW d \in Clients, c # d, Packet(d), OwnIs(c), Telling(inv[c], Since(c))
    PROVE  OwnIs(c)' /\ inv'[c].win = inv[c].win
  <1>1. inv'[c] = inv[c] /\ out'[c] = out[c] /\ box'.life = box.life
    BY PacketTo
  <1>2. PICK t : Takes(d, t)
    BY PacketTo
  <1>3. /\ UNCHANGED <<readonly, view, toClient, todo>>
        /\ phase \in {"idle", "packets"} /\ phase' = "packets"
        /\ toServer' = [toServer EXCEPT ![d] = Tail(toServer[d])]
    BY <1>2 DEF Takes
  <1>4. toServer'[c] = toServer[c]
    BY <1>3 DEF TInv, TrafficOK
  <1>5. Coming(c)' = Coming(c)
    BY <1>1, <1>3, ComingSame
  <1>6. Stuck(c)' = Stuck(c)
    BY <1>1, StuckSame
  <1>7. Since(c)' = "packets" /\ Since(c) \in {"told", "packets"}
    BY <1>3 DEF Since
  <1>8. QED
    BY <1>1, <1>3, <1>4, <1>5, <1>6, <1>7, OwnKept

\* What a client's share of PostUpdate does.
Shares(c) ==
    \E s, b, msgs :
        /\ Comes(c) /\ Finish(c, s, b, msgs)
        /\ b.life = box.life
        /\ s.cursor = inv[c].cursor /\ s.cursorChanged = inv[c].cursorChanged /\ s.told = inv[c].told
        /\ s \in Players /\ (s.win = inv[c].win \/ s.win # 0)

\* Of others PostUpdate changes nothing here.
LEMMA PostUpdateShares ==
    ASSUME TInv, NEW c \in Clients, PostUpdate(c)
    PROVE  Shares(c)
  <1> DEFINE o == inv[c]
             Like(s) == /\ s \in Players /\ s.cursor = o.cursor
                        /\ s.cursorChanged = o.cursorChanged /\ s.told = o.told
                        /\ s.win = o.win \/ s.win # 0
             clean == [box EXCEPT !.changed = {}]
  <1>1. o \in Players /\ clean.life = box.life
    BY DEF TInv, TypeOK, Boxes
  <1> HIDE DEF clean
  <1>2. ASSUME NEW s \in Players, Like(s)
        PROVE  /\ Like([s EXCEPT !.closed = FALSE]) /\ Like([s EXCEPT !.closed = TRUE])
               /\ Like([s EXCEPT !.changed = {}, !.touched = {}]) /\ Like([s EXCEPT !.changed = {}])
               /\ Like([s EXCEPT !.sid = s.sid + 1])
               /\ Like([s EXCEPT !.win = (s.win % 100) + 1])
               /\ Like(Unmarked(s)) /\ Like(WithoutWindow(s))
    <2> HIDE DEF o
    <2>1. Like([s EXCEPT !.closed = FALSE]) /\ Like([s EXCEPT !.closed = TRUE])
      BY <1>2 DEF Players
    <2>2. Like([s EXCEPT !.changed = {}, !.touched = {}]) /\ Like([s EXCEPT !.changed = {}])
      BY <1>2 DEF Players
    <2>3. Like([s EXCEPT !.sid = s.sid + 1])
      BY <1>2 DEF Players
    <2>4. Like([s EXCEPT !.win = (s.win % 100) + 1])
      <3>1. s.win \in 0..100
        BY DEF Players
      <3>2. (s.win % 100) + 1 \in 0..100 /\ (s.win % 100) + 1 # 0
        BY <3>1
      <3>3. QED
        BY <1>2, <3>2 DEF Players
    <2>5. Like(Unmarked(s))
      BY <1>2 DEF Players, Unmarked
    <2>6. Like(WithoutWindow(s))
      BY <1>2 DEF Players, WithoutWindow
    <2>7. QED
      BY <2>1, <2>2, <2>3, <2>4, <2>5, <2>6
  <1>3. Like(o)
    BY <1>1
  <1>4. ASSUME NEW s, NEW b \in {box, clean}, NEW msgs, Comes(c), Finish(c, s, b, msgs), Like(s)
        PROVE  Shares(c)
    BY <1>1, <1>4 DEF Shares
  <1>5. CASE UpdateOwn(c)
    <2> DEFINE s == [inv[c] EXCEPT !.closed = FALSE]
               told == [s EXCEPT !.changed = {}, !.touched = {}]
               next == [told EXCEPT !.sid = told.sid + 1]
    <2>1. Comes(c) /\ (\/ \E msgs : Finish(c, next, box, msgs)
                       \/ Finish(c, told, box, <<>>)
                       \/ Finish(c, s, box, <<>>))
      BY <1>5 DEF UpdateOwn
    <2>2. Like(s)
      BY <1>1, <1>2, <1>3
    <2> HIDE DEF s
    <2>3. Like(told)
      BY <1>2, <2>2
    <2> HIDE DEF told
    <2>4. Like(next)
      BY <1>2, <2>3
    <2> HIDE DEF next, Like
    <2>5. QED
      BY <1>4, <2>1, <2>2, <2>3, <2>4
  <1>6. CASE UpdateGone(c)
    <2> DEFINE r == WithoutWindow(inv[c])
               s == [r EXCEPT !.closed = TRUE]
    <2>1. Comes(c) /\ Finish(c, s, box, <<CloseScreen>>)
      BY <1>6 DEF UpdateGone
    <2>2. Like(r)
      BY <1>1, <1>2, <1>3
    <2> HIDE DEF r
    <2>3. Like(s)
      BY <1>2, <2>2
    <2> HIDE DEF s, Like
    <2>4. QED
      BY <1>4, <2>1, <2>3
  <1>7. CASE UpdateNew(c)
    <2> DEFINE r == Unmarked(inv[c])
               s == [r EXCEPT !.win = (r.win % 100) + 1]
    <2>1. Comes(c) /\ \E msgs : Finish(c, s, clean, msgs)
      BY <1>7 DEF UpdateNew, clean
    <2>2. Like(r)
      BY <1>1, <1>2, <1>3
    <2> HIDE DEF r
    <2>3. Like(s)
      BY <1>2, <2>2
    <2> HIDE DEF s, Like
    <2>4. QED
      BY <1>4, <2>1, <2>3
  <1>8. CASE UpdateShown(c)
    <2> DEFINE s == Unmarked(inv[c])
               next == [s EXCEPT !.sid = s.sid + 1]
               some == [s EXCEPT !.changed = {}]
    <2>1. Comes(c) /\ (\/ \E msgs : Finish(c, next, clean, msgs)
                       \/ \E msgs : Finish(c, some, clean, msgs)
                       \/ Finish(c, s, clean, <<>>))
      BY <1>8 DEF UpdateShown, clean
    <2>2. Like(s)
      BY <1>1, <1>2, <1>3
    <2> HIDE DEF s
    <2>3. Like(next) /\ Like(some)
      BY <1>2, <2>2
    <2> HIDE DEF next, some, Like
    <2>4. QED
      BY <1>4, <2>1, <2>2, <2>3
  <1>9. QED
    BY <1>5, <1>6, <1>7, <1>8 DEF PostUpdate

\* It writes to one client only.
LEMMA ComingOthers ==
    ASSUME TInv, NEW c \in Clients, NEW d \in Clients, c # d, NEW s, NEW b, NEW msgs, Finish(d, s, b, msgs)
    PROVE  Coming(c)' = Coming(c)
  <1> DEFINE now == out[d] \o ClosedMessage(d) \o msgs \o CursorMessage(d)
             written == [out EXCEPT ![d] = now]
             last == todo = {d}
  <1>1. /\ out' = IF last THEN [e \in Clients |-> <<>>] ELSE written
        /\ toClient' = IF last THEN [e \in Clients |->
                IF written[e] = <<>> THEN toClient[e] ELSE Append(toClient[e], written[e])] ELSE toClient
    BY DEF Finish
  <1> HIDE DEF now
  <1>2. written[c] = out[c]
    BY DEF TInv, TrafficOK
  <1> HIDE DEF written
  <1>3. out[c] \in Seq(Messages) /\ toClient[c] \in Seq(Seq(Messages))
    BY TrafficOf
  <1>4. AllOf(toClient[c]) \in Seq(Messages)
    BY <1>3, AllOfIn
  <1>5. CASE ~last
    <2>1. toClient'[c] = toClient[c] /\ out'[c] = out[c]
      BY <1>1, <1>2, <1>5
    <2>2. QED
      BY <2>1, ComingSame
  <1>6. CASE last /\ out[c] = <<>>
    <2>1. toClient'[c] = toClient[c] /\ out'[c] = out[c]
      BY <1>1, <1>2, <1>6
    <2>2. QED
      BY <2>1, ComingSame
  <1>7. CASE last /\ out[c] # <<>>
    <2>1. out'[c] = <<>> /\ toClient'[c] = Append(toClient[c], out[c])
      BY <1>1, <1>2, <1>7
    <2>2. AllOf(toClient'[c]) = AllOf(toClient[c]) \o out[c]
      BY <1>3, <2>1, AllOfAppended
    <2>3. Coming(c)' = (AllOf(toClient[c]) \o out[c]) \o <<>>
      BY <2>1, <2>2 DEF Coming
    <2> DEFINE x == AllOf(toClient[c])
               y == out[c]
    <2>4. x \in Seq(Messages) /\ y \in Seq(Messages)
      BY <1>3, <1>4
    <2>5. Coming(c)' = (x \o y) \o <<>> /\ Coming(c) = x \o y
      BY <2>3 DEF Coming
    <2> HIDE DEF x, y
    <2>6. (x \o y) \o <<>> = x \o y
      BY <2>4
    <2>7. QED
      BY <2>5, <2>6
  <1>8. QED
    BY <1>5, <1>6, <1>7

\* PostUpdate for another.
LEMMA PostUpdateOthers ==
    ASSUME TInv, NEW c \in Clients, NEW d \in Clients, c # d, PostUpdate(d), OwnIs(c), Telling(inv[c], Since(c))
    PROVE  OwnIs(c)' /\ inv'[c].win = inv[c].win
  <1>1. PICK s, b, msgs : Comes(d) /\ Finish(d, s, b, msgs) /\ b.life = box.life
    BY PostUpdateShares DEF Shares
  <1>2. /\ inv' = [inv EXCEPT ![d] = CursorTold(s)]
        /\ box' = IF todo = {d} THEN Despawned(b) ELSE b
        /\ todo' = todo \ {d}
        /\ phase' = IF todo = {d} THEN "idle" ELSE phase
        /\ UNCHANGED <<readonly, view, toServer>>
        /\ phase = "post" /\ d \in todo
    BY <1>1 DEF Finish, Comes
  <1>3. inv'[c] = inv[c]
    BY <1>2 DEF TInv, TypeOK
  <1>4. Coming(c)' = Coming(c)
    BY <1>1, ComingOthers
  <1>5. CASE todo = {d}
    <2>1. Since(c) = "told" /\ Since(c)' = "told"
      BY <1>2, <1>5 DEF Since
    <2>2. QED
      BY <1>2, <1>3, <1>4, <2>1, OwnKept
  <1>6. CASE todo # {d}
    <2>1. Since(c)' = Since(c)
      BY <1>2, <1>6 DEF Since
    <2>2. box'.life = box.life
      BY <1>1, <1>2, <1>6
    <2>3. Stuck(c)' = Stuck(c)
      BY <1>3, <2>2, StuckSame
    <2>4. QED
      BY <1>2, <1>3, <1>4, <2>1, <2>3, OwnKept
  <1>7. QED
    BY <1>5, <1>6

-----------------------------------------------------------------------------
(***************************************************************************)
(* The cursor that has been told.                                          *)
(***************************************************************************)
\* What packets and user code do to a client, whatever else they do.
SameSide(s, t) == t.win = s.win /\ (Telling(s, "user") => Telling(t, "user"))

\* Changes that keep the window, and the cursor told or marked.
LEMMA SameSides ==
    ASSUME NEW s \in Players
    PROVE  /\ SameSide(s, s)
           /\ \A slots : SameSide(s, SetSlots(s, slots))
           /\ \A slots, own : SameSide(s, [SetSlots(s, slots) EXCEPT !.touched = @ \cup own])
           /\ \A n : SameSide(s, [s EXCEPT !.sid = n])
           /\ \A marks : SameSide(s, [s EXCEPT !.changed = marks])
           /\ \A o : SameSide(s, [s EXCEPT !.open = o])
           /\ \A stack : SameSide(s, [s EXCEPT !.cursor = stack, !.cursorChanged = TRUE])
           /\ SameSide(s, WithoutWindow(s))
  <1>1. SameSide(s, s)
    BY DEF SameSide
  <1>2. ASSUME NEW slots PROVE SameSide(s, SetSlots(s, slots))
    BY DEF SameSide, Telling, SetSlots, Players
  <1>3. ASSUME NEW slots, NEW own PROVE SameSide(s, [SetSlots(s, slots) EXCEPT !.touched = @ \cup own])
    BY DEF SameSide, Telling, SetSlots, Players
  <1>4. ASSUME NEW n PROVE SameSide(s, [s EXCEPT !.sid = n])
    BY DEF SameSide, Telling, Players
  <1>5. ASSUME NEW marks PROVE SameSide(s, [s EXCEPT !.changed = marks])
    BY DEF SameSide, Telling, Players
  <1>6. ASSUME NEW o PROVE SameSide(s, [s EXCEPT !.open = o])
    BY DEF SameSide, Telling, Players
  <1>7. ASSUME NEW stack PROVE SameSide(s, [s EXCEPT !.cursor = stack, !.cursorChanged = TRUE])
    BY DEF SameSide, Telling, Players
  <1>8. SameSide(s, WithoutWindow(s))
    BY DEF SameSide, Telling, WithoutWindow, Players
  <1>9. QED
    BY <1>1, <1>2, <1>3, <1>4, <1>5, <1>6, <1>7, <1>8

\* PostUpdate tells the cursor.
LEMMA MarkedSide ==
    ASSUME NEW r, {"win", "told", "cursor"} \subseteq DOMAIN r, NEW own, NEW boxSlots, NEW cursor, NEW changed
    PROVE  LET t == Marked(r, own, boxSlots, cursor, changed) IN t.win = r.win /\ t.told = t.cursor
  BY DEF Marked

\* So do packets.
LEMMA PacketSide ==
    ASSUME TInv, NEW c \in Clients, NEW d \in Clients, Packet(d)
    PROVE  SameSide(inv[c], inv'[c]) /\ Since(c)' = "packets"
  <1>1. inv \in [Clients -> Players] /\ inv[c] \in Players
    BY DEF TInv, TypeOK
  <1>2. Since(c)' = "packets"
    BY DEF Packet, RefuseClick, DropCursor, ResyncClick, DropFromWindow, ApplyClick, DropHeld, SwapHands,
           HandleClose, Takes, Since
  <1>3. CASE c # d
    <2>1. inv'[c] = inv[c]
      BY <1>3, PacketTo
    <2>2. QED
      BY <1>1, <1>2, <2>1, SameSides
  <1>4. CASE c = d
    <2>1. CASE inv' = inv
      BY <1>1, <1>2, <2>1, SameSides
    <2>2. CASE DropCursor(c)
      <3>1. inv' = [inv EXCEPT ![c].cursor = Empty, ![c].cursorChanged = TRUE]
        BY <2>2 DEF DropCursor
      <3>2. inv'[c] = [inv[c] EXCEPT !.cursor = Empty, !.cursorChanged = TRUE]
        BY <1>1, <3>1
      <3>3. SameSide(inv[c], [inv[c] EXCEPT !.cursor = Empty, !.cursorChanged = TRUE])
        BY <1>1, SameSides
      <3>4. QED
        BY <1>2, <3>2, <3>3
    <2>3. CASE ResyncClick(c)
      <3>1. inv' = [inv EXCEPT ![c] = [inv[c] EXCEPT !.sid = inv[c].sid + 1]]
        BY <2>3 DEF ResyncClick
      <3>2. inv'[c] = [inv[c] EXCEPT !.sid = inv[c].sid + 1]
        BY <1>1, <3>1
      <3>3. SameSide(inv[c], [inv[c] EXCEPT !.sid = inv[c].sid + 1])
        BY <1>1, SameSides
      <3>4. QED
        BY <1>2, <3>2, <3>3
    <2>4. CASE DropFromWindow(c)
      <3>1. inv' = inv \/ \E slots : inv' = [inv EXCEPT ![c] = SetSlots(inv[c], slots)]
        BY <2>4 DEF DropFromWindow
      <3>2. \A slots : SameSide(inv[c], SetSlots(inv[c], slots))
        BY <1>1, SameSides
      <3>3. QED
        BY <1>1, <1>2, <2>1, <3>1, <3>2
    <2>5. CASE ApplyClick(c)
      <3> DEFINE t == PlayerAfter(c)
      <3>1. inv' = [inv EXCEPT ![c] = t]
        BY <2>5, ApplyClickIs DEF TInv
      <3>2. t.win = inv[c].win /\ t.told = t.cursor
        <4> DEFINE r == SetSlots(inv[c], OwnAfter(c))
                   changed == CursorAfter(c) # inv[c].cursor
        <4>1. {"win", "told", "cursor"} \subseteq DOMAIN r /\ r.win = inv[c].win
          BY <1>1 DEF SetSlots, Players
        <4>2. t = Marked(r, AppliedOwn(c), AppliedBox(c), CursorAfter(c), changed)
          BY DEF PlayerAfter
        <4> HIDE DEF t, r, changed
        <4>3. QED
          BY <4>1, <4>2, MarkedSide
      <3> HIDE DEF t
      <3>3. inv'[c] = t
        BY <1>1, <3>1
      <3>4. QED
        BY <1>2, <3>2, <3>3 DEF SameSide, Telling
    <2>6. CASE DropHeld(c)
      <3>1. inv' = inv \/ \E slots : inv' = [inv EXCEPT ![c] = [SetSlots(inv[c], slots) EXCEPT
                                                               !.touched = @ \cup {FirstMain}]]
        BY <2>6 DEF DropHeld, HeldIsReadonly
      <3>2. \A slots, own : SameSide(inv[c], [SetSlots(inv[c], slots) EXCEPT !.touched = @ \cup own])
        BY <1>1, SameSides
      <3>3. QED
        BY <1>1, <1>2, <2>1, <3>1, <3>2
    <2>7. CASE SwapHands(c)
      <3>1. inv' = inv \/ \E slots : inv' = [inv EXCEPT ![c] = SetSlots(inv[c], slots)]
        BY <2>7 DEF SwapHands, HeldIsReadonly
      <3>2. \A slots : SameSide(inv[c], SetSlots(inv[c], slots))
        BY <1>1, SameSides
      <3>3. QED
        BY <1>1, <1>2, <2>1, <3>1, <3>2
    <2>8. CASE HandleClose(c)
      <3>1. inv'[c] = WithoutWindow(inv[c])
        BY <1>1, <2>8 DEF HandleClose
      <3>2. QED
        BY <1>1, <1>2, <3>1, SameSides
    <2>9. RefuseClick(c) => inv' = inv
      BY DEF RefuseClick
    <2>10. QED
      BY <1>2, <1>4, <2>1, <2>2, <2>3, <2>4, <2>5, <2>6, <2>7, <2>8, <2>9 DEF Packet
  <1>5. QED
    BY <1>3, <1>4

\* So does user code.
LEMMA UserSide ==
    ASSUME TInv, NEW c \in Clients, User
    PROVE  SameSide(inv[c], inv'[c]) /\ Since(c)' = "user"
  <1>1. inv \in [Clients -> Players] /\ inv[c] \in Players
    BY DEF TInv, TypeOK
  <1>2. Since(c)' = "user"
    BY DEF User, UserSetsOwn, UserSetsCursor, UserSetsBox, UserResyncsOwn, UserResyncsBox, UserOpens,
           UserCloses, UserFreezes, UserDespawnsBox, Call, Since
  <1>3. \/ inv' = inv
        \/ \E d \in Clients : \E t : inv' = [inv EXCEPT ![d] = t] /\ SameSide(inv[d], t)
    <2>1. ASSUME NEW d \in Clients, NEW stack, NEW i, UserSetsOwn(d, i, stack)
          PROVE  \E slots : inv' = [inv EXCEPT ![d] = SetSlots(inv[d], slots)]
      BY <2>1 DEF UserSetsOwn
    <2>2. ASSUME NEW d \in Clients, NEW stack, UserSetsCursor(d, stack)
          PROVE  inv' = [inv EXCEPT ![d] = [inv[d] EXCEPT !.cursor = stack, !.cursorChanged = TRUE]]
      <3>1. inv' = [inv EXCEPT ![d].cursor = stack, ![d].cursorChanged = TRUE]
        BY <2>2 DEF UserSetsCursor
      <3>2. QED
        BY <1>1, <3>1
    <2>3. ASSUME NEW d \in Clients, UserResyncsOwn(d)
          PROVE  inv' = [inv EXCEPT ![d] = [inv[d] EXCEPT !.changed = AllBits]]
      BY <2>3 DEF UserResyncsOwn
    <2>4. ASSUME NEW d \in Clients, UserOpens(d)
          PROVE  inv' = [inv EXCEPT ![d] = [inv[d] EXCEPT !.open = "new"]]
      BY <2>4 DEF UserOpens
    <2>5. ASSUME NEW d \in Clients, UserCloses(d)
          PROVE  inv' = [inv EXCEPT ![d] = WithoutWindow(inv[d])]
      BY <2>5 DEF UserCloses
    <2>6. ASSUME \/ \E x \in Clients \cup {Box} : UserFreezes(x)
                 \/ UserResyncsBox
                 \/ \E life \in {"despawned", "gone"} : UserDespawnsBox(life)
                 \/ \E i \in BoxSlots, stack \in Stacks : UserSetsBox(i, stack)
          PROVE  inv' = inv
      BY <2>6 DEF UserFreezes, UserResyncsBox, UserDespawnsBox, UserSetsBox
    <2>7. \A d \in Clients : inv[d] \in Players
      BY <1>1
    <2>8. ASSUME NEW d \in Clients
          PROVE  /\ \A slots : SameSide(inv[d], SetSlots(inv[d], slots))
                 /\ \A marks : SameSide(inv[d], [inv[d] EXCEPT !.changed = marks])
                 /\ \A o : SameSide(inv[d], [inv[d] EXCEPT !.open = o])
                 /\ \A stack : SameSide(inv[d], [inv[d] EXCEPT !.cursor = stack, !.cursorChanged = TRUE])
                 /\ SameSide(inv[d], WithoutWindow(inv[d]))
      BY <2>7, SameSides
    <2>9. CASE \E d \in Clients, stack \in Stacks, i \in OwnSlots : UserSetsOwn(d, i, stack)
      BY <2>1, <2>8, <2>9
    <2>10. CASE \E d \in Clients, stack \in Stacks : UserSetsCursor(d, stack)
      BY <2>2, <2>8, <2>10
    <2>11. CASE \E d \in Clients : UserResyncsOwn(d)
      BY <2>3, <2>8, <2>11
    <2>12. CASE \E d \in Clients : UserOpens(d)
      BY <2>4, <2>8, <2>12
    <2>13. CASE \E d \in Clients : UserCloses(d)
      BY <2>5, <2>8, <2>13
    <2>14. QED
      BY <2>6, <2>9, <2>10, <2>11, <2>12, <2>13 DEF User
  <1>4. CASE inv' = inv
    BY <1>1, <1>2, <1>4, SameSides
  <1>5. ASSUME NEW d \in Clients, NEW t, inv' = [inv EXCEPT ![d] = t], SameSide(inv[d], t)
        PROVE  SameSide(inv[c], inv'[c])
    <2>1. CASE c = d
      BY <1>1, <1>5, <2>1
    <2>2. CASE c # d
      BY <1>1, <1>5, <2>2, SameSides
    <2>3. QED
      BY <2>1, <2>2
  <1>6. QED
    BY <1>2, <1>3, <1>4, <1>5

\* And PostUpdate.
LEMMA PostUpdateSide ==
    ASSUME TInv, NEW c \in Clients, NEW d \in Clients, PostUpdate(d), Telling(inv[c], Since(c))
    PROVE  Telling(inv'[c], Since(c)') /\ (inv[c].win # 0 => inv'[c].win # 0)
  <1>1. PICK s, b, msgs : /\ Comes(d) /\ Finish(d, s, b, msgs)
                          /\ s.cursor = inv[d].cursor /\ s.cursorChanged = inv[d].cursorChanged
                          /\ s.told = inv[d].told /\ s \in Players /\ (s.win = inv[d].win \/ s.win # 0)
    BY PostUpdateShares DEF Shares
  <1>2. inv \in [Clients -> Players] /\ inv[c] \in Players
    BY DEF TInv, TypeOK
  <1>3. /\ inv' = [inv EXCEPT ![d] = CursorTold(s)] /\ todo' = todo \ {d}
        /\ phase' = IF todo = {d} THEN "idle" ELSE phase
        /\ phase = "post" /\ d \in todo
    BY <1>1 DEF Finish, Comes
  <1>4. CASE c # d
    <2>1. inv'[c] = inv[c]
      BY <1>2, <1>3, <1>4
    <2>2. Since(c)' = "told" => Since(c) = "told"
      BY <1>3, <1>4 DEF Since
    <2>3. QED
      BY <2>1, <2>2 DEF Telling
  <1>5. CASE c = d
    <2> DEFINE t == CursorTold(s)
    <2>1. t.told = (IF s.cursorChanged THEN NotTold ELSE s.told) /\ t.cursor = s.cursor
          /\ t.cursorChanged = FALSE /\ t.win = s.win
      BY <1>1 DEF CursorTold, Players
    <2> HIDE DEF t
    <2>2. inv'[c] = t
      BY <1>2, <1>3, <1>5 DEF t
    <2>3. s.told \in {NotTold, s.cursor} \/ s.cursorChanged
      BY <1>1, <1>5 DEF Telling
    <2>4. Telling(t, Since(c)')
      BY <2>1, <2>3 DEF Telling
    <2>5. QED
      BY <1>1, <1>5, <2>1, <2>2, <2>4
  <1>6. QED
    BY <1>4, <1>5

\* Telling is inductive; a window, once opened, leaves its mark.
LEMMA NextSide ==
    ASSUME TInv, NEW c \in Clients, Telling(inv[c], Since(c)), [Next]_vars
    PROVE  Telling(inv'[c], Since(c)') /\ (inv[c].win # 0 => inv'[c].win # 0)
  <1>1. Telling(inv[c], "user")
    BY DEF Telling
  <1>2. CASE \E d \in Clients : Packet(d)
    <2>1. SameSide(inv[c], inv'[c]) /\ Since(c)' = "packets"
      BY <1>2, PacketSide
    <2>2. QED
      BY <1>1, <2>1 DEF SameSide, Telling
  <1>3. CASE User
    <2>1. SameSide(inv[c], inv'[c]) /\ Since(c)' = "user"
      BY <1>3, UserSide
    <2>2. QED
      BY <1>1, <2>1 DEF SameSide, Telling
  <1>4. CASE \E d \in Clients : Client(d)
    <2>1. UNCHANGED <<inv, phase, todo>>
      BY <1>4 DEF Client, ClientClicks, ClientCloses, ClientDrops, ClientSwapsHands, ClientReceives, Send,
                  serverVars
    <2>2. QED
      BY <2>1 DEF Since
  <1>5. CASE StartUpdate \/ StartPostUpdate
    <2>1. inv' = inv /\ Since(c)' = "user"
      BY <1>5 DEF StartUpdate, StartPostUpdate, serverVars, Since
    <2>2. QED
      BY <1>1, <2>1
  <1>6. CASE UNCHANGED vars
    BY <1>6 DEF vars, Since
  <1>7. QED
    BY <1>2, <1>3, <1>4, <1>5, <1>6, PostUpdateSide DEF Next

-----------------------------------------------------------------------------
(***************************************************************************)
(* All steps.                                                              *)
(***************************************************************************)
\* PostUpdate for the client or another.
LEMMA PostUpdateOwn ==
    ASSUME TInv, NEW c \in Clients, inv[c].win = 0, OwnIs(c), Telling(inv[c], Since(c)), PostUpdate(c)
    PROVE  inv'[c].win = 0 => OwnIs(c)'
  <1>1. ~UpdateShown(c)
    BY DEF UpdateShown, TInv, Opening
  <1>2. ASSUME UpdateNew(c) PROVE inv'[c].win # 0
    <2> DEFINE r == Unmarked(inv[c])
               s == [r EXCEPT !.win = (r.win % 100) + 1]
               clean == [box EXCEPT !.changed = {}]
    <2>1. \E msgs : Finish(c, s, clean, msgs)
      BY <1>2 DEF UpdateNew
    <2>2. inv \in [Clients -> Players]
      BY DEF TInv, TypeOK
    <2>3. r \in Players
      BY <2>2, UnmarkedIn
    <2> HIDE DEF r
    <2>4. r.win \in 0..100
      BY <2>3 DEF Players
    <2>5. (r.win % 100) + 1 \in 0..100 /\ (r.win % 100) + 1 # 0
      BY <2>4
    <2>6. s \in Players /\ s.win # 0
      BY <2>3, <2>5 DEF Players
    <2> HIDE DEF s
    <2>7. inv'[c] = CursorTold(s)
      BY <2>1, <2>2 DEF Finish
    <2>8. QED
      BY <2>6, <2>7, CursorToldIn
  <1>3. QED
    BY <1>1, <1>2, UpdateOwnOwn, UpdateGoneOwn DEF PostUpdate

\* OwnIn is inductive.
LEMMA NextOwn ==
    ASSUME TInv, Quiet, {"overwrite", "drop", "cursor", "hurry", "thaw"} \subseteq Avoided,
           NEW c \in Clients, inv[c].win = 0, OwnIs(c), Telling(inv[c], Since(c)), [Next]_vars
    PROVE  inv'[c].win = 0 => OwnIs(c)'
  <1>1. CASE \E d \in Clients : Client(d)
    BY <1>1, ClientOwn, ClientOthers
  <1>2. CASE \E d \in Clients : Packet(d)
    BY <1>2, PacketOwn, PacketOthers
  <1>3. CASE \E d \in Clients : PostUpdate(d)
    BY <1>3, PostUpdateOwn, PostUpdateOthers
  <1>4. CASE User
    BY <1>4, UserOwn
  <1>5. CASE StartUpdate \/ StartPostUpdate
    BY <1>5, StartOwn
  <1>6. CASE UNCHANGED vars
    <2>1. UNCHANGED <<inv, box, readonly, view, toServer, toClient, out, phase, todo>>
      BY <1>6 DEF vars
    <2>2. Stuck(c)' = Stuck(c)
      BY <2>1, StuckSame
    <2>3. Coming(c)' = Coming(c)
      BY <2>1, ComingSame
    <2>4. Since(c)' = Since(c)
      BY <2>1 DEF Since
    <2>5. QED
      BY <2>1, <2>2, <2>3, <2>4, OwnKept
  <1>7. QED
    BY <1>1, <1>2, <1>3, <1>4, <1>5, <1>6 DEF Next

\* Quiet is inductive.
LEMMA NextQuiet ==
    ASSUME TInv, Quiet, [Next]_vars
    PROVE  Quiet'
  <1>1. CASE \E d \in Clients : Client(d)
    <2>1. UNCHANGED <<out, phase>>
      BY <1>1 DEF Client, ClientClicks, ClientCloses, ClientDrops, ClientSwapsHands, ClientReceives, Send
    <2>2. QED
      BY <2>1 DEF Quiet
  <1>2. CASE \E d \in Clients : Packet(d)
    <2>1. PICK d \in Clients : Packet(d)
      BY <1>2
    <2>2. Since(d)' = "packets"
      BY <2>1, PacketSide
    <2>3. phase' # "idle"
      BY <2>2 DEF Since
    <2>4. QED
      BY <2>3 DEF Quiet
  <1>3. CASE \E d \in Clients : PostUpdate(d)
    <2>1. PICK d \in Clients : PostUpdate(d)
      BY <1>3
    <2>2. PICK s, b, msgs : Comes(d) /\ Finish(d, s, b, msgs)
      BY <2>1, PostUpdateShares DEF Shares
    <2>3. /\ phase = "post" /\ phase' = IF todo = {d} THEN "idle" ELSE phase
          /\ todo = {d} => out' = [e \in Clients |-> <<>>]
      BY <2>2 DEF Finish, Comes
    <2>4. QED
      BY <2>3 DEF Quiet
  <1>4. CASE User
    <2>1. phase' = "user"
      BY <1>4 DEF User, UserSetsOwn, UserSetsCursor, UserSetsBox, UserResyncsOwn, UserResyncsBox,
                  UserOpens, UserCloses, UserFreezes, UserDespawnsBox, Call
    <2>2. QED
      BY <2>1 DEF Quiet
  <1>5. CASE StartUpdate \/ StartPostUpdate
    BY <1>5 DEF StartUpdate, StartPostUpdate, Quiet
  <1>6. CASE UNCHANGED vars
    BY <1>6 DEF vars, Quiet
  <1>7. QED
    BY <1>1, <1>2, <1>3, <1>4, <1>5, <1>6 DEF Next

\* ShowsNone, for the empty sequence itself.
LEMMA ShowsNothing ==
    ASSUME NEW v \in Views
    PROVE  Shows(v, <<>>) = v
  <1> DEFINE s == <<>>
  <1>1. s \in Seq(Messages) /\ 0 \in 0..Len(s) /\ Len(s) = 0
    OBVIOUS
  <1> HIDE DEF s
  <1>2. Showing(v, s)[0] = v
    BY <1>1, ShowingSteps
  <1>3. Shows(v, s) = v
    BY <1>1, <1>2 DEF Shows
  <1>4. QED
    BY <1>3 DEF s

AgreeInv == TInv /\ Quiet /\ CursorsTold /\ OwnPredicted

\* A client that nothing has been sent to, and that has sent nothing.
LEMMA OwnAtFirst ==
    ASSUME NEW s \in Players, s.changed = {}, s.touched = {}, s.cursor = Empty, ~s.cursorChanged,
           s.sid = 0, NEW v \in Views, v.win = 0, v.ownSid = 0, v.cursor = Empty, v.own = s.slots,
           NEW frozen, NEW stuck, NEW q, q = <<>>, NEW msgs, msgs = <<>>
    PROVE  OwnIn(s, q, v, msgs, frozen, "told", stuck)
  <1>1. DOMAIN q = {} /\ TypesIn(q) = {} /\ DOMAIN msgs = {} /\ \A t : ~Has(q, t)
    BY DEF TypesIn, Has
  <1>2. Shows(v, msgs) = v
    <2>1. Shows(v, <<>>) = v
      BY ShowsNothing
    <2>2. QED
      BY <2>1
  <1>3. OwnQueue(s, q) /\ OwnMarks(s, q, "told", stuck) /\ OwnCursor(s, q) /\ OwnDrops(s, q, msgs, frozen)
    BY <1>1 DEF OwnQueue, OwnMarks, OwnCursor, OwnDrops
  <1>4. OwnComing(s, v, msgs)
    BY <1>1 DEF OwnComing
  <1>5. OwnShown(s, q, v, frozen)
    <2>1. \A j \in OwnSlots : HeldThen(s, q, j) = s.slots[j]
      BY <1>1 DEF HeldThen, AfterDrops
    <2>2. QED
      BY <1>1, <2>1 DEF OwnShown
  <1>6. QED
    BY <1>2, <1>3, <1>4, <1>5 DEF OwnIn

\* The invariant holds initially,
LEMMA InitOwn ==
    ASSUME Init
    PROVE  AgreeInv
  <1>1. TInv
    BY InitTypes
  <1>2. Quiet
    BY DEF Init, Quiet
  <1>3. PICK held \in [Clients -> Stacks], opened \in {{}} \cup {{c} : c \in Clients} :
            inv = [c \in Clients |-> Held(IF c \in opened THEN Opened ELSE Fresh, held[c])]
    BY DEF Init
  <1>4. ASSUME NEW s \in {Fresh, Opened}, NEW stack
        PROVE  LET t == Held(s, stack)
               IN  /\ t.changed = {} /\ t.touched = {} /\ t.cursor = Empty /\ ~t.cursorChanged
                   /\ t.told = NotTold /\ t.sid = 0
    <2>1. /\ DOMAIN s = DOMAIN Fresh /\ s.changed = {} /\ s.touched = {} /\ s.cursor = Empty
          /\ s.cursorChanged = FALSE /\ s.told = NotTold /\ s.sid = 0
      <3>1. CASE s = Fresh
        BY <3>1 DEF Fresh
      <3>2. CASE s = Opened
        BY <3>2 DEF Fresh, Opened
      <3>3. QED
        BY <1>4, <3>1, <3>2
    <2>2. \A x : LET t == [s EXCEPT !.slots = x]
                 IN  /\ t.changed = s.changed /\ t.touched = s.touched /\ t.cursor = s.cursor
                     /\ t.cursorChanged = s.cursorChanged /\ t.told = s.told /\ t.sid = s.sid
      BY <2>1 DEF Fresh
    <2> DEFINE x == [s.slots EXCEPT ![FirstMain] = stack]
    <2>3. Held(s, stack) = [s EXCEPT !.slots = x]
      BY DEF Held
    <2> HIDE DEF x
    <2>4. QED
      BY <2>1, <2>2, <2>3
  <1>5. \A c \in Clients :
            /\ inv[c].changed = {} /\ inv[c].touched = {} /\ inv[c].cursor = Empty /\ ~inv[c].cursorChanged
            /\ inv[c].told = NotTold /\ inv[c].sid = 0
    BY <1>3, <1>4
  <1>6. CursorsTold
    BY <1>5 DEF CursorsTold, Telling
  <1>7. ASSUME NEW c \in Clients, inv[c].win = 0
        PROVE  OwnIs(c)
    <2>1. Since(c) = "told"
      BY DEF Init, Since
    <2>2. toServer[c] = <<>> /\ toClient[c] = <<>> /\ out[c] = <<>>
      BY DEF Init
    <2>3. Coming(c) = <<>>
      BY <1>1, <2>2, NothingComing
    <2>4. /\ view[c].win = 0 /\ view[c].ownSid = 0 /\ view[c].cursor = Empty /\ view[c].own = inv[c].slots
      BY <1>7 DEF Init
    <2>5. inv[c] \in Players /\ view[c] \in Views
      BY <1>1, TrafficOf
    <2> DEFINE s == inv[c]
               v == view[c]
               q == toServer[c]
               msgs == Coming(c)
               frozen == c \in readonly
               stuck == Stuck(c)
    <2>6. /\ s \in Players /\ s.changed = {} /\ s.touched = {} /\ s.cursor = Empty /\ ~s.cursorChanged
          /\ s.sid = 0 /\ v \in Views /\ v.win = 0 /\ v.ownSid = 0 /\ v.cursor = Empty /\ v.own = s.slots
          /\ q = <<>> /\ msgs = <<>>
      BY <1>5, <2>2, <2>3, <2>4, <2>5
    <2> HIDE DEF s, v, q, msgs, frozen, stuck
    <2>7. OwnIn(s, q, v, msgs, frozen, "told", stuck)
      BY <2>6, OwnAtFirst
    <2>8. QED
      BY <2>1, <2>7 DEF OwnIs, s, v, q, msgs, frozen, stuck
  <1>8. QED
    BY <1>1, <1>2, <1>6, <1>7 DEF AgreeInv, OwnPredicted

\* every step keeps it,
LEMMA NextAgreeInv ==
    ASSUME AgreeInv, [Next]_vars, {"overwrite", "drop", "cursor", "hurry", "thaw"} \subseteq Avoided
    PROVE  AgreeInv'
  <1>1. TInv' /\ Quiet'
    BY NextTypes, NextQuiet DEF AgreeInv
  <1>2. ASSUME NEW c \in Clients
        PROVE  Telling(inv'[c], Since(c)') /\ (inv[c].win # 0 => inv'[c].win # 0)
    BY NextSide DEF AgreeInv, CursorsTold
  <1>3. ASSUME NEW c \in Clients, inv'[c].win = 0
        PROVE  OwnIs(c)'
    <2>1. inv[c].win = 0
      BY <1>2, <1>3
    <2>2. OwnIs(c) /\ Telling(inv[c], Since(c)) /\ TInv /\ Quiet
      BY <2>1 DEF AgreeInv, OwnPredicted, CursorsTold
    <2>3. QED
      BY <1>3, <2>1, <2>2, NextOwn
  <1>4. CursorsTold'
    BY <1>2 DEF CursorsTold
  <1>5. OwnPredicted'
    BY <1>3 DEF OwnPredicted
  <1>6. QED
    BY <1>1, <1>4, <1>5 DEF AgreeInv

\* and at rest it leaves nothing to differ.
LEMMA OwnAgreed ==
    ASSUME AgreeInv
    PROVE  OwnAgrees
  <1> SUFFICES ASSUME NEW c \in Clients, AtRest(c), inv[c].win = 0
               PROVE  view[c].own = inv[c].slots /\ view[c].cursor = inv[c].cursor
    BY DEF OwnAgrees
  <1> DEFINE s == inv[c]
             v == view[c]
             q == toServer[c]
             msgs == Coming(c)
             frozen == c \in readonly
             stuck == Stuck(c)
  <1>1. phase = "idle" /\ q = <<>> /\ out[c] = <<>> /\ toClient[c] = <<>>
    BY DEF AtRest, AgreeInv, Quiet
  <1>2. msgs = <<>>
    BY <1>1, NothingComing DEF AgreeInv
  <1>3. Since(c) = "told"
    BY <1>1 DEF Since
  <1>4. OwnIn(s, q, v, msgs, frozen, "told", stuck) /\ Telling(s, "told")
    BY <1>3 DEF AgreeInv, OwnPredicted, CursorsTold, OwnIs
  <1>5. s \in Players /\ v \in Views
    BY TrafficOf DEF AgreeInv
  <1>6. q = <<>>
    BY <1>1
  <1> HIDE DEF s, v, q, msgs, frozen, stuck
  <1>7. DOMAIN q = {} /\ \A t : ~Has(q, t)
    BY <1>6 DEF TypesIn, Has
  <1>8. Shows(v, msgs) = v
    <2>1. Shows(v, <<>>) = v
      BY <1>5, ShowsNothing
    <2>2. QED
      BY <1>2, <2>1
  <1>9. s.changed = {} /\ s.touched = {} /\ ~CursorDue(s)
    BY <1>4 DEF OwnIn, OwnMarks, Telling, CursorDue
  <1>10. Due(s) = {}
    BY <1>5, <1>9, NothingDue
  <1>11. OwnShown(s, q, v, frozen)
    BY <1>4, <1>8 DEF OwnIn
  <1>12. ~Resends(s, q, frozen)
    BY <1>7 DEF Resends
  <1>13. v.cursor = s.cursor
    BY <1>7, <1>9, <1>11 DEF OwnShown
  <1>14. \A j \in OwnSlots : v.own[j] = HeldThen(s, q, j)
    BY <1>7, <1>10, <1>11, <1>12 DEF OwnShown
  <1>15. \A j \in OwnSlots : HeldThen(s, q, j) = s.slots[j]
    BY <1>7 DEF HeldThen, AfterDrops
  <1>16. v.own \in [OwnSlots -> Stacks] /\ s.slots \in [OwnSlots -> Stacks]
    BY <1>5 DEF Views, Players
  <1>17. v.own = s.slots
    BY <1>14, <1>15, <1>16
  <1>18. QED
    BY <1>13, <1>17 DEF s, v

\* Whatever is under way, a client that has never had a window open will show what
\* the server will have, but for marked slots, or will be sent the contents again.
THEOREM SpecOwnPredicted ==
    ASSUME {"overwrite", "drop", "cursor", "hurry", "thaw"} \subseteq Avoided
    PROVE  Spec => []OwnPredicted
  <1>1. AgreeInv => OwnPredicted
    BY DEF AgreeInv
  <1>2. QED
    BY <1>1, InitOwn, NextAgreeInv, PTL DEF Spec

\* With nothing under way and the tick over, it shows what the server has.
THEOREM SpecOwnAgrees ==
    ASSUME {"overwrite", "drop", "cursor", "hurry", "thaw"} \subseteq Avoided
    PROVE  Spec => []OwnAgrees
  <1>1. Init => AgreeInv
    BY InitOwn
  <1>2. AgreeInv /\ [Next]_vars => AgreeInv'
    BY NextAgreeInv
  <1>3. AgreeInv => OwnAgrees
    BY OwnAgreed
  <1>4. QED
    BY <1>1, <1>2, <1>3, PTL DEF Spec

=============================================================================
