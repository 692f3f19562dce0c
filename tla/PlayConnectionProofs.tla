-------------------------- MODULE PlayConnectionProofs --------------------------
(***************************************************************************)
(* Theorems about PlayConnection, for any number of clients, any byte      *)
(* limit and any costs of packets: its types, that permits are conserved,  *)
(* that frames are handled in order, and that a tick handles everything    *)
(* that was queued as it began and a bounded amount more.                  *)
(***************************************************************************)
EXTENDS PlayConnection, SequenceFunctionsProofs

Positive == Nat \ {0}

(***************************************************************************)
(* The inductive invariant.                                                *)
(*                                                                         *)
(* Control says which locals go with which states: a client is visited     *)
(* only in a pass and still has its Client, the reader task holds a frame  *)
(* exactly while it acquires and sends, and a removed Client has neither a *)
(* queue nor a reader that reads.                                          *)
(***************************************************************************)
Control ==
    /\ visited # Nobody => phase \in {"first", "again"} /\ client[visited] # "removed"
    /\ received # <<>> => visited # Nobody /\ Len(received) = 1
    /\ \A c \in Clients :
           IF reader[c] \in {"acquiring", "sending"} THEN Len(frame[c]) = 1 ELSE frame[c] = <<>>
    /\ \A c \in Clients :
           client[c] = "removed" => reader[c] \in {"sending", "done"} /\ queue[c] = <<>>

(***************************************************************************)
(* The frames of a peer are numbered through, from those handled over the  *)
(* queue and the reader task to those on the wire, as long as the reader   *)
(* task reads.                                                             *)
(***************************************************************************)
HandledNumbered == \A c \in Clients : \A i \in 1..Len(handled[c]) : handled[c][i] = i

InLine(h, q, f, w, count, reads) ==
    /\ \A i \in 1..Len(q) : q[i].n = h + i
    /\ \A i \in 1..Len(f) : f[i].n = h + Len(q) + i
    /\ reads => /\ \A i \in 1..Len(w) : w[i].n = h + Len(q) + Len(f) + i
                /\ count = h + Len(q) + Len(f) + Len(w)

Numbered(c) ==
    InLine(Len(handled[c]), queue[c], frame[c], wire[c], sent[c], reader[c] # "done")

LineNumbered == \A c \in Clients : client[c] # "removed" => Numbered(c)

(***************************************************************************)
(* What a client may still cost in a tick.  In the first pass it has cost  *)
(* nothing, then one packet; after it the packets that are pending are     *)
(* those counted in check_again, and they are at the head of the queue.    *)
(***************************************************************************)
Left(c) == IF visited = c THEN again[c] - 1 ELSE again[c]

Ahead(q, k) == PrefixSums(CostsOf(q))[k]

Bounded(c) ==
    \/ phase = "first" /\ c \in todo /\ spent[c] = 0
    \/ phase = "first" /\ visited = c /\ c \notin todo /\ spent[c] <= InLimit
    \/ /\ ~(phase = "first" /\ (c \in todo \/ visited = c))
       /\ Left(c) \in 0..Len(queue[c])
       /\ spent[c] + Ahead(queue[c], Left(c)) <= 2 * InLimit

Counted ==
    /\ phase = "again" => \A c \in Clients : c \in todo \/ visited = c => again[c] > 0
    /\ visited \notin todo

Allowance ==
    /\ Counted
    /\ \A c \in Clients : client[c] # "removed" => Bounded(c)

(***************************************************************************)
(* What is due this tick: until the first pass has counted them, the       *)
(* packets due are handled or queued; then those not yet handled are in    *)
(* check_again, which Bounded keeps within the queue.  Nobody is given up  *)
(* before that, and the passes end with check_again empty.                 *)
(***************************************************************************)
Promise(c) ==
    IF phase = "first" /\ (c \in todo \/ visited = c)
      THEN due[c] <= Len(handled[c]) + Len(queue[c])
      ELSE due[c] <= Len(handled[c]) + Left(c)

GivenUp(c) == c \in removals => due[c] <= Len(handled[c])

PassesOver ==
    /\ phase \in {"update", "flush", "last"} => \A c \in Clients : again[c] = 0
    /\ removals # {} => phase \in {"first", "again", "apply", "flush"}

Due ==
    /\ PassesOver
    /\ \A c \in Clients : client[c] # "removed" => Promise(c) /\ GivenUp(c)

IInv ==
    /\ TypeOK
    /\ Control
    /\ PermitsConserved
    /\ HandledNumbered
    /\ LineNumbered
    /\ Due
    /\ Allowance
    /\ TickBounded

-----------------------------------------------------------------------------
\* What the frames of a sequence cost, frame by frame.
LEMMA CostsOfType ==
    ASSUME NEW q \in Seq(Frames)
    PROVE  /\ CostsOf(q) \in Seq(Nat)
           /\ Len(CostsOf(q)) = Len(q)
           /\ \A i \in 1..Len(q) : CostsOf(q)[i] = q[i].cost /\ q[i].cost \in Nat
  <1>1. \A i \in 1..Len(q) : q[i].cost \in Nat
    <2> SUFFICES ASSUME NEW i \in 1..Len(q) PROVE q[i].cost \in Nat
      OBVIOUS
    <2>1. q[i] \in Frames
      OBVIOUS
    <2>2. QED
      BY <2>1, LimitsAssumption DEF Frames
  <1>2. CostsOf(q) = [i \in 1..Len(q) |-> q[i].cost]
    BY DEF CostsOf
  <1>3. CostsOf(q) \in Seq(Nat)
    BY <1>1, <1>2
  <1>4. QED
    BY <1>1, <1>2, <1>3

LEMMA CostIsNat ==
    ASSUME NEW q \in Seq(Frames)
    PROVE  Cost(q) \in Nat
  BY CostsOfType, TotalIsNat DEF Cost

LEMMA CostEmpty == Cost(<<>>) = 0
  <1>1. CostsOf(<<>>) = <<>>
    BY DEF CostsOf
  <1>2. QED
    BY <1>1, TotalEmpty DEF Cost

\* One frame, or one frame more.
LEMMA CostOne ==
    ASSUME NEW f \in Seq(Frames), Len(f) = 1
    PROVE  f[1] \in Frames /\ f[1].cost \in Nat /\ Cost(f) = f[1].cost
  <1>1. f[1] \in Frames /\ f[1].cost \in Nat
    BY CostsOfType
  <1>2. CostsOf(f) = <<f[1].cost>>
    BY DEF CostsOf
  <1>3. QED
    BY <1>1, <1>2, TotalOne DEF Cost

LEMMA CostAppend ==
    ASSUME NEW q \in Seq(Frames), NEW f \in Seq(Frames), Len(f) = 1
    PROVE  /\ CostsOf(q \o f) = Append(CostsOf(q), f[1].cost)
           /\ Cost(q \o f) = Cost(q) + Cost(f)
  <1> DEFINE qf == q \o f
             a == CostsOf(qf)
             b == Append(CostsOf(q), f[1].cost)
  <1>1. /\ qf \in Seq(Frames) /\ Len(qf) = Len(q) + 1
        /\ \A i \in 1..Len(q) : qf[i] = q[i]
        /\ qf[Len(q) + 1] = f[1]
    <2>1. /\ qf \in Seq(Frames) /\ Len(qf) = Len(q) + Len(f)
          /\ \A i \in 1..Len(q) + Len(f) : qf[i] = IF i <= Len(q) THEN q[i] ELSE f[i - Len(q)]
      BY ConcatProperties
    <2> HIDE DEF qf
    <2>2. (Len(q) + 1) - Len(q) = 1 /\ Len(q) \in Nat
      OBVIOUS
    <2>3. QED
      BY <2>1, <2>2
  <1> HIDE DEF qf
  <1>2. f[1].cost \in Nat /\ Cost(f) = f[1].cost
    BY CostOne
  <1>3. CostsOf(q) \in Seq(Nat) /\ Len(CostsOf(q)) = Len(q)
    BY CostsOfType
  <1>4. /\ a \in Seq(Nat) /\ Len(a) = Len(q) + 1
        /\ b \in Seq(Nat) /\ Len(b) = Len(q) + 1
        /\ \A i \in 1..Len(q) : b[i] = CostsOf(q)[i]
        /\ b[Len(q) + 1] = f[1].cost
    <2>1. a \in Seq(Nat) /\ Len(a) = Len(q) + 1
      BY <1>1, CostsOfType
    <2>2. QED
      BY <1>2, <1>3, <2>1, AppendProperties
  <1>5. \A i \in 1..Len(q) : a[i] = b[i]
    <2> SUFFICES ASSUME NEW i \in 1..Len(q) PROVE a[i] = b[i]
      OBVIOUS
    <2>1. i \in 1..Len(qf) /\ qf[i] = q[i]
      BY <1>1
    <2>2. a[i] = q[i].cost /\ CostsOf(q)[i] = q[i].cost
      BY <2>1, <1>1, CostsOfType
    <2>3. QED
      BY <2>2, <1>4
  <1>6. a[Len(q) + 1] = b[Len(q) + 1]
    <2>1. Len(q) + 1 \in 1..Len(qf)
      BY <1>1
    <2>2. a[Len(q) + 1] = f[1].cost
      BY <2>1, <1>1, CostsOfType
    <2>3. QED
      BY <2>2, <1>4
  <1> HIDE DEF a, b
  <1>7. a = b
    <2>1. \A i \in 1..Len(a) : a[i] = b[i]
      BY <1>4, <1>5, <1>6
    <2>2. QED
      BY <2>1, <1>4, SeqEqual
  <1>8. Total(b) = Total(CostsOf(q)) + f[1].cost
    BY <1>2, <1>3, TotalAppend DEF b
  <1>9. QED
    BY <1>2, <1>7, <1>8 DEF a, b, qf, Cost

\* The frame at the head of a queue.
LEMMA CostTail ==
    ASSUME NEW q \in Seq(Frames), q # <<>>
    PROVE  /\ Head(q) \in Frames /\ Head(q).cost \in Nat
           /\ CostsOf(Tail(q)) = Tail(CostsOf(q))
           /\ CostsOf(q) # <<>> /\ Head(CostsOf(q)) = Head(q).cost
           /\ Cost(q) = Head(q).cost + Cost(Tail(q))
  <1> DEFINE t == Tail(q)
             a == CostsOf(t)
             c == CostsOf(q)
             b == Tail(c)
  <1>1. /\ t \in Seq(Frames) /\ Len(q) \in Nat /\ Len(q) > 0 /\ Len(t) = Len(q) - 1
        /\ \A i \in 1..(Len(q) - 1) : t[i] = q[i + 1]
        /\ Head(q) = q[1]
    OBVIOUS
  <1>2. /\ c \in Seq(Nat) /\ Len(c) = Len(q)
        /\ \A i \in 1..Len(q) : c[i] = q[i].cost /\ q[i].cost \in Nat
        /\ a \in Seq(Nat) /\ Len(a) = Len(q) - 1
        /\ \A i \in 1..(Len(q) - 1) : a[i] = t[i].cost
    <2> HIDE DEF t
    <2>1. QED
      BY <1>1, CostsOfType
  <1> HIDE DEF t, a, c
  <1>3. /\ c # <<>> /\ Head(c) = c[1] /\ b \in Seq(Nat) /\ Len(b) = Len(q) - 1
        /\ \A i \in 1..(Len(q) - 1) : b[i] = c[i + 1]
    BY <1>1, <1>2
  <1> HIDE DEF b
  <1>4. a = b
    <2>1. ASSUME NEW i \in 1..(Len(q) - 1)
          PROVE  a[i] = b[i]
      <3>1. i + 1 \in 1..Len(q)
        BY <1>1
      <3>2. a[i] = q[i + 1].cost
        BY <1>1, <1>2, Zenon
      <3>3. b[i] = q[i + 1].cost
        BY <3>1, <1>2, <1>3, Zenon
      <3>4. QED
        BY <3>2, <3>3
    <2>2. QED
      BY <2>1, <1>2, <1>3, SeqEqual
  <1>5. q[1] \in Frames /\ q[1].cost \in Nat /\ c[1] = q[1].cost
    BY <1>1, <1>2
  <1>6. Total(c) = Head(c) + Total(b)
    BY <1>2, <1>3, TotalTail DEF b
  <1>7. QED
    BY <1>1, <1>3, <1>4, <1>5, <1>6 DEF a, b, c, t, Cost

-----------------------------------------------------------------------------
\* The permits of a client that is online, and what its packets hold of them.
Held(c) == IF reader[c] = "sending" THEN Cost(frame[c]) ELSE 0
Taken(c) == IF visited = c THEN Cost(received) ELSE 0
Kept(c) == permits[c] + Cost(queue[c]) + Held(c) + Taken(c) = InLimit

LEMMA PermitsParts ==
    ASSUME TypeOK, PermitsConserved, NEW c \in Clients, client[c] # "removed"
    PROVE  /\ permits[c] \in Nat /\ Cost(queue[c]) \in Nat /\ Held(c) \in Nat /\ Taken(c) \in Nat
           /\ Kept(c)
  <1>1. /\ permits[c] \in Nat
        /\ queue[c] \in Seq(Frames) /\ frame[c] \in Seq(Frames) /\ received \in Seq(Frames)
    BY LimitsAssumption DEF TypeOK
  <1>2. Cost(queue[c]) \in Nat /\ Cost(frame[c]) \in Nat /\ Cost(received) \in Nat
    BY <1>1, CostIsNat
  <1>3. Kept(c)
    BY DEF PermitsConserved, Online, Held, Taken, Kept
  <1>4. QED
    BY <1>1, <1>2, <1>3 DEF Held, Taken

\* A function changed at one argument.
LEMMA ExceptType ==
    ASSUME NEW D, NEW T, NEW f \in [D -> T], NEW d \in D, NEW x \in T
    PROVE  [f EXCEPT ![d] = x] \in [D -> T]
  OBVIOUS

\* The types are kept by every step, given what else the invariant says.
LEMMA TypeStep ==
    ASSUME IInv, [Next]_vars
    PROVE  TypeOK'
  <1> USE ClientsAssumption, LimitsAssumption
      DEF IInv, TypeOK, Control, PermitsConserved, Allowance, Counted, peerVars, readerVars, loop,
          Visit, Dropped, Online, Phases, ReaderStates, ClientStates, FarewellStates
  <1>1. ASSUME NEW c \in Clients, PeerSend(c)
        PROVE  TypeOK'
    <2>1. PICK cost \in Costs :
              wire' = [wire EXCEPT ![c] = Append(@, [n |-> sent[c] + 1, cost |-> cost])]
      BY <1>1 DEF PeerSend
    <2>2. sent[c] + 1 \in 1..MaxFrames
      BY <1>1 DEF PeerSend
    <2>3. [n |-> sent[c] + 1, cost |-> cost] \in Frames
      BY <2>2 DEF Frames
    <2>4. Append(wire[c], [n |-> sent[c] + 1, cost |-> cost]) \in Seq(Frames)
      BY <2>3
    <2>5. wire' \in [Clients -> Seq(Frames)]
      BY <2>1, <2>4
    <2>6. sent' \in [Clients -> 0..MaxFrames]
      <3>1. sent' = [sent EXCEPT ![c] = sent[c] + 1] /\ sent \in [Clients -> 0..MaxFrames]
        BY <1>1 DEF PeerSend
      <3>2. sent[c] + 1 \in 0..MaxFrames
        BY <2>2
      <3> HIDE DEF IInv, TypeOK, Control, PermitsConserved, Allowance, Counted
      <3>3. QED
        BY <3>1, <3>2, ExceptType
    <2>7. QED
      BY <1>1, <2>5, <2>6 DEF PeerSend
  <1>2. ASSUME NEW c \in Clients, PeerClose(c)
        PROVE  TypeOK'
    BY <1>2 DEF PeerClose
  <1>3. ASSUME NEW c \in Clients, ReadFrame(c)
        PROVE  TypeOK'
    <2>1. wire[c] \in Seq(Frames) /\ wire[c] # <<>>
      BY <1>3 DEF ReadFrame
    <2>2. Tail(wire[c]) \in Seq(Frames) /\ Head(wire[c]) \in Frames
      BY <2>1
    <2>3. <<Head(wire[c])>> \in Seq(Frames)
      BY <2>2
    <2>4. wire' \in [Clients -> Seq(Frames)] /\ frame' \in [Clients -> Seq(Frames)]
      <3>1. /\ wire' = [wire EXCEPT ![c] = Tail(wire[c])]
            /\ \/ frame' = [frame EXCEPT ![c] = <<Head(wire[c])>>]
               \/ frame' = frame
        BY <1>3 DEF ReadFrame
      <3>2. wire \in [Clients -> Seq(Frames)] /\ frame \in [Clients -> Seq(Frames)]
        OBVIOUS
      <3> HIDE DEF IInv, TypeOK, Control, PermitsConserved, Allowance, Counted
      <3>3. /\ [wire EXCEPT ![c] = Tail(wire[c])] \in [Clients -> Seq(Frames)]
            /\ [frame EXCEPT ![c] = <<Head(wire[c])>>] \in [Clients -> Seq(Frames)]
        BY <2>2, <2>3, <3>2, ExceptType
      <3>4. QED
        BY <3>1, <3>2, <3>3, Zenon
    <2>5. QED
      BY <1>3, <2>4 DEF ReadFrame
  <1>4. ASSUME NEW c \in Clients, ReadEof(c)
        PROVE  TypeOK'
    BY <1>4 DEF ReadEof
  <1>5. ASSUME NEW c \in Clients, ReadError(c)
        PROVE  TypeOK'
    BY <1>5 DEF ReadError
  <1>6. ASSUME NEW c \in Clients, Acquire(c)
        PROVE  TypeOK'
    <2>1. frame[c] \in Seq(Frames) /\ Len(frame[c]) = 1
      BY <1>6 DEF Acquire
    <2>2. frame[c][1].cost \in Nat
      BY <2>1, CostOne
    <2>3. permits[c] - frame[c][1].cost \in 0..InLimit
      BY <1>6, <2>2 DEF Acquire
    <2>4. permits' \in [Clients -> 0..InLimit]
      BY <1>6, <2>3 DEF Acquire
    <2>5. QED
      BY <1>6, <2>4 DEF Acquire
  <1>7. ASSUME NEW c \in Clients, Enqueue(c)
        PROVE  TypeOK'
    <2>1. queue[c] \in Seq(Frames) /\ frame[c] \in Seq(Frames)
      OBVIOUS
    <2>2. queue[c] \o frame[c] \in Seq(Frames) /\ <<>> \in Seq(Frames)
      BY <2>1
    <2>3. queue' \in [Clients -> Seq(Frames)] /\ frame' \in [Clients -> Seq(Frames)]
      <3>1. /\ frame' = [frame EXCEPT ![c] = <<>>]
            /\ \/ queue' = [queue EXCEPT ![c] = queue[c] \o frame[c]]
               \/ queue' = queue
        BY <1>7 DEF Enqueue
      <3>2. queue \in [Clients -> Seq(Frames)] /\ frame \in [Clients -> Seq(Frames)]
        OBVIOUS
      <3> HIDE DEF IInv, TypeOK, Control, PermitsConserved, Allowance, Counted
      <3>3. /\ [frame EXCEPT ![c] = <<>>] \in [Clients -> Seq(Frames)]
            /\ [queue EXCEPT ![c] = queue[c] \o frame[c]] \in [Clients -> Seq(Frames)]
        BY <2>2, <3>2, ExceptType
      <3>4. QED
        BY <3>1, <3>2, <3>3, Zenon
    <2>4. QED
      BY <1>7, <2>3 DEF Enqueue
  <1>8. ASSUME NEW c \in Clients, TryRecvPacket(c)
        PROVE  TypeOK'
    <2>1. queue[c] \in Seq(Frames) /\ queue[c] # <<>>
      BY <1>8 DEF TryRecvPacket
    <2>2. Tail(queue[c]) \in Seq(Frames) /\ Head(queue[c]) \in Frames
      BY <2>1
    <2>3. /\ <<Head(queue[c])>> \in Seq(Frames)
          /\ Head(queue[c]).n \in 1..MaxFrames /\ Head(queue[c]).cost \in Nat
      <3> DEFINE f == Head(queue[c])
      <3> HIDE DEF f
      <3> SUFFICES <<f>> \in Seq(Frames) /\ f.n \in 1..MaxFrames /\ f.cost \in Nat
        BY DEF f
      <3>1. f \in Frames
        BY <2>2 DEF f
      <3>2. f.n \in 1..MaxFrames /\ f.cost \in Nat
        BY <3>1 DEF Frames
      <3>3. QED
        BY <3>1, <3>2
    <2>4. Append(handled[c], Head(queue[c]).n) \in Seq(1..MaxFrames)
      BY <2>3
    <2>5. /\ queue' \in [Clients -> Seq(Frames)] /\ received' \in Seq(Frames)
          /\ handled' \in [Clients -> Seq(1..MaxFrames)] /\ spent' \in [Clients -> Nat]
      <3>1. /\ queue' = [queue EXCEPT ![c] = Tail(queue[c])]
            /\ received' = <<Head(queue[c])>>
            /\ handled' = [handled EXCEPT ![c] = Append(handled[c], Head(queue[c]).n)]
            /\ spent' = [spent EXCEPT ![c] = spent[c] + Head(queue[c]).cost]
        BY <1>8 DEF TryRecvPacket
      <3>2. spent[c] + Head(queue[c]).cost \in Nat
        <4>1. spent[c] \in Nat
          OBVIOUS
        <4> HIDE DEF IInv, TypeOK, Control, PermitsConserved, Allowance, Counted
        <4>2. QED
          BY <2>3, <4>1
      <3>3. /\ queue \in [Clients -> Seq(Frames)]
            /\ handled \in [Clients -> Seq(1..MaxFrames)] /\ spent \in [Clients -> Nat]
        OBVIOUS
      <3> HIDE DEF IInv, TypeOK, Control, PermitsConserved, Allowance, Counted
      <3>4. QED
        BY <2>2, <2>3, <2>4, <3>1, <3>2, <3>3, ExceptType
    <2>6. QED
      BY <1>8, <2>5 DEF TryRecvPacket
  <1>9. ASSUME NEW c \in Clients, TryRecvEmpty(c)
        PROVE  TypeOK'
    BY <1>9 DEF TryRecvEmpty
  <1>10. ASSUME NEW c \in Clients, TryRecvClosed(c)
        PROVE  TypeOK'
    BY <1>10 DEF TryRecvClosed
  <1>11. ASSUME NEW c \in Clients, SkipRemoved(c)
        PROVE  TypeOK'
    BY <1>11 DEF SkipRemoved
  <1>12. ASSUME NEW c \in Clients, Flush(c)
        PROVE  TypeOK'
    BY <1>12 DEF Flush
  <1>13. ASSUME NEW c \in Clients, Kick(c)
        PROVE  TypeOK'
    BY <1>13 DEF Kick
  <1>14. ASSUME NEW c \in Clients, DisconnectClient(c)
        PROVE  TypeOK'
    BY <1>14 DEF DisconnectClient
  <1>15. ASSUME NEW c \in Clients, WriterTake(c)
        PROVE  TypeOK'
    BY <1>15 DEF WriterTake
  <1>16. ASSUME NEW c \in Clients, WriterWrite(c)
        PROVE  TypeOK'
    BY <1>16 DEF WriterWrite
  <1>17. CASE AddPermits
    <2>1. /\ visited \in Clients /\ client[visited] # "removed"
          /\ received \in Seq(Frames) /\ Len(received) = 1
      BY <1>17 DEF AddPermits
    <2>2. received[1].cost \in Nat /\ Cost(received) = received[1].cost
      BY <2>1, CostOne
    <2>3. /\ permits[visited] \in Nat /\ Cost(queue[visited]) \in Nat
          /\ Held(visited) \in Nat /\ Taken(visited) \in Nat
          /\ permits[visited] + Cost(queue[visited]) + Held(visited) + Taken(visited) = InLimit
      BY <2>1, PermitsParts DEF Kept
    <2>4. permits[visited] + received[1].cost \in 0..InLimit
      <3>1. Taken(visited) = received[1].cost
        BY <2>2 DEF Taken
      <3> HIDE DEF IInv, TypeOK, Control, PermitsConserved, Allowance, Counted
      <3>2. QED
        BY <2>2, <2>3, <3>1
    <2>5. permits' \in [Clients -> 0..InLimit] /\ received' \in Seq(Frames)
      BY <1>17, <2>1, <2>4 DEF AddPermits, CostOfReceived
    <2>6. QED
      BY <1>17, <2>5 DEF AddPermits
  <1>18. CASE EndVisit
    <2>1. visited \in Clients /\ Pending(visited) \in Nat
      BY <1>18 DEF EndVisit, Pending
    <2>2. phase # "first" => Remaining(visited) \in Nat
      <3>1. visited # Nobody
        BY <1>18 DEF EndVisit
      <3>2. phase # "first" => again[visited] > 0
        BY <2>1, <3>1
      <3>3. QED
        BY <2>1, <3>2 DEF Remaining
    <2>3. again' \in [Clients -> Nat]
      BY <1>18, <2>1, <2>2 DEF EndVisit
    <2>4. QED
      BY <1>18, <2>3 DEF EndVisit
  <1>19. CASE EndPass
    BY <1>19 DEF EndPass
  <1>20. CASE ApplyRemovals
    BY <1>20 DEF ApplyRemovals
  <1>21. CASE EndSchedules
    BY <1>21 DEF EndSchedules
  <1>22. CASE EndUpdate
    BY <1>22 DEF EndUpdate
  <1>23. CASE EndFlush
    BY <1>23 DEF EndFlush
  <1>24. CASE EndTick
    BY <1>24 DEF EndTick
  <1>25. CASE UNCHANGED vars
    BY <1>25 DEF vars
  <1>26. QED
    BY <1>1, <1>2, <1>3, <1>4, <1>5, <1>6, <1>7, <1>8, <1>9, <1>10, <1>11, <1>12, <1>13, <1>14, <1>15, <1>16, <1>17, <1>18, <1>19, <1>20, <1>21, <1>22, <1>23, <1>24, <1>25
       DEF Next, GameStep, ReaderStep, WriterStep


\* The locals go with the states after every step.
LEMMA ControlStep ==
    ASSUME IInv, [Next]_vars
    PROVE  Control'
  <1> USE ClientsAssumption
      DEF IInv, TypeOK, Control, peerVars, readerVars, loop,
          Visit, Dropped, Closed, Online, Phases, ReaderStates, ClientStates
  <1>1. ASSUME NEW c \in Clients, PeerSend(c)
        PROVE  Control'
    BY <1>1 DEF PeerSend
  <1>2. ASSUME NEW c \in Clients, PeerClose(c)
        PROVE  Control'
    BY <1>2 DEF PeerClose
  <1>3. ASSUME NEW c \in Clients, ReadFrame(c)
        PROVE  Control'
    <2> DEFINE f == <<Head(wire[c])>>
    <2>1. Len(f) = 1
      OBVIOUS
    <2>2. /\ reader[c] = "reading"
          /\ \/ reader' = [reader EXCEPT ![c] = "done"] /\ frame' = frame
             \/ reader' = [reader EXCEPT ![c] = "acquiring"] /\ frame' = [frame EXCEPT ![c] = f]
          /\ UNCHANGED <<queue, client, phase, visited, received>>
      BY <1>3 DEF ReadFrame
    <2> HIDE DEF f
    <2>3. QED
      BY <2>1, <2>2
  <1>4. ASSUME NEW c \in Clients, ReadEof(c)
        PROVE  Control'
    BY <1>4 DEF ReadEof
  <1>5. ASSUME NEW c \in Clients, ReadError(c)
        PROVE  Control'
    BY <1>5 DEF ReadError
  <1>6. ASSUME NEW c \in Clients, Acquire(c)
        PROVE  Control'
    BY <1>6 DEF Acquire
  <1>7. ASSUME NEW c \in Clients, Enqueue(c)
        PROVE  Control'
    BY <1>7 DEF Enqueue
  <1>8. ASSUME NEW c \in Clients, TryRecvPacket(c)
        PROVE  Control'
    BY <1>8 DEF TryRecvPacket
  <1>9. ASSUME NEW c \in Clients, TryRecvEmpty(c)
        PROVE  Control'
    BY <1>9 DEF TryRecvEmpty
  <1>10. ASSUME NEW c \in Clients, TryRecvClosed(c)
        PROVE  Control'
    BY <1>10 DEF TryRecvClosed
  <1>11. ASSUME NEW c \in Clients, SkipRemoved(c)
        PROVE  Control'
    BY <1>11 DEF SkipRemoved
  <1>12. ASSUME NEW c \in Clients, Flush(c)
        PROVE  Control'
    BY <1>12 DEF Flush
  <1>13. ASSUME NEW c \in Clients, Kick(c)
        PROVE  Control'
    BY <1>13 DEF Kick
  <1>14. ASSUME NEW c \in Clients, DisconnectClient(c)
        PROVE  Control'
    BY <1>14 DEF DisconnectClient
  <1>15. ASSUME NEW c \in Clients, WriterTake(c)
        PROVE  Control'
    BY <1>15 DEF WriterTake
  <1>16. ASSUME NEW c \in Clients, WriterWrite(c)
        PROVE  Control'
    BY <1>16 DEF WriterWrite
  <1>17. CASE AddPermits
    BY <1>17 DEF AddPermits
  <1>18. CASE EndVisit
    BY <1>18 DEF EndVisit
  <1>19. CASE EndPass
    BY <1>19 DEF EndPass
  <1>20. CASE ApplyRemovals
    BY <1>20 DEF ApplyRemovals
  <1>21. CASE EndSchedules
    BY <1>21 DEF EndSchedules
  <1>22. CASE EndUpdate
    BY <1>22 DEF EndUpdate
  <1>23. CASE EndFlush
    BY <1>23 DEF EndFlush
  <1>24. CASE EndTick
    BY <1>24 DEF EndTick
  <1>25. CASE UNCHANGED vars
    BY <1>25 DEF vars
  <1>26. QED
    BY <1>1, <1>2, <1>3, <1>4, <1>5, <1>6, <1>7, <1>8, <1>9, <1>10, <1>11, <1>12,
       <1>13, <1>14, <1>15, <1>16, <1>17, <1>18, <1>19, <1>20, <1>21, <1>22, <1>23, <1>24,
       <1>25
    DEF Next, GameStep, ReaderStep, WriterStep

\* A removed Client does not come back.
LEMMA RemovedForGood ==
    ASSUME TypeOK, [Next]_vars, NEW d \in Clients, client[d] = "removed"
    PROVE  client'[d] = "removed"
  <1> USE DEF TypeOK, readerVars, peerVars, loop, Visit, Dropped, Online
  <1>1. ASSUME NEW c \in Clients, PeerSend(c)
        PROVE  client'[d] = "removed"
    BY <1>1 DEF PeerSend
  <1>2. ASSUME NEW c \in Clients, PeerClose(c)
        PROVE  client'[d] = "removed"
    BY <1>2 DEF PeerClose
  <1>3. ASSUME NEW c \in Clients, ReadFrame(c)
        PROVE  client'[d] = "removed"
    BY <1>3 DEF ReadFrame
  <1>4. ASSUME NEW c \in Clients, ReadEof(c)
        PROVE  client'[d] = "removed"
    BY <1>4 DEF ReadEof
  <1>5. ASSUME NEW c \in Clients, ReadError(c)
        PROVE  client'[d] = "removed"
    BY <1>5 DEF ReadError
  <1>6. ASSUME NEW c \in Clients, Acquire(c)
        PROVE  client'[d] = "removed"
    BY <1>6 DEF Acquire
  <1>7. ASSUME NEW c \in Clients, Enqueue(c)
        PROVE  client'[d] = "removed"
    BY <1>7 DEF Enqueue
  <1>8. ASSUME NEW c \in Clients, TryRecvPacket(c)
        PROVE  client'[d] = "removed"
    BY <1>8 DEF TryRecvPacket
  <1>9. ASSUME NEW c \in Clients, TryRecvEmpty(c)
        PROVE  client'[d] = "removed"
    BY <1>9 DEF TryRecvEmpty
  <1>10. ASSUME NEW c \in Clients, TryRecvClosed(c)
        PROVE  client'[d] = "removed"
    BY <1>10 DEF TryRecvClosed
  <1>11. ASSUME NEW c \in Clients, SkipRemoved(c)
        PROVE  client'[d] = "removed"
    BY <1>11 DEF SkipRemoved
  <1>12. ASSUME NEW c \in Clients, Flush(c)
        PROVE  client'[d] = "removed"
    BY <1>12 DEF Flush
  <1>13. ASSUME NEW c \in Clients, Kick(c)
        PROVE  client'[d] = "removed"
    BY <1>13 DEF Kick
  <1>14. ASSUME NEW c \in Clients, DisconnectClient(c)
        PROVE  client'[d] = "removed"
    BY <1>14 DEF DisconnectClient
  <1>15. ASSUME NEW c \in Clients, WriterTake(c)
        PROVE  client'[d] = "removed"
    BY <1>15 DEF WriterTake
  <1>16. ASSUME NEW c \in Clients, WriterWrite(c)
        PROVE  client'[d] = "removed"
    BY <1>16 DEF WriterWrite
  <1>17. CASE AddPermits
    BY <1>17 DEF AddPermits
  <1>18. CASE EndVisit
    BY <1>18 DEF EndVisit
  <1>19. CASE EndPass
    BY <1>19 DEF EndPass
  <1>20. CASE ApplyRemovals
    BY <1>20 DEF ApplyRemovals
  <1>21. CASE EndSchedules
    BY <1>21 DEF EndSchedules
  <1>22. CASE EndUpdate
    BY <1>22 DEF EndUpdate
  <1>23. CASE EndFlush
    BY <1>23 DEF EndFlush
  <1>24. CASE EndTick
    BY <1>24 DEF EndTick
  <1>25. CASE UNCHANGED vars
    BY <1>25 DEF vars
  <1>26. QED
    BY <1>1, <1>2, <1>3, <1>4, <1>5, <1>6, <1>7, <1>8, <1>9, <1>10, <1>11, <1>12,
       <1>13, <1>14, <1>15, <1>16, <1>17, <1>18, <1>19, <1>20, <1>21, <1>22, <1>23, <1>24,
       <1>25
    DEF Next, GameStep, ReaderStep, WriterStep

\* What a client holds of its permits is the limit after every step.
LEMMA PermitsStep ==
    ASSUME IInv, [Next]_vars, NEW d \in Clients, client'[d] # "removed"
    PROVE  Kept(d)'
  <1>a. client[d] # "removed"
    BY RemovedForGood DEF IInv
  <1>b. /\ permits[d] \in Nat /\ Cost(queue[d]) \in Nat /\ Held(d) \in Nat /\ Taken(d) \in Nat
        /\ Kept(d)
    BY <1>a, PermitsParts DEF IInv
  <1>c. /\ permits \in [Clients -> 0..InLimit] /\ reader \in [Clients -> ReaderStates]
        /\ queue \in [Clients -> Seq(Frames)] /\ frame \in [Clients -> Seq(Frames)]
        /\ received \in Seq(Frames)
    BY DEF IInv, TypeOK
  <1>d. /\ received # <<>> => visited # Nobody /\ Len(received) = 1
        /\ \A c \in Clients :
               reader[c] \in {"acquiring", "sending"} => Len(frame[c]) = 1
    BY DEF IInv, Control
  <1> USE <1>b, <1>c, <1>d DEF peerVars, readerVars, loop, Visit, Dropped, Kept, Held, Taken
  <1>1. ASSUME NEW c \in Clients, PeerSend(c)
        PROVE  Kept(d)'
    BY <1>1 DEF PeerSend
  <1>2. ASSUME NEW c \in Clients, PeerClose(c)
        PROVE  Kept(d)'
    BY <1>2 DEF PeerClose
  <1>3. ASSUME NEW c \in Clients, ReadFrame(c)
        PROVE  Kept(d)'
    BY <1>3 DEF ReadFrame
  <1>4. ASSUME NEW c \in Clients, ReadEof(c)
        PROVE  Kept(d)'
    BY <1>4 DEF ReadEof
  <1>5. ASSUME NEW c \in Clients, ReadError(c)
        PROVE  Kept(d)'
    BY <1>5 DEF ReadError
  <1>6. ASSUME NEW c \in Clients, Acquire(c)
        PROVE  Kept(d)'
    <2>1. frame[c] \in Seq(Frames) /\ Len(frame[c]) = 1
      BY <1>6 DEF Acquire
    <2>2. Cost(frame[c]) \in Nat /\ Cost(frame[c]) = frame[c][1].cost
      BY <2>1, CostOne
    <2>3. QED
      BY <1>6, <2>2 DEF Acquire
  <1>7. ASSUME NEW c \in Clients, Enqueue(c)
        PROVE  Kept(d)'
    <2>1. frame[c] \in Seq(Frames) /\ Len(frame[c]) = 1 /\ queue[c] \in Seq(Frames)
      BY <1>7 DEF Enqueue
    <2>2. /\ Cost(frame[c]) \in Nat /\ Cost(queue[c]) \in Nat
          /\ Cost(queue[c] \o frame[c]) = Cost(queue[c]) + Cost(frame[c])
      BY <2>1, CostAppend, CostIsNat
    <2>3. /\ reader[c] = "sending" /\ reader'[c] # "sending"
          /\ UNCHANGED <<permits, visited, received>>
          /\ \A e \in Clients : e # c => reader'[e] = reader[e] /\ frame'[e] = frame[e]
      BY <1>7 DEF Enqueue
    <2>4. /\ c = d => queue'[c] = queue[c] \o frame[c]
          /\ c # d => queue'[d] = queue[d]
      BY <1>7, <1>a DEF Enqueue
    <2>5. CASE d = c
      <3>1. Held(d) = Cost(frame[d]) /\ Held(d)' = 0
        BY <2>3, <2>5
      <3>2. Cost(queue[d])' = Cost(queue[d]) + Cost(frame[d])
        BY <2>2, <2>4, <2>5
      <3>3. Taken(d)' = Taken(d) /\ permits'[d] = permits[d]
        BY <2>3
      <3> HIDE DEF Held, Taken
      <3>4. QED
        BY <3>1, <3>2, <3>3
    <2>6. CASE d # c
      BY <2>3, <2>4, <2>6
    <2>7. QED
      BY <2>5, <2>6
  <1>8. ASSUME NEW c \in Clients, TryRecvPacket(c)
        PROVE  Kept(d)'
    <2> DEFINE one == <<Head(queue[c])>>
    <2>1. queue[c] \in Seq(Frames) /\ queue[c] # <<>>
      BY <1>8 DEF TryRecvPacket
    <2>2. /\ Head(queue[c]) \in Frames /\ Cost(queue[c]) = Head(queue[c]).cost + Cost(Tail(queue[c]))
          /\ Tail(queue[c]) \in Seq(Frames)
      BY <2>1, CostTail
    <2>3. one \in Seq(Frames) /\ Len(one) = 1 /\ one[1] = Head(queue[c])
      BY <2>2
    <2>4. received' = one
      BY <1>8 DEF TryRecvPacket
    <2> HIDE DEF one
    <2>5. Cost(one) = Head(queue[c]).cost /\ Cost(one) \in Nat /\ Cost(Tail(queue[c])) \in Nat
      BY <2>2, <2>3, CostOne, CostIsNat
    <2>6. /\ visited = Nobody /\ visited' = c
          /\ queue' = [queue EXCEPT ![c] = Tail(queue[c])]
          /\ UNCHANGED <<permits, reader, frame>>
      BY <1>8 DEF TryRecvPacket
    <2>7. CASE d = c
      <3>1. Taken(d) = 0 /\ Taken(d)' = Cost(one) /\ Cost(queue[d])' = Cost(Tail(queue[c]))
        BY <2>4, <2>6, <2>7, ClientsAssumption
      <3>2. Held(d)' = Held(d) /\ permits'[d] = permits[d]
        BY <2>6
      <3> HIDE DEF Held, Taken
      <3>3. QED
        BY <2>2, <2>5, <2>7, <3>1, <3>2
    <2>8. CASE d # c
      BY <2>6, <2>8, ClientsAssumption
    <2>9. QED
      BY <2>7, <2>8
  <1>9. ASSUME NEW c \in Clients, TryRecvEmpty(c)
        PROVE  Kept(d)'
    BY <1>9 DEF TryRecvEmpty
  <1>10. ASSUME NEW c \in Clients, TryRecvClosed(c)
        PROVE  Kept(d)'
    BY <1>10 DEF TryRecvClosed
  <1>11. ASSUME NEW c \in Clients, SkipRemoved(c)
        PROVE  Kept(d)'
    BY <1>11 DEF SkipRemoved
  <1>12. ASSUME NEW c \in Clients, Flush(c)
        PROVE  Kept(d)'
    BY <1>12 DEF Flush
  <1>13. ASSUME NEW c \in Clients, Kick(c)
        PROVE  Kept(d)'
    BY <1>13 DEF Kick
  <1>14. ASSUME NEW c \in Clients, DisconnectClient(c)
        PROVE  Kept(d)'
    BY <1>14 DEF DisconnectClient
  <1>15. ASSUME NEW c \in Clients, WriterTake(c)
        PROVE  Kept(d)'
    BY <1>15 DEF WriterTake
  <1>16. ASSUME NEW c \in Clients, WriterWrite(c)
        PROVE  Kept(d)'
    BY <1>16 DEF WriterWrite
  <1>17. CASE AddPermits
    <2>1. /\ received \in Seq(Frames) /\ Len(received) = 1
      BY <1>17 DEF AddPermits
    <2>2. Cost(received) = received[1].cost /\ Cost(received) \in Nat /\ Cost(<<>>) = 0
      BY <2>1, CostOne, CostEmpty
    <2>3. QED
      BY <1>17, <2>2 DEF AddPermits, CostOfReceived
  <1>18. CASE EndVisit
    <2>1. Cost(<<>>) = 0
      BY CostEmpty
    <2>2. QED
      BY <1>18, <2>1, ClientsAssumption DEF EndVisit
  <1>19. CASE EndPass
    BY <1>19 DEF EndPass
  <1>20. CASE ApplyRemovals
    BY <1>20 DEF ApplyRemovals
  <1>21. CASE EndSchedules
    BY <1>21 DEF EndSchedules
  <1>22. CASE EndUpdate
    BY <1>22 DEF EndUpdate
  <1>23. CASE EndFlush
    BY <1>23 DEF EndFlush
  <1>24. CASE EndTick
    BY <1>24 DEF EndTick
  <1>25. CASE UNCHANGED vars
    BY <1>25 DEF vars
  <1>26. QED
    BY <1>1, <1>2, <1>3, <1>4, <1>5, <1>6, <1>7, <1>8, <1>9, <1>10, <1>11, <1>12,
       <1>13, <1>14, <1>15, <1>16, <1>17, <1>18, <1>19, <1>20, <1>21, <1>22, <1>23, <1>24,
       <1>25
    DEF Next, GameStep, ReaderStep, WriterStep

\* The line stays numbered: a frame is sent,
LEMMA InLineSent ==
    ASSUME NEW h \in Nat, NEW q \in Seq(Frames), NEW f \in Seq(Frames), NEW w \in Seq(Frames),
           NEW count \in Nat, NEW reads \in BOOLEAN, InLine(h, q, f, w, count, reads),
           NEW x \in Frames, x.n = count + 1
    PROVE  InLine(h, q, f, Append(w, x), count + 1, reads)
  <1> DEFINE a == Append(w, x)
  <1>1. /\ a \in Seq(Frames) /\ Len(a) = Len(w) + 1 /\ a[Len(w) + 1] = x
        /\ \A i \in 1..Len(w) : a[i] = w[i]
    BY AppendProperties
  <1> HIDE DEF a
  <1>2. Len(q) \in Nat /\ Len(f) \in Nat /\ Len(w) \in Nat
    OBVIOUS
  <1>3. ASSUME reads
        PROVE  \A i \in 1..Len(a) : a[i].n = h + Len(q) + Len(f) + i
    <2> SUFFICES ASSUME NEW i \in 1..Len(a) PROVE a[i].n = h + Len(q) + Len(f) + i
      OBVIOUS
    <2>1. CASE i \in 1..Len(w)
      BY <1>1, <1>3, <2>1 DEF InLine
    <2>2. CASE i = Len(w) + 1
      BY <1>1, <1>2, <1>3, <2>2 DEF InLine
    <2>3. QED
      BY <1>1, <1>2, <2>1, <2>2
  <1>4. QED
    BY <1>1, <1>2, <1>3 DEF InLine, a

\* read,
LEMMA InLineRead ==
    ASSUME NEW h \in Nat, NEW q \in Seq(Frames), NEW f \in Seq(Frames), NEW w \in Seq(Frames),
           NEW count \in Nat, NEW reads \in BOOLEAN, InLine(h, q, f, w, count, reads),
           reads, f = <<>>, w # <<>>
    PROVE  InLine(h, q, <<Head(w)>>, Tail(w), count, reads)
  <1> DEFINE x == Head(w)
             one == <<x>>
             t == Tail(w)
  <1>1. /\ x = w[1] /\ one[1] = x /\ Len(one) = 1 /\ t \in Seq(Frames)
        /\ Len(t) = Len(w) - 1 /\ Len(w) \in Nat \ {0}
        /\ \A i \in 1..Len(t) : t[i] = w[i + 1]
    OBVIOUS
  <1>2. Len(q) \in Nat /\ Len(f) = 0
    OBVIOUS
  <1> HIDE DEF x, one, t
  <1>3. x.n = h + Len(q) + 1 /\ count = h + Len(q) + Len(w)
    BY <1>1, <1>2 DEF InLine
  <1>4. \A i \in 1..Len(t) : t[i].n = h + Len(q) + 1 + i
    <2> SUFFICES ASSUME NEW i \in 1..Len(t) PROVE t[i].n = h + Len(q) + 1 + i
      OBVIOUS
    <2>1. i + 1 \in 1..Len(w)
      BY <1>1
    <2>2. w[i + 1].n = h + Len(q) + Len(f) + (i + 1)
      BY <2>1 DEF InLine
    <2>3. QED
      BY <1>1, <1>2, <2>2
  <1>5. \A i \in 1..Len(one) : one[i].n = h + Len(q) + i
    BY <1>1, <1>3
  <1>6. InLine(h, q, one, t, count, reads)
    BY <1>1, <1>2, <1>3, <1>4, <1>5 DEF InLine
  <1>7. QED
    BY <1>6 DEF x, one, t

\* queued,
LEMMA InLineEnqueued ==
    ASSUME NEW h \in Nat, NEW q \in Seq(Frames), NEW f \in Seq(Frames), NEW w \in Seq(Frames),
           NEW count \in Nat, NEW reads \in BOOLEAN, InLine(h, q, f, w, count, reads),
           Len(f) = 1
    PROVE  InLine(h, q \o f, <<>>, w, count, reads)
  <1> DEFINE a == q \o f
  <1>1. (Len(q) + 1) - Len(q) = 1 /\ Len(q) \in Nat /\ Len(w) \in Nat
    OBVIOUS
  <1> DEFINE none == <<>>
  <1>e. Len(none) = 0
    OBVIOUS
  <1>2. /\ Len(a) = Len(q) + Len(f)
        /\ \A i \in 1..Len(q) + Len(f) : a[i] = IF i <= Len(q) THEN q[i] ELSE f[i - Len(q)]
    BY ConcatProperties
  <1> HIDE DEF a, none
  <1>3. ASSUME NEW i \in 1..Len(a) PROVE a[i].n = h + i
    <2>1. CASE i \in 1..Len(q)
      BY <1>1, <1>2, <2>1 DEF InLine
    <2>2. CASE i = Len(q) + 1
      BY <1>1, <1>2, <2>2 DEF InLine
    <2>3. QED
      BY <1>1, <1>2, <2>1, <2>2
  <1>4. InLine(h, a, none, w, count, reads)
    BY <1>1, <1>2, <1>3, <1>e DEF InLine
  <1>5. QED
    BY <1>4 DEF a, none

\* handled,
LEMMA InLineHandled ==
    ASSUME NEW h \in Nat, NEW q \in Seq(Frames), NEW f \in Seq(Frames), NEW w \in Seq(Frames),
           NEW count \in Nat, NEW reads \in BOOLEAN, InLine(h, q, f, w, count, reads),
           q # <<>>
    PROVE  Head(q).n = h + 1 /\ InLine(h + 1, Tail(q), f, w, count, reads)
  <1> DEFINE x == Head(q)
             t == Tail(q)
  <1>1. /\ x = q[1] /\ t \in Seq(Frames)
        /\ Len(t) = Len(q) - 1 /\ Len(q) \in Nat \ {0}
        /\ \A i \in 1..Len(t) : t[i] = q[i + 1]
    OBVIOUS
  <1>2. Len(w) \in Nat /\ Len(f) \in Nat
    OBVIOUS
  <1> HIDE DEF x, t
  <1>3. x.n = h + 1
    BY <1>1 DEF InLine
  <1>4. \A i \in 1..Len(t) : t[i].n = (h + 1) + i
    <2> SUFFICES ASSUME NEW i \in 1..Len(t) PROVE t[i].n = (h + 1) + i
      OBVIOUS
    <2>1. i + 1 \in 1..Len(q)
      BY <1>1
    <2>2. q[i + 1].n = h + (i + 1)
      BY <2>1 DEF InLine
    <2>3. QED
      BY <1>1, <2>2
  <1>5. (h + 1) + Len(t) = h + Len(q)
    BY <1>1
  <1>6. InLine(h + 1, t, f, w, count, reads)
    BY <1>1, <1>2, <1>4, <1>5 DEF InLine
  <1>7. QED
    BY <1>3, <1>6 DEF x, t

\* or no longer read.
LEMMA InLineDone ==
    ASSUME NEW h \in Nat, NEW q \in Seq(Frames), NEW f \in Seq(Frames), NEW w \in Seq(Frames),
           NEW count \in Nat, NEW reads \in BOOLEAN, InLine(h, q, f, w, count, reads),
           NEW v
    PROVE  InLine(h, q, f, v, count, FALSE)
  BY DEF InLine

\* The frames behind those handled are numbered through after every step.
LEMMA LineStep ==
    ASSUME IInv, [Next]_vars, NEW d \in Clients, client'[d] # "removed"
    PROVE  Numbered(d)'
  <1>a. client[d] # "removed"
    BY RemovedForGood DEF IInv
  <1>b. Numbered(d)
    BY <1>a DEF IInv, LineNumbered
  <1>c. /\ reader \in [Clients -> ReaderStates] /\ sent \in [Clients -> 0..MaxFrames]
        /\ queue \in [Clients -> Seq(Frames)] /\ frame \in [Clients -> Seq(Frames)]
        /\ wire \in [Clients -> Seq(Frames)] /\ handled \in [Clients -> Seq(1..MaxFrames)]
        /\ \A c \in Clients : IF reader[c] \in {"acquiring", "sending"} THEN Len(frame[c]) = 1
                             ELSE frame[c] = <<>>
    BY DEF IInv, TypeOK, Control
  <1>d. /\ Len(handled[d]) \in Nat /\ sent[d] \in Nat /\ (reader[d] # "done") \in BOOLEAN
        /\ InLine(Len(handled[d]), queue[d], frame[d], wire[d], sent[d], reader[d] # "done")
    BY <1>b, <1>c, LimitsAssumption DEF Numbered
  <1> USE <1>b, <1>c DEF peerVars, readerVars, loop, Visit, Dropped, Numbered, ReaderStates
  <1>1. ASSUME NEW c \in Clients, PeerSend(c)
        PROVE  Numbered(d)'
    <2>a. PICK cost \in Costs :
              wire' = [wire EXCEPT ![c] = Append(wire[c], [n |-> sent[c] + 1, cost |-> cost])]
      BY <1>1 DEF PeerSend
    <2> DEFINE f == [n |-> sent[c] + 1, cost |-> cost]
    <2>b. f \in Frames /\ f.n = sent[c] + 1
      <3>1. sent[c] + 1 \in 1..MaxFrames
        BY <1>1, LimitsAssumption DEF PeerSend
      <3>2. QED
        BY <3>1 DEF Frames
    <2>1. /\ sent' = [sent EXCEPT ![c] = sent[c] + 1]
          /\ wire' = [wire EXCEPT ![c] = Append(wire[c], f)]
          /\ UNCHANGED <<reader, frame, queue, handled>>
      BY <1>1, <2>a DEF PeerSend
    <2> HIDE DEF f
    <2>7. CASE d = c
      <3>1. InLine(Len(handled[c]), queue[c], frame[c], Append(wire[c], f), sent[c] + 1,
                   reader[c] # "done")
        BY <2>b, <2>7, <1>d, InLineSent
      <3>2. QED
        BY <2>1, <2>7, <3>1
    <2>8. CASE d # c
      BY <2>1, <2>8
    <2>9. QED
      BY <2>7, <2>8
  <1>2. ASSUME NEW c \in Clients, PeerClose(c)
        PROVE  Numbered(d)'
    BY <1>2 DEF PeerClose
  <1>3. ASSUME NEW c \in Clients, ReadFrame(c)
        PROVE  Numbered(d)'
    <2>1. /\ reader[c] = "reading" /\ wire[c] # <<>>
          /\ wire' = [wire EXCEPT ![c] = Tail(wire[c])]
          /\ \/ reader' = [reader EXCEPT ![c] = "done"] /\ frame' = frame
             \/ /\ reader' = [reader EXCEPT ![c] = "acquiring"]
                /\ frame' = [frame EXCEPT ![c] = <<Head(wire[c])>>]
          /\ UNCHANGED <<sent, queue, handled>>
      BY <1>3 DEF ReadFrame
    <2>7. CASE d = c
      <3>1. InLine(Len(handled[c]), queue[c], <<Head(wire[c])>>, Tail(wire[c]), sent[c],
                   reader[c] # "done")
        BY <2>1, <2>7, <1>d, InLineRead
      <3>2. InLine(Len(handled[c]), queue[c], frame[c], Tail(wire[c]), sent[c], FALSE)
        BY <2>7, <1>d, InLineDone
      <3>3. QED
        BY <2>1, <2>7, <3>1, <3>2
    <2>8. CASE d # c
      BY <2>1, <2>8
    <2>9. QED
      BY <2>7, <2>8
  <1>4. ASSUME NEW c \in Clients, ReadEof(c)
        PROVE  Numbered(d)'
    <2>1. /\ reader' = [reader EXCEPT ![c] = "done"]
          /\ UNCHANGED <<sent, wire, frame, queue, handled>>
      BY <1>4 DEF ReadEof
    <2>7. CASE d = c
      <3>1. InLine(Len(handled[c]), queue[c], frame[c], wire[c], sent[c], FALSE)
        BY <2>7, <1>d, InLineDone
      <3>2. QED
        BY <2>1, <2>7, <3>1
    <2>8. CASE d # c
      BY <2>1, <2>8
    <2>9. QED
      BY <2>7, <2>8
  <1>5. ASSUME NEW c \in Clients, ReadError(c)
        PROVE  Numbered(d)'
    <2>1. /\ reader' = [reader EXCEPT ![c] = "done"]
          /\ UNCHANGED <<sent, wire, frame, queue, handled>>
      BY <1>5 DEF ReadError
    <2>7. CASE d = c
      <3>1. InLine(Len(handled[c]), queue[c], frame[c], wire[c], sent[c], FALSE)
        BY <2>7, <1>d, InLineDone
      <3>2. QED
        BY <2>1, <2>7, <3>1
    <2>8. CASE d # c
      BY <2>1, <2>8
    <2>9. QED
      BY <2>7, <2>8
  <1>6. ASSUME NEW c \in Clients, Acquire(c)
        PROVE  Numbered(d)'
    BY <1>6 DEF Acquire
  <1>7. ASSUME NEW c \in Clients, Enqueue(c)
        PROVE  Numbered(d)'
    <2>1. /\ reader[c] = "sending" /\ UNCHANGED <<wire, sent, handled>>
          /\ \A e \in Clients : e # c => reader'[e] = reader[e] /\ frame'[e] = frame[e]
          /\ frame'[c] = <<>>
          /\ c = d => queue'[c] = queue[c] \o frame[c] /\ reader'[c] = "reading"
          /\ c # d => queue'[d] = queue[d]
      BY <1>7, <1>a DEF Enqueue
    <2>7. CASE d = c
      <3>1. InLine(Len(handled[c]), queue[c] \o frame[c], <<>>, wire[c], sent[c], reader[c] # "done")
        BY <2>1, <2>7, <1>d, InLineEnqueued
      <3>2. QED
        BY <2>1, <2>7, <3>1
    <2>8. CASE d # c
      BY <2>1, <2>8
    <2>9. QED
      BY <2>7, <2>8
  <1>8. ASSUME NEW c \in Clients, TryRecvPacket(c)
        PROVE  Numbered(d)'
    <2> DEFINE h == Append(handled[c], Head(queue[c]).n)
    <2>1. /\ queue[c] # <<>> /\ UNCHANGED <<wire, sent, reader, frame>>
          /\ queue' = [queue EXCEPT ![c] = Tail(queue[c])]
          /\ handled' = [handled EXCEPT ![c] = h]
      BY <1>8 DEF TryRecvPacket
    <2>2. Len(h) = Len(handled[c]) + 1
      <3>1. Head(queue[c]) \in Frames
        BY <2>1
      <3>2. Head(queue[c]).n \in 1..MaxFrames
        BY <3>1 DEF Frames
      <3>3. QED
        BY <3>2, AppendProperties
    <2> HIDE DEF h
    <2>7. CASE d = c
      <3>1. InLine(Len(handled[c]) + 1, Tail(queue[c]), frame[c], wire[c], sent[c], reader[c] # "done")
        BY <2>1, <2>7, <1>d, InLineHandled
      <3>2. QED
        BY <2>1, <2>2, <2>7, <3>1
    <2>8. CASE d # c
      BY <2>1, <2>8
    <2>9. QED
      BY <2>7, <2>8
  <1>9. ASSUME NEW c \in Clients, TryRecvEmpty(c)
        PROVE  Numbered(d)'
    BY <1>9 DEF TryRecvEmpty
  <1>10. ASSUME NEW c \in Clients, TryRecvClosed(c)
        PROVE  Numbered(d)'
    BY <1>10 DEF TryRecvClosed
  <1>11. ASSUME NEW c \in Clients, SkipRemoved(c)
        PROVE  Numbered(d)'
    BY <1>11 DEF SkipRemoved
  <1>12. ASSUME NEW c \in Clients, Flush(c)
        PROVE  Numbered(d)'
    BY <1>12 DEF Flush
  <1>13. ASSUME NEW c \in Clients, Kick(c)
        PROVE  Numbered(d)'
    BY <1>13 DEF Kick
  <1>14. ASSUME NEW c \in Clients, DisconnectClient(c)
        PROVE  Numbered(d)'
    BY <1>14 DEF DisconnectClient
  <1>15. ASSUME NEW c \in Clients, WriterTake(c)
        PROVE  Numbered(d)'
    BY <1>15 DEF WriterTake
  <1>16. ASSUME NEW c \in Clients, WriterWrite(c)
        PROVE  Numbered(d)'
    BY <1>16 DEF WriterWrite
  <1>17. CASE AddPermits
    BY <1>17 DEF AddPermits
  <1>18. CASE EndVisit
    BY <1>18 DEF EndVisit
  <1>19. CASE EndPass
    BY <1>19 DEF EndPass
  <1>20. CASE ApplyRemovals
    BY <1>20 DEF ApplyRemovals
  <1>21. CASE EndSchedules
    BY <1>21 DEF EndSchedules
  <1>22. CASE EndUpdate
    BY <1>22 DEF EndUpdate
  <1>23. CASE EndFlush
    BY <1>23 DEF EndFlush
  <1>24. CASE EndTick
    BY <1>24 DEF EndTick
  <1>25. CASE UNCHANGED vars
    BY <1>25 DEF vars
  <1>26. QED
    BY <1>1, <1>2, <1>3, <1>4, <1>5, <1>6, <1>7, <1>8, <1>9, <1>10, <1>11, <1>12,
       <1>13, <1>14, <1>15, <1>16, <1>17, <1>18, <1>19, <1>20, <1>21, <1>22, <1>23, <1>24,
       <1>25
    DEF Next, GameStep, ReaderStep, WriterStep

\* A client's frames are handled with the numbers 1, 2, 3 ...
LEMMA HandledStep ==
    ASSUME IInv, [Next]_vars
    PROVE  HandledNumbered'
  <1>1. /\ \A c \in Clients : TryRecvPacket(c) => HandledNumbered'
        /\ handled' = handled => HandledNumbered'
    <2>1. ASSUME NEW c \in Clients, TryRecvPacket(c)
          PROVE  HandledNumbered'
      <3> DEFINE n == Head(queue[c]).n
                 h == Append(handled[c], n)
      <3>1. /\ queue[c] \in Seq(Frames) /\ queue[c] # <<>> /\ handled[c] \in Seq(1..MaxFrames)
            /\ handled \in [Clients -> Seq(1..MaxFrames)] /\ Numbered(c) /\ HandledNumbered
            /\ handled' = [handled EXCEPT ![c] = h]
        BY <2>1 DEF TryRecvPacket, Online, IInv, TypeOK, LineNumbered
      <3>2. n = Len(handled[c]) + 1
        BY <3>1 DEF Numbered, InLine
      <3>3. n \in 1..MaxFrames
        <4>1. Head(queue[c]) \in Frames
          BY <3>1
        <4>2. QED
          BY <4>1 DEF Frames
      <3> HIDE DEF n
      <3>4. /\ Len(h) = Len(handled[c]) + 1 /\ h[Len(handled[c]) + 1] = n
            /\ \A i \in 1..Len(handled[c]) : h[i] = handled[c][i]
        BY <3>1, <3>3, AppendProperties
      <3> HIDE DEF h
      <3>5. QED
        BY <3>1, <3>2, <3>4 DEF HandledNumbered
    <2>2. QED
      BY <2>1 DEF IInv, HandledNumbered
  <1>2. (\E c \in Clients : TryRecvPacket(c)) \/ handled' = handled
    BY DEF Next, GameStep, ReaderStep, WriterStep, vars, PeerSend, PeerClose, ReadFrame, ReadEof,
           ReadError, Acquire, Enqueue, TryRecvEmpty, TryRecvClosed, SkipRemoved, Flush, Kick,
           DisconnectClient, WriterTake, WriterWrite, AddPermits, EndVisit, EndPass, ApplyRemovals,
           EndSchedules, EndUpdate, EndFlush, EndTick, Dropped
  <1>3. QED
    BY <1>1, <1>2

\* What the first frames of a queue cost.
LEMMA AheadParts ==
    ASSUME NEW q \in Seq(Frames)
    PROVE  /\ Ahead(q, 0) = 0
           /\ Ahead(q, Len(q)) = Cost(q)
           /\ \A k \in 0..Len(q) : Ahead(q, k) \in Nat
  <1> DEFINE c == CostsOf(q)
  <1>1. c \in Seq(Nat) /\ Len(c) = Len(q)
    BY CostsOfType
  <1> HIDE DEF c
  <1>2. PrefixSums(c)[0] = 0 /\ PrefixSums(c) \in [0..Len(q) -> Nat]
    BY <1>1, PrefixSumsDefined
  <1>3. QED
    BY <1>1, <1>2 DEF Ahead, Cost, Total, c

\* A frame more does not change what the frames before it cost.
LEMMA AheadConcat ==
    ASSUME NEW q \in Seq(Frames), NEW f \in Seq(Frames), Len(f) = 1
    PROVE  /\ Len(q \o f) = Len(q) + 1
           /\ \A k \in 0..Len(q) : Ahead(q \o f, k) = Ahead(q, k)
  <1> DEFINE c == CostsOf(q)
             x == f[1].cost
             d == Append(c, x)
             n == Len(q)
  <1>1. c \in Seq(Nat) /\ Len(c) = n /\ x \in Nat /\ n \in Nat
    BY CostsOfType, CostOne
  <1>2. CostsOf(q \o f) = d
    BY CostAppend
  <1>3. Len(q \o f) = n + 1
    <2>1. Len(q \o f) = Len(q) + Len(f)
      BY ConcatProperties
    <2>2. QED
      BY <2>1
  <1> HIDE DEF c, x, n
  <1>4. /\ d \in Seq(Nat) /\ Len(d) = Len(c) + 1
        /\ \A i \in 1..Len(c) : d[i] = c[i]
    BY <1>1, AppendProperties
  <1> HIDE DEF d
  <1>5. \A k \in 0..n : PrefixSums(c)[k] = PrefixSums(d)[k]
    <2>1. n <= Len(c) /\ n <= Len(d)
      BY <1>1, <1>4
    <2>a. \A i \in 1..n : c[i] = d[i]
      BY <1>1, <1>4, Zenon
    <2>2. QED
      BY <1>1, <1>4, <2>1, <2>a, PrefixSumsAgree
  <1>6. QED
    BY <1>2, <1>3, <1>5 DEF Ahead, c, n

\* Without its head a queue costs less by what the head costs.
LEMMA AheadTail ==
    ASSUME NEW q \in Seq(Frames), q # <<>>
    PROVE  /\ Head(q).cost \in Nat
           /\ Len(Tail(q)) = Len(q) - 1
           /\ \A k \in 1..Len(q) : Ahead(q, k) = Head(q).cost + Ahead(Tail(q), k - 1)
  <1> DEFINE c == CostsOf(q)
  <1>1. c \in Seq(Nat) /\ Len(c) = Len(q)
    BY CostsOfType
  <1>2. /\ CostsOf(Tail(q)) = Tail(c) /\ c # <<>> /\ Head(c) = Head(q).cost
        /\ Head(q).cost \in Nat
    BY CostTail
  <1> HIDE DEF c
  <1>3. \A k \in 1..Len(c) : PrefixSums(c)[k] = Head(c) + PrefixSums(Tail(c))[k - 1]
    BY <1>1, <1>2, PrefixSumsOfTail
  <1>4. Len(Tail(q)) = Len(q) - 1
    OBVIOUS
  <1>5. \A k \in 1..Len(q) : Ahead(q, k) = Head(q).cost + Ahead(Tail(q), k - 1)
    BY <1>1, <1>2, <1>3 DEF Ahead, c
  <1>6. QED
    BY <1>2, <1>4, <1>5

\* What a client may still cost this tick stays bounded.
LEMMA BoundedStep ==
    ASSUME IInv, [Next]_vars, NEW d \in Clients, client'[d] # "removed"
    PROVE  Bounded(d)'
  <1>a. client[d] # "removed"
    BY RemovedForGood DEF IInv
  <1>b. Bounded(d)
    BY <1>a DEF IInv, Allowance
  <1>c. /\ phase \in Phases /\ todo \subseteq Clients /\ visited \in Clients \cup {Nobody}
        /\ queue \in [Clients -> Seq(Frames)] /\ again \in [Clients -> Nat]
        /\ spent \in [Clients -> Nat] /\ client \in [Clients -> ClientStates]
        /\ visited # Nobody => phase \in {"first", "again"}
    BY DEF IInv, TypeOK, Control
  <1>d. /\ frame \in [Clients -> Seq(Frames)]
        /\ \A c \in Clients : reader[c] = "sending" => Len(frame[c]) = 1
    BY DEF IInv, TypeOK, Control
  <1>f. /\ Ahead(queue[d], 0) = 0 /\ Ahead(queue[d], Len(queue[d])) = Cost(queue[d])
        /\ \A k \in 0..Len(queue[d]) : Ahead(queue[d], k) \in Nat
    BY <1>c, AheadParts
  <1>e. /\ Cost(queue[d]) <= InLimit /\ Ahead(queue[d], Len(queue[d])) <= InLimit
        /\ spent[d] <= 2 * InLimit
        /\ phase = "first" /\ d \in todo => spent[d] = 0
        /\ phase = "first" /\ visited = d => spent[d] <= InLimit /\ d \notin todo
    <2>1. /\ permits[d] \in Nat /\ Cost(queue[d]) \in Nat /\ Held(d) \in Nat /\ Taken(d) \in Nat
          /\ permits[d] + Cost(queue[d]) + Held(d) + Taken(d) = InLimit
      BY <1>a, PermitsParts DEF IInv, Kept
    <2>2. spent[d] <= 2 * InLimit /\ visited \notin todo
      BY DEF IInv, TickBounded, Allowance, Counted
    <2>3. Cost(queue[d]) <= InLimit
      BY <2>1, LimitsAssumption
    <2>4. /\ phase = "first" /\ d \in todo => spent[d] = 0
          /\ phase = "first" /\ visited = d => spent[d] <= InLimit /\ d \notin todo
      BY <1>b, <2>2 DEF Bounded
    <2>5. QED
      BY <1>f, <2>2, <2>3, <2>4
  <1>g. phase = "again" => \A c \in Clients : c \in todo \/ visited = c => again[c] > 0
    BY DEF IInv, Allowance, Counted
  <1> USE <1>b, <1>c DEF peerVars, readerVars, loop, Visit, Dropped, Bounded
  <1>1. ASSUME NEW c \in Clients, PeerSend(c)
        PROVE  Bounded(d)'
    BY <1>1 DEF PeerSend, Left
  <1>2. ASSUME NEW c \in Clients, PeerClose(c)
        PROVE  Bounded(d)'
    BY <1>2 DEF PeerClose, Left
  <1>3. ASSUME NEW c \in Clients, ReadFrame(c)
        PROVE  Bounded(d)'
    BY <1>3 DEF ReadFrame, Left
  <1>4. ASSUME NEW c \in Clients, ReadEof(c)
        PROVE  Bounded(d)'
    BY <1>4 DEF ReadEof, Left
  <1>5. ASSUME NEW c \in Clients, ReadError(c)
        PROVE  Bounded(d)'
    BY <1>5 DEF ReadError, Left
  <1>6. ASSUME NEW c \in Clients, Acquire(c)
        PROVE  Bounded(d)'
    BY <1>6 DEF Acquire, Left
  <1>7. ASSUME NEW c \in Clients, Enqueue(c)
        PROVE  Bounded(d)'
    <2>1. /\ UNCHANGED <<phase, todo, visited, again, spent>>
          /\ c # d => queue'[d] = queue[d]
          /\ c = d => queue'[d] = queue[d] \o frame[d]
          /\ frame[c] \in Seq(Frames) /\ Len(frame[c]) = 1
      BY <1>7, <1>a, <1>d DEF Enqueue
    <2>2. CASE d = c
      <3>1. /\ Len(queue'[d]) = Len(queue[d]) + 1
            /\ \A k \in 0..Len(queue[d]) : Ahead(queue'[d], k) = Ahead(queue[d], k)
        <4>1. queue[d] \in Seq(Frames) /\ frame[d] \in Seq(Frames) /\ Len(frame[d]) = 1
          BY <2>1, <2>2
        <4>2. /\ Len(queue[d] \o frame[d]) = Len(queue[d]) + 1
              /\ \A k \in 0..Len(queue[d]) : Ahead(queue[d] \o frame[d], k) = Ahead(queue[d], k)
          BY <4>1, AheadConcat
        <4>3. QED
          BY <2>1, <2>2, <4>2, Zenon
      <3>2. Left(d)' = Left(d)
        BY <2>1 DEF Left
      <3>3. QED
        BY <2>1, <3>1, <3>2
    <2>3. CASE d # c
      BY <2>1, <2>3 DEF Left
    <2>4. QED
      BY <2>2, <2>3
  <1>8. ASSUME NEW c \in Clients, TryRecvPacket(c)
        PROVE  Bounded(d)'
    <2> DEFINE x == Head(queue[c]).cost
               t == Tail(queue[c])
    <2>1. /\ phase \in {"first", "again"} /\ visited = Nobody /\ c \in todo /\ todo' = todo \ {c}
          /\ queue[c] # <<>> /\ visited' = c
          /\ queue' = [queue EXCEPT ![c] = t]
          /\ spent' = [spent EXCEPT ![c] = spent[c] + x]
          /\ UNCHANGED <<phase, again>>
      BY <1>8 DEF TryRecvPacket
    <2>2. /\ x \in Nat /\ Len(t) = Len(queue[c]) - 1
          /\ \A k \in 1..Len(queue[c]) : Ahead(queue[c], k) = x + Ahead(t, k - 1)
      BY <2>1, AheadTail
    <2>3. Cost(queue[c]) = x + Cost(t) /\ Cost(t) \in Nat
      <3>1. t \in Seq(Frames)
        BY <2>1
      <3>2. QED
        BY <2>1, <3>1, CostTail, CostIsNat
    <2> HIDE DEF x, t
    <2>4. CASE d # c
      BY <2>1, <2>4, ClientsAssumption DEF Left
    <2>5. CASE d = c /\ phase = "first"
      <3>1. spent[d] = 0 /\ x <= InLimit
        <4>1. x + Cost(t) <= InLimit
          BY <2>3, <2>5, <1>e
        <4>2. x <= InLimit
          BY <4>1, <2>2, <2>3, LimitsAssumption
        <4>3. QED
          BY <4>2, <2>1, <2>5, <1>e
      <3>2. spent'[d] <= InLimit /\ d \notin todo'
        BY <2>1, <2>2, <2>5, <3>1
      <3>3. QED
        BY <2>1, <2>5, <3>2
    <2>6. CASE d = c /\ phase = "again"
      <3>1. /\ visited # c /\ Left(d) = again[d] /\ again[d] \in 1..Len(queue[d])
            /\ spent[d] + Ahead(queue[d], again[d]) <= 2 * InLimit
        BY <2>1, <2>6, ClientsAssumption, <1>g DEF Left
      <3>2. Left(d)' = again[d] - 1 /\ again[d] - 1 \in 0..Len(t)
        BY <2>1, <2>2, <2>6, <3>1 DEF Left
      <3>3. Ahead(queue[d], again[d]) = x + Ahead(t, again[d] - 1)
        BY <2>2, <2>6, <3>1
      <3>4. Ahead(t, again[d] - 1) \in Nat
        <4>1. t \in Seq(Frames)
          BY <2>1 DEF t
        <4>2. QED
          BY <4>1, <3>2, AheadParts
      <3>5. spent'[d] + Ahead(t, again[d] - 1) <= 2 * InLimit
        <4>1. spent'[d] = spent[d] + x /\ spent[d] \in Nat
          BY <2>1, <2>6
        <4>2. QED
          BY <4>1, <2>2, <3>1, <3>3, <3>4, LimitsAssumption
      <3>6. queue'[d] = t /\ phase' = "again"
        BY <2>1, <2>6
      <3>7. QED
        BY <3>2, <3>5, <3>6
    <2>7. QED
      BY <2>1, <2>4, <2>5, <2>6
  <1>9. ASSUME NEW c \in Clients, TryRecvEmpty(c)
        PROVE  Bounded(d)'
    <2>1. /\ phase \in {"first", "again"} /\ visited = Nobody /\ c \in todo /\ todo' = todo \ {c}
          /\ again' = [again EXCEPT ![c] = 0]
          /\ UNCHANGED <<phase, visited, queue, spent>>
      BY <1>9 DEF TryRecvEmpty
    <2>2. CASE d = c
      <3>1. spent[d] <= 2 * InLimit
        BY <1>e
      <3>2. Left(d)' = 0 /\ Ahead(queue[d], 0)' = 0 /\ d \notin todo' /\ visited' # d
        BY <2>1, <2>2, <1>f, ClientsAssumption DEF Left
      <3>3. spent'[d] + Ahead(queue[d], Left(d))' <= 2 * InLimit
        BY <2>1, <3>1, <3>2, <1>c
      <3>4. QED
        BY <2>1, <3>2, <3>3
    <2>3. CASE d # c
      BY <2>1, <2>3 DEF Left
    <2>4. QED
      BY <2>2, <2>3
  <1>10. ASSUME NEW c \in Clients, TryRecvClosed(c)
        PROVE  Bounded(d)'
    <2>1. /\ phase \in {"first", "again"} /\ visited = Nobody /\ c \in todo /\ todo' = todo \ {c}
          /\ again' = [again EXCEPT ![c] = 0]
          /\ UNCHANGED <<phase, visited, queue, spent>>
      BY <1>10 DEF TryRecvClosed
    <2>2. CASE d = c
      <3>1. spent[d] <= 2 * InLimit
        BY <1>e
      <3>2. Left(d)' = 0 /\ Ahead(queue[d], 0)' = 0 /\ d \notin todo' /\ visited' # d
        BY <2>1, <2>2, <1>f, ClientsAssumption DEF Left
      <3>3. spent'[d] + Ahead(queue[d], Left(d))' <= 2 * InLimit
        BY <2>1, <3>1, <3>2, <1>c
      <3>4. QED
        BY <2>1, <3>2, <3>3
    <2>3. CASE d # c
      BY <2>1, <2>3 DEF Left
    <2>4. QED
      BY <2>2, <2>3
  <1>11. ASSUME NEW c \in Clients, SkipRemoved(c)
        PROVE  Bounded(d)'
    BY <1>11, <1>a DEF SkipRemoved, Online, Left
  <1>12. ASSUME NEW c \in Clients, Flush(c)
        PROVE  Bounded(d)'
    BY <1>12 DEF Flush, Left
  <1>13. ASSUME NEW c \in Clients, Kick(c)
        PROVE  Bounded(d)'
    BY <1>13 DEF Kick, Left
  <1>14. ASSUME NEW c \in Clients, DisconnectClient(c)
        PROVE  Bounded(d)'
    BY <1>14 DEF DisconnectClient, Left
  <1>15. ASSUME NEW c \in Clients, WriterTake(c)
        PROVE  Bounded(d)'
    BY <1>15 DEF WriterTake, Left
  <1>16. ASSUME NEW c \in Clients, WriterWrite(c)
        PROVE  Bounded(d)'
    BY <1>16 DEF WriterWrite, Left
  <1>17. CASE AddPermits
    BY <1>17 DEF AddPermits, Left
  <1>18. CASE EndVisit
    <2>1. /\ visited # Nobody /\ visited' = Nobody
          /\ again' = [again EXCEPT ![visited] =
                 IF phase = "first" THEN Pending(visited) ELSE Remaining(visited)]
          /\ UNCHANGED <<phase, todo, queue, spent>>
      BY <1>18 DEF EndVisit
    <2>2. CASE visited = d /\ phase = "first"
      <3>1. spent[d] <= InLimit /\ d \notin todo
        BY <2>2, <1>e
      <3>2. Left(d)' = Len(queue[d])
        BY <2>1, <2>2, ClientsAssumption DEF Left, Pending
      <3>3. Ahead(queue[d], Len(queue[d])) <= InLimit
        BY <1>e
      <3>4. spent[d] + Ahead(queue[d], Len(queue[d])) <= 2 * InLimit
        BY <3>1, <3>3, <1>c, <1>f, LimitsAssumption
      <3>5. QED
        BY <2>1, <3>1, <3>2, <3>4, ClientsAssumption
    <2>3. CASE visited = d /\ phase # "first"
      <3>1. Left(d) = again[d] - 1 /\ Left(d)' = again[d] - 1
        BY <2>1, <2>3, ClientsAssumption DEF Left, Remaining
      <3>2. QED
        BY <2>1, <2>3, <3>1, ClientsAssumption
    <2>4. CASE visited # d
      BY <2>1, <2>4, ClientsAssumption DEF Left
    <2>5. QED
      BY <2>2, <2>3, <2>4
  <1>19. CASE EndPass
    <2>1. /\ todo = {} /\ visited = Nobody /\ phase' = "apply"
          /\ UNCHANGED <<todo, visited, queue, again, spent>>
      BY <1>19 DEF EndPass
    <2>2. visited # d
      BY <2>1, ClientsAssumption
    <2>3. Left(d)' = Left(d)
      BY <2>1 DEF Left
    <2>4. Left(d) \in 0..Len(queue[d]) /\ spent[d] + Ahead(queue[d], Left(d)) <= 2 * InLimit
      BY <2>1, <2>2
    <2>5. QED
      BY <2>1, <2>3, <2>4
  <1>20. CASE ApplyRemovals
    BY <1>20 DEF ApplyRemovals, Left
  <1>21. CASE EndSchedules
    BY <1>21 DEF EndSchedules, Left
  <1>22. CASE EndUpdate
    BY <1>22 DEF EndUpdate, Left
  <1>23. CASE EndFlush
    BY <1>23 DEF EndFlush, Left
  <1>24. CASE EndTick
    <2>1. /\ phase' = "first" /\ todo' = {c \in Clients : client[c] = "online"}
          /\ spent' = [c \in Clients |-> 0]
          /\ client[d] = "leaving" => client'[d] = "removed"
      BY <1>24 DEF EndTick
    <2>2. client[d] = "online"
      BY <2>1, <1>a DEF ClientStates
    <2>3. QED
      BY <2>1, <2>2
  <1>25. CASE UNCHANGED vars
    BY <1>25 DEF vars, Left
  <1>26. QED
    BY <1>1, <1>2, <1>3, <1>4, <1>5, <1>6, <1>7, <1>8, <1>9, <1>10, <1>11, <1>12,
       <1>13, <1>14, <1>15, <1>16, <1>17, <1>18, <1>19, <1>20, <1>21, <1>22, <1>23, <1>24,
       <1>25
    DEF Next, GameStep, ReaderStep, WriterStep

\* check_again is empty once the passes are over, after every step.
LEMMA PassesOverStep ==
    ASSUME IInv, [Next]_vars
    PROVE  PassesOver'
  <1>a. PassesOver
    BY DEF IInv, Due
  <1>b. /\ again \in [Clients -> Nat] /\ phase \in Phases
        /\ visited # Nobody => phase \in {"first", "again"}
    BY DEF IInv, TypeOK, Control
  <1> USE <1>a, <1>b DEF PassesOver, Phases, peerVars, readerVars, loop, Visit, Dropped
  <1>1. ASSUME NEW c \in Clients, PeerSend(c)
        PROVE  PassesOver'
    BY <1>1 DEF PeerSend
  <1>2. ASSUME NEW c \in Clients, PeerClose(c)
        PROVE  PassesOver'
    BY <1>2 DEF PeerClose
  <1>3. ASSUME NEW c \in Clients, ReadFrame(c)
        PROVE  PassesOver'
    BY <1>3 DEF ReadFrame
  <1>4. ASSUME NEW c \in Clients, ReadEof(c)
        PROVE  PassesOver'
    BY <1>4 DEF ReadEof
  <1>5. ASSUME NEW c \in Clients, ReadError(c)
        PROVE  PassesOver'
    BY <1>5 DEF ReadError
  <1>6. ASSUME NEW c \in Clients, Acquire(c)
        PROVE  PassesOver'
    BY <1>6 DEF Acquire
  <1>7. ASSUME NEW c \in Clients, Enqueue(c)
        PROVE  PassesOver'
    BY <1>7 DEF Enqueue
  <1>8. ASSUME NEW c \in Clients, TryRecvPacket(c)
        PROVE  PassesOver'
    BY <1>8 DEF TryRecvPacket
  <1>9. ASSUME NEW c \in Clients, TryRecvEmpty(c)
        PROVE  PassesOver'
    BY <1>9 DEF TryRecvEmpty
  <1>10. ASSUME NEW c \in Clients, TryRecvClosed(c)
        PROVE  PassesOver'
    BY <1>10 DEF TryRecvClosed
  <1>11. ASSUME NEW c \in Clients, SkipRemoved(c)
        PROVE  PassesOver'
    BY <1>11 DEF SkipRemoved
  <1>12. ASSUME NEW c \in Clients, Flush(c)
        PROVE  PassesOver'
    BY <1>12 DEF Flush
  <1>13. ASSUME NEW c \in Clients, Kick(c)
        PROVE  PassesOver'
    BY <1>13 DEF Kick
  <1>14. ASSUME NEW c \in Clients, DisconnectClient(c)
        PROVE  PassesOver'
    BY <1>14 DEF DisconnectClient
  <1>15. ASSUME NEW c \in Clients, WriterTake(c)
        PROVE  PassesOver'
    BY <1>15 DEF WriterTake
  <1>16. ASSUME NEW c \in Clients, WriterWrite(c)
        PROVE  PassesOver'
    BY <1>16 DEF WriterWrite
  <1>17. CASE AddPermits
    BY <1>17 DEF AddPermits
  <1>18. CASE EndVisit
    BY <1>18 DEF EndVisit
  <1>19. CASE EndPass
    BY <1>19 DEF EndPass
  <1>20. CASE ApplyRemovals
    BY <1>20 DEF ApplyRemovals
  <1>21. CASE EndSchedules
    BY <1>21 DEF EndSchedules
  <1>22. CASE EndUpdate
    BY <1>22 DEF EndUpdate
  <1>23. CASE EndFlush
    BY <1>23 DEF EndFlush
  <1>24. CASE EndTick
    BY <1>24 DEF EndTick
  <1>25. CASE UNCHANGED vars
    BY <1>25 DEF vars
  <1>26. QED
    BY <1>1, <1>2, <1>3, <1>4, <1>5, <1>6, <1>7, <1>8, <1>9, <1>10, <1>11, <1>12,
       <1>13, <1>14, <1>15, <1>16, <1>17, <1>18, <1>19, <1>20, <1>21, <1>22, <1>23, <1>24,
       <1>25
    DEF Next, GameStep, ReaderStep, WriterStep

\* What is due to a client stays handled, queued or counted, and it is not given
\* up before, after every step.
LEMMA DueStep ==
    ASSUME IInv, [Next]_vars, NEW d \in Clients, client'[d] # "removed"
    PROVE  Promise(d)' /\ GivenUp(d)'
  <1>a. client[d] # "removed"
    BY RemovedForGood DEF IInv
  <1>b. Promise(d) /\ GivenUp(d)
    BY <1>a DEF IInv, Due
  <1>c. /\ phase \in Phases /\ todo \subseteq Clients /\ visited \in Clients \cup {Nobody}
        /\ queue \in [Clients -> Seq(Frames)] /\ again \in [Clients -> Nat]
        /\ handled \in [Clients -> Seq(1..MaxFrames)] /\ due \in [Clients -> Nat]
        /\ client \in [Clients -> ClientStates] /\ removals \subseteq Clients
    BY DEF IInv, TypeOK
  <1>d. /\ frame \in [Clients -> Seq(Frames)]
        /\ \A c \in Clients : reader[c] = "sending" => Len(frame[c]) = 1
    BY DEF IInv, TypeOK, Control
  <1>h. /\ Len(handled[d]) \in Nat /\ Len(queue[d]) \in Nat
        /\ due[d] \in Nat /\ again[d] \in Nat
    BY <1>c
  <1>i. ~(phase = "first" /\ (d \in todo \/ visited = d)) => Left(d) \in 0..Len(queue[d])
    BY <1>a DEF IInv, Allowance, Bounded
  <1>j. PassesOver /\ (visited # Nobody => phase \in {"first", "again"})
    BY DEF IInv, Due, Control
  <1>k. visited \notin todo
    BY DEF IInv, Allowance, Counted
  <1> USE <1>b, <1>c DEF peerVars, readerVars, loop, Visit, Dropped, Promise, GivenUp
  <1>1. ASSUME NEW c \in Clients, PeerSend(c)
        PROVE  Promise(d)' /\ GivenUp(d)'
    BY <1>1 DEF PeerSend, Left
  <1>2. ASSUME NEW c \in Clients, PeerClose(c)
        PROVE  Promise(d)' /\ GivenUp(d)'
    BY <1>2 DEF PeerClose, Left
  <1>3. ASSUME NEW c \in Clients, ReadFrame(c)
        PROVE  Promise(d)' /\ GivenUp(d)'
    BY <1>3 DEF ReadFrame, Left
  <1>4. ASSUME NEW c \in Clients, ReadEof(c)
        PROVE  Promise(d)' /\ GivenUp(d)'
    BY <1>4 DEF ReadEof, Left
  <1>5. ASSUME NEW c \in Clients, ReadError(c)
        PROVE  Promise(d)' /\ GivenUp(d)'
    BY <1>5 DEF ReadError, Left
  <1>6. ASSUME NEW c \in Clients, Acquire(c)
        PROVE  Promise(d)' /\ GivenUp(d)'
    BY <1>6 DEF Acquire, Left
  <1>7. ASSUME NEW c \in Clients, Enqueue(c)
        PROVE  Promise(d)' /\ GivenUp(d)'
    <2>1. /\ UNCHANGED <<phase, todo, visited, again, removals, handled, due>>
          /\ c # d => queue'[d] = queue[d]
          /\ c = d => queue'[d] = queue[d] \o frame[d]
          /\ frame[c] \in Seq(Frames)
      BY <1>7, <1>a, <1>d DEF Enqueue
    <2>2. Len(queue'[d]) \in Nat /\ Len(queue[d]) <= Len(queue'[d])
      <3>1. CASE c = d
        BY <2>1, <3>1, <1>c, ConcatProperties
      <3>2. CASE c # d
        BY <2>1, <3>2, <1>h
      <3>3. QED
        BY <3>1, <3>2
    <2>3. QED
      BY <2>1, <2>2, <1>h DEF Left
  <1>8. ASSUME NEW c \in Clients, TryRecvPacket(c)
        PROVE  Promise(d)' /\ GivenUp(d)'
    <2>1. /\ phase \in {"first", "again"} /\ visited = Nobody /\ c \in todo /\ todo' = todo \ {c}
          /\ queue[c] # <<>> /\ visited' = c
          /\ queue' = [queue EXCEPT ![c] = Tail(queue[c])]
          /\ handled' = [handled EXCEPT ![c] = Append(handled[c], Head(queue[c]).n)]
          /\ UNCHANGED <<phase, again, removals, due>>
      BY <1>8 DEF TryRecvPacket
    <2>2. CASE d # c
      BY <2>1, <2>2, ClientsAssumption DEF Left
    <2>3. CASE d = c
      <3>1. /\ Len(handled'[d]) = Len(handled[d]) + 1
            /\ Len(queue'[d]) = Len(queue[d]) - 1
            /\ phase' = phase /\ due' = due /\ removals' = removals
        <4>1. /\ handled'[d] = Append(handled[d], Head(queue[d]).n)
              /\ queue'[d] = Tail(queue[d]) /\ queue[d] # <<>>
          BY <2>1, <2>3, <1>c
        <4>2. Len(Append(handled[d], Head(queue[d]).n)) = Len(handled[d]) + 1
          BY <1>c
        <4>3. Len(Tail(queue[d])) = Len(queue[d]) - 1
          BY <4>1, <1>c
        <4>4. QED
          BY <2>1, <4>1, <4>2, <4>3
      <3>2. CASE phase = "first"
        BY <2>1, <2>3, <3>1, <3>2, <1>h
      <3>3. CASE phase = "again"
        <4>1. Left(d) = again[d] /\ Left(d)' = again[d] - 1
          BY <2>1, <2>3, ClientsAssumption DEF Left
        <4>2. QED
          BY <3>1, <3>3, <4>1, <1>h
      <3>4. QED
        BY <2>1, <3>2, <3>3
    <2>4. QED
      BY <2>2, <2>3
  <1>9. ASSUME NEW c \in Clients, TryRecvEmpty(c)
        PROVE  Promise(d)' /\ GivenUp(d)'
    <2>1. /\ phase \in {"first", "again"} /\ visited = Nobody /\ c \in todo /\ todo' = todo \ {c}
          /\ again' = [again EXCEPT ![c] = 0] /\ queue[c] = <<>>
          /\ removals' \subseteq removals \cup {c}
          /\ UNCHANGED <<phase, visited, queue, handled, due>>
      BY <1>9 DEF TryRecvEmpty
    <2>2. CASE d = c
      <3>1. Len(queue[d]) = 0
        BY <2>1, <2>2
      <3>2. due[d] <= Len(handled[d])
        <4>1. CASE phase = "first"
          BY <2>1, <2>2, <3>1, <4>1, <1>h
        <4>2. CASE phase # "first"
          <5>1. Left(d) = 0
            BY <2>1, <2>2, <3>1, <4>2, <1>i, ClientsAssumption
          <5>2. QED
            BY <4>2, <5>1, <1>h
        <4>3. QED
          BY <4>1, <4>2
      <3>3. Left(d)' = 0 /\ d \notin todo' /\ visited' # d
        BY <2>1, <2>2, ClientsAssumption DEF Left
      <3>4. QED
        BY <2>1, <3>2, <3>3, <1>h
    <2>3. CASE d # c
      BY <2>1, <2>3 DEF Left
    <2>4. QED
      BY <2>2, <2>3
  <1>10. ASSUME NEW c \in Clients, TryRecvClosed(c)
        PROVE  Promise(d)' /\ GivenUp(d)'
    <2>1. /\ phase \in {"first", "again"} /\ visited = Nobody /\ c \in todo /\ todo' = todo \ {c}
          /\ again' = [again EXCEPT ![c] = 0] /\ queue[c] = <<>>
          /\ removals' \subseteq removals \cup {c}
          /\ UNCHANGED <<phase, visited, queue, handled, due>>
      BY <1>10 DEF TryRecvClosed, Closed
    <2>2. CASE d = c
      <3>1. Len(queue[d]) = 0
        BY <2>1, <2>2
      <3>2. due[d] <= Len(handled[d])
        <4>1. CASE phase = "first"
          BY <2>1, <2>2, <3>1, <4>1, <1>h
        <4>2. CASE phase # "first"
          <5>1. Left(d) = 0
            BY <2>1, <2>2, <3>1, <4>2, <1>i, ClientsAssumption
          <5>2. QED
            BY <4>2, <5>1, <1>h
        <4>3. QED
          BY <4>1, <4>2
      <3>3. Left(d)' = 0 /\ d \notin todo' /\ visited' # d
        BY <2>1, <2>2, ClientsAssumption DEF Left
      <3>4. QED
        BY <2>1, <3>2, <3>3, <1>h
    <2>3. CASE d # c
      BY <2>1, <2>3 DEF Left
    <2>4. QED
      BY <2>2, <2>3
  <1>11. ASSUME NEW c \in Clients, SkipRemoved(c)
        PROVE  Promise(d)' /\ GivenUp(d)'
    BY <1>11, <1>a DEF SkipRemoved, Online, Left
  <1>12. ASSUME NEW c \in Clients, Flush(c)
        PROVE  Promise(d)' /\ GivenUp(d)'
    <2>1. /\ phase = "flush" /\ removals' \subseteq removals \cup {c}
          /\ todo' \subseteq todo
          /\ UNCHANGED <<phase, visited, again, queue, handled, due>>
      BY <1>12 DEF Flush
    <2>2. again[d] = 0 /\ visited # d
      BY <2>1, ClientsAssumption, <1>j DEF PassesOver
    <2>3. due[d] <= Len(handled[d])
      BY <2>1, <2>2, <1>h DEF Left
    <2>4. QED
      BY <2>1, <2>2, <2>3, <1>h DEF Left
  <1>13. ASSUME NEW c \in Clients, Kick(c)
        PROVE  Promise(d)' /\ GivenUp(d)'
    BY <1>13 DEF Kick, Left
  <1>14. ASSUME NEW c \in Clients, DisconnectClient(c)
        PROVE  Promise(d)' /\ GivenUp(d)'
    BY <1>14 DEF DisconnectClient, Left
  <1>15. ASSUME NEW c \in Clients, WriterTake(c)
        PROVE  Promise(d)' /\ GivenUp(d)'
    BY <1>15 DEF WriterTake, Left
  <1>16. ASSUME NEW c \in Clients, WriterWrite(c)
        PROVE  Promise(d)' /\ GivenUp(d)'
    BY <1>16 DEF WriterWrite, Left
  <1>17. CASE AddPermits
    BY <1>17 DEF AddPermits, Left
  <1>18. CASE EndVisit
    <2>1. /\ visited # Nobody /\ visited' = Nobody
          /\ again' = [again EXCEPT ![visited] =
                 IF phase = "first" THEN Pending(visited) ELSE Remaining(visited)]
          /\ UNCHANGED <<phase, todo, queue, removals, handled, due>>
      BY <1>18 DEF EndVisit
    <2>2. CASE visited = d /\ phase = "first"
      <3>1. Left(d)' = Len(queue[d]) /\ d \notin todo'
        BY <2>1, <2>2, <1>k, ClientsAssumption DEF Left, Pending
      <3>2. QED
        BY <2>1, <2>2, <3>1, ClientsAssumption
    <2>3. CASE visited = d /\ phase # "first"
      <3>1. Left(d) = again[d] - 1 /\ Left(d)' = again[d] - 1
        BY <2>1, <2>3, ClientsAssumption DEF Left, Remaining
      <3>2. QED
        BY <2>1, <2>3, <3>1, ClientsAssumption
    <2>4. CASE visited # d
      BY <2>1, <2>4, ClientsAssumption DEF Left
    <2>5. QED
      BY <2>2, <2>3, <2>4
  <1>19. CASE EndPass
    <2>1. /\ todo = {} /\ visited = Nobody /\ phase' = "apply"
          /\ UNCHANGED <<todo, visited, queue, again, removals, handled, due>>
      BY <1>19 DEF EndPass
    <2>2. visited # d
      BY <2>1, ClientsAssumption
    <2>3. QED
      BY <2>1, <2>2 DEF Left
  <1>20. CASE ApplyRemovals
    BY <1>20 DEF ApplyRemovals, Left
  <1>21. CASE EndSchedules
    BY <1>21 DEF EndSchedules, Left
  <1>22. CASE EndUpdate
    BY <1>22 DEF EndUpdate, Left
  <1>23. CASE EndFlush
    BY <1>23 DEF EndFlush, Left
  <1>24. CASE EndTick
    <2>1. /\ phase = "last" /\ phase' = "first" /\ todo' = {c \in Clients : client[c] = "online"}
          /\ due'[d] = Len(handled[d]) + Len(queue[d]) /\ handled' = handled
          /\ removals' = removals
          /\ client[d] = "leaving" => client'[d] = "removed"
          /\ client[d] # "leaving" => queue'[d] = queue[d]
      BY <1>24 DEF EndTick
    <2>2. client[d] = "online" /\ removals = {}
      BY <2>1, <1>a, <1>j DEF ClientStates, PassesOver
    <2>3. QED
      BY <2>1, <2>2, <1>h
  <1>25. CASE UNCHANGED vars
    BY <1>25 DEF vars, Left
  <1>26. QED
    BY <1>1, <1>2, <1>3, <1>4, <1>5, <1>6, <1>7, <1>8, <1>9, <1>10, <1>11, <1>12,
       <1>13, <1>14, <1>15, <1>16, <1>17, <1>18, <1>19, <1>20, <1>21, <1>22, <1>23, <1>24,
       <1>25
    DEF Next, GameStep, ReaderStep, WriterStep

\* Who is still to be visited has packets counted, and the visited one is not among them.
LEMMA CountedStep ==
    ASSUME IInv, [Next]_vars
    PROVE  Counted'
  <1>a. Counted
    BY DEF IInv, Allowance
  <1>b. /\ visited # Nobody => phase \in {"first", "again"}
        /\ phase \in Phases /\ todo \subseteq Clients /\ visited \in Clients \cup {Nobody}
        /\ again \in [Clients -> Nat]
    BY DEF IInv, TypeOK, Control
  <1> USE <1>a, <1>b, ClientsAssumption DEF Counted, Online, peerVars, readerVars, loop, Visit, Dropped
  <1>1. ASSUME NEW c \in Clients, PeerSend(c)
        PROVE  Counted'
    BY <1>1 DEF PeerSend
  <1>2. ASSUME NEW c \in Clients, PeerClose(c)
        PROVE  Counted'
    BY <1>2 DEF PeerClose
  <1>3. ASSUME NEW c \in Clients, ReadFrame(c)
        PROVE  Counted'
    BY <1>3 DEF ReadFrame
  <1>4. ASSUME NEW c \in Clients, ReadEof(c)
        PROVE  Counted'
    BY <1>4 DEF ReadEof
  <1>5. ASSUME NEW c \in Clients, ReadError(c)
        PROVE  Counted'
    BY <1>5 DEF ReadError
  <1>6. ASSUME NEW c \in Clients, Acquire(c)
        PROVE  Counted'
    BY <1>6 DEF Acquire
  <1>7. ASSUME NEW c \in Clients, Enqueue(c)
        PROVE  Counted'
    BY <1>7 DEF Enqueue
  <1>8. ASSUME NEW c \in Clients, TryRecvPacket(c)
        PROVE  Counted'
    BY <1>8 DEF TryRecvPacket
  <1>9. ASSUME NEW c \in Clients, TryRecvEmpty(c)
        PROVE  Counted'
    BY <1>9 DEF TryRecvEmpty
  <1>10. ASSUME NEW c \in Clients, TryRecvClosed(c)
        PROVE  Counted'
    BY <1>10 DEF TryRecvClosed
  <1>11. ASSUME NEW c \in Clients, SkipRemoved(c)
        PROVE  Counted'
    BY <1>11 DEF SkipRemoved
  <1>12. ASSUME NEW c \in Clients, Flush(c)
        PROVE  Counted'
    BY <1>12 DEF Flush
  <1>13. ASSUME NEW c \in Clients, Kick(c)
        PROVE  Counted'
    BY <1>13 DEF Kick
  <1>14. ASSUME NEW c \in Clients, DisconnectClient(c)
        PROVE  Counted'
    BY <1>14 DEF DisconnectClient
  <1>15. ASSUME NEW c \in Clients, WriterTake(c)
        PROVE  Counted'
    BY <1>15 DEF WriterTake
  <1>16. ASSUME NEW c \in Clients, WriterWrite(c)
        PROVE  Counted'
    BY <1>16 DEF WriterWrite
  <1>17. CASE AddPermits
    BY <1>17 DEF AddPermits
  <1>18. CASE EndVisit
    BY <1>18 DEF EndVisit
  <1>19. CASE EndPass
    BY <1>19 DEF EndPass
  <1>20. CASE ApplyRemovals
    BY <1>20 DEF ApplyRemovals
  <1>21. CASE EndSchedules
    BY <1>21 DEF EndSchedules
  <1>22. CASE EndUpdate
    BY <1>22 DEF EndUpdate
  <1>23. CASE EndFlush
    BY <1>23 DEF EndFlush
  <1>24. CASE EndTick
    BY <1>24 DEF EndTick
  <1>25. CASE UNCHANGED vars
    BY <1>25 DEF vars
  <1>26. QED
    BY <1>1, <1>2, <1>3, <1>4, <1>5, <1>6, <1>7, <1>8, <1>9, <1>10, <1>11, <1>12,
       <1>13, <1>14, <1>15, <1>16, <1>17, <1>18, <1>19, <1>20, <1>21, <1>22, <1>23, <1>24,
       <1>25
    DEF Next, GameStep, ReaderStep, WriterStep

\* No client has cost more than twice the limit after any step.
LEMMA TickStep ==
    ASSUME IInv, [Next]_vars
    PROVE  TickBounded'
  <1> SUFFICES ASSUME NEW d \in Clients
               PROVE  spent'[d] <= 2 * InLimit
    BY DEF TickBounded
  <1>1. spent'[d] \in Nat /\ queue'[d] \in Seq(Frames)
    BY TypeStep DEF TypeOK
  <1>2. CASE client'[d] # "removed"
    <2>1. Bounded(d)'
      BY <1>2, BoundedStep
    <2>2. \A k \in 0..Len(queue'[d]) : Ahead(queue'[d], k) \in Nat
      BY <1>1, AheadParts
    <2>3. QED
      BY <1>1, <2>1, <2>2, LimitsAssumption DEF Bounded
  <1>3. CASE client'[d] = "removed"
    <2>1. spent[d] \in Nat /\ spent[d] <= 2 * InLimit /\ client \in [Clients -> ClientStates]
      BY DEF IInv, TypeOK, TickBounded
    <2>2. \A c \in Clients : TryRecvPacket(c) => c # d
      BY <1>3 DEF TryRecvPacket, Visit, Online
    <2>3. spent'[d] = spent[d] \/ spent'[d] = 0
      <3>1. ASSUME NEW c \in Clients, TryRecvPacket(c)
            PROVE  spent'[d] = spent[d]
        BY <2>2, <3>1 DEF TryRecvPacket, IInv, TypeOK
      <3>2. EndTick => spent'[d] = 0
        BY DEF EndTick
      <3>3. (\E c \in Clients : TryRecvPacket(c)) \/ EndTick \/ spent' = spent
        BY DEF Next, GameStep, ReaderStep, WriterStep, vars, PeerSend, PeerClose, ReadFrame, ReadEof,
               ReadError, Acquire, Enqueue, TryRecvEmpty, TryRecvClosed, SkipRemoved, Flush, Kick,
               DisconnectClient, WriterTake, WriterWrite, AddPermits, EndVisit, EndPass,
               ApplyRemovals, EndSchedules, EndUpdate, EndFlush
      <3>4. QED
        BY <3>1, <3>2, <3>3
    <2>4. QED
      BY <2>1, <2>3, LimitsAssumption
  <1>4. QED
    BY <1>2, <1>3

-----------------------------------------------------------------------------
\* The inductive invariant holds at first, and after every step.
LEMMA InitInvariant == Init => IInv
  <1> SUFFICES ASSUME Init PROVE IInv
    OBVIOUS
  <1>1. TypeOK
    BY LimitsAssumption DEF Init, TypeOK, Phases, ReaderStates, ClientStates, FarewellStates
  <1>2. Control
    BY ClientsAssumption DEF Init, Control
  <1>3. Cost(<<>>) = 0 /\ \A k \in {0} : Ahead(<<>>, k) = 0
    <2>1. <<>> \in Seq(Frames)
      OBVIOUS
    <2>2. QED
      BY <2>1, CostEmpty, AheadParts
  <1>4. PermitsConserved
    BY <1>3, ClientsAssumption, LimitsAssumption DEF Init, PermitsConserved, Online
  <1>5. HandledNumbered /\ LineNumbered
    BY DEF Init, HandledNumbered, LineNumbered, Numbered, InLine
  <1>6. Due
    BY DEF Init, Due, PassesOver, Promise, GivenUp
  <1>7. Allowance
    BY ClientsAssumption DEF Init, Allowance, Counted, Bounded
  <1>8. TickBounded
    BY LimitsAssumption DEF Init, TickBounded
  <1>9. QED
    BY <1>1, <1>2, <1>4, <1>5, <1>6, <1>7, <1>8 DEF IInv

LEMMA StepInvariant == IInv /\ [Next]_vars => IInv'
  <1> SUFFICES ASSUME IInv, [Next]_vars PROVE IInv'
    OBVIOUS
  <1>1. TypeOK' /\ Control' /\ HandledNumbered' /\ TickBounded'
    BY TypeStep, ControlStep, HandledStep, TickStep
  <1>2. PermitsConserved'
    <2>1. \A d \in Clients : client'[d] # "removed" => Kept(d)'
      BY PermitsStep
    <2>2. QED
      BY <2>1 DEF PermitsConserved, Online, Kept, Held, Taken
  <1>3. LineNumbered'
    BY LineStep DEF LineNumbered
  <1>4. Allowance'
    <2>1. \A d \in Clients : client'[d] # "removed" => Bounded(d)'
      BY BoundedStep
    <2>2. QED
      BY <2>1, CountedStep DEF Allowance
  <1>5. Due'
    <2>1. \A d \in Clients : client'[d] # "removed" => Promise(d)' /\ GivenUp(d)'
      BY DueStep
    <2>2. QED
      BY <2>1, PassesOverStep DEF Due
  <1>6. QED
    BY <1>1, <1>2, <1>3, <1>4, <1>5 DEF IInv

\* Once the passes are over nothing is left of what was due.
LEMMA NothingLeftDue == IInv => QueuedHandledInTick
  <1> SUFFICES ASSUME IInv, NEW c \in Clients, client[c] # "removed",
                      c \in removals \/ phase \in {"update", "flush", "last"}
               PROVE  Len(handled[c]) >= due[c]
    BY DEF QueuedHandledInTick, Online
  <1>1. Promise(c) /\ GivenUp(c) /\ PassesOver /\ Len(handled[c]) \in Nat /\ due[c] \in Nat
    BY DEF IInv, Due, TypeOK
  <1>2. CASE c \in removals
    BY <1>1, <1>2 DEF GivenUp
  <1>3. CASE phase \in {"update", "flush", "last"}
    <2>1. visited # c /\ again[c] = 0
      BY <1>1, <1>3, ClientsAssumption DEF IInv, Control, PassesOver
    <2>2. phase # "first" /\ Left(c) = 0
      BY <1>3, <2>1 DEF Left
    <2>3. due[c] <= Len(handled[c]) + 0
      BY <1>1, <2>2 DEF Promise
    <2>4. QED
      BY <1>1, <2>3
  <1>4. QED
    BY <1>2, <1>3

\* Frames numbered through stand in order, those of the queue before the one
\* that the reader task holds.
LEMMA LineInOrder == IInv => HandledInOrder
  <1> SUFFICES ASSUME IInv, NEW c \in Clients, client[c] # "removed"
               PROVE  LET behind == [i \in DOMAIN queue[c] |-> queue[c][i].n]
                          reading == [i \in DOMAIN frame[c] |-> frame[c][i].n]
                      IN  \A i \in 1..Len(behind \o reading) :
                              (behind \o reading)[i] = Len(handled[c]) + i
    BY DEF HandledInOrder, Online, IInv, HandledNumbered
  <1> DEFINE q == queue[c]
             f == frame[c]
             h == Len(handled[c])
             behind == [i \in DOMAIN q |-> q[i].n]
             reading == [i \in DOMAIN f |-> f[i].n]
  <1>1. q \in Seq(Frames) /\ f \in Seq(Frames) /\ h \in Nat
    BY DEF IInv, TypeOK
  <1>2. /\ \A i \in 1..Len(q) : q[i].n = h + i
        /\ \A i \in 1..Len(f) : f[i].n = h + Len(q) + i
    BY DEF IInv, LineNumbered, Numbered, InLine
  <1> HIDE DEF q, f, h
  <1>3. /\ behind \in Seq(Nat) /\ Len(behind) = Len(q)
        /\ \A i \in 1..Len(q) : behind[i] = h + i
    <2>1. behind = [i \in 1..Len(q) |-> q[i].n] /\ Len(q) \in Nat
      BY <1>1
    <2>2. \A i \in 1..Len(q) : q[i].n \in Nat
      BY <1>1, <1>2
    <2>3. QED
      BY <1>2, <2>1, <2>2
  <1>4. /\ reading \in Seq(Nat) /\ Len(reading) = Len(f)
        /\ \A i \in 1..Len(f) : reading[i] = h + Len(q) + i
    <2>1. reading = [i \in 1..Len(f) |-> f[i].n] /\ Len(q) \in Nat /\ Len(f) \in Nat
      BY <1>1
    <2>2. \A i \in 1..Len(f) : f[i].n \in Nat
      BY <1>1, <1>2, <2>1
    <2>3. QED
      BY <1>2, <2>1, <2>2
  <1>5. Len(q) \in Nat /\ Len(f) \in Nat
    BY <1>1
  <1> HIDE DEF behind, reading
  <1>6. /\ Len(behind \o reading) = Len(q) + Len(f)
        /\ \A i \in 1..Len(q) + Len(f) :
               (behind \o reading)[i] = IF i <= Len(q) THEN behind[i] ELSE reading[i - Len(q)]
    <2>1. /\ Len(behind \o reading) = Len(behind) + Len(reading)
          /\ \A i \in 1..Len(behind) + Len(reading) :
                 (behind \o reading)[i] =
                     IF i <= Len(behind) THEN behind[i] ELSE reading[i - Len(behind)]
      BY <1>3, <1>4, ConcatProperties
    <2>2. QED
      BY <1>3, <1>4, <2>1, Zenon
  <1>7. ASSUME NEW i \in 1..Len(behind \o reading)
        PROVE  (behind \o reading)[i] = h + i
    <2>1. CASE i \in 1..Len(q)
      BY <2>1, <1>3, <1>5, <1>6
    <2>2. CASE i - Len(q) \in 1..Len(f)
      BY <2>2, <1>1, <1>4, <1>5, <1>6
    <2>3. QED
      BY <1>5, <1>6, <1>7, <2>1, <2>2
  <1>8. QED
    BY <1>7 DEF behind, reading, q, f, h

-----------------------------------------------------------------------------
LEMMA InvariantHolds == Spec => []IInv
  BY InitInvariant, StepInvariant, PTL DEF Spec

\* Every variable of the connections keeps its type: the permits of a client
\* never exceed the limit nor fall below zero, and what is left to take this
\* tick never does either (event_loop.rs:126-193, packet_io.rs:148-177).
THEOREM TypeCorrect == Spec => []TypeOK
  BY InvariantHolds, PTL DEF IInv

\* For every client that is online the permits and the costs of its packets on
\* their way make up incoming_byte_limit, whatever the packets cost and however
\* its tasks and the game thread interleave (packet_io.rs:171-177, 262-269).
THEOREM PermitsAreConserved == Spec => []PermitsConserved
  BY InvariantHolds, PTL DEF IInv

\* The systems get the frames of every client in the order it sent them, none
\* twice and none left out (packet_io.rs:148-182, event_loop.rs:121-171).
THEOREM FramesHandledInOrder == Spec => []HandledInOrder
  BY LineInOrder, InvariantHolds, PTL

\* What was queued as a tick began is handled in it, however the reader task
\* queues more between the passes and whoever is removed or closes meanwhile: the
\* packets counted in check_again are there when they are taken, and a closed
\* connection is given up after them (event_loop.rs:116-193).
THEOREM TickHandlesQueued == Spec => []QueuedHandledInTick
  BY NothingLeftDue, InvariantHolds, PTL

\* A tick handles at most twice what incoming_byte_limit holds of any client,
\* however fast the client sends (event_loop.rs:128-131, 161-163).
THEOREM TicksAreBounded == Spec => []TickBounded
  BY InvariantHolds, PTL DEF IInv

=============================================================================
