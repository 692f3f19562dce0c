------------------------- MODULE ClientHandshakesProofs -------------------------
(***************************************************************************)
(* Theorems about ClientHandshakes, for any positions, any width of the    *)
(* counters and any number of packets under way: its types, that teleports *)
(* are confirmed in order, that the server's position prevails and that    *)
(* the two sides come to agree on it, that a client that answers stays     *)
(* connected, and that every action is acknowledged in order.              *)
(***************************************************************************)
EXTENDS ClientHandshakes, SequenceFunctionsProofs

(***************************************************************************)
(* The inductive invariant.  After its removal a client does nothing more, *)
(* so most of it is about a connected one.                                 *)
(*                                                                         *)
(* UnconfirmedInOrder says that teleports are confirmed in order.  Room is *)
(* what keeps the count of the pending ones from wrapping: while there is  *)
(* something to teleport, fewer than Width - 1 are pending.                *)
(***************************************************************************)
InPhase == phase # "loop" => batch = <<>>

Room == Moved \/ pushed => Answering

\* There is one keepalive under way, or its answer, exactly while the server
\* waits for it; an answer that was queued when the tick began is handled
\* before send_keepalive looks.
Asked == Selected(Line, Keepalives) \o Selected(toClient, Keepalives)

KeepalivesMatch ==
    /\ gotKeepalive => Len(Asked) = 0
    /\ ~gotKeepalive => Len(Asked) = 1 /\ Asked[1].id = keepaliveId

AnswersWait ==
    answered /\ ~gotKeepalive /\ (phase # "post" \/ "send_keepalive" \in todo) =>
        Selected(batch, Keepalives) # <<>>

\* Before the first teleport the server has no position synced and the client
\* is nowhere; the first teleport is to a position, and until it arrives the
\* client only answers keepalives.
Spawning ==
    LET coming == Selected(toClient, Teleports)
    IN /\ syncedPos = Unknown => clientPos = Unknown /\ coming = <<>>
       /\ clientPos = Unknown =>
              /\ \A i \in 1..Len(Line) : Line[i] \in Keepalives
              /\ coming = <<>> => syncedPos = Unknown
              /\ coming # <<>> => Head(coming) \in Positionings

\* The client repeats its position after each confirmation, so that the last
\* of its confirmations and moves is a move to where it is.  When neither these
\* nor teleports are under way, the server goes by that position.
Steps == Selected(Line, Confirmations \cup Moves)

StepsEndHere ==
    Steps # <<>> => Steps[Len(Steps)] = [type |-> "move", pos |-> clientPos]

SyncedHere ==
    ~MoveEarly /\ Steps = <<>> /\ Selected(toClient, Teleports) = <<>> /\ clientPos # Unknown =>
        syncedPos = clientPos

\* The position is synced by teleport and stays so until the user's systems run.
Synced ==
    ~MoveEarly =>
        /\ phase = "loop" => position = syncedPos \/ syncedPos = Unknown
        /\ phase = "post" /\ "teleport" \notin todo => position = syncedPos

Handshakes ==
    /\ UnconfirmedInOrder
    /\ Room
    /\ KeepalivesMatch
    /\ AnswersWait
    /\ ServerPrevails
    /\ Spawning
    /\ StepsEndHere
    /\ SyncedHere
    /\ Synced

IInv ==
    /\ TypeOK
    /\ InPhase
    /\ PoliteStays
    /\ ActionsAccounted
    /\ Connected => Handshakes

-----------------------------------------------------------------------------
(***************************************************************************)
(* Sequences that lose their head or get one more element, element by      *)
(* element.                                                                *)
(***************************************************************************)
Drops(q, r, x) ==
    /\ Len(q) = Len(r) + 1
    /\ q[1] = x
    /\ \A i \in 1..Len(r) : q[i + 1] = r[i]

Adds(q, r, x) ==
    /\ Len(r) = Len(q) + 1
    /\ r[Len(q) + 1] = x
    /\ \A i \in 1..Len(q) : r[i] = q[i]

LEMMA DropsHead ==
    ASSUME NEW E, NEW r \in Seq(E), NEW x \in E
    PROVE  Drops(<<x>> \o r, r, x)
  <1> DEFINE one == <<x>>
  <1>1. one \in Seq(E) /\ Len(one) = 1 /\ one[1] = x
    OBVIOUS
  <1> HIDE DEF one
  <1>2. /\ Len(one \o r) = Len(one) + Len(r)
        /\ \A i \in 1..(Len(one) + Len(r)) :
               (one \o r)[i] = IF i <= Len(one) THEN one[i] ELSE r[i - Len(one)]
    BY <1>1, ConcatProperties
  <1>3. Len(r) \in Nat
    BY LenProperties
  <1>4. Drops(one \o r, r, x)
    <2>1. Len(one \o r) = Len(r) + 1 /\ (one \o r)[1] = x
      BY <1>1, <1>2, <1>3
    <2>2. ASSUME NEW i \in 1..Len(r) PROVE (one \o r)[i + 1] = r[i]
      BY <1>1, <1>2, <1>3
    <2>3. QED
      BY <2>1, <2>2 DEF Drops
  <1>5. QED
    BY <1>4 DEF one

LEMMA AddsLast ==
    ASSUME NEW E, NEW q \in Seq(E), NEW x \in E
    PROVE  Adds(q, Append(q, x), x)
  BY AppendProperties, LenProperties DEF Adds

\* Selecting from a sequence that loses its head or gets one more element.
LEMMA SelectedDrops ==
    ASSUME NEW E, NEW s \in Seq(E), s # <<>>, NEW set
    PROVE  /\ Head(s) \in set => Drops(Selected(s, set), Selected(Tail(s), set), Head(s))
           /\ Head(s) \notin set => Selected(Tail(s), set) = Selected(s, set)
  <1>1. Tail(s) \in Seq(E) /\ Head(s) \in E
    BY HeadTailProperties
  <1> DEFINE r == Selected(Tail(s), set)
  <1>2. r \in Seq(E)
    BY <1>1, SelectedType
  <1>3. Selected(s, set) = IF Head(s) \in set THEN <<Head(s)>> \o r ELSE r
    BY SelectedTail
  <1> HIDE DEF r
  <1>4. Drops(<<Head(s)>> \o r, r, Head(s))
    BY <1>1, <1>2, DropsHead
  <1>5. Head(s) \in set => Drops(Selected(s, set), r, Head(s))
    BY <1>3, <1>4, Zenon
  <1>6. Head(s) \notin set => r = Selected(s, set)
    BY <1>3
  <1>7. QED
    BY <1>5, <1>6 DEF r

LEMMA SelectedAdds ==
    ASSUME NEW E, NEW s \in Seq(E), NEW x \in E, NEW set
    PROVE  /\ x \in set => Adds(Selected(s, set), Selected(Append(s, x), set), x)
           /\ x \notin set => Selected(Append(s, x), set) = Selected(s, set)
  <1> DEFINE q == Selected(s, set)
  <1>1. q \in Seq(E)
    BY SelectedType
  <1>2. Selected(Append(s, x), set) = IF x \in set THEN Append(q, x) ELSE q
    BY SelectedAppend
  <1> HIDE DEF q
  <1>3. Adds(q, Append(q, x), x)
    BY <1>1, AddsLast
  <1>4. x \in set => Adds(q, Selected(Append(s, x), set), x)
    BY <1>2, <1>3, Zenon
  <1>5. x \notin set => Selected(Append(s, x), set) = q
    BY <1>2
  <1>6. QED
    BY <1>4, <1>5 DEF q

\* What has nothing in a set has nothing in a smaller one.
LEMMA SelectedFewer ==
    ASSUME NEW E, NEW s \in Seq(E), NEW A, NEW B, B \subseteq A, Len(Selected(s, A)) = 0
    PROVE  Len(Selected(s, B)) = 0
  <1> DEFINE n == Len(s)
             P == Selections(s, A)
             Q == Selections(s, B)
             V == {k \in 0..n : Len(P[k]) = 0 => Len(Q[k]) = 0}
  <1>1. n \in Nat
    BY LenProperties
  <1>2. /\ P[0] = <<>> /\ Q[0] = <<>>
        /\ \A k \in 1..n : P[k] = IF s[k] \in A THEN Append(P[k - 1], s[k]) ELSE P[k - 1]
        /\ \A k \in 1..n : Q[k] = IF s[k] \in B THEN Append(Q[k - 1], s[k]) ELSE Q[k - 1]
    BY SelectionsSteps
  <1>3. P \in [0..n -> Seq(E)] /\ Q \in [0..n -> Seq(E)]
    BY SelectionsType
  <1>4. \A k \in 1..n : s[k] \in E
    BY ElementOfSeq
  <1> HIDE DEF P, Q, n
  <1>5. 0 \in V
    BY <1>1, <1>2
  <1>6. ASSUME NEW k \in 0..(n - 1), k \in V PROVE k + 1 \in V
    <2>1. k + 1 \in 1..n /\ k \in 0..n /\ (k + 1) - 1 = k
      BY <1>1
    <2>2. P[k] \in Seq(E) /\ Q[k] \in Seq(E) /\ s[k + 1] \in E
      BY <1>3, <1>4, <2>1
    <2>3. Len(Append(P[k], s[k + 1])) # 0
      BY <2>2, AppendProperties, LenProperties
    <2>4. P[k + 1] = IF s[k + 1] \in A THEN Append(P[k], s[k + 1]) ELSE P[k]
      BY <1>2, <2>1
    <2>5. Q[k + 1] = IF s[k + 1] \in B THEN Append(Q[k], s[k + 1]) ELSE Q[k]
      BY <1>2, <2>1
    <2>6. Len(P[k + 1]) = 0 => s[k + 1] \notin A /\ P[k + 1] = P[k]
      BY <2>3, <2>4
    <2>7. s[k + 1] \notin A => Q[k + 1] = Q[k]
      BY <2>5
    <2>8. QED
      BY <1>1, <1>6, <2>1, <2>6, <2>7
  <1>7. 0..n \subseteq V
    BY <1>1, <1>5, <1>6, InductionOverSet
  <1>8. n \in V
    BY <1>1, <1>7
  <1>9. Selected(s, A) = P[n] /\ Selected(s, B) = Q[n]
    BY DEF Selected, P, Q, n
  <1>10. QED
    BY <1>8, <1>9

-----------------------------------------------------------------------------
(***************************************************************************)
(* The kinds of packets are told apart by their type.                      *)
(***************************************************************************)
LEMMA KindsToServer ==
    ASSUME NEW p \in ToServer
    PROVE  /\ p.type = "confirm" <=> p \in Confirmations
           /\ p.type = "move" <=> p \in Moves
           /\ p.type = "turn" <=> p \in Turns
           /\ p.type = "keepalive" <=> p \in Keepalives
           /\ p.type = "action" <=> p \in Actions
  BY DEF ToServer, Confirmations, Moves, Turns, Keepalives, Actions

LEMMA KindsToClient ==
    ASSUME NEW p \in ToClient
    PROVE  /\ p.type = "teleport" <=> p \in Teleports
           /\ p.type = "keepalive" <=> p \in Keepalives
           /\ p.type = "ack" <=> p \in Acks
           /\ p \in Positionings <=> p \in Teleports /\ p.pos \in Places
  BY DEF ToClient, Teleports, Keepalives, Acks, Positionings

LEMMA KeepalivesBothWays == Keepalives \subseteq ToServer /\ Keepalives \subseteq ToClient
  BY DEF ToServer, ToClient

-----------------------------------------------------------------------------
(***************************************************************************)
(* What each kind of step does to the packets under way.                   *)
(***************************************************************************)
Coming == Selected(toClient, Teleports)
Placed == Selected(toClient, Positionings)
Acking == Selected(toClient, Acks)
Acted == Selected(Line, Actions)

ConcatHeadTail(q, r) ==
    q \o r # <<>> /\ Head(q \o r) = Head(q) /\ Tail(q \o r) = Tail(q) \o r

LEMMA HeadTailOfConcat ==
    ASSUME NEW E, NEW q \in Seq(E), NEW r \in Seq(E), q # <<>>
    PROVE  ConcatHeadTail(q, r)
  <1>1. /\ Head(q) = q[1] /\ Tail(q) \in Seq(E) /\ Len(q) \in Nat \ {0}
        /\ Len(Tail(q)) = Len(q) - 1
        /\ \A i \in 1..Len(Tail(q)) : Tail(q)[i] = q[i + 1]
    BY HeadTailProperties, EmptySeq, LenProperties
  <1>2. /\ q \o r \in Seq(E)
        /\ Len(q \o r) = Len(q) + Len(r)
        /\ \A i \in 1..(Len(q) + Len(r)) :
               (q \o r)[i] = IF i <= Len(q) THEN q[i] ELSE r[i - Len(q)]
    BY ConcatProperties
  <1>3. Len(r) \in Nat
    BY LenProperties
  <1>4. q \o r # <<>>
    BY <1>1, <1>2, <1>3, EmptySeq
  <1>5. /\ Head(q \o r) = (q \o r)[1] /\ Tail(q \o r) \in Seq(E)
        /\ Len(Tail(q \o r)) = Len(q \o r) - 1
        /\ \A i \in 1..Len(Tail(q \o r)) : Tail(q \o r)[i] = (q \o r)[i + 1]
    BY <1>2, <1>4, HeadTailProperties
  <1>6. /\ Tail(q) \o r \in Seq(E)
        /\ Len(Tail(q) \o r) = Len(Tail(q)) + Len(r)
        /\ \A i \in 1..(Len(Tail(q)) + Len(r)) :
               (Tail(q) \o r)[i] =
                   IF i <= Len(Tail(q)) THEN Tail(q)[i] ELSE r[i - Len(Tail(q))]
    BY <1>1, ConcatProperties
  <1>7. Head(q \o r) = Head(q)
    BY <1>1, <1>2, <1>3, <1>5
  <1>8. Len(Tail(q \o r)) = Len(Tail(q) \o r)
    BY <1>1, <1>2, <1>3, <1>5, <1>6
  <1>9. ASSUME NEW i \in 1..Len(Tail(q \o r)) PROVE Tail(q \o r)[i] = (Tail(q) \o r)[i]
    <2>1. i \in 1..(Len(q) - 1 + Len(r)) /\ i + 1 \in 1..(Len(q) + Len(r))
      BY <1>1, <1>2, <1>3, <1>5
    <2>2. Tail(q \o r)[i] = IF i + 1 <= Len(q) THEN q[i + 1] ELSE r[i + 1 - Len(q)]
      BY <1>2, <1>5, <1>9, <2>1
    <2>3. (Tail(q) \o r)[i] = IF i <= Len(q) - 1 THEN q[i + 1] ELSE r[i - (Len(q) - 1)]
      BY <1>1, <1>3, <1>6, <2>1
    <2>4. QED
      BY <1>1, <1>3, <2>1, <2>2, <2>3
  <1>10. Tail(q \o r) = Tail(q) \o r
    BY <1>5, <1>6, <1>8, <1>9, SeqEqual
  <1>11. QED
    BY <1>4, <1>7, <1>10 DEF ConcatHeadTail

LEMMA LineType ==
    ASSUME TypeOK
    PROVE  /\ Line \in Seq(ToServer)
           /\ batch \in Seq(ToServer) /\ toServer \in Seq(ToServer)
           /\ toClient \in Seq(ToClient)
  BY ConcatProperties DEF TypeOK, Line

\* Handling a packet takes it from the head of the line.
LEMMA LineHandled ==
    ASSUME TypeOK, NEW type, Handles(type)
    PROVE  /\ Line # <<>> /\ Head(Line) = Head(batch) /\ Line' = Tail(Line)
           /\ Head(batch) \in ToServer /\ Head(batch).type = type
           /\ toClient' = toClient
  <1>1. batch # <<>> /\ batch' = Tail(batch) /\ toServer' = toServer /\ toClient' = toClient
        /\ Head(batch).type = type
    BY DEF Handles, network
  <1>2. ConcatHeadTail(batch, toServer)
    BY <1>1, LineType, HeadTailOfConcat
  <1>3. Head(batch) \in ToServer
    BY <1>1, LineType, HeadTailProperties
  <1>4. QED
    BY <1>1, <1>2, <1>3 DEF ConcatHeadTail, Line

\* A packet that the client sends comes last.
LEMMA LineSent ==
    ASSUME TypeOK, NEW p \in ToServer, toServer' = Append(toServer, p), batch' = batch
    PROVE  Line' = Append(Line, p)
  <1>1. AppendsLast(batch, toServer, p)
    BY LineType, AppendConcat
  <1>2. QED
    BY <1>1 DEF AppendsLast, Line

\* Handling a packet takes it from what is selected, if it belongs there.
LEMMA SelectedHandled ==
    ASSUME TypeOK, NEW type, Handles(type), NEW set
    PROVE  /\ Head(batch) \in set =>
                  Drops(Selected(Line, set), Selected(Line', set), Head(batch))
           /\ Head(batch) \notin set => Selected(Line', set) = Selected(Line, set)
  BY LineType, LineHandled, SelectedDrops

LEMMA SelectedSent ==
    ASSUME TypeOK, NEW p \in ToServer, toServer' = Append(toServer, p), batch' = batch, NEW set
    PROVE  /\ p \in set => Adds(Selected(Line, set), Selected(Line', set), p)
           /\ p \notin set => Selected(Line', set) = Selected(Line, set)
  <1>1. Line' = Append(Line, p)
    BY LineSent
  <1>2. Line \in Seq(ToServer)
    BY LineType
  <1>3. /\ p \in set => Adds(Selected(Line, set), Selected(Append(Line, p), set), p)
        /\ p \notin set => Selected(Append(Line, p), set) = Selected(Line, set)
    BY <1>2, SelectedAdds
  <1>4. QED
    BY <1>1, <1>3

\* The same for what comes to the client.
LEMMA SelectedReceived ==
    ASSUME TypeOK, toClient # <<>>, toClient' = Tail(toClient), NEW set
    PROVE  /\ Head(toClient) \in ToClient
           /\ Head(toClient) \in set =>
                  Drops(Selected(toClient, set), Selected(toClient', set), Head(toClient))
           /\ Head(toClient) \notin set => Selected(toClient', set) = Selected(toClient, set)
  BY LineType, SelectedDrops, HeadTailProperties

LEMMA SelectedWritten ==
    ASSUME TypeOK, NEW p \in ToClient, toClient' = Append(toClient, p), NEW set
    PROVE  /\ p \in set => Adds(Selected(toClient, set), Selected(toClient', set), p)
           /\ p \notin set => Selected(toClient', set) = Selected(toClient, set)
  BY LineType, SelectedAdds

\* The end of a tick makes a batch of what is queued.
LEMMA LineBatched ==
    ASSUME TypeOK, batch = <<>>, batch' = toServer, toServer' = <<>>
    PROVE  Line' = Line
  <1>1. batch \o toServer = toServer
    BY LineType
  <1>2. toServer \o <<>> = toServer
    BY LineType
  <1>3. QED
    BY <1>1, <1>2 DEF Line


\* The same for two sequences one after the other.
LEMMA DropsConcat ==
    ASSUME NEW E, NEW q \in Seq(E), NEW q1 \in Seq(E), NEW r \in Seq(E), NEW x,
           Drops(q, q1, x)
    PROVE  Drops(q \o r, q1 \o r, x)
  <1>1. /\ Len(q \o r) = Len(q) + Len(r)
        /\ \A i \in 1..(Len(q) + Len(r)) :
               (q \o r)[i] = IF i <= Len(q) THEN q[i] ELSE r[i - Len(q)]
    BY ConcatProperties
  <1>2. /\ Len(q1 \o r) = Len(q1) + Len(r)
        /\ \A i \in 1..(Len(q1) + Len(r)) :
               (q1 \o r)[i] = IF i <= Len(q1) THEN q1[i] ELSE r[i - Len(q1)]
    BY ConcatProperties
  <1>3. Len(q) \in Nat /\ Len(q1) \in Nat /\ Len(r) \in Nat
    BY LenProperties
  <1>4. /\ Len(q) = Len(q1) + 1 /\ q[1] = x
        /\ \A i \in 1..Len(q1) : q[i + 1] = q1[i]
    BY DEF Drops
  <1>5. Len(q \o r) = Len(q1 \o r) + 1 /\ (q \o r)[1] = x
    BY <1>1, <1>2, <1>3, <1>4
  <1>6. ASSUME NEW i \in 1..Len(q1 \o r) PROVE (q \o r)[i + 1] = (q1 \o r)[i]
    <2>1. i \in 1..(Len(q1) + Len(r)) /\ i + 1 \in 1..(Len(q) + Len(r))
      BY <1>2, <1>3, <1>4
    <2>2. (q \o r)[i + 1] = IF i + 1 <= Len(q) THEN q[i + 1] ELSE r[i + 1 - Len(q)]
      BY <1>1, <2>1
    <2>3. (q1 \o r)[i] = IF i <= Len(q1) THEN q1[i] ELSE r[i - Len(q1)]
      BY <1>2, <2>1
    <2>4. QED
      BY <1>3, <1>4, <2>1, <2>2, <2>3
  <1>7. QED
    BY <1>5, <1>6 DEF Drops

LEMMA AddsConcat ==
    ASSUME NEW E, NEW q \in Seq(E), NEW r \in Seq(E), NEW r1 \in Seq(E), NEW x,
           Adds(r, r1, x)
    PROVE  Adds(q \o r, q \o r1, x)
  <1>1. /\ Len(q \o r) = Len(q) + Len(r)
        /\ \A i \in 1..(Len(q) + Len(r)) :
               (q \o r)[i] = IF i <= Len(q) THEN q[i] ELSE r[i - Len(q)]
    BY ConcatProperties
  <1>2. /\ Len(q \o r1) = Len(q) + Len(r1)
        /\ \A i \in 1..(Len(q) + Len(r1)) :
               (q \o r1)[i] = IF i <= Len(q) THEN q[i] ELSE r1[i - Len(q)]
    BY ConcatProperties
  <1>3. Len(q) \in Nat /\ Len(r) \in Nat /\ Len(r1) \in Nat
    BY LenProperties
  <1>4. /\ Len(r1) = Len(r) + 1 /\ r1[Len(r) + 1] = x
        /\ \A i \in 1..Len(r) : r1[i] = r[i]
    BY DEF Adds
  <1>5. Len(q \o r1) = Len(q \o r) + 1
    BY <1>1, <1>2, <1>3, <1>4
  <1>6. (q \o r1)[Len(q \o r) + 1] = x
    <2>1. Len(q \o r) + 1 = Len(q) + (Len(r) + 1)
      BY <1>1, <1>3
    <2>2. /\ Len(q) + (Len(r) + 1) \in 1..(Len(q) + Len(r1))
          /\ ~(Len(q) + (Len(r) + 1) <= Len(q))
          /\ Len(q) + (Len(r) + 1) - Len(q) = Len(r) + 1
      BY <1>3, <1>4
    <2>3. QED
      BY <1>2, <1>4, <2>1, <2>2
  <1>7. ASSUME NEW i \in 1..Len(q \o r) PROVE (q \o r1)[i] = (q \o r)[i]
    <2>1. i \in 1..(Len(q) + Len(r)) /\ i \in 1..(Len(q) + Len(r1))
      BY <1>1, <1>3, <1>4
    <2>2. (q \o r)[i] = IF i <= Len(q) THEN q[i] ELSE r[i - Len(q)]
      BY <1>1, <2>1
    <2>3. (q \o r1)[i] = IF i <= Len(q) THEN q[i] ELSE r1[i - Len(q)]
      BY <1>2, <2>1
    <2>4. QED
      BY <1>3, <1>4, <2>1, <2>2, <2>3
  <1>8. QED
    BY <1>5, <1>6, <1>7 DEF Adds

\* An answer takes the place of what it answers.
SameIds(u, v) == Len(v) = Len(u) /\ \A i \in 1..Len(u) : v[i].id = u[i].id

LEMMA AnswerTakesPlace ==
    ASSUME NEW E, NEW q \in Seq(E), NEW q1 \in Seq(E), NEW r \in Seq(E), NEW r1 \in Seq(E),
           NEW x, NEW y, Adds(q, q1, y), Drops(r, r1, x), x.id = y.id
    PROVE  SameIds(q \o r, q1 \o r1)
  <1>1. /\ Len(q \o r) = Len(q) + Len(r)
        /\ \A i \in 1..(Len(q) + Len(r)) :
               (q \o r)[i] = IF i <= Len(q) THEN q[i] ELSE r[i - Len(q)]
    BY ConcatProperties
  <1>2. /\ Len(q1 \o r1) = Len(q1) + Len(r1)
        /\ \A i \in 1..(Len(q1) + Len(r1)) :
               (q1 \o r1)[i] = IF i <= Len(q1) THEN q1[i] ELSE r1[i - Len(q1)]
    BY ConcatProperties
  <1>3. Len(q) \in Nat /\ Len(q1) \in Nat /\ Len(r) \in Nat /\ Len(r1) \in Nat
    BY LenProperties
  <1>4. /\ Len(q1) = Len(q) + 1 /\ q1[Len(q) + 1] = y
        /\ \A i \in 1..Len(q) : q1[i] = q[i]
    BY DEF Adds
  <1>5. /\ Len(r) = Len(r1) + 1 /\ r[1] = x
        /\ \A i \in 1..Len(r1) : r[i + 1] = r1[i]
    BY DEF Drops
  <1>6. Len(q1 \o r1) = Len(q \o r)
    BY <1>1, <1>2, <1>3, <1>4, <1>5
  <1>7. ASSUME NEW i \in 1..Len(q \o r) PROVE (q1 \o r1)[i].id = (q \o r)[i].id
    <2>1. i \in 1..(Len(q) + Len(r)) /\ i \in 1..(Len(q1) + Len(r1)) /\ i \in Nat
      BY <1>1, <1>3, <1>4, <1>5
    <2>2. (q \o r)[i] = IF i <= Len(q) THEN q[i] ELSE r[i - Len(q)]
      BY <1>1, <2>1
    <2>3. (q1 \o r1)[i] = IF i <= Len(q1) THEN q1[i] ELSE r1[i - Len(q1)]
      BY <1>2, <2>1
    <2>4. CASE i <= Len(q)
      <3>1. i \in 1..Len(q) /\ i <= Len(q1)
        BY <1>3, <1>4, <2>1, <2>4
      <3>2. QED
        BY <1>4, <2>2, <2>3, <2>4, <3>1
    <2>5. CASE i = Len(q) + 1
      <3>1. ~(i <= Len(q)) /\ i <= Len(q1) /\ i - Len(q) = 1
        BY <1>3, <1>4, <2>5
      <3>2. (q \o r)[i] = x /\ (q1 \o r1)[i] = y
        BY <1>4, <1>5, <2>2, <2>3, <2>5, <3>1
      <3>3. QED
        BY <3>2
    <2>6. CASE i > Len(q) + 1
      <3>1. /\ ~(i <= Len(q)) /\ ~(i <= Len(q1))
            /\ i - Len(q1) \in 1..Len(r1) /\ (i - Len(q1)) + 1 = i - Len(q)
        BY <1>3, <1>4, <1>5, <2>1, <2>6
      <3>2. r[(i - Len(q1)) + 1] = r1[i - Len(q1)]
        BY <1>5, <3>1
      <3>3. QED
        BY <2>2, <2>3, <3>1, <3>2
    <2>7. i <= Len(q) \/ i = Len(q) + 1 \/ i > Len(q) + 1
      BY <1>3, <2>1
    <2>8. QED
      BY <2>4, <2>5, <2>6, <2>7
  <1>8. QED
    BY <1>6, <1>7 DEF SameIds


-----------------------------------------------------------------------------
(***************************************************************************)
(* The effect of each action on what the invariant looks at.               *)
(***************************************************************************)
Packets == ToServer \cup ToClient

LEMMA SequenceOfMore ==
    ASSUME NEW A, NEW B, A \subseteq B, NEW s \in Seq(A)
    PROVE  s \in Seq(B)
  OBVIOUS

LEMMA SelectionTypes ==
    ASSUME TypeOK
    PROVE  /\ \A set : Selected(Line, set) \in Seq(Packets)
           /\ \A set : Selected(toClient, set) \in Seq(Packets)
  <1>1. Line \in Seq(Packets) /\ toClient \in Seq(Packets)
    BY LineType, SequenceOfMore DEF Packets
  <1>2. QED
    BY <1>1, SelectedType

LEMMA SelectionTypesNext ==
    ASSUME TypeOK'
    PROVE  /\ \A set : Selected(Line', set) \in Seq(Packets)
           /\ \A set : Selected(toClient', set) \in Seq(Packets)
  <1>1. Line' \in Seq(ToServer) /\ toClient' \in Seq(ToClient)
    BY ConcatProperties DEF TypeOK, Line
  <1>2. Line' \in Seq(Packets) /\ toClient' \in Seq(Packets)
    BY <1>1, SequenceOfMore DEF Packets
  <1>3. QED
    BY <1>2, SelectedType

LEMMA NothingMoves ==
    ASSUME Line' = Line, toClient' = toClient
    PROVE  /\ Unconfirmed' = Unconfirmed /\ Asked' = Asked /\ Steps' = Steps
           /\ Coming' = Coming /\ Placed' = Placed /\ Acking' = Acking /\ Acted' = Acted
  BY DEF Unconfirmed, Asked, Steps, Coming, Placed, Acking, Acted

LEMMA NothingComes ==
    ASSUME toClient' = toClient
    PROVE  Coming' = Coming /\ Placed' = Placed /\ Acking' = Acking
  BY DEF Coming, Placed, Acking

LEMMA NothingGoes ==
    ASSUME Line' = Line
    PROVE  Steps' = Steps /\ Acted' = Acted
  BY DEF Steps, Acted

LEMMA HandledConfirmation ==
    ASSUME TypeOK, TypeOK', Handles("confirm")
    PROVE  /\ Drops(Unconfirmed, Unconfirmed', Head(batch))
           /\ Drops(Steps, Steps', Head(batch))
           /\ Asked' = Asked /\ Acted' = Acted
           /\ Head(batch) \in Confirmations
  <1>1. /\ Head(batch) \in ToServer /\ Head(batch).type = "confirm" /\ toClient' = toClient
    BY LineHandled
  <1>2. /\ Head(batch) \in Confirmations /\ Head(batch) \notin Keepalives
        /\ Head(batch) \notin Actions
    BY <1>1, KindsToServer
  <1> DEFINE S == Selected(Line, Confirmations)
             S1 == Selected(Line', Confirmations)
             T == Selected(toClient, Teleports)
  <1>3. S \in Seq(Packets) /\ T \in Seq(Packets)
    BY SelectionTypes
  <1>4. S1 \in Seq(Packets)
    BY SelectionTypesNext
  <1>5. Drops(S, S1, Head(batch))
    BY <1>2, SelectedHandled
  <1> HIDE DEF S, S1, T
  <1>6. Drops(S \o T, S1 \o T, Head(batch))
    BY <1>3, <1>4, <1>5, DropsConcat
  <1>7. Unconfirmed = S \o T /\ Unconfirmed' = S1 \o T
    BY <1>1 DEF Unconfirmed, S, S1, T
  <1>8. Drops(Steps, Steps', Head(batch))
    BY <1>2, SelectedHandled DEF Steps
  <1>9. Asked' = Asked /\ Acted' = Acted
    BY <1>1, <1>2, SelectedHandled DEF Asked, Acted
  <1>10. QED
    BY <1>2, <1>6, <1>7, <1>8, <1>9

LEMMA HandledMove ==
    ASSUME TypeOK, Handles("move")
    PROVE  /\ Drops(Steps, Steps', Head(batch))
           /\ Unconfirmed' = Unconfirmed /\ Asked' = Asked /\ Acted' = Acted
           /\ Head(batch) \in Moves
  <1>1. /\ Head(batch) \in ToServer /\ Head(batch).type = "move" /\ toClient' = toClient
    BY LineHandled
  <1>2. /\ Head(batch) \in Moves /\ Head(batch) \notin Keepalives
        /\ Head(batch) \notin Actions /\ Head(batch) \notin Confirmations
    BY <1>1, KindsToServer
  <1>3. Drops(Steps, Steps', Head(batch))
    BY <1>2, SelectedHandled DEF Steps
  <1>4. Unconfirmed' = Unconfirmed /\ Asked' = Asked /\ Acted' = Acted
    BY <1>1, <1>2, SelectedHandled DEF Unconfirmed, Asked, Acted
  <1>5. QED
    BY <1>2, <1>3, <1>4

LEMMA HandledTurn ==
    ASSUME TypeOK, Handles("turn")
    PROVE  /\ Unconfirmed' = Unconfirmed /\ Asked' = Asked /\ Steps' = Steps /\ Acted' = Acted
           /\ Head(batch) \notin Keepalives
  <1>1. /\ Head(batch) \in ToServer /\ Head(batch).type = "turn" /\ toClient' = toClient
    BY LineHandled
  <1>2. /\ Head(batch) \notin Moves /\ Head(batch) \notin Keepalives
        /\ Head(batch) \notin Actions /\ Head(batch) \notin Confirmations
    BY <1>1, KindsToServer
  <1>3. QED
    BY <1>1, <1>2, SelectedHandled DEF Unconfirmed, Asked, Steps, Acted

LEMMA HandledKeepalive ==
    ASSUME TypeOK, TypeOK', Handles("keepalive")
    PROVE  /\ Drops(Asked, Asked', Head(batch))
           /\ Unconfirmed' = Unconfirmed /\ Steps' = Steps /\ Acted' = Acted
           /\ Head(batch) \in Keepalives
  <1>1. /\ Head(batch) \in ToServer /\ Head(batch).type = "keepalive" /\ toClient' = toClient
    BY LineHandled
  <1>2. /\ Head(batch) \in Keepalives /\ Head(batch) \notin Moves
        /\ Head(batch) \notin Actions /\ Head(batch) \notin Confirmations
    BY <1>1, KindsToServer
  <1> DEFINE S == Selected(Line, Keepalives)
             S1 == Selected(Line', Keepalives)
             T == Selected(toClient, Keepalives)
  <1>3. S \in Seq(Packets) /\ T \in Seq(Packets)
    BY SelectionTypes
  <1>4. S1 \in Seq(Packets)
    BY SelectionTypesNext
  <1>5. Drops(S, S1, Head(batch))
    BY <1>2, SelectedHandled
  <1> HIDE DEF S, S1, T
  <1>6. Drops(S \o T, S1 \o T, Head(batch))
    BY <1>3, <1>4, <1>5, DropsConcat
  <1>7. Asked = S \o T /\ Asked' = S1 \o T
    BY <1>1 DEF Asked, S, S1, T
  <1>8. Unconfirmed' = Unconfirmed /\ Steps' = Steps /\ Acted' = Acted
    BY <1>1, <1>2, SelectedHandled DEF Unconfirmed, Steps, Acted
  <1>9. QED
    BY <1>2, <1>6, <1>7, <1>8

LEMMA HandledAction ==
    ASSUME TypeOK, Handles("action")
    PROVE  /\ Drops(Acted, Acted', Head(batch))
           /\ Unconfirmed' = Unconfirmed /\ Asked' = Asked /\ Steps' = Steps
           /\ Head(batch) \in Actions
  <1>1. /\ Head(batch) \in ToServer /\ Head(batch).type = "action" /\ toClient' = toClient
    BY LineHandled
  <1>2. /\ Head(batch) \in Actions /\ Head(batch) \notin Keepalives
        /\ Head(batch) \notin Moves /\ Head(batch) \notin Confirmations
    BY <1>1, KindsToServer
  <1>3. Drops(Acted, Acted', Head(batch))
    BY <1>2, SelectedHandled DEF Acted
  <1>4. QED
    BY <1>1, <1>2, <1>3, SelectedHandled DEF Unconfirmed, Asked, Steps


\* The client answers a teleport with two packets.
LEMMA LineAnswered ==
    ASSUME TypeOK, NEW p \in ToServer, NEW q \in ToServer,
           toServer' = toServer \o <<p, q>>, batch' = batch
    PROVE  Append(Line, p) \in Seq(ToServer) /\ Line' = Append(Append(Line, p), q)
  <1> DEFINE t == Append(toServer, p)
  <1>1. t \in Seq(ToServer)
    BY LineType, AppendProperties
  <1>2. toServer' = Append(t, q)
    BY LineType
  <1> HIDE DEF t
  <1>3. AppendsLast(batch, t, q)
    BY <1>1, LineType, AppendConcat
  <1>4. batch \o toServer' = Append(batch \o t, q)
    BY <1>2, <1>3 DEF AppendsLast
  <1>5. AppendsLast(batch, toServer, p)
    BY LineType, AppendConcat
  <1>6. batch \o t = Append(Line, p)
    BY <1>5 DEF AppendsLast, Line, t
  <1>7. Append(Line, p) \in Seq(ToServer)
    BY LineType, AppendProperties
  <1>8. QED
    BY <1>4, <1>6, <1>7 DEF Line

LEMMA ReceivedTeleport ==
    ASSUME TypeOK, TypeOK', ReceiveTeleport, clientPos' \in Places
    PROVE  /\ SameIds(Unconfirmed, Unconfirmed')
           /\ Drops(Coming, Coming', Head(toClient))
           /\ Head(toClient) \in Teleports
           /\ Head(toClient) \in Positionings => Drops(Placed, Placed', Head(toClient))
           /\ Head(toClient) \notin Positionings => Placed' = Placed
           /\ Len(Steps') # 0 /\ Steps'[Len(Steps')] = [type |-> "move", pos |-> clientPos']
           /\ Asked' = Asked /\ Acted' = Acted /\ Acking' = Acking
  <1> DEFINE tp == Head(toClient)
             cf == [type |-> "confirm", id |-> tp.id]
             mv == [type |-> "move", pos |-> clientPos']
             L == Append(Line, cf)
  <1>1. /\ toClient # <<>> /\ tp.type = "teleport" /\ toClient' = Tail(toClient)
        /\ toServer' = toServer \o <<cf, mv>> /\ batch' = batch
    BY DEF ReceiveTeleport, tick
  <1>2. tp \in ToClient
    BY <1>1, SelectedReceived
  <1>3. tp \in Teleports /\ tp \notin Keepalives /\ tp \notin Acks
    BY <1>1, <1>2, KindsToClient
  <1>4. cf \in ToServer /\ mv \in ToServer
    BY <1>3 DEF Teleports, ToServer, Confirmations, Moves
  <1>5. /\ cf \in Confirmations /\ cf \notin Keepalives /\ cf \notin Actions
        /\ mv \in Moves /\ mv \notin Confirmations /\ mv \notin Keepalives /\ mv \notin Actions
    BY <1>4, KindsToServer
  <1>6. L \in Seq(ToServer) /\ Line' = Append(L, mv) /\ Line \in Seq(ToServer)
    BY <1>1, <1>4, LineAnswered, LineType
  <1>7. ASSUME NEW set
        PROVE  /\ cf \in set => Adds(Selected(Line, set), Selected(L, set), cf)
               /\ cf \notin set => Selected(L, set) = Selected(Line, set)
               /\ mv \in set => Adds(Selected(L, set), Selected(Line', set), mv)
               /\ mv \notin set => Selected(Line', set) = Selected(L, set)
    <2>1. /\ cf \in set => Adds(Selected(Line, set), Selected(L, set), cf)
          /\ cf \notin set => Selected(L, set) = Selected(Line, set)
      BY <1>4, <1>6, SelectedAdds
    <2> HIDE DEF L, mv, cf
    <2>2. /\ mv \in set => Adds(Selected(L, set), Selected(Append(L, mv), set), mv)
          /\ mv \notin set => Selected(Append(L, mv), set) = Selected(L, set)
      BY <1>4, <1>6, SelectedAdds
    <2>3. QED
      BY <1>6, <2>1, <2>2
  <1>8. ASSUME NEW set
        PROVE  /\ tp \in set => Drops(Selected(toClient, set), Selected(toClient', set), tp)
               /\ tp \notin set => Selected(toClient', set) = Selected(toClient, set)
    BY <1>1, SelectedReceived
  <1>9. tp.id = cf.id
    OBVIOUS
  <1>10. mv = [type |-> "move", pos |-> clientPos']
    OBVIOUS
  <1> HIDE DEF tp, cf, mv, L
  <1>11. SameIds(Unconfirmed, Unconfirmed')
    <2> DEFINE q == Selected(Line, Confirmations)
               q1 == Selected(Line', Confirmations)
               r == Selected(toClient, Teleports)
               r1 == Selected(toClient', Teleports)
    <2>1. Adds(q, q1, cf)
      BY <1>5, <1>7
    <2>2. Drops(r, r1, tp)
      BY <1>3, <1>8
    <2>3. q \in Seq(Packets) /\ r \in Seq(Packets)
      BY SelectionTypes
    <2>4. q1 \in Seq(Packets) /\ r1 \in Seq(Packets)
      BY SelectionTypesNext
    <2> HIDE DEF q, q1, r, r1
    <2>5. SameIds(q \o r, q1 \o r1)
      BY <1>9, <2>1, <2>2, <2>3, <2>4, AnswerTakesPlace
    <2>6. Unconfirmed = q \o r /\ Unconfirmed' = q1 \o r1
      BY DEF Unconfirmed, q, q1, r, r1
    <2>7. QED
      BY <2>5, <2>6
  <1>12. Drops(Coming, Coming', tp)
    BY <1>3, <1>8 DEF Coming
  <1>13. /\ tp \in Positionings => Drops(Placed, Placed', tp)
         /\ tp \notin Positionings => Placed' = Placed
    BY <1>8 DEF Placed
  <1>14. Len(Steps') # 0 /\ Steps'[Len(Steps')] = mv
    <2> DEFINE q == Selected(L, Confirmations \cup Moves)
    <2>1. Adds(q, Steps', mv)
      BY <1>5, <1>7 DEF Steps
    <2>2. Len(q) \in Nat
      BY <1>6, SelectedType, LenProperties
    <2> HIDE DEF q
    <2>3. QED
      BY <2>1, <2>2 DEF Adds
  <1>15. Asked' = Asked /\ Acted' = Acted /\ Acking' = Acking
    BY <1>3, <1>5, <1>7, <1>8 DEF Asked, Acted, Acking
  <1>16. QED
    BY <1>3, <1>10, <1>11, <1>12, <1>13, <1>14, <1>15 DEF tp

LEMMA ReceivedKeepalive ==
    ASSUME TypeOK, TypeOK', ReceiveKeepalive
    PROVE  /\ SameIds(Asked, Asked')
           /\ Unconfirmed' = Unconfirmed /\ Steps' = Steps /\ Acted' = Acted
           /\ Coming' = Coming /\ Placed' = Placed /\ Acking' = Acking
           /\ Head(toClient) \in Keepalives /\ Line' = Append(Line, Head(toClient))
  <1> DEFINE p == Head(toClient)
  <1>1. /\ toClient # <<>> /\ p.type = "keepalive" /\ toClient' = Tail(toClient)
        /\ toServer' = Append(toServer, p) /\ batch' = batch
    BY DEF ReceiveKeepalive, tick
  <1>2. p \in ToClient
    BY <1>1, SelectedReceived
  <1>3. /\ p \in Keepalives /\ p \notin Teleports /\ p \notin Acks /\ p \notin Positionings
        /\ p \in ToServer
    BY <1>1, <1>2, KindsToClient, KeepalivesBothWays
  <1>4. p \notin Confirmations /\ p \notin Moves /\ p \notin Actions
    BY <1>1, <1>3, KindsToServer
  <1>5. ASSUME NEW set
        PROVE  /\ p \in set => Adds(Selected(Line, set), Selected(Line', set), p)
               /\ p \notin set => Selected(Line', set) = Selected(Line, set)
    BY <1>1, <1>3, SelectedSent
  <1>6. ASSUME NEW set
        PROVE  /\ p \in set => Drops(Selected(toClient, set), Selected(toClient', set), p)
               /\ p \notin set => Selected(toClient', set) = Selected(toClient, set)
    BY <1>1, SelectedReceived
  <1>7. Line' = Append(Line, p)
    BY <1>1, <1>3, LineSent
  <1> HIDE DEF p
  <1>8. SameIds(Asked, Asked')
    <2> DEFINE q == Selected(Line, Keepalives)
               q1 == Selected(Line', Keepalives)
               r == Selected(toClient, Keepalives)
               r1 == Selected(toClient', Keepalives)
    <2>1. Adds(q, q1, p)
      BY <1>3, <1>5
    <2>2. Drops(r, r1, p)
      BY <1>3, <1>6
    <2>3. q \in Seq(Packets) /\ r \in Seq(Packets)
      BY SelectionTypes
    <2>4. q1 \in Seq(Packets) /\ r1 \in Seq(Packets)
      BY SelectionTypesNext
    <2> HIDE DEF q, q1, r, r1
    <2>5. SameIds(q \o r, q1 \o r1)
      BY <2>1, <2>2, <2>3, <2>4, AnswerTakesPlace
    <2>6. Asked = q \o r /\ Asked' = q1 \o r1
      BY DEF Asked, q, q1, r, r1
    <2>7. QED
      BY <2>5, <2>6
  <1>9. Unconfirmed' = Unconfirmed /\ Steps' = Steps /\ Acted' = Acted
    BY <1>3, <1>4, <1>5, <1>6 DEF Unconfirmed, Steps, Acted
  <1>10. Coming' = Coming /\ Placed' = Placed /\ Acking' = Acking
    BY <1>3, <1>6 DEF Coming, Placed, Acking
  <1>11. QED
    BY <1>3, <1>7, <1>8, <1>9, <1>10 DEF p

LEMMA ReceivedAck ==
    ASSUME TypeOK, ReceiveAck
    PROVE  /\ Drops(Acking, Acking', Head(toClient)) /\ Head(toClient) \in Acks
           /\ Unconfirmed' = Unconfirmed /\ Asked' = Asked /\ Steps' = Steps /\ Acted' = Acted
           /\ Coming' = Coming /\ Placed' = Placed /\ Line' = Line
  <1> DEFINE p == Head(toClient)
  <1>1. /\ toClient # <<>> /\ p.type = "ack" /\ toClient' = Tail(toClient)
        /\ Line' = Line
    BY DEF ReceiveAck, tick, Line
  <1>2. p \in ToClient
    BY <1>1, SelectedReceived
  <1>3. p \in Acks /\ p \notin Keepalives /\ p \notin Teleports /\ p \notin Positionings
    BY <1>1, <1>2, KindsToClient
  <1>4. ASSUME NEW set
        PROVE  /\ p \in set => Drops(Selected(toClient, set), Selected(toClient', set), p)
               /\ p \notin set => Selected(toClient', set) = Selected(toClient, set)
    BY <1>1, SelectedReceived
  <1> HIDE DEF p
  <1>5. Drops(Acking, Acking', p)
    BY <1>3, <1>4 DEF Acking
  <1>6. /\ Unconfirmed' = Unconfirmed /\ Asked' = Asked /\ Steps' = Steps /\ Acted' = Acted
        /\ Coming' = Coming /\ Placed' = Placed
    BY <1>1, <1>3, <1>4 DEF Unconfirmed, Asked, Steps, Acted, Coming, Placed
  <1>7. QED
    BY <1>1, <1>3, <1>5, <1>6 DEF p


\* The client moves, turns or acts.
LEMMA SentMove ==
    ASSUME TypeOK, NEW p \in Places, ClientMove(p)
    PROVE  /\ Adds(Steps, Steps', [type |-> "move", pos |-> p])
           /\ Unconfirmed' = Unconfirmed /\ Asked' = Asked /\ Acted' = Acted
  <1> DEFINE mv == [type |-> "move", pos |-> p]
  <1>1. mv \in ToServer /\ mv \in Moves
    BY DEF ToServer, Moves
  <1>2. mv \notin Confirmations /\ mv \notin Keepalives /\ mv \notin Actions
    BY <1>1, KindsToServer
  <1>3. toServer' = Append(toServer, mv) /\ batch' = batch /\ toClient' = toClient
    BY DEF ClientMove, ClientSends, tick
  <1> HIDE DEF mv
  <1>4. ASSUME NEW set
        PROVE  /\ mv \in set => Adds(Selected(Line, set), Selected(Line', set), mv)
               /\ mv \notin set => Selected(Line', set) = Selected(Line, set)
    BY <1>1, <1>3, SelectedSent
  <1>5. Adds(Steps, Steps', mv)
    BY <1>1, <1>4 DEF Steps
  <1>6. Unconfirmed' = Unconfirmed /\ Asked' = Asked /\ Acted' = Acted
    BY <1>2, <1>3, <1>4 DEF Unconfirmed, Asked, Acted
  <1>7. QED
    BY <1>5, <1>6 DEF mv

LEMMA SentTurn ==
    ASSUME TypeOK, ClientTurn
    PROVE  Unconfirmed' = Unconfirmed /\ Asked' = Asked /\ Steps' = Steps /\ Acted' = Acted
  <1> DEFINE turn == [type |-> "turn"]
  <1>1. turn \in ToServer /\ turn.type = "turn"
    BY DEF ToServer, Turns
  <1>2. /\ turn \notin Confirmations /\ turn \notin Keepalives /\ turn \notin Actions
        /\ turn \notin Moves
    BY <1>1, KindsToServer
  <1>3. toServer' = Append(toServer, turn) /\ batch' = batch /\ toClient' = toClient
    BY DEF ClientTurn, ClientSends, tick
  <1> HIDE DEF turn
  <1>4. ASSUME NEW set, turn \notin set
        PROVE  Selected(Line', set) = Selected(Line, set)
    BY <1>1, <1>3, <1>4, SelectedSent
  <1>5. QED
    BY <1>2, <1>3, <1>4 DEF Unconfirmed, Asked, Steps, Acted

LEMMA SentAction ==
    ASSUME TypeOK, ClientAct
    PROVE  /\ Adds(Acted, Acted', [type |-> "action", seq |-> lastAction + 1])
           /\ Unconfirmed' = Unconfirmed /\ Asked' = Asked /\ Steps' = Steps
  <1> DEFINE act == [type |-> "action", seq |-> lastAction + 1]
  <1>1. lastAction + 1 \in 1..MaxActions
    BY MaxActionsAssumption DEF TypeOK, ClientAct
  <1>2. act \in ToServer /\ act \in Actions
    BY <1>1 DEF ToServer, Actions
  <1>3. act \notin Confirmations /\ act \notin Keepalives /\ act \notin Moves
    BY <1>2, KindsToServer
  <1>4. toServer' = Append(toServer, act) /\ batch' = batch /\ toClient' = toClient
    BY DEF ClientAct, ClientSends, tick
  <1> HIDE DEF act
  <1>5. ASSUME NEW set
        PROVE  /\ act \in set => Adds(Selected(Line, set), Selected(Line', set), act)
               /\ act \notin set => Selected(Line', set) = Selected(Line, set)
    BY <1>2, <1>4, SelectedSent
  <1>6. Adds(Acted, Acted', act)
    BY <1>2, <1>5 DEF Acted
  <1>7. Unconfirmed' = Unconfirmed /\ Asked' = Asked /\ Steps' = Steps
    BY <1>3, <1>4, <1>5 DEF Unconfirmed, Asked, Steps
  <1>8. QED
    BY <1>6, <1>7 DEF act

\* The server writes a teleport, a keepalive or an acknowledgement.
TeleportPacket ==
    [type |-> "teleport", id |-> counter, pos |-> IF Moved THEN position ELSE Unknown]

LEMMA WroteTeleport ==
    ASSUME TypeOK, TypeOK', Teleport, Moved \/ pushed
    PROVE  /\ Adds(Unconfirmed, Unconfirmed', TeleportPacket)
           /\ Adds(Coming, Coming', TeleportPacket)
           /\ Moved => TeleportPacket \in Positionings /\ Adds(Placed, Placed', TeleportPacket)
           /\ ~Moved => Placed' = Placed
           /\ Asked' = Asked /\ Steps' = Steps /\ Acking' = Acking /\ Acted' = Acted
  <1> DEFINE tp == TeleportPacket
  <1>1. tp \in ToClient /\ tp.type = "teleport" /\ tp.pos = IF Moved THEN position ELSE Unknown
    BY DEF TeleportPacket, TypeOK, ToClient, Teleports
  <1>2. tp \in Teleports /\ tp \notin Keepalives /\ tp \notin Acks
    BY <1>1, KindsToClient
  <1>3. (Moved => tp \in Positionings) /\ (~Moved => tp \notin Positionings)
    BY <1>1, <1>2, KindsToClient, PlacesAssumption DEF TypeOK
  <1>4. toClient' = Append(toClient, tp) /\ Line' = Line
    BY DEF Teleport, Runs, TeleportPacket, Line
  <1> HIDE DEF tp
  <1>5. ASSUME NEW set
        PROVE  /\ tp \in set => Adds(Selected(toClient, set), Selected(toClient', set), tp)
               /\ tp \notin set => Selected(toClient', set) = Selected(toClient, set)
    BY <1>1, <1>4, SelectedWritten
  <1>6. Adds(Unconfirmed, Unconfirmed', tp)
    <2> DEFINE q == Selected(Line, Confirmations)
               r == Selected(toClient, Teleports)
               r1 == Selected(toClient', Teleports)
    <2>1. Adds(r, r1, tp)
      BY <1>2, <1>5
    <2>2. q \in Seq(Packets) /\ r \in Seq(Packets)
      BY SelectionTypes
    <2>3. r1 \in Seq(Packets)
      BY SelectionTypesNext
    <2> HIDE DEF q, r, r1
    <2>4. Adds(q \o r, q \o r1, tp)
      BY <2>1, <2>2, <2>3, AddsConcat
    <2>5. Unconfirmed = q \o r /\ Unconfirmed' = q \o r1
      BY <1>4 DEF Unconfirmed, q, r, r1
    <2>6. QED
      BY <2>4, <2>5
  <1>7. Adds(Coming, Coming', tp)
    BY <1>2, <1>5 DEF Coming
  <1>8. (Moved => Adds(Placed, Placed', tp)) /\ (~Moved => Placed' = Placed)
    BY <1>3, <1>5 DEF Placed
  <1>9. Asked' = Asked /\ Steps' = Steps /\ Acking' = Acking /\ Acted' = Acted
    BY <1>2, <1>4, <1>5 DEF Asked, Steps, Acking, Acted
  <1>10. QED
    BY <1>3, <1>6, <1>7, <1>8, <1>9 DEF tp

LEMMA WroteKeepalive ==
    ASSUME TypeOK, TypeOK', NEW p \in Keepalives,
           toClient' = Append(toClient, p), Line' = Line
    PROVE  /\ Adds(Asked, Asked', p)
           /\ Unconfirmed' = Unconfirmed /\ Steps' = Steps /\ Acted' = Acted
           /\ Coming' = Coming /\ Placed' = Placed /\ Acking' = Acking
  <1>1. p \in ToClient /\ p.type = "keepalive"
    BY KeepalivesBothWays DEF Keepalives
  <1>2. p \notin Teleports /\ p \notin Positionings /\ p \notin Acks
    BY <1>1, KindsToClient
  <1>3. ASSUME NEW set
        PROVE  /\ p \in set => Adds(Selected(toClient, set), Selected(toClient', set), p)
               /\ p \notin set => Selected(toClient', set) = Selected(toClient, set)
    BY <1>1, SelectedWritten
  <1>4. Adds(Asked, Asked', p)
    <2> DEFINE q == Selected(Line, Keepalives)
               r == Selected(toClient, Keepalives)
               r1 == Selected(toClient', Keepalives)
    <2>1. Adds(r, r1, p)
      BY <1>3
    <2>2. q \in Seq(Packets) /\ r \in Seq(Packets)
      BY SelectionTypes
    <2>3. r1 \in Seq(Packets)
      BY SelectionTypesNext
    <2> HIDE DEF q, r, r1
    <2>4. Adds(q \o r, q \o r1, p)
      BY <2>1, <2>2, <2>3, AddsConcat
    <2>5. Asked = q \o r /\ Asked' = q \o r1
      BY DEF Asked, q, r, r1
    <2>6. QED
      BY <2>4, <2>5
  <1>5. Unconfirmed' = Unconfirmed /\ Steps' = Steps /\ Acted' = Acted
    BY <1>2, <1>3 DEF Unconfirmed, Steps, Acted
  <1>6. Coming' = Coming /\ Placed' = Placed /\ Acking' = Acking
    BY <1>2, <1>3 DEF Coming, Placed, Acking
  <1>7. QED
    BY <1>4, <1>5, <1>6

LEMMA WroteAck ==
    ASSUME TypeOK, NEW p \in Acks, toClient' = Append(toClient, p), Line' = Line
    PROVE  /\ Adds(Acking, Acking', p)
           /\ Unconfirmed' = Unconfirmed /\ Asked' = Asked /\ Steps' = Steps /\ Acted' = Acted
           /\ Coming' = Coming /\ Placed' = Placed
  <1>1. p \in ToClient /\ p.type = "ack"
    BY DEF Acks, ToClient
  <1>2. p \notin Teleports /\ p \notin Positionings /\ p \notin Keepalives
    BY <1>1, KindsToClient
  <1>3. ASSUME NEW set
        PROVE  /\ p \in set => Adds(Selected(toClient, set), Selected(toClient', set), p)
               /\ p \notin set => Selected(toClient', set) = Selected(toClient, set)
    BY <1>1, SelectedWritten
  <1>4. Adds(Acking, Acking', p)
    BY <1>3 DEF Acking
  <1>5. Unconfirmed' = Unconfirmed /\ Asked' = Asked /\ Steps' = Steps /\ Acted' = Acted
    BY <1>2, <1>3 DEF Unconfirmed, Asked, Steps, Acted
  <1>6. Coming' = Coming /\ Placed' = Placed
    BY <1>2, <1>3 DEF Coming, Placed
  <1>7. QED
    BY <1>4, <1>5, <1>6


-----------------------------------------------------------------------------
(***************************************************************************)
(* The counters are u32: what adding and subtracting does to them.         *)
(***************************************************************************)
LEMMA CounterType ==
    ASSUME NEW a \in Int
    PROVE  a % Width \in Counters
  BY WidthAssumption DEF Counters

LEMMA CounterSame ==
    ASSUME NEW a \in Counters
    PROVE  a % Width = a /\ (a + Width) % Width = a
  BY WidthAssumption DEF Counters

LEMMA CounterUp ==
    ASSUME NEW a \in Counters
    PROVE  (a + 1) % Width = IF a = Width - 1 THEN 0 ELSE a + 1
  BY WidthAssumption DEF Counters

LEMMA CounterDown ==
    ASSUME NEW a \in Counters, a # 0
    PROVE  (a + Width - 1) % Width = a - 1
  <1>1. a - 1 \in Counters /\ (a - 1) + Width = a + Width - 1
    BY WidthAssumption DEF Counters
  <1>2. QED
    BY <1>1, CounterSame

-----------------------------------------------------------------------------
(***************************************************************************)
(* Types.                                                                  *)
(***************************************************************************)
LEMMA TypeInit == Init => TypeOK
  <1>1. 0 \in Counters /\ 0 \in 0..MaxActions
    BY WidthAssumption, MaxActionsAssumption DEF Counters
  <1>2. <<>> \in Seq(ToServer) /\ <<>> \in Seq(ToClient)
    OBVIOUS
  <1>3. QED
    BY <1>1, <1>2 DEF Init, TypeOK, Reasons

LEMMA TypeReceiveTeleport ==
    ASSUME TypeOK, ReceiveTeleport, clientPos' \in Places
    PROVE  TypeOK'
  <1> DEFINE cf == [type |-> "confirm", id |-> Head(toClient).id]
             mv == [type |-> "move", pos |-> clientPos']
  <1>1. Head(toClient) \in Teleports /\ toClient' \in Seq(ToClient)
    BY HeadTailProperties, KindsToClient DEF TypeOK, ReceiveTeleport
  <1>2. cf \in ToServer /\ mv \in ToServer
    BY <1>1 DEF Teleports, ToServer, Confirmations, Moves
  <1>3. toServer' = toServer \o <<cf, mv>>
    BY DEF ReceiveTeleport
  <1> HIDE DEF cf, mv
  <1>4. toServer' \in Seq(ToServer)
    BY <1>2, <1>3 DEF TypeOK
  <1>5. QED
    BY <1>1, <1>4 DEF TypeOK, ReceiveTeleport, positionVars, keepaliveVars, tick

LEMMA TypeReceiveKeepalive ==
    ASSUME TypeOK, ReceiveKeepalive
    PROVE  TypeOK'
  <1>1. Head(toClient) \in Keepalives /\ toClient' \in Seq(ToClient)
    BY HeadTailProperties, KindsToClient DEF TypeOK, ReceiveKeepalive
  <1>2. toServer' \in Seq(ToServer)
    BY <1>1, KeepalivesBothWays, AppendProperties DEF TypeOK, ReceiveKeepalive
  <1>3. QED
    BY <1>1, <1>2 DEF TypeOK, ReceiveKeepalive, clientVars, positionVars, keepaliveVars, tick

LEMMA TypeReceiveAck ==
    ASSUME TypeOK, ReceiveAck
    PROVE  TypeOK'
  <1>1. Head(toClient) \in Acks /\ toClient' \in Seq(ToClient)
    BY HeadTailProperties, KindsToClient DEF TypeOK, ReceiveAck
  <1>2. lastAck' \in 0..MaxActions
    BY <1>1, MaxActionsAssumption DEF Acks, ReceiveAck
  <1>3. QED
    BY <1>1, <1>2 DEF TypeOK, ReceiveAck, positionVars, keepaliveVars, tick

LEMMA TypeClientSends ==
    ASSUME TypeOK, NEW p \in ToServer, ClientSends(p),
           clientPos' \in Places \cup {Unknown}, lastAction' \in 0..MaxActions
    PROVE  TypeOK'
  <1>1. toServer' \in Seq(ToServer)
    BY AppendProperties DEF TypeOK, ClientSends
  <1>2. QED
    BY <1>1 DEF TypeOK, ClientSends, positionVars, keepaliveVars, tick

LEMMA TypeClientActs ==
    ASSUME TypeOK, (\E p \in Places : ClientMove(p)) \/ ClientTurn \/ ClientAct
    PROVE  TypeOK'
  <1>1. ASSUME NEW p \in Places, ClientMove(p) PROVE TypeOK'
    <2>1. [type |-> "move", pos |-> p] \in ToServer
      BY DEF ToServer, Moves
    <2>2. clientPos' \in Places /\ lastAction' \in 0..MaxActions
      BY <1>1 DEF ClientMove, TypeOK
    <2>3. QED
      BY <1>1, <2>1, <2>2, TypeClientSends DEF ClientMove
  <1>2. CASE ClientTurn
    <2>1. [type |-> "turn"] \in ToServer
      BY DEF ToServer, Turns
    <2>2. clientPos' \in Places \cup {Unknown} /\ lastAction' \in 0..MaxActions
      BY <1>2 DEF ClientTurn, TypeOK
    <2>3. QED
      BY <1>2, <2>1, <2>2, TypeClientSends DEF ClientTurn
  <1>3. CASE ClientAct
    <2>1. lastAction + 1 \in 1..MaxActions
      BY <1>3, MaxActionsAssumption DEF ClientAct, TypeOK
    <2>2. [type |-> "action", seq |-> lastAction + 1] \in ToServer
      BY <2>1 DEF ToServer, Actions
    <2>3. clientPos' \in Places \cup {Unknown} /\ lastAction' \in 0..MaxActions
      BY <1>3, <2>1, MaxActionsAssumption DEF ClientAct, TypeOK
    <2>4. QED
      BY <1>3, <2>2, <2>3, TypeClientSends DEF ClientAct
  <1>4. QED
    BY <1>1, <1>2, <1>3

LEMMA TypeHandle ==
    ASSUME TypeOK,
           \/ HandleConfirmation \/ HandleMove \/ HandleTurn \/ HandleKeepalive
           \/ HandleAction
    PROVE  TypeOK'
  <1>1. ASSUME NEW type, Handles(type)
        PROVE  /\ Head(batch) \in ToServer /\ Head(batch).type = type
               /\ batch' \in Seq(ToServer)
               /\ toServer' \in Seq(ToServer) /\ toClient' \in Seq(ToClient)
               /\ clientPos' \in Places \cup {Unknown}
               /\ lastAction' \in 0..MaxActions /\ lastAck' \in 0..MaxActions
               /\ phase' \in {"loop", "update", "post"} /\ answered' \in BOOLEAN
               /\ todo' \subseteq Systems
    BY <1>1, HeadTailProperties DEF TypeOK, Handles, clientVars, network
  <1>2. CASE HandleConfirmation
    <2>1. pending' \in Counters
      <3>1. pending + Width - 1 \in Int
        BY WidthAssumption DEF TypeOK, Counters
      <3>2. (pending + Width - 1) % Width \in Counters
        BY <3>1, CounterType
      <3>3. QED
        BY <1>2, <3>2 DEF HandleConfirmation, TypeOK
    <2>2. removed' \in Reasons
      BY <1>2 DEF HandleConfirmation, Reasons
    <2>3. Handles("confirm")
      BY <1>2 DEF HandleConfirmation
    <2>4. QED
      BY <1>1, <1>2, <2>1, <2>2, <2>3 DEF HandleConfirmation, TypeOK, keepaliveVars
  <1>3. CASE HandleMove
    <2>1. Handles("move")
      BY <1>3 DEF HandleMove
    <2>2. Head(batch).pos \in Places
      BY <1>1, <2>1, KindsToServer DEF Moves
    <2>3. position' \in Places /\ syncedPos' \in Places \cup {Unknown}
      BY <1>3, <2>2 DEF HandleMove, TypeOK
    <2>4. QED
      BY <1>1, <1>3, <2>1, <2>3 DEF HandleMove, TypeOK, keepaliveVars
  <1>4. CASE HandleTurn
    <2>1. Handles("turn") /\ syncedPos' \in Places \cup {Unknown}
      BY <1>4 DEF HandleTurn, TypeOK
    <2>2. QED
      BY <1>1, <1>4, <2>1 DEF HandleTurn, TypeOK, keepaliveVars
  <1>5. CASE HandleKeepalive
    <2>1. Handles("keepalive") /\ gotKeepalive' \in BOOLEAN /\ removed' \in Reasons
      BY <1>5 DEF HandleKeepalive, TypeOK, Reasons
    <2>2. QED
      BY <1>1, <1>5, <2>1 DEF HandleKeepalive, TypeOK, positionVars
  <1>6. CASE HandleAction
    <2>1. Handles("action")
      BY <1>6 DEF HandleAction
    <2>2. Head(batch).seq \in 0..MaxActions
      BY <1>1, <2>1, KindsToServer, MaxActionsAssumption DEF Actions
    <2>3. sequence' \in 0..MaxActions
      BY <1>6, <2>2 DEF HandleAction, UpdatedSequence, TypeOK
    <2>4. QED
      BY <1>1, <1>6, <2>1, <2>3 DEF HandleAction, TypeOK, positionVars, keepaliveVars
  <1>7. QED
    BY <1>2, <1>3, <1>4, <1>5, <1>6

LEMMA TypeRuns ==
    ASSUME TypeOK, Teleport \/ SendKeepalive \/ Acknowledge
    PROVE  TypeOK'
  <1>1. ASSUME NEW system, Runs(system)
        PROVE  /\ batch' \in Seq(ToServer) /\ toServer' \in Seq(ToServer)
               /\ clientPos' \in Places \cup {Unknown}
               /\ lastAction' \in 0..MaxActions /\ lastAck' \in 0..MaxActions
               /\ phase' \in {"loop", "update", "post"} /\ answered' \in BOOLEAN
               /\ todo' \subseteq Systems
    BY <1>1 DEF TypeOK, Runs, clientVars
  <1>2. CASE Teleport
    <2>1. Runs("teleport")
      BY <1>2 DEF Teleport
    <2>2. Counted \in Counters /\ NextCounter \in Counters
      <3>1. pending + 1 \in Int /\ counter + 1 \in Int
        BY DEF TypeOK, Counters
      <3>2. QED
        BY <3>1, CounterType DEF Counted, NextCounter
    <2>3. TeleportPacket \in ToClient
      BY DEF TeleportPacket, TypeOK, ToClient, Teleports
    <2>4. toClient' \in Seq(ToClient)
      <3>1. toClient' = Append(toClient, TeleportPacket) \/ toClient' = toClient
        BY <1>2 DEF Teleport, TeleportPacket
      <3>2. toClient \in Seq(ToClient)
        BY LineType
      <3>3. QED
        BY <2>3, <3>1, <3>2, AppendProperties
    <2>5. /\ pending' \in Counters /\ counter' \in Counters
          /\ syncedPos' \in Places \cup {Unknown} /\ pushed' \in BOOLEAN
      BY <1>2, <2>2 DEF Teleport, TypeOK
    <2>6. QED
      BY <1>1, <1>2, <2>1, <2>4, <2>5 DEF Teleport, TypeOK, keepaliveVars
  <1>3. CASE SendKeepalive
    <2>1. Runs("send_keepalive") /\ removed' \in Reasons
      BY <1>3 DEF SendKeepalive, TypeOK, Reasons
    <2>2. /\ toClient' \in Seq(ToClient)
          /\ gotKeepalive' \in BOOLEAN /\ keepaliveId' \in KeepaliveIds /\ due' \in BOOLEAN
      <3>1. CASE due /\ gotKeepalive
        <4>1. PICK id \in KeepaliveIds :
                  /\ toClient' = Append(toClient, [type |-> "keepalive", id |-> id])
                  /\ keepaliveId' = id /\ gotKeepalive' = FALSE /\ due' = FALSE
          BY <1>3, <3>1 DEF SendKeepalive
        <4>2. [type |-> "keepalive", id |-> id] \in ToClient
          BY DEF ToClient, Keepalives
        <4>3. toClient' \in Seq(ToClient)
          BY <4>1, <4>2, AppendProperties DEF TypeOK
        <4>4. QED
          BY <4>1, <4>3
      <3>2. CASE ~(due /\ gotKeepalive)
        BY <1>3, <3>2 DEF SendKeepalive, TypeOK, keepaliveVars
      <3>3. QED
        BY <3>1, <3>2
    <2>3. QED
      BY <1>1, <1>3, <2>1, <2>2 DEF SendKeepalive, TypeOK, positionVars
  <1>4. CASE Acknowledge
    <2>1. Runs("acknowledge_player_actions")
      BY <1>4 DEF Acknowledge
    <2>2. toClient' \in Seq(ToClient)
      <3>1. sequence # 0 => [type |-> "ack", seq |-> sequence] \in ToClient
        BY MaxActionsAssumption DEF TypeOK, ToClient, Acks
      <3>2. QED
        BY <1>4, <3>1, AppendProperties DEF Acknowledge, TypeOK
    <2>3. sequence' \in 0..MaxActions
      BY <1>4, MaxActionsAssumption DEF Acknowledge
    <2>4. QED
      BY <1>1, <1>4, <2>1, <2>2, <2>3 DEF Acknowledge, TypeOK, positionVars, keepaliveVars
  <1>5. QED
    BY <1>2, <1>3, <1>4

LEMMA TypeStep ==
    ASSUME TypeOK, [Next]_vars, ReceiveTeleport => clientPos' \in Places
    PROVE  TypeOK'
  <1>1. CASE ServerStep
    <2>1. CASE EndLoop
      BY <2>1 DEF EndLoop, TypeOK, clientVars, network, positionVars, keepaliveVars
    <2>2. CASE EndUpdate
      BY <2>2 DEF EndUpdate, TypeOK, clientVars, network, positionVars, keepaliveVars
    <2>3. CASE EndTick
      <3>1. toServer' \in Seq(ToServer) /\ batch' \in Seq(ToServer)
        BY <2>3 DEF EndTick, TypeOK
      <3>2. QED
        BY <2>3, <3>1 DEF EndTick, TypeOK, clientVars, positionVars, keepaliveVars
    <2>4. QED
      BY <1>1, <2>1, <2>2, <2>3, TypeHandle, TypeRuns DEF ServerStep
  <1>2. CASE ClientReceive
    BY <1>2, TypeReceiveTeleport, TypeReceiveKeepalive, TypeReceiveAck DEF ClientReceive
  <1>3. CASE (\E p \in Places : ClientMove(p)) \/ ClientTurn \/ ClientAct
    BY <1>3, TypeClientActs
  <1>4. CASE \E p \in Places : SetPosition(p)
    BY <1>4 DEF SetPosition, TypeOK, clientVars, network, keepaliveVars, tick
  <1>5. CASE SetVelocity
    BY <1>5 DEF SetVelocity, TypeOK, clientVars, network, keepaliveVars, tick
  <1>6. CASE Elapse
    BY <1>6 DEF Elapse, TypeOK, clientVars, network, positionVars, tick
  <1>7. CASE UNCHANGED vars
    BY <1>7 DEF vars, TypeOK, clientVars, network, positionVars, keepaliveVars, tick
  <1>8. QED
    BY <1>1, <1>2, <1>3, <1>4, <1>5, <1>6, <1>7 DEF Next


-----------------------------------------------------------------------------
(***************************************************************************)
(* Teleports are confirmed in order.  The sequence u has n packets, whose  *)
(* ids are the last n before the counter c.                                *)
(***************************************************************************)
InTurn(u, c, n) ==
    /\ Len(u) = n
    /\ \A i \in 1..Len(u) : u[i].id = (c + Width - n + i - 1) % Width

LEMMA InTurnSame ==
    ASSUME NEW u, NEW v, NEW c, NEW n, InTurn(u, c, n), SameIds(u, v)
    PROVE  InTurn(v, c, n)
  BY DEF InTurn, SameIds

LEMMA InTurnDrops ==
    ASSUME NEW E, NEW u \in Seq(E), NEW v \in Seq(E), NEW x,
           NEW c \in Counters, NEW n \in Counters, InTurn(u, c, n), Drops(u, v, x)
    PROVE  /\ n # 0 /\ x.id = (c + Width - n) % Width
           /\ InTurn(v, c, n - 1)
  <1>1. /\ Len(u) = n
        /\ \A i \in 1..Len(u) : u[i].id = (c + Width - n + i - 1) % Width
    BY DEF InTurn
  <1>2. /\ Len(u) = Len(v) + 1 /\ u[1] = x
        /\ \A i \in 1..Len(v) : u[i + 1] = v[i]
    BY DEF Drops
  <1>3. Len(v) \in Nat /\ c \in Int /\ n \in Int /\ Width \in Int
    BY LenProperties, WidthAssumption DEF Counters
  <1>4. n # 0 /\ Len(v) = n - 1 /\ 1 \in 1..Len(u)
    BY <1>1, <1>2, <1>3
  <1>5. x.id = (c + Width - n) % Width
    <2>1. c + Width - n + 1 - 1 = c + Width - n
      BY <1>3
    <2>2. u[1].id = (c + Width - n + 1 - 1) % Width
      BY <1>1, <1>4
    <2>3. QED
      BY <1>2, <2>1, <2>2
  <1>6. ASSUME NEW i \in 1..Len(v) PROVE v[i].id = (c + Width - (n - 1) + i - 1) % Width
    <2>1. /\ i + 1 \in 1..Len(u)
          /\ c + Width - n + (i + 1) - 1 = c + Width - (n - 1) + i - 1
      BY <1>2, <1>3
    <2>2. u[i + 1].id = (c + Width - n + (i + 1) - 1) % Width
      BY <1>1, <2>1
    <2>3. QED
      BY <1>2, <2>1, <2>2
  <1>7. QED
    BY <1>4, <1>5, <1>6 DEF InTurn

LEMMA InTurnAdds ==
    ASSUME NEW E, NEW u \in Seq(E), NEW v \in Seq(E), NEW x,
           NEW c \in Counters, NEW n \in Counters, n < Width - 1,
           InTurn(u, c, n), Adds(u, v, x), x.id = c
    PROVE  InTurn(v, (c + 1) % Width, n + 1)
  <1> DEFINE d == (c + 1) % Width
  <1>1. /\ Len(u) = n
        /\ \A i \in 1..Len(u) : u[i].id = (c + Width - n + i - 1) % Width
    BY DEF InTurn
  <1>2. /\ Len(v) = Len(u) + 1 /\ v[Len(u) + 1] = x
        /\ \A i \in 1..Len(u) : v[i] = u[i]
    BY DEF Adds
  <1>3. c \in Nat /\ n \in Nat /\ Width \in Nat /\ n < Width - 1 /\ c <= Width - 1
    BY WidthAssumption DEF Counters
  <1>4. d = IF c = Width - 1 THEN 0 ELSE c + 1
    BY CounterUp
  <1> HIDE DEF d
  <1>5. ASSUME NEW i \in 1..Len(v) PROVE v[i].id = (d + Width - (n + 1) + i - 1) % Width
    <2>1. i \in 1..(n + 1)
      BY <1>1, <1>2
    <2>2. CASE i = n + 1
      <3>1. d + Width - (n + 1) + i - 1 = d + Width - 1
        BY <1>3, <1>4, <2>2
      <3>2. (d + Width - 1) % Width = c
        <4>1. CASE c = Width - 1
          <5>1. d + Width - 1 = c
            BY <1>3, <1>4, <4>1
          <5>2. QED
            BY <5>1, CounterSame
        <4>2. CASE c # Width - 1
          <5>1. d + Width - 1 = c + Width
            BY <1>3, <1>4, <4>2
          <5>2. QED
            BY <5>1, CounterSame
        <4>3. QED
          BY <4>1, <4>2
      <3>3. v[i] = x
        BY <1>1, <1>2, <2>2
      <3>4. QED
        BY <3>1, <3>2, <3>3
    <2>3. CASE i # n + 1
      <3> DEFINE a == Width - n - 2 + i
      <3>1. i \in 1..n /\ i \in 1..Len(u)
        BY <1>1, <1>3, <2>1, <2>3
      <3>2. v[i].id = (c + Width - n + i - 1) % Width
        BY <1>1, <1>2, <3>1
      <3>3. a \in Counters
        BY <1>3, <3>1 DEF Counters
      <3>4. CASE c = Width - 1
        <4>1. c + Width - n + i - 1 = a + Width /\ d + Width - (n + 1) + i - 1 = a
          BY <1>3, <1>4, <3>1, <3>4
        <4> HIDE DEF a
        <4>2. QED
          BY <3>2, <3>3, <4>1, CounterSame
      <3>5. CASE c # Width - 1
        <4>1. d + Width - (n + 1) + i - 1 = c + Width - n + i - 1
          BY <1>3, <1>4, <3>1, <3>5
        <4>2. QED
          BY <3>2, <4>1
      <3>6. QED
        BY <3>4, <3>5
    <2>4. QED
      BY <2>2, <2>3
  <1>6. Len(v) = n + 1
    BY <1>1, <1>2
  <1>7. QED
    BY <1>5, <1>6 DEF InTurn, d


Quiet ==
    \/ EndLoop \/ EndUpdate \/ EndTick
    \/ (\E p \in Places : SetPosition(p)) \/ SetVelocity \/ Elapse
    \/ UNCHANGED vars

LEMMA QuietMovesNothing ==
    ASSUME TypeOK, InPhase, Quiet
    PROVE  Line' = Line /\ toClient' = toClient
  <1>1. CASE EndTick
    <2>1. batch = <<>> /\ batch' = toServer /\ toServer' = <<>> /\ toClient' = toClient
      BY <1>1 DEF EndTick, InPhase
    <2>2. QED
      BY <2>1, LineBatched
  <1>2. CASE \/ EndLoop \/ EndUpdate \/ (\E p \in Places : SetPosition(p)) \/ SetVelocity
             \/ Elapse \/ UNCHANGED vars
    BY <1>2 DEF EndLoop, EndUpdate, SetPosition, SetVelocity, Elapse, vars, network, tick,
                Line
  <1>3. QED
    BY <1>1, <1>2 DEF Quiet

\* The actions, those that move no packets together.
LEMMA StepKinds ==
    ASSUME [Next]_vars
    PROVE  \/ HandleConfirmation \/ HandleMove \/ HandleTurn \/ HandleKeepalive
           \/ HandleAction \/ Teleport \/ SendKeepalive \/ Acknowledge
           \/ ReceiveTeleport \/ ReceiveKeepalive \/ ReceiveAck
           \/ (\E p \in Places : ClientMove(p)) \/ ClientTurn \/ ClientAct
           \/ Quiet
  BY DEF Next, ServerStep, ClientReceive, Quiet

\* The server's systems that write leave the line alone.
LEMMA RunsLine ==
    ASSUME NEW system, Runs(system)
    PROVE  Line' = Line
  BY DEF Runs, Line

LEMMA KeepaliveOrNothing ==
    ASSUME TypeOK, SendKeepalive
    PROVE  \/ toClient' = toClient /\ UNCHANGED keepaliveVars
           \/ /\ due /\ gotKeepalive /\ gotKeepalive' = FALSE
              /\ keepaliveId' \in KeepaliveIds
              /\ toClient' = Append(toClient, [type |-> "keepalive", id |-> keepaliveId'])
              /\ [type |-> "keepalive", id |-> keepaliveId'] \in Keepalives
  BY DEF SendKeepalive, Keepalives

LEMMA AckOrNothing ==
    ASSUME TypeOK, Acknowledge
    PROVE  \/ toClient' = toClient /\ sequence = 0
           \/ /\ sequence # 0
              /\ toClient' = Append(toClient, [type |-> "ack", seq |-> sequence])
              /\ [type |-> "ack", seq |-> sequence] \in Acks
  <1>1. sequence # 0 => sequence \in 1..MaxActions
    BY MaxActionsAssumption DEF TypeOK
  <1>2. QED
    BY <1>1 DEF Acknowledge, Acks

\* The steps that do not touch the unconfirmed teleports.
LEMMA UnconfirmedSame ==
    ASSUME TypeOK, TypeOK', InPhase,
           \/ HandleMove \/ HandleTurn \/ HandleKeepalive \/ HandleAction
           \/ SendKeepalive \/ Acknowledge \/ ReceiveKeepalive \/ ReceiveAck
           \/ (\E p \in Places : ClientMove(p)) \/ ClientTurn \/ ClientAct
           \/ Quiet
    PROVE  Unconfirmed' = Unconfirmed /\ counter' = counter /\ pending' = pending
  <1>1. CASE HandleMove
    BY <1>1, HandledMove DEF HandleMove
  <1>2. CASE HandleTurn
    BY <1>2, HandledTurn DEF HandleTurn
  <1>3. CASE HandleKeepalive
    BY <1>3, HandledKeepalive DEF HandleKeepalive, positionVars
  <1>4. CASE HandleAction
    BY <1>4, HandledAction DEF HandleAction, positionVars
  <1>5. CASE SendKeepalive
    <2>1. counter' = counter /\ pending' = pending /\ Line' = Line
      BY <1>5, RunsLine DEF SendKeepalive, positionVars
    <2>2. Unconfirmed' = Unconfirmed
      BY <1>5, <2>1, KeepaliveOrNothing, WroteKeepalive, NothingMoves
    <2>3. QED
      BY <2>1, <2>2
  <1>6. CASE Acknowledge
    <2>1. counter' = counter /\ pending' = pending /\ Line' = Line
      BY <1>6, RunsLine DEF Acknowledge, positionVars
    <2>2. Unconfirmed' = Unconfirmed
      BY <1>6, <2>1, AckOrNothing, WroteAck, NothingMoves
    <2>3. QED
      BY <2>1, <2>2
  <1>7. CASE ReceiveKeepalive
    BY <1>7, ReceivedKeepalive DEF ReceiveKeepalive, positionVars
  <1>8. CASE ReceiveAck
    BY <1>8, ReceivedAck DEF ReceiveAck, positionVars
  <1>9. CASE \E p \in Places : ClientMove(p)
    BY <1>9, SentMove DEF ClientMove, ClientSends, positionVars
  <1>10. CASE ClientTurn
    BY <1>10, SentTurn DEF ClientTurn, ClientSends, positionVars
  <1>11. CASE ClientAct
    BY <1>11, SentAction DEF ClientAct, ClientSends, positionVars
  <1>12. CASE Quiet
    <2>1. counter' = counter /\ pending' = pending
      BY <1>12 DEF Quiet, EndLoop, EndUpdate, EndTick, SetPosition, SetVelocity, Elapse, vars,
                   positionVars
    <2>2. QED
      BY <1>12, <2>1, QuietMovesNothing, NothingMoves
  <1>13. QED
    BY <1>1, <1>2, <1>3, <1>4, <1>5, <1>6, <1>7, <1>8, <1>9, <1>10, <1>11, <1>12

LEMMA UnconfirmedTypes ==
    ASSUME TypeOK
    PROVE  /\ Unconfirmed \in Seq(Packets) /\ Asked \in Seq(Packets)
           /\ Steps \in Seq(Packets) /\ Acted \in Seq(Packets)
           /\ Coming \in Seq(Packets) /\ Placed \in Seq(Packets) /\ Acking \in Seq(Packets)
  BY SelectionTypes, ConcatProperties
  DEF Unconfirmed, Asked, Steps, Acted, Coming, Placed, Acking

LEMMA UnconfirmedTypesNext ==
    ASSUME TypeOK'
    PROVE  /\ Unconfirmed' \in Seq(Packets) /\ Asked' \in Seq(Packets)
           /\ Steps' \in Seq(Packets) /\ Acted' \in Seq(Packets)
           /\ Coming' \in Seq(Packets) /\ Placed' \in Seq(Packets)
           /\ Acking' \in Seq(Packets)
  BY SelectionTypesNext, ConcatProperties
  DEF Unconfirmed, Asked, Steps, Acted, Coming, Placed, Acking

\* The next confirmation is the one that the server expects, and it is counted.
LEMMA ConfirmationIsRight ==
    ASSUME TypeOK, TypeOK', InTurn(Unconfirmed, counter, pending), HandleConfirmation
    PROVE  /\ removed' = "no"
           /\ pending # 0 /\ pending' = pending - 1 /\ counter' = counter
           /\ InTurn(Unconfirmed', counter', pending')
  <1>1. Drops(Unconfirmed, Unconfirmed', Head(batch))
    BY HandledConfirmation DEF HandleConfirmation
  <1>2. counter \in Counters /\ pending \in Counters
    BY DEF TypeOK
  <1>3. /\ pending # 0 /\ Head(batch).id = ExpectedId
        /\ InTurn(Unconfirmed', counter, pending - 1)
    BY <1>1, <1>2, UnconfirmedTypes, UnconfirmedTypesNext, InTurnDrops DEF ExpectedId
  <1>4. pending' = (pending + Width - 1) % Width /\ removed' = "no" /\ counter' = counter
    BY <1>3 DEF HandleConfirmation
  <1>5. pending' = pending - 1
    BY <1>2, <1>3, <1>4, CounterDown
  <1>6. QED
    BY <1>3, <1>4, <1>5

LEMMA OrderStep ==
    ASSUME TypeOK, TypeOK', InPhase, Room, [Next]_vars,
           ReceiveTeleport => clientPos' \in Places,
           InTurn(Unconfirmed, counter, pending)
    PROVE  InTurn(Unconfirmed', counter', pending')
  <1>1. CASE HandleConfirmation
    BY <1>1, ConfirmationIsRight
  <1>2. CASE ReceiveTeleport
    <2>1. counter' = counter /\ pending' = pending
      BY <1>2 DEF ReceiveTeleport, positionVars
    <2>2. QED
      BY <1>2, <2>1, ReceivedTeleport, InTurnSame
  <1>3. CASE Teleport
    <2>1. CASE Moved \/ pushed
      <3>1. Adds(Unconfirmed, Unconfirmed', TeleportPacket) /\ TeleportPacket.id = counter
        BY <1>3, <2>1, WroteTeleport DEF TeleportPacket
      <3>2. counter \in Counters /\ pending \in Counters /\ pending < Width - 1
        BY <2>1 DEF TypeOK, Room, Answering
      <3>3. InTurn(Unconfirmed', (counter + 1) % Width, pending + 1)
        BY <3>1, <3>2, UnconfirmedTypes, UnconfirmedTypesNext, InTurnAdds
      <3>4. Counted = pending + 1
        BY <3>2, CounterUp, WidthAssumption DEF Counted, Counters
      <3>5. counter' = (counter + 1) % Width /\ pending' = pending + 1
        BY <1>3, <2>1, <3>4 DEF Teleport, NextCounter
      <3>6. QED
        BY <3>3, <3>5
    <2>2. CASE ~(Moved \/ pushed)
      <3>1. counter' = counter /\ pending' = pending /\ toClient' = toClient /\ Line' = Line
        BY <1>3, <2>2, RunsLine DEF Teleport
      <3>2. QED
        BY <3>1, NothingMoves
    <2>3. QED
      BY <2>1, <2>2
  <1>4. CASE \/ HandleMove \/ HandleTurn \/ HandleKeepalive \/ HandleAction
             \/ SendKeepalive \/ Acknowledge \/ ReceiveKeepalive \/ ReceiveAck
             \/ (\E p \in Places : ClientMove(p)) \/ ClientTurn \/ ClientAct
             \/ Quiet
    BY <1>4, UnconfirmedSame
  <1>5. QED
    BY <1>1, <1>2, <1>3, <1>4, StepKinds


LEMMA RoomStep ==
    ASSUME TypeOK, TypeOK', InPhase, Room, [Next]_vars,
           InTurn(Unconfirmed, counter, pending)
    PROVE  Room'
  <1>1. pending \in Counters /\ pending \in Int /\ Width \in Nat
    BY WidthAssumption DEF TypeOK, Counters
  <1>2. CASE HandleConfirmation
    <2>1. pending' = pending - 1 /\ pending # 0
      BY <1>2, ConfirmationIsRight
    <2>2. pending' < Width - 1
      BY <1>1, <2>1 DEF Counters
    <2>3. QED
      BY <2>2 DEF Room, Answering
  <1>3. CASE Teleport
    BY <1>3 DEF Teleport, Room, Moved, Answering
  <1>4. CASE (\E p \in Places : SetPosition(p)) \/ SetVelocity
    BY <1>4 DEF SetPosition, SetVelocity, Room, Answering
  <1>5. CASE HandleMove
    BY <1>5 DEF HandleMove, Room, Moved, Answering
  <1>6. CASE HandleTurn
    BY <1>6 DEF HandleTurn, Room, Moved, Answering
  <1>7. CASE \/ HandleKeepalive \/ HandleAction \/ SendKeepalive \/ Acknowledge
             \/ ReceiveTeleport \/ ReceiveKeepalive \/ ReceiveAck
             \/ (\E p \in Places : ClientMove(p)) \/ ClientTurn \/ ClientAct
             \/ EndLoop \/ EndUpdate \/ EndTick \/ Elapse \/ UNCHANGED vars
    <2>1. UNCHANGED positionVars
      BY <1>7 DEF HandleKeepalive, HandleAction, SendKeepalive, Acknowledge, ReceiveTeleport,
                  ReceiveKeepalive, ReceiveAck, ClientMove, ClientTurn, ClientAct,
                  ClientSends, EndLoop, EndUpdate, EndTick, Elapse, vars
    <2>2. QED
      BY <2>1 DEF positionVars, Room, Moved, Answering
  <1>8. QED
    BY <1>2, <1>3, <1>4, <1>5, <1>6, <1>7, StepKinds DEF Quiet

-----------------------------------------------------------------------------
(***************************************************************************)
(* Keepalives.                                                             *)
(***************************************************************************)
LEMMA AskedSame ==
    ASSUME TypeOK, TypeOK', InPhase,
           ReceiveTeleport => clientPos' \in Places,
           \/ HandleConfirmation \/ HandleMove \/ HandleTurn \/ HandleAction
           \/ Teleport \/ Acknowledge \/ ReceiveTeleport \/ ReceiveAck
           \/ (\E p \in Places : ClientMove(p)) \/ ClientTurn \/ ClientAct
           \/ Quiet
    PROVE  Asked' = Asked /\ gotKeepalive' = gotKeepalive /\ keepaliveId' = keepaliveId
  <1>1. gotKeepalive' = gotKeepalive /\ keepaliveId' = keepaliveId
    BY DEF HandleConfirmation, HandleMove, HandleTurn, HandleAction, Teleport, Acknowledge,
           ReceiveTeleport, ReceiveAck, ClientMove, ClientTurn, ClientAct, ClientSends, Quiet,
           EndLoop, EndUpdate, EndTick, SetPosition, SetVelocity, Elapse, vars, keepaliveVars
  <1>2. CASE HandleConfirmation
    BY <1>1, <1>2, HandledConfirmation DEF HandleConfirmation
  <1>3. CASE HandleMove
    BY <1>1, <1>3, HandledMove DEF HandleMove
  <1>4. CASE HandleTurn
    BY <1>1, <1>4, HandledTurn DEF HandleTurn
  <1>5. CASE HandleAction
    BY <1>1, <1>5, HandledAction DEF HandleAction
  <1>6. CASE Teleport
    <2>1. CASE Moved \/ pushed
      BY <1>1, <1>6, <2>1, WroteTeleport
    <2>2. CASE ~(Moved \/ pushed)
      <3>1. toClient' = toClient /\ Line' = Line
        BY <1>6, <2>2, RunsLine DEF Teleport
      <3>2. QED
        BY <1>1, <3>1, NothingMoves
    <2>3. QED
      BY <2>1, <2>2
  <1>7. CASE Acknowledge
    <2>1. Line' = Line
      BY <1>7, RunsLine DEF Acknowledge
    <2>2. QED
      BY <1>1, <1>7, <2>1, AckOrNothing, WroteAck, NothingMoves
  <1>8. CASE ReceiveTeleport
    BY <1>1, <1>8, ReceivedTeleport
  <1>9. CASE ReceiveAck
    BY <1>1, <1>9, ReceivedAck
  <1>10. CASE \E p \in Places : ClientMove(p)
    BY <1>1, <1>10, SentMove
  <1>11. CASE ClientTurn
    BY <1>1, <1>11, SentTurn
  <1>12. CASE ClientAct
    BY <1>1, <1>12, SentAction
  <1>13. CASE Quiet
    BY <1>1, <1>13, QuietMovesNothing, NothingMoves
  <1>14. QED
    BY <1>2, <1>3, <1>4, <1>5, <1>6, <1>7, <1>8, <1>9, <1>10, <1>11, <1>12, <1>13

\* An answer is the one that the server waits for.
LEMMA AnswerIsRight ==
    ASSUME TypeOK, TypeOK', KeepalivesMatch, HandleKeepalive
    PROVE  gotKeepalive' = TRUE /\ removed' = removed /\ Len(Asked') = 0
  <1>1. Drops(Asked, Asked', Head(batch))
    BY HandledKeepalive DEF HandleKeepalive
  <1>2. Len(Asked') \in Nat
    BY UnconfirmedTypesNext, LenProperties
  <1>3. Len(Asked) = Len(Asked') + 1 /\ Asked[1] = Head(batch)
    BY <1>1 DEF Drops
  <1>4. ~gotKeepalive /\ Len(Asked') = 0 /\ Head(batch).id = keepaliveId
    BY <1>2, <1>3 DEF KeepalivesMatch
  <1>5. QED
    BY <1>4 DEF HandleKeepalive

LEMMA KeepalivesStep ==
    ASSUME TypeOK, TypeOK', InPhase, KeepalivesMatch, [Next]_vars,
           ReceiveTeleport => clientPos' \in Places
    PROVE  KeepalivesMatch'
  <1>1. CASE HandleKeepalive
    BY <1>1, AnswerIsRight DEF KeepalivesMatch
  <1>2. CASE ReceiveKeepalive
    <2>1. SameIds(Asked, Asked')
      BY <1>2, ReceivedKeepalive
    <2>2. gotKeepalive' = gotKeepalive /\ keepaliveId' = keepaliveId
      BY <1>2 DEF ReceiveKeepalive, keepaliveVars
    <2>3. QED
      BY <2>1, <2>2 DEF KeepalivesMatch, SameIds
  <1>3. CASE SendKeepalive
    <2>1. Line' = Line
      BY <1>3, RunsLine DEF SendKeepalive
    <2>2. CASE toClient' = toClient /\ UNCHANGED keepaliveVars
      BY <2>1, <2>2, NothingMoves DEF KeepalivesMatch, keepaliveVars
    <2>3. CASE /\ gotKeepalive /\ gotKeepalive' = FALSE
               /\ toClient' = Append(toClient, [type |-> "keepalive", id |-> keepaliveId'])
               /\ [type |-> "keepalive", id |-> keepaliveId'] \in Keepalives
      <3>1. Adds(Asked, Asked', [type |-> "keepalive", id |-> keepaliveId'])
        BY <2>1, <2>3, WroteKeepalive
      <3>2. Len(Asked) = 0
        BY <2>3 DEF KeepalivesMatch
      <3>3. Len(Asked') = 1 /\ Asked'[1].id = keepaliveId'
        BY <3>1, <3>2 DEF Adds
      <3>4. QED
        BY <2>3, <3>3 DEF KeepalivesMatch
    <2>4. QED
      BY <1>3, <2>2, <2>3, KeepaliveOrNothing
  <1>4. CASE \/ HandleConfirmation \/ HandleMove \/ HandleTurn \/ HandleAction
             \/ Teleport \/ Acknowledge \/ ReceiveTeleport \/ ReceiveAck
             \/ (\E p \in Places : ClientMove(p)) \/ ClientTurn \/ ClientAct
             \/ Quiet
    BY <1>4, AskedSame DEF KeepalivesMatch
  <1>5. QED
    BY <1>1, <1>2, <1>3, <1>4, StepKinds

\* Handling another packet leaves the answers in the batch.
LEMMA AnswersStay ==
    ASSUME TypeOK, NEW type, Handles(type), type # "keepalive"
    PROVE  Selected(batch', Keepalives) = Selected(batch, Keepalives)
  <1>1. Head(batch) \in ToServer /\ Head(batch).type # "keepalive"
    BY LineHandled
  <1>2. Head(batch) \notin Keepalives
    BY <1>1, KindsToServer
  <1>3. batch \in Seq(ToServer) /\ batch # <<>> /\ batch' = Tail(batch)
    BY LineType DEF Handles
  <1>4. QED
    BY <1>2, <1>3, SelectedDrops

LEMMA AnswersStep ==
    ASSUME TypeOK, TypeOK', KeepalivesMatch, AnswersWait, [Next]_vars
    PROVE  AnswersWait'
  <1>1. CASE HandleConfirmation \/ HandleMove \/ HandleTurn \/ HandleAction
    <2>1. PICK type : Handles(type) /\ type # "keepalive"
      BY <1>1 DEF HandleConfirmation, HandleMove, HandleTurn, HandleAction
    <2>2. gotKeepalive' = gotKeepalive
      BY <1>1 DEF HandleConfirmation, HandleMove, HandleTurn, HandleAction, keepaliveVars
    <2>3. phase' = phase /\ answered' = answered /\ todo' = todo
      BY <2>1 DEF Handles
    <2>4. QED
      BY <2>1, <2>2, <2>3, AnswersStay DEF AnswersWait
  <1>2. CASE HandleKeepalive
    BY <1>2, AnswerIsRight DEF AnswersWait
  <1>3. CASE SendKeepalive
    BY <1>3 DEF SendKeepalive, Runs, AnswersWait
  <1>4. CASE Teleport \/ Acknowledge
    BY <1>4 DEF Teleport, Acknowledge, Runs, keepaliveVars, AnswersWait
  <1>5. CASE EndTick
    BY <1>5 DEF EndTick, keepaliveVars, AnswersWait
  <1>6. CASE EndLoop \/ EndUpdate
    BY <1>6 DEF EndLoop, EndUpdate, keepaliveVars, AnswersWait
  <1>7. CASE \/ ReceiveTeleport \/ ReceiveKeepalive \/ ReceiveAck
             \/ (\E p \in Places : ClientMove(p)) \/ ClientTurn \/ ClientAct
             \/ (\E p \in Places : SetPosition(p)) \/ SetVelocity \/ Elapse
             \/ UNCHANGED vars
    <2>1. UNCHANGED tick /\ gotKeepalive' = gotKeepalive
      BY <1>7 DEF ReceiveTeleport, ReceiveKeepalive, ReceiveAck, ClientMove, ClientTurn,
                  ClientAct, ClientSends, SetPosition, SetVelocity, Elapse, vars,
                  keepaliveVars
    <2>2. QED
      BY <2>1 DEF tick, AnswersWait
  <1>8. QED
    BY <1>1, <1>2, <1>3, <1>4, <1>5, <1>6, <1>7, StepKinds DEF Quiet

\* A client that answers stays: what it sends is what the server expects, and
\* send_keepalive does not overtake an answer.
LEMMA PoliteStep ==
    ASSUME TypeOK, TypeOK', InPhase, InTurn(Unconfirmed, counter, pending),
           KeepalivesMatch, AnswersWait, removed = "no", [Next]_vars
    PROVE  PoliteStays'
  <1>1. CASE HandleConfirmation
    BY <1>1, ConfirmationIsRight DEF PoliteStays
  <1>2. CASE HandleKeepalive
    BY <1>2, AnswerIsRight DEF PoliteStays
  <1>3. CASE SendKeepalive
    <2>1. phase = "post" /\ "send_keepalive" \in todo /\ answered' = answered
      BY <1>3 DEF SendKeepalive, Runs
    <2>2. batch = <<>>
      BY <2>1 DEF InPhase
    <2>3. Selected(batch, Keepalives) = <<>>
      BY <2>2, SelectedEmpty
    <2>4. ~(answered /\ ~gotKeepalive)
      BY <2>1, <2>3 DEF AnswersWait
    <2>5. QED
      BY <1>3, <2>1, <2>4 DEF SendKeepalive, PoliteStays
  <1>4. CASE \/ HandleMove \/ HandleTurn \/ HandleAction \/ Teleport \/ Acknowledge
             \/ ReceiveTeleport \/ ReceiveKeepalive \/ ReceiveAck
             \/ (\E p \in Places : ClientMove(p)) \/ ClientTurn \/ ClientAct
             \/ Quiet
    <2>1. removed' = removed
      BY <1>4 DEF HandleMove, HandleTurn, HandleAction, Teleport, Acknowledge,
                  ReceiveTeleport, ReceiveKeepalive, ReceiveAck, ClientMove, ClientTurn,
                  ClientAct, ClientSends, Quiet, EndLoop, EndUpdate, EndTick, SetPosition,
                  SetVelocity, Elapse, vars
    <2>2. QED
      BY <2>1 DEF PoliteStays
  <1>5. QED
    BY <1>1, <1>2, <1>3, <1>4, StepKinds


-----------------------------------------------------------------------------
(***************************************************************************)
(* Positions.                                                              *)
(***************************************************************************)
LEMMA LastStays ==
    ASSUME NEW E, NEW q \in Seq(E), NEW r \in Seq(E), NEW x, Drops(q, r, x), Len(r) # 0
    PROVE  Len(q) # 0 /\ r[Len(r)] = q[Len(q)]
  <1>1. Len(r) \in Nat
    BY LenProperties
  <1>2. Len(q) = Len(r) + 1 /\ Len(r) \in 1..Len(r)
    BY <1>1 DEF Drops
  <1>3. QED
    BY <1>1, <1>2 DEF Drops

\* The relation with the sequences of the specification.
LEMMA NoneIsEmpty ==
    ASSUME TypeOK
    PROVE  /\ Coming = <<>> <=> Len(Coming) = 0
           /\ Placed = <<>> <=> Len(Placed) = 0
           /\ Steps = <<>> <=> Len(Steps) = 0
  BY UnconfirmedTypes, EmptySeq

LEMMA NoneIsEmptyNext ==
    ASSUME TypeOK'
    PROVE  /\ Coming' = <<>> <=> Len(Coming') = 0
           /\ Placed' = <<>> <=> Len(Placed') = 0
           /\ Steps' = <<>> <=> Len(Steps') = 0
  BY UnconfirmedTypesNext, EmptySeq

\* When nothing is pending, no teleport is on its way.
LEMMA NonePending ==
    ASSUME TypeOK, InTurn(Unconfirmed, counter, pending), pending = 0
    PROVE  Len(Coming) = 0 /\ Len(Placed) = 0
  <1> DEFINE q == Selected(Line, Confirmations)
  <1>1. q \in Seq(Packets) /\ Coming \in Seq(Packets)
    BY SelectionTypes DEF Coming
  <1>2. Unconfirmed = q \o Coming
    BY DEF Unconfirmed, Coming
  <1>3. Len(Unconfirmed) = 0
    BY DEF InTurn
  <1> HIDE DEF q
  <1>4. Len(q \o Coming) = Len(q) + Len(Coming) /\ Len(q) \in Nat /\ Len(Coming) \in Nat
    BY <1>1, ConcatProperties, LenProperties
  <1>5. Len(Coming) = 0
    BY <1>2, <1>3, <1>4
  <1>6. Positionings \subseteq Teleports
    BY DEF Positionings, Teleports
  <1>7. Len(Placed) = 0
    BY <1>5, <1>6, LineType, SelectedFewer DEF Coming, Placed
  <1>8. QED
    BY <1>5, <1>7

\* When something is pending, a confirmation or a teleport is under way.
LEMMA SomePending ==
    ASSUME TypeOK', InTurn(Unconfirmed', counter', pending'), pending' # 0,
           Len(Coming') = 0
    PROVE  Len(Steps') # 0
  <1> DEFINE q == Selected(Line', Confirmations)
  <1>1. q \in Seq(Packets) /\ Coming' \in Seq(Packets)
    BY SelectionTypesNext DEF Coming
  <1>2. Unconfirmed' = q \o Coming'
    BY DEF Unconfirmed, Coming
  <1>3. Len(Unconfirmed') # 0
    BY DEF InTurn
  <1> HIDE DEF q
  <1>4. Len(q \o Coming') = Len(q) + Len(Coming') /\ Len(q) \in Nat
    BY <1>1, ConcatProperties, LenProperties
  <1>5. Len(q) # 0
    BY <1>2, <1>3, <1>4
  <1>6. Line' \in Seq(ToServer)
    BY ConcatProperties DEF TypeOK, Line
  <1>7. Confirmations \subseteq Confirmations \cup Moves
    OBVIOUS
  <1>8. QED
    BY <1>5, <1>6, <1>7, SelectedFewer DEF Steps, q

\* What handling a packet and writing another leave alone.
LEMMA HandlesSame ==
    ASSUME TypeOK, NEW type, Handles(type)
    PROVE  /\ Coming' = Coming /\ Placed' = Placed /\ Acking' = Acking
           /\ clientPos' = clientPos /\ lastAction' = lastAction /\ lastAck' = lastAck
           /\ phase = "loop" /\ phase' = "loop"
  BY LineHandled, NothingComes DEF Handles, clientVars

LEMMA SendKeepaliveSame ==
    ASSUME TypeOK, TypeOK', SendKeepalive
    PROVE  /\ Unconfirmed' = Unconfirmed /\ Steps' = Steps /\ Acted' = Acted
           /\ Coming' = Coming /\ Placed' = Placed /\ Acking' = Acking
           /\ Line' = Line /\ clientPos' = clientPos /\ UNCHANGED positionVars
           /\ lastAction' = lastAction /\ lastAck' = lastAck
  <1>1. /\ Line' = Line /\ clientPos' = clientPos /\ UNCHANGED positionVars
        /\ lastAction' = lastAction /\ lastAck' = lastAck
    BY RunsLine DEF SendKeepalive, Runs, clientVars
  <1>2. QED
    BY <1>1, KeepaliveOrNothing, WroteKeepalive, NothingMoves

LEMMA AcknowledgeSame ==
    ASSUME TypeOK, Acknowledge
    PROVE  /\ Unconfirmed' = Unconfirmed /\ Steps' = Steps /\ Acted' = Acted
           /\ Coming' = Coming /\ Placed' = Placed
           /\ Line' = Line /\ clientPos' = clientPos /\ UNCHANGED positionVars
           /\ lastAction' = lastAction /\ lastAck' = lastAck
  <1>1. /\ Line' = Line /\ clientPos' = clientPos /\ UNCHANGED positionVars
        /\ lastAction' = lastAction /\ lastAck' = lastAck
    BY RunsLine DEF Acknowledge, Runs, clientVars
  <1>2. QED
    BY <1>1, AckOrNothing, WroteAck, NothingMoves

LEMMA QuietSame ==
    ASSUME TypeOK, InPhase, Quiet
    PROVE  /\ Unconfirmed' = Unconfirmed /\ Steps' = Steps /\ Acted' = Acted
           /\ Coming' = Coming /\ Placed' = Placed /\ Acking' = Acking
           /\ Line' = Line /\ clientPos' = clientPos /\ syncedPos' = syncedPos
           /\ lastAction' = lastAction /\ lastAck' = lastAck /\ sequence' = sequence
  <1>1. /\ clientPos' = clientPos /\ syncedPos' = syncedPos
        /\ lastAction' = lastAction /\ lastAck' = lastAck /\ sequence' = sequence
    BY DEF Quiet, EndLoop, EndUpdate, EndTick, SetPosition, SetVelocity, Elapse, vars,
           clientVars, positionVars
  <1>2. QED
    BY <1>1, QuietMovesNothing, NothingMoves

LEMMA TeleportSame ==
    ASSUME TypeOK, Teleport
    PROVE  /\ Line' = Line /\ clientPos' = clientPos /\ position' = position
           /\ lastAction' = lastAction /\ lastAck' = lastAck /\ sequence' = sequence
           /\ ~(Moved \/ pushed) => /\ Steps' = Steps /\ Acted' = Acted
                                    /\ Coming' = Coming /\ Placed' = Placed
                                    /\ Acking' = Acking /\ syncedPos' = syncedPos
           /\ Moved \/ pushed => syncedPos' = position
  <1>1. /\ Line' = Line /\ clientPos' = clientPos /\ position' = position
        /\ lastAction' = lastAction /\ lastAck' = lastAck /\ sequence' = sequence
        /\ Moved \/ pushed => syncedPos' = position
        /\ ~(Moved \/ pushed) => toClient' = toClient /\ syncedPos' = syncedPos
    BY RunsLine DEF Teleport, Runs, clientVars
  <1>2. QED
    BY <1>1, NothingMoves

LEMMA ClientSame ==
    ASSUME TypeOK, (\E p \in Places : ClientMove(p)) \/ ClientTurn \/ ClientAct
    PROVE  /\ Coming' = Coming /\ Placed' = Placed /\ Acking' = Acking
           /\ syncedPos' = syncedPos /\ position' = position /\ phase' = phase
           /\ todo' = todo /\ clientPos # Unknown /\ lastAck' = lastAck
           /\ sequence' = sequence
  <1>1. /\ toClient' = toClient
        /\ syncedPos' = syncedPos /\ position' = position /\ phase' = phase
        /\ todo' = todo /\ clientPos # Unknown /\ lastAck' = lastAck
        /\ sequence' = sequence
    BY DEF ClientMove, ClientTurn, ClientAct, ClientSends, positionVars, tick
  <1>2. QED
    BY <1>1, NothingComes

\* The first teleport puts the client somewhere.
LEMMA TeleportedSomewhere ==
    ASSUME TypeOK, Spawning, ReceiveTeleport
    PROVE  clientPos' \in Places /\ syncedPos # Unknown
  <1>1. /\ toClient # <<>> /\ Head(toClient).type = "teleport" /\ toClient' = Tail(toClient)
        /\ clientPos' = IF Head(toClient).pos = Unknown THEN clientPos ELSE Head(toClient).pos
    BY DEF ReceiveTeleport
  <1>2. Head(toClient) \in Teleports
    BY <1>1, SelectedReceived, KindsToClient
  <1>3. Drops(Coming, Coming', Head(toClient))
    BY <1>1, <1>2, SelectedReceived DEF Coming
  <1>4. Len(Coming) \in Nat /\ Len(Coming) = Len(Coming') + 1 /\ Coming[1] = Head(toClient)
    BY <1>3, UnconfirmedTypes, LenProperties DEF Drops
  <1>5. Len(Coming') \in Nat
    <2>1. toClient \in Seq(ToClient)
      BY LineType
    <2>2. toClient' \in Seq(ToClient)
      BY <1>1, <2>1, HeadTailProperties
    <2>3. QED
      BY <2>2, SelectedType, LenProperties DEF Coming
  <1>6. Coming # <<>> /\ Head(Coming) = Head(toClient)
    BY <1>4, <1>5, NoneIsEmpty
  <1>7. clientPos = Unknown => Head(toClient).pos \in Places
    BY <1>6 DEF Spawning, Coming, Positionings
  <1>8. clientPos' \in Places
    BY <1>1, <1>2, <1>7, PlacesAssumption DEF Teleports, TypeOK
  <1>9. QED
    BY <1>6, <1>8 DEF Spawning, Coming

Prevails == Placed # <<>> => syncedPos = Placed[Len(Placed)].pos

LEMMA PrevailsStep ==
    ASSUME TypeOK, TypeOK', InPhase, InTurn(Unconfirmed, counter, pending), Spawning,
           Prevails, [Next]_vars
    PROVE  Prevails'
  <1>1. CASE HandleConfirmation \/ HandleKeepalive \/ HandleAction
    <2>1. syncedPos' = syncedPos
      BY <1>1 DEF HandleConfirmation, HandleKeepalive, HandleAction, positionVars
    <2>2. Placed' = Placed
      BY <1>1, HandlesSame DEF HandleConfirmation, HandleKeepalive, HandleAction
    <2>3. QED
      BY <2>1, <2>2 DEF Prevails
  <1>2. CASE HandleMove \/ HandleTurn
    <2>1. Placed' = Placed
      BY <1>2, HandlesSame DEF HandleMove, HandleTurn
    <2>2. CASE pending = 0
      BY <2>1, <2>2, NonePending, NoneIsEmpty DEF Prevails
    <2>3. CASE pending # 0
      <3>1. syncedPos' = syncedPos
        BY <1>2, <2>3 DEF HandleMove, HandleTurn, AcceptsMovement
      <3>2. QED
        BY <2>1, <3>1 DEF Prevails
    <2>4. QED
      BY <2>2, <2>3
  <1>3. CASE Teleport
    <2>1. CASE Moved
      <3>1. Adds(Placed, Placed', TeleportPacket) /\ TeleportPacket.pos = position
        BY <1>3, <2>1, WroteTeleport DEF TeleportPacket
      <3>2. Placed'[Len(Placed')].pos = position
        BY <3>1 DEF Adds
      <3>3. QED
        BY <1>3, <2>1, <3>2, TeleportSame DEF Prevails
    <2>2. CASE ~Moved /\ pushed
      <3>1. Placed' = Placed /\ syncedPos' = syncedPos
        BY <1>3, <2>2, WroteTeleport, TeleportSame DEF Moved
      <3>2. QED
        BY <3>1 DEF Prevails
    <2>3. CASE ~(Moved \/ pushed)
      BY <1>3, <2>3, TeleportSame DEF Prevails
    <2>4. QED
      BY <2>1, <2>2, <2>3
  <1>4. CASE ReceiveTeleport
    <2>1. syncedPos' = syncedPos
      BY <1>4 DEF ReceiveTeleport, positionVars
    <2>2. Drops(Placed, Placed', Head(toClient)) \/ Placed' = Placed
      BY <1>4, TeleportedSomewhere, ReceivedTeleport
    <2>3. CASE Drops(Placed, Placed', Head(toClient)) /\ Placed' # <<>>
      <3>1. Len(Placed) # 0 /\ Placed'[Len(Placed')] = Placed[Len(Placed)]
        BY <2>3, NoneIsEmptyNext, UnconfirmedTypes, UnconfirmedTypesNext, LastStays
      <3>2. QED
        BY <2>1, <3>1, NoneIsEmpty DEF Prevails
    <2>4. QED
      BY <2>1, <2>2, <2>3 DEF Prevails
  <1>5. CASE ReceiveKeepalive
    BY <1>5, ReceivedKeepalive DEF ReceiveKeepalive, positionVars, Prevails
  <1>6. CASE ReceiveAck
    BY <1>6, ReceivedAck DEF ReceiveAck, positionVars, Prevails
  <1>7. CASE (\E p \in Places : ClientMove(p)) \/ ClientTurn \/ ClientAct
    BY <1>7, ClientSame DEF Prevails
  <1>8. CASE SendKeepalive
    BY <1>8, SendKeepaliveSame DEF positionVars, Prevails
  <1>9. CASE Acknowledge
    BY <1>9, AcknowledgeSame DEF positionVars, Prevails
  <1>10. CASE Quiet
    BY <1>10, QuietSame DEF Prevails
  <1>11. QED
    BY <1>1, <1>2, <1>3, <1>4, <1>5, <1>6, <1>7, <1>8, <1>9, <1>10, StepKinds


\* Spawning, with its two halves named.
OnlyAnswers(line) == \A i \in 1..Len(line) : line[i] \in Keepalives

Nowhere ==
    /\ OnlyAnswers(Line)
    /\ Coming = <<>> => syncedPos = Unknown
    /\ Coming # <<>> => Coming[1] \in Positionings

LEMMA SpawningHalves ==
    Spawning <=> /\ syncedPos = Unknown => clientPos = Unknown /\ Coming = <<>>
                 /\ clientPos = Unknown => Nowhere
  BY DEF Spawning, Coming, Nowhere, OnlyAnswers

\* A client that is nowhere has sent nothing but answers to keepalives.
LEMMA NowhereHandles ==
    ASSUME TypeOK, NEW type, Handles(type), OnlyAnswers(Line)
    PROVE  type = "keepalive" /\ OnlyAnswers(Line')
  <1>1. /\ Line \in Seq(ToServer) /\ Line # <<>> /\ Line' = Tail(Line)
        /\ Head(Line) = Head(batch) /\ Head(batch).type = type
    BY LineType, LineHandled
  <1>2. /\ Head(Line) = Line[1] /\ Len(Line) \in Nat \ {0} /\ Len(Line') = Len(Line) - 1
        /\ \A i \in 1..Len(Line') : Line'[i] = Line[i + 1]
    BY <1>1, HeadTailProperties, EmptySeq, LenProperties
  <1>3. Line[1] \in Keepalives
    BY <1>2 DEF OnlyAnswers
  <1>4. type = "keepalive"
    BY <1>1, <1>2, <1>3 DEF Keepalives
  <1>5. ASSUME NEW i \in 1..Len(Line') PROVE Line'[i] \in Keepalives
    <2>1. i + 1 \in 1..Len(Line)
      BY <1>2
    <2>2. QED
      BY <1>2, <2>1 DEF OnlyAnswers
  <1>6. QED
    BY <1>4, <1>5 DEF OnlyAnswers

LEMMA SpawningStep ==
    ASSUME TypeOK, TypeOK', InPhase, Spawning, [Next]_vars
    PROVE  Spawning'
  <1>1. /\ syncedPos = Unknown => clientPos = Unknown /\ Coming = <<>>
        /\ clientPos = Unknown => Nowhere
    BY SpawningHalves
  <1> DEFINE Goal == /\ syncedPos' = Unknown => clientPos' = Unknown /\ Coming' = <<>>
                     /\ clientPos' = Unknown => Nowhere'
  <1> SUFFICES Goal
    BY DEF Spawning, Coming, Nowhere, OnlyAnswers
  <1>2. CASE HandleConfirmation \/ HandleMove \/ HandleTurn \/ HandleAction
    <2>1. PICK type : Handles(type) /\ type # "keepalive"
      BY <1>2 DEF HandleConfirmation, HandleMove, HandleTurn, HandleAction
    <2>2. clientPos # Unknown /\ clientPos' = clientPos
      BY <1>1, <2>1, NowhereHandles, HandlesSame DEF Nowhere
    <2>3. syncedPos' = syncedPos \/ syncedPos' \in Places
      <3>1. CASE HandleMove
        <4>1. Head(batch) \in Moves
          BY <3>1, HandledMove DEF HandleMove
        <4>2. QED
          BY <3>1, <4>1 DEF HandleMove, Moves
      <3>2. CASE HandleTurn
        BY <3>2 DEF HandleTurn, TypeOK
      <3>3. CASE HandleConfirmation \/ HandleAction
        BY <3>3 DEF HandleConfirmation, HandleAction, positionVars
      <3>4. QED
        BY <1>2, <3>1, <3>2, <3>3
    <2>4. QED
      BY <1>1, <2>2, <2>3, PlacesAssumption
  <1>3. CASE HandleKeepalive
    <2>1. Handles("keepalive") /\ syncedPos' = syncedPos
      BY <1>3 DEF HandleKeepalive, positionVars
    <2>2. clientPos' = clientPos /\ Coming' = Coming
      BY <2>1, HandlesSame
    <2>3. OnlyAnswers(Line) => OnlyAnswers(Line')
      BY <2>1, NowhereHandles
    <2>4. QED
      BY <1>1, <2>1, <2>2, <2>3 DEF Nowhere
  <1>4. CASE Teleport
    <2>1. /\ Line' = Line /\ clientPos' = clientPos
          /\ Moved \/ pushed => syncedPos' = position
      BY <1>4, TeleportSame
    <2>2. CASE Moved \/ pushed
      <3>1. Adds(Coming, Coming', TeleportPacket) /\ (Moved => TeleportPacket \in Positionings)
        BY <1>4, <2>2, WroteTeleport
      <3>2. Len(Coming) \in Nat
        BY UnconfirmedTypes, LenProperties
      <3>3. Coming' # <<>>
        BY <3>1, <3>2, NoneIsEmptyNext DEF Adds
      <3>4. syncedPos' # Unknown
        BY <2>1, <2>2, PlacesAssumption DEF TypeOK
      <3>5. ASSUME clientPos = Unknown PROVE Coming'[1] \in Positionings
        <4>1. CASE Coming = <<>>
          <5>1. Moved
            BY <1>1, <3>5, <4>1, PlacesAssumption DEF Nowhere, Moved, TypeOK
          <5>2. Len(Coming) = 0 /\ Coming'[Len(Coming) + 1] = TeleportPacket
            BY <3>1, <4>1, NoneIsEmpty DEF Adds
          <5>3. Coming'[1] = TeleportPacket
            BY <5>2
          <5>4. QED
            BY <3>1, <5>1, <5>3
        <4>2. CASE Coming # <<>>
          <5>1. 1 \in 1..Len(Coming)
            BY <3>2, <4>2, NoneIsEmpty
          <5>2. Coming'[1] = Coming[1]
            BY <3>1, <5>1 DEF Adds
          <5>3. QED
            BY <1>1, <3>5, <4>2, <5>2 DEF Nowhere
        <4>3. QED
          BY <4>1, <4>2
      <3>6. QED
        BY <1>1, <2>1, <3>3, <3>4, <3>5 DEF Nowhere
    <2>3. CASE ~(Moved \/ pushed)
      <3>1. Coming' = Coming /\ syncedPos' = syncedPos
        BY <1>4, <2>3, TeleportSame
      <3>2. QED
        BY <1>1, <2>1, <3>1 DEF Nowhere
    <2>4. QED
      BY <2>2, <2>3
  <1>5. CASE ReceiveTeleport
    <2>1. syncedPos' = syncedPos
      BY <1>5 DEF ReceiveTeleport, positionVars
    <2>2. clientPos' # Unknown /\ syncedPos # Unknown
      BY <1>5, TeleportedSomewhere, PlacesAssumption
    <2>3. QED
      BY <2>1, <2>2
  <1>6. CASE ReceiveKeepalive
    <2>1. /\ Coming' = Coming /\ clientPos' = clientPos /\ syncedPos' = syncedPos
          /\ Line' = Append(Line, Head(toClient)) /\ Head(toClient) \in Keepalives
      BY <1>6, ReceivedKeepalive DEF ReceiveKeepalive, clientVars, positionVars
    <2>2. OnlyAnswers(Line) => OnlyAnswers(Line')
      <3>1. Line \in Seq(ToServer) /\ Head(toClient) \in ToServer
        BY <2>1, LineType, KeepalivesBothWays
      <3>2. /\ Len(Line') = Len(Line) + 1 /\ Len(Line) \in Nat
            /\ Line'[Len(Line) + 1] = Head(toClient)
            /\ \A i \in 1..Len(Line) : Line'[i] = Line[i]
        BY <2>1, <3>1, AppendProperties, LenProperties
      <3>3. QED
        BY <2>1, <3>2 DEF OnlyAnswers
    <2>3. QED
      BY <1>1, <2>1, <2>2 DEF Nowhere
  <1>7. CASE ReceiveAck
    <2>1. Coming' = Coming /\ clientPos' = clientPos /\ syncedPos' = syncedPos /\ Line' = Line
      BY <1>7, ReceivedAck DEF ReceiveAck, positionVars
    <2>2. QED
      BY <1>1, <2>1 DEF Nowhere
  <1>8. CASE (\E p \in Places : ClientMove(p)) \/ ClientTurn \/ ClientAct
    <2>1. clientPos' # Unknown
      BY <1>8, ClientSame, PlacesAssumption DEF ClientMove, ClientTurn, ClientAct
    <2>2. QED
      BY <1>1, <1>8, <2>1, ClientSame
  <1>9. CASE SendKeepalive \/ Acknowledge
    <2>1. Coming' = Coming /\ clientPos' = clientPos /\ syncedPos' = syncedPos /\ Line' = Line
      BY <1>9, SendKeepaliveSame, AcknowledgeSame DEF positionVars
    <2>2. QED
      BY <1>1, <2>1 DEF Nowhere
  <1>10. CASE Quiet
    <2>1. Coming' = Coming /\ clientPos' = clientPos /\ syncedPos' = syncedPos /\ Line' = Line
      BY <1>10, QuietSame
    <2>2. QED
      BY <1>1, <2>1 DEF Nowhere
  <1>11. QED
    BY <1>2, <1>3, <1>4, <1>5, <1>6, <1>7, <1>8, <1>9, <1>10, StepKinds

LEMMA StepsEndStep ==
    ASSUME TypeOK, TypeOK', InPhase, Spawning, StepsEndHere, [Next]_vars
    PROVE  StepsEndHere'
  <1>1. CASE HandleConfirmation \/ HandleMove
    <2>1. Drops(Steps, Steps', Head(batch)) /\ clientPos' = clientPos
      BY <1>1, HandledConfirmation, HandledMove, HandlesSame DEF HandleConfirmation, HandleMove
    <2>2. CASE Steps' # <<>>
      <3>1. Len(Steps) # 0 /\ Steps'[Len(Steps')] = Steps[Len(Steps)]
        BY <2>1, <2>2, NoneIsEmptyNext, UnconfirmedTypes, UnconfirmedTypesNext, LastStays
      <3>2. QED
        BY <2>1, <3>1, NoneIsEmpty DEF StepsEndHere
    <2>3. QED
      BY <2>2 DEF StepsEndHere
  <1>2. CASE ReceiveTeleport
    BY <1>2, TeleportedSomewhere, ReceivedTeleport DEF StepsEndHere
  <1>3. ASSUME NEW p \in Places, ClientMove(p) PROVE StepsEndHere'
    <2>1. Adds(Steps, Steps', [type |-> "move", pos |-> p]) /\ clientPos' = p
      BY <1>3, SentMove DEF ClientMove
    <2>2. QED
      BY <2>1 DEF StepsEndHere, Adds
  <1>4. CASE ~(HandleConfirmation \/ HandleMove \/ ReceiveTeleport)
             /\ ~\E p \in Places : ClientMove(p)
    <2>1. CASE HandleTurn \/ HandleKeepalive \/ HandleAction
      BY <2>1, HandledTurn, HandledKeepalive, HandledAction, HandlesSame
      DEF HandleTurn, HandleKeepalive, HandleAction, StepsEndHere
    <2>2. CASE Teleport
      BY <2>2, WroteTeleport, TeleportSame DEF StepsEndHere
    <2>3. CASE SendKeepalive \/ Acknowledge
      BY <2>3, SendKeepaliveSame, AcknowledgeSame DEF StepsEndHere
    <2>4. CASE ReceiveKeepalive \/ ReceiveAck
      BY <2>4, ReceivedKeepalive, ReceivedAck
      DEF ReceiveKeepalive, ReceiveAck, clientVars, StepsEndHere
    <2>5. CASE ClientTurn \/ ClientAct
      BY <2>5, SentTurn, SentAction DEF ClientTurn, ClientAct, StepsEndHere
    <2>6. CASE Quiet
      BY <2>6, QuietSame DEF StepsEndHere
    <2>7. QED
      BY <1>4, <2>1, <2>2, <2>3, <2>4, <2>5, <2>6, StepKinds
  <1>5. QED
    BY <1>1, <1>2, <1>3, <1>4


LEMMA SyncedStep ==
    ASSUME TypeOK, TypeOK', Synced, [Next]_vars
    PROVE  Synced'
  <1> SUFFICES ASSUME ~MoveEarly
               PROVE  /\ phase' = "loop" => position' = syncedPos' \/ syncedPos' = Unknown
                      /\ phase' = "post" /\ "teleport" \notin todo' => position' = syncedPos'
    BY DEF Synced
  <1>1. /\ phase = "loop" => position = syncedPos \/ syncedPos = Unknown
        /\ phase = "post" /\ "teleport" \notin todo => position = syncedPos
    BY DEF Synced
  <1>2. CASE \/ HandleConfirmation \/ HandleMove \/ HandleTurn \/ HandleKeepalive
             \/ HandleAction
    <2>1. phase = "loop" /\ phase' = "loop"
      BY <1>2 DEF HandleConfirmation, HandleMove, HandleTurn, HandleKeepalive, HandleAction,
                  Handles
    <2>2. \/ position' = syncedPos'
          \/ position' = position /\ syncedPos' = syncedPos
      BY <1>2 DEF HandleConfirmation, HandleMove, HandleTurn, HandleKeepalive, HandleAction,
                  positionVars
    <2>3. QED
      BY <1>1, <2>1, <2>2
  <1>3. CASE Teleport
    <2>1. phase' = "post"
      BY <1>3 DEF Teleport, Runs
    <2>2. position' = syncedPos'
      BY <1>3 DEF Teleport, Moved
    <2>3. QED
      BY <2>1, <2>2
  <1>4. CASE SendKeepalive \/ Acknowledge
    BY <1>1, <1>4 DEF SendKeepalive, Acknowledge, Runs, positionVars
  <1>5. CASE EndLoop \/ EndUpdate \/ EndTick
    BY <1>1, <1>5 DEF EndLoop, EndUpdate, EndTick, positionVars, Systems
  <1>6. CASE (\E p \in Places : SetPosition(p)) \/ SetVelocity
    BY <1>6 DEF SetPosition, SetVelocity, tick
  <1>7. CASE \/ ReceiveTeleport \/ ReceiveKeepalive \/ ReceiveAck
             \/ (\E p \in Places : ClientMove(p)) \/ ClientTurn \/ ClientAct
             \/ Elapse \/ UNCHANGED vars
    <2>1. UNCHANGED positionVars /\ UNCHANGED tick
      BY <1>7 DEF ReceiveTeleport, ReceiveKeepalive, ReceiveAck, ClientMove, ClientTurn,
                  ClientAct, ClientSends, Elapse, vars
    <2>2. QED
      BY <1>1, <2>1 DEF positionVars, tick
  <1>8. QED
    BY <1>2, <1>3, <1>4, <1>5, <1>6, <1>7, StepKinds DEF Quiet

LEMMA SyncedHereStep ==
    ASSUME TypeOK, TypeOK', InPhase, InTurn(Unconfirmed', counter', pending'), Spawning,
           StepsEndHere, SyncedHere, Synced, [Next]_vars
    PROVE  SyncedHere'
  <1> SUFFICES ASSUME ~MoveEarly, Steps' = <<>>, Coming' = <<>>, clientPos' # Unknown
               PROVE  syncedPos' = clientPos'
    BY DEF SyncedHere, Coming
  <1>1. Steps = <<>> /\ Coming = <<>> /\ clientPos # Unknown => syncedPos = clientPos
    BY DEF SyncedHere, Coming
  <1>2. ASSUME Drops(Steps, Steps', Head(batch))
        PROVE  Head(batch) = [type |-> "move", pos |-> clientPos]
    <2>1. Len(Steps) = 1 /\ Steps[1] = Head(batch)
      BY <1>2, NoneIsEmptyNext DEF Drops
    <2>2. QED
      BY <2>1, NoneIsEmpty DEF StepsEndHere
  <1>3. CASE HandleConfirmation
    <2>1. Drops(Steps, Steps', Head(batch)) /\ Head(batch) \in Confirmations
      BY <1>3, HandledConfirmation DEF HandleConfirmation
    <2>2. QED
      BY <1>2, <2>1 DEF Confirmations
  <1>4. CASE HandleMove
    <2>1. Drops(Steps, Steps', Head(batch)) /\ clientPos' = clientPos
      BY <1>4, HandledMove, HandlesSame DEF HandleMove
    <2>2. Head(batch).pos = clientPos
      BY <1>2, <2>1
    <2>3. pending' = pending
      BY <1>4 DEF HandleMove
    <2>4. pending = 0
      BY <2>3, NoneIsEmptyNext, SomePending
    <2>5. QED
      BY <1>4, <2>1, <2>2, <2>4 DEF HandleMove, AcceptsMovement
  <1>5. CASE HandleTurn
    <2>1. /\ Steps' = Steps /\ Coming' = Coming /\ clientPos' = clientPos /\ phase = "loop"
          /\ syncedPos' = position \/ syncedPos' = syncedPos
      BY <1>5, HandledTurn, HandlesSame DEF HandleTurn
    <2>2. syncedPos = clientPos
      BY <1>1, <2>1
    <2>3. position = syncedPos
      BY <2>1, <2>2 DEF Synced
    <2>4. QED
      BY <2>1, <2>2, <2>3
  <1>6. CASE HandleKeepalive \/ HandleAction
    <2>1. Steps' = Steps /\ Coming' = Coming /\ clientPos' = clientPos /\ syncedPos' = syncedPos
      BY <1>6, HandledKeepalive, HandledAction, HandlesSame
      DEF HandleKeepalive, HandleAction, positionVars
    <2>2. QED
      BY <1>1, <2>1
  <1>7. CASE Teleport
    <2>1. CASE Moved \/ pushed
      <3>1. Adds(Coming, Coming', TeleportPacket)
        BY <1>7, <2>1, WroteTeleport
      <3>2. Len(Coming) \in Nat
        BY UnconfirmedTypes, LenProperties
      <3>3. Coming' # <<>>
        BY <3>1, <3>2, NoneIsEmptyNext DEF Adds
      <3>4. QED
        BY <3>3
    <2>2. CASE ~(Moved \/ pushed)
      BY <1>1, <1>7, <2>2, TeleportSame
    <2>3. QED
      BY <2>1, <2>2
  <1>8. CASE ReceiveTeleport
    BY <1>8, TeleportedSomewhere, ReceivedTeleport, NoneIsEmptyNext
  <1>9. ASSUME NEW p \in Places, ClientMove(p) PROVE FALSE
    <2>1. Adds(Steps, Steps', [type |-> "move", pos |-> p])
      BY <1>9, SentMove
    <2>2. Len(Steps) \in Nat
      BY UnconfirmedTypes, LenProperties
    <2>3. QED
      BY <2>1, <2>2, NoneIsEmptyNext DEF Adds
  <1>10. CASE ReceiveKeepalive \/ ReceiveAck
    BY <1>1, <1>10, ReceivedKeepalive, ReceivedAck
    DEF ReceiveKeepalive, ReceiveAck, clientVars, positionVars
  <1>11. CASE ClientTurn \/ ClientAct
    BY <1>1, <1>11, SentTurn, SentAction, ClientSame DEF ClientTurn, ClientAct
  <1>12. CASE SendKeepalive \/ Acknowledge
    BY <1>1, <1>12, SendKeepaliveSame, AcknowledgeSame DEF positionVars
  <1>13. CASE Quiet
    BY <1>1, <1>13, QuietSame
  <1>14. QED
    BY <1>3, <1>4, <1>5, <1>6, <1>7, <1>8, <1>9, <1>10, <1>11, <1>12, <1>13, StepKinds

-----------------------------------------------------------------------------
(***************************************************************************)
(* Actions.                                                                *)
(***************************************************************************)
Accounted(all, last) ==
    /\ \A i, j \in 1..Len(all) : i < j => all[i].seq < all[j].seq
    /\ all[Len(all)].seq = last

\* Where the parts of the chain are.
Layout(all, a, q, g, r) ==
    LET h == IF g = 0 THEN 0 ELSE 1
    IN /\ Len(all) = 1 + Len(q) + h + Len(r)
       /\ all[1].seq = a
       /\ \A i \in 1..Len(q) : all[1 + i] = q[i]
       /\ g # 0 => all[1 + Len(q) + 1].seq = g
       /\ \A i \in 1..Len(r) : all[1 + Len(q) + h + i] = r[i]

LEMMA ChainLayout ==
    ASSUME NEW E, NEW q \in Seq(E), NEW r \in Seq(E), NEW a, NEW g,
           [type |-> "ack", seq |-> a] \in E, [type |-> "ack", seq |-> g] \in E
    PROVE  Layout(Chain(a, q, g, r), a, q, g, r)
  <1> DEFINE x == [type |-> "ack", seq |-> a]
             y == [type |-> "ack", seq |-> g]
             one == <<x>>
             none == <<>>
             mid == IF g = 0 THEN none ELSE <<y>>
             h == IF g = 0 THEN 0 ELSE 1
             oq == one \o q
             om == oq \o mid
             all == om \o r
  <1>1. /\ one \in Seq(E) /\ Len(one) = 1 /\ one[1].seq = a
        /\ mid \in Seq(E) /\ Len(mid) = h /\ (g # 0 => mid[1].seq = g)
        /\ h \in {0, 1} /\ (g # 0 => h = 1)
    OBVIOUS
  <1>2. Chain(a, q, g, r) = all
    BY DEF Chain
  <1> HIDE DEF one, mid, h
  <1>3. /\ oq \in Seq(E) /\ Len(oq) = Len(one) + Len(q)
        /\ \A i \in 1..(Len(one) + Len(q)) :
               oq[i] = IF i <= Len(one) THEN one[i] ELSE q[i - Len(one)]
    BY <1>1, ConcatProperties
  <1> HIDE DEF oq
  <1>4. /\ om \in Seq(E) /\ Len(om) = Len(oq) + Len(mid)
        /\ \A i \in 1..(Len(oq) + Len(mid)) :
               om[i] = IF i <= Len(oq) THEN oq[i] ELSE mid[i - Len(oq)]
    BY <1>1, <1>3, ConcatProperties
  <1> HIDE DEF om
  <1>5. /\ Len(all) = Len(om) + Len(r)
        /\ \A i \in 1..(Len(om) + Len(r)) :
               all[i] = IF i <= Len(om) THEN om[i] ELSE r[i - Len(om)]
    <2>1. om \in Seq(E)
      BY <1>4
    <2>2. QED
      BY <2>1, ConcatProperties
  <1>6. Len(q) \in Nat /\ Len(r) \in Nat
    BY LenProperties
  <1> HIDE DEF all
  <1>7. /\ Len(oq) = 1 + Len(q) /\ Len(om) = 1 + Len(q) + h
        /\ Len(all) = 1 + Len(q) + h + Len(r)
    BY <1>1, <1>3, <1>4, <1>5, <1>6
  <1>8. all[1].seq = a
    <2>1. oq[1] = one[1] /\ om[1] = oq[1] /\ all[1] = om[1]
      BY <1>1, <1>3, <1>4, <1>5, <1>6, <1>7
    <2>2. QED
      BY <1>1, <2>1
  <1>9. ASSUME NEW i \in 1..Len(q) PROVE all[1 + i] = q[i]
    <2>1. /\ 1 + i \in 1..(Len(om) + Len(r)) /\ 1 + i <= Len(om)
          /\ 1 + i \in 1..(Len(oq) + Len(mid)) /\ 1 + i <= Len(oq)
          /\ 1 + i \in 1..(Len(one) + Len(q)) /\ ~(1 + i <= Len(one))
          /\ (1 + i) - Len(one) = i
      BY <1>1, <1>6, <1>7
    <2>2. all[1 + i] = om[1 + i] /\ om[1 + i] = oq[1 + i]
      BY <1>4, <1>5, <2>1
    <2>3. oq[1 + i] = q[(1 + i) - Len(one)]
      BY <1>3, <2>1
    <2>4. QED
      BY <2>1, <2>2, <2>3
  <1>10. ASSUME g # 0 PROVE all[1 + Len(q) + 1].seq = g
    <2> DEFINE k == 1 + Len(q) + 1
    <2>1. h = 1
      BY <1>1, <1>10
    <2>2. /\ k \in 1..(Len(om) + Len(r)) /\ k <= Len(om)
          /\ k \in 1..(Len(oq) + Len(mid)) /\ ~(k <= Len(oq)) /\ k - Len(oq) = 1
      BY <1>1, <1>6, <1>7, <2>1
    <2> HIDE DEF k
    <2>3. all[k] = om[k] /\ om[k] = mid[k - Len(oq)]
      BY <1>4, <1>5, <2>2
    <2>4. all[k].seq = g
      BY <1>1, <1>10, <2>2, <2>3
    <2>5. QED
      BY <2>4 DEF k
  <1>11. ASSUME NEW i \in 1..Len(r) PROVE all[1 + Len(q) + h + i] = r[i]
    <2> DEFINE k == 1 + Len(q) + h + i
    <2>1. k \in 1..(Len(om) + Len(r)) /\ ~(k <= Len(om)) /\ k - Len(om) = i
      BY <1>1, <1>6, <1>7
    <2> HIDE DEF k
    <2>2. all[k] = r[k - Len(om)]
      BY <1>5, <2>1
    <2>3. QED
      BY <2>1, <2>2 DEF k
  <1>12. Layout(all, a, q, g, r)
    BY <1>7, <1>8, <1>9, <1>10, <1>11 DEF Layout, h
  <1>13. QED
    BY <1>2, <1>12


\* The chain keeps its numbers, or loses one before the last, or gets one more.
Renumbered(all, new) ==
    Len(new) = Len(all) /\ \A i \in 1..Len(all) : new[i].seq = all[i].seq

Without(all, new, k) ==
    /\ Len(all) = Len(new) + 1
    /\ \A i \in 1..Len(new) : new[i].seq = IF i < k THEN all[i].seq ELSE all[i + 1].seq

LEMMA AccountedRenumbered ==
    ASSUME NEW all, NEW new, NEW last, Len(all) \in Nat \ {0},
           Accounted(all, last), Renumbered(all, new)
    PROVE  Accounted(new, last)
  BY DEF Accounted, Renumbered

LEMMA AccountedWithout ==
    ASSUME NEW all, NEW new, NEW last, NEW k, Len(new) \in Nat, k \in 1..Len(new),
           Accounted(all, last), Without(all, new, k)
    PROVE  Accounted(new, last)
  <1>1. /\ Len(all) = Len(new) + 1
        /\ \A i \in 1..Len(new) : new[i].seq = IF i < k THEN all[i].seq ELSE all[i + 1].seq
    BY DEF Without
  <1>2. ASSUME NEW i \in 1..Len(new), NEW j \in 1..Len(new), i < j
        PROVE  new[i].seq < new[j].seq
    <2> DEFINE old(n) == IF n < k THEN n ELSE n + 1
    <2>1. old(i) \in 1..Len(all) /\ old(j) \in 1..Len(all) /\ old(i) < old(j)
      BY <1>1, <1>2
    <2>2. new[i].seq = all[old(i)].seq /\ new[j].seq = all[old(j)].seq
      BY <1>1
    <2> HIDE DEF old
    <2>3. all[old(i)].seq < all[old(j)].seq
      BY <2>1 DEF Accounted
    <2>4. QED
      BY <2>2, <2>3
  <1>3. new[Len(new)].seq = all[Len(all)].seq
    <2>1. Len(new) \in 1..Len(new) /\ ~(Len(new) < k)
      BY DEF Accounted
    <2>2. QED
      BY <1>1, <2>1
  <1>4. QED
    BY <1>2, <1>3 DEF Accounted

LEMMA AccountedOneMore ==
    ASSUME NEW all, NEW new, NEW last \in Nat, Len(all) \in Nat \ {0},
           \A i \in 1..Len(all) : all[i].seq \in Nat,
           Accounted(all, last),
           Len(new) = Len(all) + 1,
           \A i \in 1..Len(all) : new[i].seq = all[i].seq,
           new[Len(all) + 1].seq = last + 1
    PROVE  Accounted(new, last + 1)
  <1>1. ASSUME NEW i \in 1..Len(all) PROVE all[i].seq < last + 1
    <2>1. CASE i = Len(all)
      BY <2>1 DEF Accounted
    <2>2. CASE i # Len(all)
      <3>1. i < Len(all) /\ Len(all) \in 1..Len(all)
        BY <2>2
      <3>2. all[i].seq < all[Len(all)].seq /\ all[Len(all)].seq = last
        BY <3>1 DEF Accounted
      <3>3. all[i].seq \in Nat
        OBVIOUS
      <3>4. QED
        BY <3>2, <3>3
    <2>3. QED
      BY <2>1, <2>2
  <1>2. ASSUME NEW i \in 1..Len(new), NEW j \in 1..Len(new), i < j
        PROVE  new[i].seq < new[j].seq
    <2>1. i \in 1..Len(all)
      BY <1>2
    <2>2. CASE j = Len(all) + 1
      BY <1>1, <2>1, <2>2
    <2>3. CASE j # Len(all) + 1
      <3>1. j \in 1..Len(all)
        <4> DEFINE n == Len(all)
        <4>1. n \in Nat /\ j \in 1..(n + 1) /\ j # n + 1
          BY <2>3
        <4> HIDE DEF n
        <4>2. j \in 1..n
          BY <4>1
        <4>3. QED
          BY <4>2 DEF n
      <3>2. all[i].seq < all[j].seq
        BY <1>2, <2>1, <3>1 DEF Accounted
      <3>3. QED
        BY <2>1, <3>1, <3>2
    <2>4. QED
      BY <2>2, <2>3
  <1>3. QED
    BY <1>2 DEF Accounted

\* What each step makes of the chain.
LEMMA ChainAcked ==
    ASSUME NEW E, NEW all, NEW new, NEW a, NEW g, NEW x,
           NEW q \in Seq(E), NEW q1 \in Seq(E), NEW r \in Seq(E),
           Layout(all, a, q, g, r), Drops(q, q1, x), Layout(new, x.seq, q1, g, r)
    PROVE  Without(all, new, 1) /\ Len(new) \in Nat \ {0}
  <1> DEFINE h == IF g = 0 THEN 0 ELSE 1
  <1>1. /\ Len(q) \in Nat /\ Len(q1) \in Nat /\ Len(r) \in Nat
        /\ h \in {0, 1} /\ (g # 0 => h = 1) /\ (h = 1 => g # 0)
    BY LenProperties
  <1>2. /\ Len(q) = Len(q1) + 1 /\ q[1] = x
        /\ \A i \in 1..Len(q1) : q[i + 1] = q1[i]
    BY DEF Drops
  <1>3. /\ Len(all) = 1 + Len(q) + h + Len(r)
        /\ \A i \in 1..Len(q) : all[1 + i] = q[i]
        /\ g # 0 => all[1 + Len(q) + 1].seq = g
        /\ \A i \in 1..Len(r) : all[1 + Len(q) + h + i] = r[i]
    BY DEF Layout
  <1>4. /\ Len(new) = 1 + Len(q1) + h + Len(r)
        /\ new[1].seq = x.seq
        /\ \A i \in 1..Len(q1) : new[1 + i] = q1[i]
        /\ g # 0 => new[1 + Len(q1) + 1].seq = g
        /\ \A i \in 1..Len(r) : new[1 + Len(q1) + h + i] = r[i]
    BY DEF Layout
  <1> HIDE DEF h
  <1>5. Len(all) = Len(new) + 1 /\ Len(new) \in Nat \ {0}
    BY <1>1, <1>2, <1>3, <1>4
  <1>6. ASSUME NEW i \in 1..Len(new) PROVE new[i].seq = all[i + 1].seq
    <2>1. CASE i = 1
      <3>1. 1 \in 1..Len(q) /\ i + 1 = 1 + 1
        BY <1>1, <1>2, <2>1
      <3>2. QED
        BY <1>2, <1>3, <1>4, <2>1, <3>1
    <2>2. CASE i \in 2..(1 + Len(q1))
      <3> DEFINE k == i - 1
      <3>1. /\ k \in 1..Len(q1) /\ k + 1 \in 1..Len(q)
            /\ i = 1 + k /\ i + 1 = 1 + (k + 1)
        BY <1>1, <1>2, <2>2
      <3> HIDE DEF k
      <3>2. new[1 + k] = q1[k] /\ all[1 + (k + 1)] = q[k + 1] /\ q[k + 1] = q1[k]
        BY <1>2, <1>3, <1>4, <3>1
      <3>3. QED
        BY <3>1, <3>2
    <2>3. CASE h = 1 /\ i = 1 + Len(q1) + 1
      <3>1. i + 1 = 1 + Len(q) + 1
        BY <1>1, <1>2, <2>3
      <3>2. QED
        BY <1>1, <1>3, <1>4, <2>3, <3>1
    <2>4. CASE i > 1 + Len(q1) + h
      <3> DEFINE k == i - (1 + Len(q1) + h)
      <3>1. /\ k \in 1..Len(r)
            /\ i = 1 + Len(q1) + h + k /\ i + 1 = 1 + Len(q) + h + k
        BY <1>1, <1>2, <1>4, <2>4
      <3> HIDE DEF k
      <3>2. new[1 + Len(q1) + h + k] = r[k] /\ all[1 + Len(q) + h + k] = r[k]
        BY <1>3, <1>4, <3>1
      <3>3. QED
        BY <3>1, <3>2
    <2>5. \/ i = 1
          \/ i \in 2..(1 + Len(q1))
          \/ h = 1 /\ i = 1 + Len(q1) + 1
          \/ i > 1 + Len(q1) + h
      BY <1>1, <1>4
    <2>6. QED
      BY <2>1, <2>2, <2>3, <2>4, <2>5
  <1>7. ASSUME NEW i \in 1..Len(new) PROVE ~(i < 1)
    BY <1>5
  <1>8. QED
    BY <1>5, <1>6, <1>7 DEF Without


LEMMA ChainAcknowledged ==
    ASSUME NEW E, NEW all, NEW new, NEW a, NEW g, NEW x,
           NEW q \in Seq(E), NEW q1 \in Seq(E), NEW r \in Seq(E),
           g # 0, x.seq = g,
           Layout(all, a, q, g, r), Adds(q, q1, x), Layout(new, a, q1, 0, r)
    PROVE  Renumbered(all, new)
  <1>1. Len(q) \in Nat /\ Len(q1) \in Nat /\ Len(r) \in Nat
    BY LenProperties
  <1>2. /\ Len(q1) = Len(q) + 1 /\ q1[Len(q) + 1] = x
        /\ \A i \in 1..Len(q) : q1[i] = q[i]
    BY DEF Adds
  <1>3. /\ Len(all) = 1 + Len(q) + 1 + Len(r)
        /\ all[1].seq = a
        /\ \A i \in 1..Len(q) : all[1 + i] = q[i]
        /\ all[1 + Len(q) + 1].seq = g
        /\ \A i \in 1..Len(r) : all[1 + Len(q) + 1 + i] = r[i]
    BY DEF Layout
  <1>4. /\ Len(new) = 1 + Len(q1) + 0 + Len(r)
        /\ new[1].seq = a
        /\ \A i \in 1..Len(q1) : new[1 + i] = q1[i]
        /\ \A i \in 1..Len(r) : new[1 + Len(q1) + 0 + i] = r[i]
    BY DEF Layout
  <1>5. Len(new) = Len(all)
    BY <1>1, <1>2, <1>3, <1>4
  <1>6. ASSUME NEW i \in 1..Len(all) PROVE new[i].seq = all[i].seq
    <2>1. CASE i = 1
      BY <1>3, <1>4, <2>1
    <2>2. CASE i \in 2..(1 + Len(q))
      <3> DEFINE k == i - 1
      <3>1. k \in 1..Len(q) /\ k \in 1..Len(q1) /\ i = 1 + k
        BY <1>1, <1>2, <2>2
      <3> HIDE DEF k
      <3>2. new[1 + k] = q1[k] /\ all[1 + k] = q[k] /\ q1[k] = q[k]
        BY <1>2, <1>3, <1>4, <3>1
      <3>3. QED
        BY <3>1, <3>2
    <2>3. CASE i = 1 + Len(q) + 1
      <3>1. Len(q) + 1 \in 1..Len(q1) /\ i = 1 + (Len(q) + 1)
        BY <1>1, <1>2, <2>3
      <3>2. new[1 + (Len(q) + 1)] = q1[Len(q) + 1]
        BY <1>4, <3>1
      <3>3. QED
        BY <1>2, <1>3, <2>3, <3>1, <3>2
    <2>4. CASE i > 1 + Len(q) + 1
      <3> DEFINE k == i - (1 + Len(q) + 1)
      <3>1. /\ k \in 1..Len(r)
            /\ i = 1 + Len(q) + 1 + k /\ i = 1 + Len(q1) + 0 + k
        BY <1>1, <1>2, <1>3, <2>4
      <3> HIDE DEF k
      <3>2. new[1 + Len(q1) + 0 + k] = r[k] /\ all[1 + Len(q) + 1 + k] = r[k]
        BY <1>3, <1>4, <3>1
      <3>3. QED
        BY <3>1, <3>2
    <2>5. \/ i = 1
          \/ i \in 2..(1 + Len(q))
          \/ i = 1 + Len(q) + 1
          \/ i > 1 + Len(q) + 1
      <3>1. i \in Nat /\ i >= 1
        BY <1>1, <1>3
      <3>2. Len(q) \in Nat
        BY <1>1
      <3>3. QED
        BY <3>1, <3>2
    <2>6. QED
      BY <2>1, <2>2, <2>3, <2>4, <2>5
  <1>7. QED
    BY <1>5, <1>6 DEF Renumbered

LEMMA ChainGatheredFirst ==
    ASSUME NEW E, NEW all, NEW new, NEW a, NEW x,
           NEW q \in Seq(E), NEW r \in Seq(E), NEW r1 \in Seq(E), x.seq # 0,
           Layout(all, a, q, 0, r), Drops(r, r1, x), Layout(new, a, q, x.seq, r1)
    PROVE  Renumbered(all, new)
  <1>1. Len(q) \in Nat /\ Len(r) \in Nat /\ Len(r1) \in Nat
    BY LenProperties
  <1>2. /\ Len(r) = Len(r1) + 1 /\ r[1] = x
        /\ \A i \in 1..Len(r1) : r[i + 1] = r1[i]
    BY DEF Drops
  <1>3. /\ Len(all) = 1 + Len(q) + 0 + Len(r)
        /\ all[1].seq = a
        /\ \A i \in 1..Len(q) : all[1 + i] = q[i]
        /\ \A i \in 1..Len(r) : all[1 + Len(q) + 0 + i] = r[i]
    BY DEF Layout
  <1>4. /\ Len(new) = 1 + Len(q) + 1 + Len(r1)
        /\ new[1].seq = a
        /\ \A i \in 1..Len(q) : new[1 + i] = q[i]
        /\ new[1 + Len(q) + 1].seq = x.seq
        /\ \A i \in 1..Len(r1) : new[1 + Len(q) + 1 + i] = r1[i]
    BY DEF Layout
  <1>5. Len(new) = Len(all)
    BY <1>1, <1>2, <1>3, <1>4
  <1>6. ASSUME NEW i \in 1..Len(all) PROVE new[i].seq = all[i].seq
    <2>1. CASE i = 1
      BY <1>3, <1>4, <2>1
    <2>2. CASE i \in 2..(1 + Len(q))
      <3> DEFINE k == i - 1
      <3>1. k \in 1..Len(q) /\ i = 1 + k
        BY <1>1, <2>2
      <3> HIDE DEF k
      <3>2. new[1 + k] = q[k] /\ all[1 + k] = q[k]
        BY <1>3, <1>4, <3>1
      <3>3. QED
        BY <3>1, <3>2
    <2>3. CASE i = 1 + Len(q) + 1
      <3>1. 1 \in 1..Len(r) /\ i = 1 + Len(q) + 0 + 1
        BY <1>1, <1>2, <2>3
      <3>2. all[1 + Len(q) + 0 + 1] = r[1]
        BY <1>3, <3>1
      <3>3. QED
        BY <1>2, <1>4, <2>3, <3>1, <3>2
    <2>4. CASE i > 1 + Len(q) + 1
      <3> DEFINE k == i - (1 + Len(q) + 1)
      <3>1. /\ k \in 1..Len(r1) /\ k + 1 \in 1..Len(r)
            /\ i = 1 + Len(q) + 1 + k /\ i = 1 + Len(q) + 0 + (k + 1)
        BY <1>1, <1>2, <1>3, <2>4
      <3> HIDE DEF k
      <3>2. /\ new[1 + Len(q) + 1 + k] = r1[k]
            /\ all[1 + Len(q) + 0 + (k + 1)] = r[k + 1] /\ r[k + 1] = r1[k]
        BY <1>2, <1>3, <1>4, <3>1
      <3>3. QED
        BY <3>1, <3>2
    <2>5. \/ i = 1
          \/ i \in 2..(1 + Len(q))
          \/ i = 1 + Len(q) + 1
          \/ i > 1 + Len(q) + 1
      BY <1>1, <1>3
    <2>6. QED
      BY <2>1, <2>2, <2>3, <2>4, <2>5
  <1>7. QED
    BY <1>5, <1>6 DEF Renumbered

LEMMA ChainGathered ==
    ASSUME NEW E, NEW all, NEW new, NEW a, NEW g, NEW x,
           NEW q \in Seq(E), NEW r \in Seq(E), NEW r1 \in Seq(E), g # 0, x.seq # 0,
           Layout(all, a, q, g, r), Drops(r, r1, x), Layout(new, a, q, x.seq, r1)
    PROVE  /\ Without(all, new, 1 + Len(q) + 1)
           /\ Len(new) \in Nat /\ 1 + Len(q) + 1 \in 1..Len(new)
           /\ all[1 + Len(q) + 1].seq = g
           /\ all[1 + Len(q) + 1 + 1] = x
  <1>1. Len(q) \in Nat /\ Len(r) \in Nat /\ Len(r1) \in Nat
    BY LenProperties
  <1>2. /\ Len(r) = Len(r1) + 1 /\ r[1] = x
        /\ \A i \in 1..Len(r1) : r[i + 1] = r1[i]
    BY DEF Drops
  <1>3. /\ Len(all) = 1 + Len(q) + 1 + Len(r)
        /\ all[1].seq = a
        /\ \A i \in 1..Len(q) : all[1 + i] = q[i]
        /\ all[1 + Len(q) + 1].seq = g
        /\ \A i \in 1..Len(r) : all[1 + Len(q) + 1 + i] = r[i]
    BY DEF Layout
  <1>4. /\ Len(new) = 1 + Len(q) + 1 + Len(r1)
        /\ new[1].seq = a
        /\ \A i \in 1..Len(q) : new[1 + i] = q[i]
        /\ new[1 + Len(q) + 1].seq = x.seq
        /\ \A i \in 1..Len(r1) : new[1 + Len(q) + 1 + i] = r1[i]
    BY DEF Layout
  <1>5. /\ Len(all) = Len(new) + 1 /\ Len(new) \in Nat /\ 1 + Len(q) + 1 \in 1..Len(new)
        /\ 1 \in 1..Len(r)
    BY <1>1, <1>2, <1>3, <1>4
  <1>6. all[1 + Len(q) + 1 + 1] = x
    BY <1>2, <1>3, <1>5
  <1>7. ASSUME NEW i \in 1..Len(new)
        PROVE  new[i].seq = IF i < 1 + Len(q) + 1 THEN all[i].seq ELSE all[i + 1].seq
    <2>1. CASE i = 1
      <3>1. i < 1 + Len(q) + 1
        BY <1>1, <2>1
      <3>2. QED
        BY <1>3, <1>4, <2>1, <3>1
    <2>2. CASE i \in 2..(1 + Len(q))
      <3> DEFINE k == i - 1
      <3>1. k \in 1..Len(q) /\ i = 1 + k /\ i < 1 + Len(q) + 1
        BY <1>1, <2>2
      <3> HIDE DEF k
      <3>2. new[1 + k] = q[k] /\ all[1 + k] = q[k]
        BY <1>3, <1>4, <3>1
      <3>3. QED
        BY <3>1, <3>2
    <2>3. CASE i = 1 + Len(q) + 1
      <3>1. ~(i < 1 + Len(q) + 1)
        BY <1>1, <2>3
      <3>2. QED
        BY <1>4, <1>6, <2>3, <3>1
    <2>4. CASE i > 1 + Len(q) + 1
      <3> DEFINE k == i - (1 + Len(q) + 1)
      <3>1. /\ k \in 1..Len(r1) /\ k + 1 \in 1..Len(r) /\ ~(i < 1 + Len(q) + 1)
            /\ i = 1 + Len(q) + 1 + k /\ i + 1 = 1 + Len(q) + 1 + (k + 1)
        BY <1>1, <1>2, <1>4, <2>4
      <3> HIDE DEF k
      <3>2. /\ new[1 + Len(q) + 1 + k] = r1[k]
            /\ all[1 + Len(q) + 1 + (k + 1)] = r[k + 1] /\ r[k + 1] = r1[k]
        BY <1>2, <1>3, <1>4, <3>1
      <3>3. QED
        BY <3>1, <3>2
    <2>5. \/ i = 1
          \/ i \in 2..(1 + Len(q))
          \/ i = 1 + Len(q) + 1
          \/ i > 1 + Len(q) + 1
      BY <1>1, <1>4
    <2>6. QED
      BY <2>1, <2>2, <2>3, <2>4, <2>5
  <1>8. QED
    BY <1>3, <1>5, <1>6, <1>7 DEF Without

LEMMA ChainActed ==
    ASSUME NEW E, NEW all, NEW new, NEW a, NEW g, NEW x,
           NEW q \in Seq(E), NEW r \in Seq(E), NEW r1 \in Seq(E),
           Layout(all, a, q, g, r), Adds(r, r1, x), Layout(new, a, q, g, r1)
    PROVE  /\ Len(all) \in Nat \ {0} /\ Len(new) = Len(all) + 1
           /\ \A i \in 1..Len(all) : new[i].seq = all[i].seq
           /\ new[Len(all) + 1] = x
  <1> DEFINE h == IF g = 0 THEN 0 ELSE 1
  <1>1. /\ Len(q) \in Nat /\ Len(r) \in Nat /\ Len(r1) \in Nat
        /\ h \in {0, 1} /\ (g # 0 => h = 1) /\ (h = 1 => g # 0)
    BY LenProperties
  <1>2. /\ Len(r1) = Len(r) + 1 /\ r1[Len(r) + 1] = x
        /\ \A i \in 1..Len(r) : r1[i] = r[i]
    BY DEF Adds
  <1>3. /\ Len(all) = 1 + Len(q) + h + Len(r)
        /\ all[1].seq = a
        /\ \A i \in 1..Len(q) : all[1 + i] = q[i]
        /\ g # 0 => all[1 + Len(q) + 1].seq = g
        /\ \A i \in 1..Len(r) : all[1 + Len(q) + h + i] = r[i]
    BY DEF Layout
  <1>4. /\ Len(new) = 1 + Len(q) + h + Len(r1)
        /\ new[1].seq = a
        /\ \A i \in 1..Len(q) : new[1 + i] = q[i]
        /\ g # 0 => new[1 + Len(q) + 1].seq = g
        /\ \A i \in 1..Len(r1) : new[1 + Len(q) + h + i] = r1[i]
    BY DEF Layout
  <1> HIDE DEF h
  <1>5. Len(all) \in Nat \ {0} /\ Len(new) = Len(all) + 1
    BY <1>1, <1>2, <1>3, <1>4
  <1>6. new[Len(all) + 1] = x
    <2>1. Len(r) + 1 \in 1..Len(r1) /\ Len(all) + 1 = 1 + Len(q) + h + (Len(r) + 1)
      BY <1>1, <1>2, <1>3
    <2>2. new[1 + Len(q) + h + (Len(r) + 1)] = r1[Len(r) + 1]
      BY <1>4, <2>1
    <2>3. QED
      BY <1>2, <2>1, <2>2
  <1>7. ASSUME NEW i \in 1..Len(all) PROVE new[i].seq = all[i].seq
    <2>1. CASE i = 1
      BY <1>3, <1>4, <2>1
    <2>2. CASE i \in 2..(1 + Len(q))
      <3> DEFINE k == i - 1
      <3>1. k \in 1..Len(q) /\ i = 1 + k
        BY <1>1, <2>2
      <3> HIDE DEF k
      <3>2. new[1 + k] = q[k] /\ all[1 + k] = q[k]
        BY <1>3, <1>4, <3>1
      <3>3. QED
        BY <3>1, <3>2
    <2>3. CASE h = 1 /\ i = 1 + Len(q) + 1
      BY <1>1, <1>3, <1>4, <2>3
    <2>4. CASE i > 1 + Len(q) + h
      <3> DEFINE k == i - (1 + Len(q) + h)
      <3>1. k \in 1..Len(r) /\ k \in 1..Len(r1) /\ i = 1 + Len(q) + h + k
        BY <1>1, <1>2, <1>3, <2>4
      <3> HIDE DEF k
      <3>2. /\ new[1 + Len(q) + h + k] = r1[k] /\ all[1 + Len(q) + h + k] = r[k]
            /\ r1[k] = r[k]
        BY <1>2, <1>3, <1>4, <3>1
      <3>3. QED
        BY <3>1, <3>2
    <2>5. \/ i = 1
          \/ i \in 2..(1 + Len(q))
          \/ h = 1 /\ i = 1 + Len(q) + 1
          \/ i > 1 + Len(q) + h
      BY <1>1, <1>3
    <2>6. QED
      BY <2>1, <2>2, <2>3, <2>4, <2>5
  <1>8. QED
    BY <1>5, <1>6, <1>7


AllActions == Chain(lastAck, Acking, sequence, Acted)

LEMMA AllActionsLayout ==
    ASSUME TypeOK
    PROVE  Layout(AllActions, lastAck, Acking, sequence, Acted)
  <1> DEFINE Pairs == [type : {"ack"}, seq : 0..MaxActions]
             E == Packets \cup Pairs
  <1>1. [type |-> "ack", seq |-> lastAck] \in E /\ [type |-> "ack", seq |-> sequence] \in E
    BY DEF TypeOK
  <1>2. Packets \subseteq E
    OBVIOUS
  <1> HIDE DEF E
  <1>3. Acking \in Seq(E) /\ Acted \in Seq(E)
    BY <1>2, UnconfirmedTypes, SequenceOfMore
  <1>4. QED
    BY <1>1, <1>3, ChainLayout DEF AllActions

LEMMA AllActionsLayoutNext ==
    ASSUME TypeOK'
    PROVE  Layout(AllActions', lastAck', Acking', sequence', Acted')
  <1> DEFINE Pairs == [type : {"ack"}, seq : 0..MaxActions]
             E == Packets \cup Pairs
  <1>1. [type |-> "ack", seq |-> lastAck'] \in E /\ [type |-> "ack", seq |-> sequence'] \in E
    BY DEF TypeOK
  <1>2. Packets \subseteq E
    OBVIOUS
  <1> HIDE DEF E
  <1>3. Acking' \in Seq(E) /\ Acted' \in Seq(E)
    BY <1>2, UnconfirmedTypesNext, SequenceOfMore
  <1>4. Layout(Chain(lastAck', Acking', sequence', Acted'),
               lastAck', Acking', sequence', Acted')
    BY <1>1, <1>3, ChainLayout
  <1>5. AllActions' = Chain(lastAck', Acking', sequence', Acted')
    BY DEF AllActions
  <1>6. QED
    BY <1>4, <1>5

LEMMA AllActionsNumbers ==
    ASSUME TypeOK
    PROVE  \A i \in 1..Len(AllActions) : AllActions[i].seq \in Nat
  <1> DEFINE all == AllActions
             h == IF sequence = 0 THEN 0 ELSE 1
  <1>1. /\ Len(all) = 1 + Len(Acking) + h + Len(Acted)
        /\ all[1].seq = lastAck
        /\ \A i \in 1..Len(Acking) : all[1 + i] = Acking[i]
        /\ sequence # 0 => all[1 + Len(Acking) + 1].seq = sequence
        /\ \A i \in 1..Len(Acted) : all[1 + Len(Acking) + h + i] = Acted[i]
    BY AllActionsLayout DEF Layout
  <1>2. Acking \in Seq(Acks) /\ Acted \in Seq(Actions)
    <2>1. ToClient \cap Acks \subseteq Acks /\ ToServer \cap Actions \subseteq Actions
      OBVIOUS
    <2>2. QED
      BY <2>1, LineType, SelectedType DEF Acking, Acted
  <1>3. /\ \A i \in 1..Len(Acking) : Acking[i].seq \in Nat
        /\ \A i \in 1..Len(Acted) : Acted[i].seq \in Nat
    <2>1. \A p \in Acks \cup Actions : p.seq \in Nat
      BY MaxActionsAssumption DEF Acks, Actions
    <2>2. QED
      BY <1>2, <2>1, ElementOfSeq
  <1>4. lastAck \in Nat /\ sequence \in Nat
    BY MaxActionsAssumption DEF TypeOK
  <1>5. /\ Len(Acking) \in Nat /\ Len(Acted) \in Nat
        /\ h \in {0, 1} /\ (h = 1 => sequence # 0)
    BY <1>2, LenProperties
  <1> HIDE DEF all, h
  <1>6. ASSUME NEW i \in 1..Len(all) PROVE all[i].seq \in Nat
    <2>1. CASE i = 1
      BY <1>1, <1>4, <2>1
    <2>2. CASE i \in 2..(1 + Len(Acking))
      <3> DEFINE k == i - 1
      <3>1. k \in 1..Len(Acking) /\ i = 1 + k
        BY <1>5, <2>2
      <3> HIDE DEF k
      <3>2. QED
        BY <1>1, <1>3, <3>1
    <2>3. CASE h = 1 /\ i = 1 + Len(Acking) + 1
      BY <1>1, <1>4, <1>5, <2>3
    <2>4. CASE i > 1 + Len(Acking) + h
      <3> DEFINE k == i - (1 + Len(Acking) + h)
      <3>1. k \in 1..Len(Acted) /\ i = 1 + Len(Acking) + h + k
        BY <1>1, <1>5, <2>4
      <3> HIDE DEF k
      <3>2. QED
        BY <1>1, <1>3, <3>1
    <2>5. \/ i = 1
          \/ i \in 2..(1 + Len(Acking))
          \/ h = 1 /\ i = 1 + Len(Acking) + 1
          \/ i > 1 + Len(Acking) + h
      BY <1>1, <1>5
    <2>6. QED
      BY <2>1, <2>2, <2>3, <2>4, <2>5
  <1>7. QED
    BY <1>6 DEF all

\* An action that is handled is the newest that was gathered.
LEMMA GatheringStep ==
    ASSUME TypeOK, TypeOK', Accounted(AllActions, lastAction), HandleAction
    PROVE  Accounted(AllActions', lastAction')
  <1> DEFINE x == Head(batch)
  <1>1. Drops(Acted, Acted', x) /\ x \in Actions
    BY HandledAction DEF HandleAction
  <1>2. Acking' = Acking /\ lastAck' = lastAck /\ lastAction' = lastAction
    BY HandlesSame DEF HandleAction
  <1>3. sequence' = IF x.seq > sequence THEN x.seq ELSE sequence
    BY DEF HandleAction, UpdatedSequence
  <1>4. x.seq \in Nat /\ x.seq # 0 /\ sequence \in Nat
    BY <1>1, MaxActionsAssumption DEF Actions, TypeOK
  <1> HIDE DEF x
  <1>5. /\ Acking \in Seq(Packets) /\ Acted \in Seq(Packets) /\ Acted' \in Seq(Packets)
    BY UnconfirmedTypes, UnconfirmedTypesNext
  <1>6. Layout(AllActions, lastAck, Acking, sequence, Acted)
    BY AllActionsLayout
  <1>7. Layout(AllActions', lastAck, Acking, sequence', Acted')
    BY <1>2, AllActionsLayoutNext
  <1>8. CASE sequence = 0
    <2>1. sequence' = x.seq
      BY <1>3, <1>4, <1>8
    <2>2. Layout(AllActions, lastAck, Acking, 0, Acted)
      BY <1>6, <1>8
    <2>3. Layout(AllActions', lastAck, Acking, x.seq, Acted')
      BY <1>7, <2>1
    <2>4. Renumbered(AllActions, AllActions')
      BY <1>1, <1>4, <1>5, <2>2, <2>3, ChainGatheredFirst
    <2>5. Len(AllActions) \in Nat \ {0}
      <3>1. Len(Acking) \in Nat /\ Len(Acted) \in Nat
        BY <1>5, LenProperties
      <3>2. QED
        BY <3>1, <2>2 DEF Layout
    <2>6. QED
      BY <1>2, <2>4, <2>5, AccountedRenumbered
  <1>9. CASE sequence # 0
    <2> DEFINE k == 1 + Len(Acking) + 1
    <2>1. Len(AllActions) = 1 + Len(Acking) + 1 + Len(Acted)
      BY <1>6, <1>9 DEF Layout
    <2>2. sequence' = x.seq
      <3>1. /\ Len(Acking) \in Nat /\ Len(Acted) \in Nat \ {0} /\ Acted[1] = x
        <4>1. Len(Acted') \in Nat /\ Len(Acking) \in Nat
          BY <1>5, LenProperties
        <4>2. QED
          BY <1>1, <4>1 DEF Drops
      <3>2. AllActions[k].seq = sequence /\ AllActions[k + 1] = x
        <4>1. 1 \in 1..Len(Acted)
          BY <3>1
        <4>2. AllActions[1 + Len(Acking) + 1 + 1] = Acted[1]
          BY <1>6, <1>9, <4>1 DEF Layout
        <4>3. AllActions[1 + Len(Acking) + 1].seq = sequence
          BY <1>6, <1>9 DEF Layout
        <4>4. QED
          BY <3>1, <4>2, <4>3
      <3>3. k \in 1..Len(AllActions) /\ k + 1 \in 1..Len(AllActions) /\ k < k + 1
        BY <2>1, <3>1
      <3> HIDE DEF k
      <3>4. AllActions[k].seq < AllActions[k + 1].seq
        BY <3>3 DEF Accounted
      <3>5. sequence < x.seq
        BY <3>2, <3>4
      <3>6. QED
        BY <1>3, <1>4, <3>5
    <2>3. Layout(AllActions', lastAck, Acking, x.seq, Acted')
      BY <1>7, <2>2
    <2>4. /\ Without(AllActions, AllActions', 1 + Len(Acking) + 1)
          /\ Len(AllActions') \in Nat
          /\ 1 + Len(Acking) + 1 \in 1..Len(AllActions')
      BY <1>1, <1>4, <1>5, <1>6, <1>9, <2>3, ChainGathered
    <2>5. QED
      BY <1>2, <2>4, AccountedWithout
  <1>10. QED
    BY <1>8, <1>9

LEMMA ActionsStep ==
    ASSUME TypeOK, TypeOK', InPhase, Accounted(AllActions, lastAction), [Next]_vars,
           ReceiveTeleport => clientPos' \in Places
    PROVE  Accounted(AllActions', lastAction')
  <1>1. CASE HandleAction
    BY <1>1, GatheringStep
  <1>2. CASE ReceiveAck
    <2> DEFINE x == Head(toClient)
    <2>1. Drops(Acking, Acking', x) /\ Acted' = Acted
      BY <1>2, ReceivedAck
    <2>2. lastAck' = x.seq /\ sequence' = sequence /\ lastAction' = lastAction
      BY <1>2 DEF ReceiveAck
    <2> HIDE DEF x
    <2>3. Acking \in Seq(Packets) /\ Acking' \in Seq(Packets) /\ Acted \in Seq(Packets)
      BY UnconfirmedTypes, UnconfirmedTypesNext
    <2>4. Layout(AllActions', x.seq, Acking', sequence, Acted)
      BY <2>1, <2>2, AllActionsLayoutNext
    <2>5. Without(AllActions, AllActions', 1) /\ Len(AllActions') \in Nat \ {0}
      BY <2>1, <2>3, <2>4, AllActionsLayout, ChainAcked
    <2>6. Len(AllActions') \in Nat /\ 1 \in 1..Len(AllActions')
      BY <2>5
    <2>7. QED
      BY <2>2, <2>5, <2>6, AccountedWithout
  <1>3. CASE Acknowledge
    <2>1. Acted' = Acted /\ lastAck' = lastAck /\ lastAction' = lastAction /\ sequence' = 0
      BY <1>3, AcknowledgeSame DEF Acknowledge
    <2>2. CASE sequence = 0
      <3>1. Acking' = Acking
        BY <1>3, <2>2, AckOrNothing, NothingComes
      <3>2. AllActions' = AllActions
        BY <2>1, <2>2, <3>1 DEF AllActions
      <3>3. QED
        BY <2>1, <3>2
    <2>3. CASE sequence # 0
      <3> DEFINE x == [type |-> "ack", seq |-> sequence]
      <3>1. Adds(Acking, Acking', x)
        BY <1>3, <2>3, AckOrNothing, WroteAck, RunsLine DEF Acknowledge
      <3>2. x.seq = sequence
        OBVIOUS
      <3> HIDE DEF x
      <3>3. Acking \in Seq(Packets) /\ Acking' \in Seq(Packets) /\ Acted \in Seq(Packets)
        BY UnconfirmedTypes, UnconfirmedTypesNext
      <3>4. Layout(AllActions', lastAck, Acking', 0, Acted)
        BY <2>1, AllActionsLayoutNext
      <3>5. Renumbered(AllActions, AllActions')
        BY <2>3, <3>1, <3>2, <3>3, <3>4, AllActionsLayout, ChainAcknowledged
      <3>6. Len(AllActions) \in Nat \ {0}
        <4>1. Len(Acking) \in Nat /\ Len(Acted) \in Nat
          BY <3>3, LenProperties
        <4>2. QED
          BY <4>1, AllActionsLayout DEF Layout
      <3>7. QED
        BY <2>1, <3>5, <3>6, AccountedRenumbered
    <2>4. QED
      BY <2>2, <2>3
  <1>4. CASE ClientAct
    <2> DEFINE x == [type |-> "action", seq |-> lastAction + 1]
    <2>1. Adds(Acted, Acted', x)
      BY <1>4, SentAction
    <2>2. /\ Acking' = Acking /\ lastAck' = lastAck /\ sequence' = sequence
          /\ lastAction' = lastAction + 1
      BY <1>4, ClientSame DEF ClientAct
    <2>3. x.seq = lastAction + 1 /\ lastAction \in Nat
      BY MaxActionsAssumption DEF TypeOK
    <2> HIDE DEF x
    <2>4. Acking \in Seq(Packets) /\ Acted \in Seq(Packets) /\ Acted' \in Seq(Packets)
      BY UnconfirmedTypes, UnconfirmedTypesNext
    <2>5. Layout(AllActions', lastAck, Acking, sequence, Acted')
      BY <2>2, AllActionsLayoutNext
    <2>6. /\ Len(AllActions) \in Nat \ {0} /\ Len(AllActions') = Len(AllActions) + 1
          /\ \A i \in 1..Len(AllActions) : AllActions'[i].seq = AllActions[i].seq
          /\ AllActions'[Len(AllActions) + 1] = x
      BY <2>1, <2>4, <2>5, AllActionsLayout, ChainActed
    <2>7. Accounted(AllActions', lastAction + 1)
      BY <2>3, <2>6, AllActionsNumbers, AccountedOneMore
    <2>8. QED
      BY <2>2, <2>7
  <1>5. CASE \/ HandleConfirmation \/ HandleMove \/ HandleTurn \/ HandleKeepalive
             \/ Teleport \/ SendKeepalive \/ ReceiveTeleport \/ ReceiveKeepalive
             \/ (\E p \in Places : ClientMove(p)) \/ ClientTurn \/ Quiet
    <2>1. Acking' = Acking /\ Acted' = Acted
      <3>1. CASE HandleConfirmation \/ HandleMove \/ HandleTurn \/ HandleKeepalive
        BY <3>1, HandledConfirmation, HandledMove, HandledTurn, HandledKeepalive, HandlesSame
        DEF HandleConfirmation, HandleMove, HandleTurn, HandleKeepalive
      <3>2. CASE Teleport
        BY <3>2, WroteTeleport, TeleportSame
      <3>3. CASE SendKeepalive
        BY <3>3, SendKeepaliveSame
      <3>4. CASE ReceiveTeleport \/ ReceiveKeepalive
        BY <3>4, ReceivedTeleport, ReceivedKeepalive
      <3>5. CASE (\E p \in Places : ClientMove(p)) \/ ClientTurn
        BY <3>5, SentMove, SentTurn, ClientSame
      <3>6. CASE Quiet
        BY <3>6, QuietSame
      <3>7. QED
        BY <1>5, <3>1, <3>2, <3>3, <3>4, <3>5, <3>6
    <2>2. lastAck' = lastAck /\ sequence' = sequence /\ lastAction' = lastAction
      BY <1>5 DEF HandleConfirmation, HandleMove, HandleTurn, HandleKeepalive, Handles,
                  Teleport, SendKeepalive, Runs, ReceiveTeleport, ReceiveKeepalive,
                  ClientMove, ClientTurn, ClientSends, Quiet, EndLoop, EndUpdate, EndTick,
                  SetPosition, SetVelocity, Elapse, vars, clientVars
    <2>3. AllActions' = AllActions
      BY <2>1, <2>2 DEF AllActions
    <2>4. QED
      BY <2>2, <2>3
  <1>6. QED
    BY <1>1, <1>2, <1>3, <1>4, <1>5, StepKinds


-----------------------------------------------------------------------------
(***************************************************************************)
(* The inductive invariant holds.                                          *)
(***************************************************************************)
\* The properties in the form in which the lemmas have them.
LEMMA Forms ==
    /\ UnconfirmedInOrder <=> (Connected => InTurn(Unconfirmed, counter, pending))
    /\ ServerPrevails <=> (Connected => Prevails)
    /\ ActionsAccounted <=> Accounted(AllActions, lastAction)
  BY DEF UnconfirmedInOrder, InTurn, ServerPrevails, Prevails, Placed, ActionsAccounted,
         Accounted, AllActions, Acking, Acted

LEMMA IInvInit == Init => IInv
  <1> SUFFICES ASSUME Init PROVE IInv
    OBVIOUS
  <1>1. TypeOK
    BY TypeInit
  <1>2. batch = <<>> /\ toServer = <<>> /\ toClient = <<>>
    BY DEF Init
  <1>3. Line = <<>>
    BY <1>2 DEF Line
  <1>4. \A set : Selected(Line, set) = <<>> /\ Selected(toClient, set) = <<>>
    BY <1>2, <1>3, SelectedEmpty
  <1>5. Unconfirmed = <<>> /\ Asked = <<>>
    <2>1. <<>> \o <<>> = <<>>
      OBVIOUS
    <2>2. QED
      BY <1>4, <2>1 DEF Unconfirmed, Asked
  <1>6. InTurn(Unconfirmed, counter, pending)
    BY <1>5 DEF InTurn, Init
  <1>7. UnconfirmedInOrder
    BY <1>6, Forms
  <1>8. Room
    BY WidthAssumption DEF Init, Room, Answering
  <1>9. KeepalivesMatch /\ AnswersWait
    BY <1>5 DEF KeepalivesMatch, AnswersWait, Init
  <1>10. ServerPrevails /\ StepsEndHere /\ SyncedHere /\ Synced
    BY <1>4 DEF ServerPrevails, StepsEndHere, Steps, SyncedHere, Synced, Init
  <1>11. Spawning
    BY <1>3, <1>4 DEF Spawning, Init
  <1>12. Accounted(AllActions, lastAction)
    <2>1. Layout(AllActions, 0, <<>>, 0, <<>>)
      <3>1. Acking = <<>> /\ Acted = <<>> /\ lastAck = 0 /\ sequence = 0
        BY <1>4 DEF Acking, Acted, Init
      <3>2. QED
        BY <1>1, <3>1, AllActionsLayout
    <2>2. Len(AllActions) = 1 /\ AllActions[1].seq = 0
      BY <2>1 DEF Layout
    <2>3. lastAction = 0
      BY DEF Init
    <2>4. QED
      BY <2>2, <2>3 DEF Accounted
  <1>13. InPhase /\ PoliteStays
    BY DEF Init, InPhase, PoliteStays
  <1>14. QED
    BY <1>1, <1>7, <1>8, <1>9, <1>10, <1>11, <1>12, <1>13, Forms DEF IInv, Handshakes

LEMMA PhaseStep ==
    ASSUME TypeOK, InPhase, [Next]_vars
    PROVE  InPhase'
  <1>1. CASE HandleConfirmation \/ HandleMove \/ HandleTurn \/ HandleKeepalive \/ HandleAction
    BY <1>1 DEF HandleConfirmation, HandleMove, HandleTurn, HandleKeepalive, HandleAction,
                Handles, InPhase
  <1>2. CASE Teleport \/ SendKeepalive \/ Acknowledge
    BY <1>2 DEF Teleport, SendKeepalive, Acknowledge, Runs, InPhase
  <1>3. CASE EndLoop \/ EndUpdate \/ EndTick
    BY <1>3 DEF EndLoop, EndUpdate, EndTick, InPhase
  <1>4. CASE \/ ReceiveTeleport \/ ReceiveKeepalive \/ ReceiveAck
             \/ (\E p \in Places : ClientMove(p)) \/ ClientTurn \/ ClientAct
             \/ (\E p \in Places : SetPosition(p)) \/ SetVelocity \/ Elapse
             \/ UNCHANGED vars
    <2>1. UNCHANGED tick
      BY <1>4 DEF ReceiveTeleport, ReceiveKeepalive, ReceiveAck, ClientMove, ClientTurn,
                  ClientAct, ClientSends, SetPosition, SetVelocity, Elapse, vars
    <2>2. QED
      BY <2>1 DEF tick, InPhase
  <1>5. QED
    BY <1>1, <1>2, <1>3, <1>4, StepKinds DEF Quiet

\* After its removal nothing happens to a client.
LEMMA RemovedStays ==
    ASSUME [Next]_vars, ~Connected
    PROVE  UNCHANGED vars
  BY DEF Next, ServerStep, ClientReceive, HandleConfirmation, HandleMove, HandleTurn,
         HandleKeepalive, HandleAction, Handles, Teleport, SendKeepalive, Acknowledge, Runs,
         EndLoop, EndUpdate, EndTick, ReceiveTeleport, ReceiveKeepalive, ReceiveAck,
         ClientMove, ClientTurn, ClientAct, ClientSends, SetPosition, SetVelocity, Elapse

LEMMA IInvUnchanged ==
    ASSUME IInv, UNCHANGED vars
    PROVE  IInv'
  <1>1. /\ UNCHANGED <<clientPos, lastAction, lastAck, toServer, toClient>>
        /\ UNCHANGED <<position, syncedPos, pushed, counter, pending>>
        /\ UNCHANGED <<gotKeepalive, keepaliveId, due, sequence, removed>>
        /\ UNCHANGED <<phase, batch, answered, todo>>
    BY DEF vars, clientVars, network, positionVars, keepaliveVars, tick
  <1>2. Line' = Line /\ Unconfirmed' = Unconfirmed /\ Asked' = Asked /\ Steps' = Steps
    BY <1>1 DEF Line, Unconfirmed, Asked, Steps
  <1>3. TypeOK' /\ InPhase' /\ PoliteStays' /\ ActionsAccounted'
    BY <1>1, <1>2 DEF IInv, TypeOK, InPhase, PoliteStays, ActionsAccounted
  <1>4. Handshakes => Handshakes'
    BY <1>1, <1>2 DEF Handshakes, UnconfirmedInOrder, Connected, Room, Moved, Answering,
       KeepalivesMatch, AnswersWait, ServerPrevails, Spawning, StepsEndHere, SyncedHere, Synced
  <1>5. Connected' <=> Connected
    BY <1>1 DEF Connected
  <1>6. QED
    BY <1>3, <1>4, <1>5 DEF IInv

LEMMA IInvStep == IInv /\ [Next]_vars => IInv'
  <1> SUFFICES ASSUME IInv, [Next]_vars PROVE IInv'
    OBVIOUS
  <1>1. CASE ~Connected
    BY <1>1, RemovedStays, IInvUnchanged
  <1>2. CASE Connected
    <2>1. /\ TypeOK /\ InPhase /\ removed = "no"
          /\ InTurn(Unconfirmed, counter, pending) /\ Room
          /\ KeepalivesMatch /\ AnswersWait /\ Prevails /\ Spawning
          /\ StepsEndHere /\ SyncedHere /\ Synced
          /\ Accounted(AllActions, lastAction)
      BY <1>2, Forms DEF IInv, Handshakes, Connected
    <2>2. ReceiveTeleport => clientPos' \in Places
      BY <2>1, TeleportedSomewhere
    <2>3. TypeOK' /\ InPhase'
      BY <2>1, <2>2, TypeStep, PhaseStep
    <2>4. InTurn(Unconfirmed', counter', pending') /\ Room'
      BY <2>1, <2>2, <2>3, OrderStep, RoomStep
    <2>5. KeepalivesMatch' /\ AnswersWait' /\ PoliteStays'
      BY <2>1, <2>2, <2>3, KeepalivesStep, AnswersStep, PoliteStep
    <2>6. Prevails' /\ Spawning'
      BY <2>1, <2>3, PrevailsStep, SpawningStep
    <2>7. StepsEndHere' /\ SyncedHere' /\ Synced'
      BY <2>1, <2>3, <2>4, StepsEndStep, SyncedHereStep, SyncedStep
    <2>8. Accounted(AllActions', lastAction')
      BY <2>1, <2>2, <2>3, ActionsStep
    <2>9. UnconfirmedInOrder' /\ ServerPrevails' /\ ActionsAccounted'
      BY <2>4, <2>6, <2>8
      DEF UnconfirmedInOrder, InTurn, ServerPrevails, Prevails, Placed, ActionsAccounted,
          Accounted, AllActions, Acking, Acted
    <2>10. QED
      BY <2>3, <2>4, <2>5, <2>6, <2>7, <2>9 DEF IInv, Handshakes
  <1>3. QED
    BY <1>1, <1>2

LEMMA SpecIInv == Spec => []IInv
  BY IInvInit, IInvStep, PTL DEF Spec

-----------------------------------------------------------------------------
(***************************************************************************)
(* The theorems.                                                           *)
(***************************************************************************)
\* Every variable has its type: the counters stay below 2^32 (Width), and a client
\* sends no position before it has one.
THEOREM HandshakeTypes == Spec => []TypeOK
  <1>1. IInv => TypeOK
    BY DEF IInv
  <1>2. QED
    BY SpecIInv, <1>1, PTL

\* The id that the server expects next is the next that the client confirms, with
\* any number of teleports under way and counters that wrap (teleport.rs:105-151).
THEOREM TeleportsConfirmedInOrder == Spec => []UnconfirmedInOrder
  <1>1. IInv => UnconfirmedInOrder
    BY DEF IInv, Handshakes, UnconfirmedInOrder
  <1>2. QED
    BY SpecIInv, <1>1, PTL

\* The answers of a client are never what it is removed for, however they cross
\* teleports and keepalives; and where it is removed for silence, no answer was
\* queued as that tick began.  A client whose answer comes during the tick that
\* looks for it is removed (keepalive.rs:69-118, teleport.rs:118-151).
THEOREM RemovedForSilenceOnly == Spec => []PoliteStays
  <1>1. IInv => PoliteStays
    BY DEF IInv
  <1>2. QED
    BY SpecIInv, <1>1, PTL

\* No move that the client made before it knew of a teleport undoes the teleport
\* (movement.rs:193-205).
THEOREM TeleportsPrevail == Spec => []ServerPrevails
  <1>1. IInv => ServerPrevails
    BY DEF IInv, Handshakes, ServerPrevails
  <1>2. QED
    BY SpecIInv, <1>1, PTL

\* Both sides come to the same position, as long as user code sets positions in
\* Update only; otherwise they do not, which a run shows (movement.rs:193-205,
\* teleport.rs:72-116).
THEOREM PositionsComeToAgree == Spec => [](~MoveEarly => PositionsAgree)
  <1>1. IInv => (~MoveEarly => PositionsAgree)
    <2> SUFFICES ASSUME IInv, ~MoveEarly, Connected, Line = <<>>,
                        Selected(toClient, Teleports) = <<>>, clientPos # Unknown,
                        position = syncedPos
                 PROVE  position = clientPos
      BY DEF PositionsAgree
    <2>1. Steps = <<>>
      BY SelectedEmpty DEF Steps
    <2>2. QED
      BY <2>1 DEF IInv, Handshakes, SyncedHere
  <1>2. QED
    BY SpecIInv, <1>1, PTL

\* Acknowledgements come in the order of the actions and none is left out
\* (action.rs:42-45, 100-112).
THEOREM ActionsAreAcknowledged == Spec => []ActionsAccounted
  <1>1. IInv => ActionsAccounted
    BY DEF IInv
  <1>2. QED
    BY SpecIInv, <1>1, PTL


=============================================================================
