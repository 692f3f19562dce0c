-------------------------- MODULE ByteChannelProofs --------------------------
(***************************************************************************)
(* The safety properties of ByteChannel for every limit and every bound,   *)
(* and the proof that it implements ByteStream.                            *)
(***************************************************************************)
EXTENDS ByteChannel, SequenceTheorems, TLAPS

Stream == INSTANCE ByteStream WITH
    sent <- accepted, received <- delivered, closed <- disconnected

-----------------------------------------------------------------------------
\* The prefix a locked section pushes is part of the batch and stays within the
\* limit (the arithmetic of byte_channel.rs:70-79 and 100-111).
LEMMA FittingFits ==
    ASSUME NEW batch \in Seq(Nat), bytes \in Seq(Nat), WithinLimit
    PROVE  /\ Fitting(batch) \in 0..Len(batch)
           /\ Len(bytes) + Fitting(batch) <= Limit
  BY LimitAssumption DEF Fitting, Available, WithinLimit

\* The pushed and the kept part of a batch are sequences of bytes.
LEMMA BatchSplits ==
    ASSUME NEW batch \in Seq(Nat), NEW k \in 0..Len(batch)
    PROVE  /\ SubSeq(batch, 1, k) \in Seq(Nat)
           /\ Len(SubSeq(batch, 1, k)) = k
           /\ SubSeq(batch, k + 1, Len(batch)) \in Seq(Nat)
           /\ Len(SubSeq(batch, k + 1, Len(batch))) = Len(batch) - k
  <1>1. \A i \in 1..Len(batch) : batch[i] \in Nat
    OBVIOUS
  <1>2. /\ SubSeq(batch, 1, k) \in Seq(Nat)
        /\ Len(SubSeq(batch, 1, k)) = IF 1 <= k THEN k - 1 + 1 ELSE 0
    <2>1. \A i \in 1..k : batch[i] \in Nat
      BY <1>1
    <2>2. QED
      BY <2>1, SubSeqProperties
  <1>3. /\ SubSeq(batch, k + 1, Len(batch)) \in Seq(Nat)
        /\ Len(SubSeq(batch, k + 1, Len(batch)))
             = IF k + 1 <= Len(batch) THEN Len(batch) - (k + 1) + 1 ELSE 0
    <2>1. \A i \in (k + 1)..Len(batch) : batch[i] \in Nat
      BY <1>1
    <2>2. QED
      BY <2>1, SubSeqProperties
  <1>4. QED
    BY <1>2, <1>3

LEMMA BatchIsSeq ==
    ASSUME offered \in Nat, NEW n \in Nat
    PROVE  /\ Batch(n) \in Seq(Nat)
           /\ Len(Batch(n)) = n
  <1>1. \A i \in 1..n : offered + i \in Nat
    OBVIOUS
  <1>2. Batch(n) \in Seq(Nat)
    BY <1>1, IsASeq DEF Batch
  <1>3. QED
    BY <1>2 DEF Batch

\* ConcatAssociative for byte sequences, in the form the steps below use.
LEMMA BytesAssociative ==
    \A s, t, u \in Seq(Nat) : (s \o t) \o u = s \o (t \o u)
  BY ConcatAssociative

\* A notification changes whom it missed, whatever calls it.
LEMMA MissedType ==
    ASSUME TypeOK, (\E batch : Push(batch)) \/ Take
    PROVE  missed' \in SUBSET Handles
  <1>1. missed \in SUBSET Handles
    BY DEF TypeOK
  <1>2. Missing("receiver", receiver) \in SUBSET Handles
    BY <1>1 DEF Missing, Handles
  <1>3. Missing("sender", sender) \in SUBSET Handles
    BY <1>1 DEF Missing, Handles
  <1>4. QED
    BY <1>1, <1>2, <1>3 DEF Push, Take

\* What one locked section of a sending call does to the buffer.
LEMMA PushEffect ==
    ASSUME TypeOK, WithinLimit, NEW batch \in Seq(Nat), Push(batch)
    PROVE  /\ bytes' \in Seq(Nat)
           /\ accepted' \in Seq(Nat)
           /\ receiver' \in Locations
           /\ Len(bytes') <= Limit
           /\ Len(bytes') = Len(bytes) + Fitting(batch)
           /\ Len(accepted') = Len(accepted) + Fitting(batch)
           /\ FifoExact => delivered \o bytes' = accepted'
  <1> DEFINE k == Fitting(batch)
             pushed == SubSeq(batch, 1, k)
  <1>1. k \in 0..Len(batch) /\ Len(bytes) + k <= Limit
    BY FittingFits DEF TypeOK
  <1>2. pushed \in Seq(Nat) /\ Len(pushed) = k
    BY <1>1, BatchSplits
  <1>3. bytes' = bytes \o pushed /\ accepted' = accepted \o pushed
    BY DEF Push
  <1>4. receiver' \in Locations
    BY DEF Push, Woken, TypeOK, Locations
  <1> HIDE DEF k, pushed
  <1>5. /\ bytes' \in Seq(Nat) /\ Len(bytes') = Len(bytes) + k
        /\ accepted' \in Seq(Nat) /\ Len(accepted') = Len(accepted) + k
    BY <1>2, <1>3, ConcatProperties DEF TypeOK
  <1>6. FifoExact => delivered \o bytes' = accepted'
    <2> SUFFICES ASSUME FifoExact PROVE delivered \o bytes' = accepted'
      OBVIOUS
    <2>1. delivered \o (bytes \o pushed) = (delivered \o bytes) \o pushed
      <3>1. delivered \in Seq(Nat) /\ bytes \in Seq(Nat)
        BY DEF TypeOK
      <3>2. QED
        BY <1>2, <3>1, BytesAssociative
    <2>2. QED
      BY <2>1, <1>3 DEF FifoExact
  <1>7. QED
    BY <1>1, <1>4, <1>5, <1>6, LimitAssumption DEF k, TypeOK

\* A batch that send_async could not push whole leaves a suffix to push later.
LEMMA RestEffect ==
    ASSUME TypeOK, WithinLimit, NEW batch \in Seq(Nat)
    PROVE  LET left == SubSeq(batch, Fitting(batch) + 1, Len(batch)) IN
           left \in Seq(Nat) /\ Len(left) = Len(batch) - Fitting(batch)
  BY FittingFits, BatchSplits DEF TypeOK

\* What taking everything does.
LEMMA TakeEffect ==
    ASSUME TypeOK, Take
    PROVE  /\ bytes' \in Seq(Nat) /\ Len(bytes') = 0
           /\ delivered' \in Seq(Nat)
           /\ sender' \in Locations
           /\ FifoExact => delivered' = accepted /\ delivered' \o bytes' = accepted
  <1>1. delivered' = delivered \o bytes /\ bytes' = <<>>
    BY DEF Take
  <1>2. delivered' \in Seq(Nat)
    BY <1>1, ConcatProperties DEF TypeOK
  <1>3. delivered' \o bytes' = delivered'
    BY <1>1, <1>2, ConcatEmptySeq
  <1>4. QED
    BY <1>1, <1>2, <1>3, EmptySeq DEF Take, Woken, TypeOK, Locations, FifoExact

-----------------------------------------------------------------------------
\* Only an async call in progress holds bytes back: without this, a new call
\* could overwrite them and Conserved would not be inductive.
RestInCall == sender \in {"idle", "dropped"} => rest = <<>>

\* The limit makes the pushed prefix well defined, and the types make the
\* histories sequences.
IInv == TypeOK /\ WithinLimit /\ FifoExact /\ Conserved /\ RestInCall

LEMMA InitIInv == Init => IInv
  <1> SUFFICES ASSUME Init PROVE IInv
    OBVIOUS
  <1>1. <<>> \in Seq(Nat) /\ <<>> \o <<>> = <<>>
    OBVIOUS
  <1>2. TypeOK
    BY <1>1 DEF Init, TypeOK, Locations
  <1>3. FifoExact
    BY <1>1 DEF Init, FifoExact
  <1>4. WithinLimit /\ Conserved /\ RestInCall
    BY LimitAssumption DEF Init, WithinLimit, Conserved, RestInCall
  <1>5. QED
    BY <1>2, <1>3, <1>4 DEF IInv

\* Lengths are numbers: what the arithmetic of Conserved needs.
LEMMA LengthsAreNat ==
    ASSUME TypeOK
    PROVE  /\ Len(bytes) \in Nat /\ Len(accepted) \in Nat /\ Len(rest) \in Nat
           /\ returned \in Nat /\ offered \in Nat
  BY DEF TypeOK

LEMMA TrySendIInv ==
    ASSUME IInv, NEW n \in 0..MaxBatch, TrySend(n)
    PROVE  IInv'
  <1>1. TypeOK /\ WithinLimit /\ FifoExact /\ Conserved /\ RestInCall
    BY DEF IInv
  <1>2. n \in Nat /\ Batch(n) \in Seq(Nat) /\ Len(Batch(n)) = n
    BY <1>1, BoundsAssumption, BatchIsSeq DEF TypeOK
  <1>3. /\ offered' = offered + n
        /\ disconnected' = disconnected /\ sender' = sender
        /\ rest' = rest /\ delivered' = delivered
    BY DEF TrySend, Offer
  <1>4. CASE disconnected
    <2>1. /\ returned' = returned + n
          /\ bytes' = bytes /\ accepted' = accepted /\ receiver' = receiver
          /\ missed' = missed
      BY <1>4 DEF TrySend
    <2>2. Conserved'
      BY <1>1, <1>2, <1>3, <2>1, LengthsAreNat DEF Conserved
    <2>3. TypeOK'
      BY <1>1, <1>2, <1>3, <2>1 DEF TypeOK
    <2>4. QED
      BY <1>1, <1>3, <2>1, <2>2, <2>3 DEF IInv, WithinLimit, FifoExact, RestInCall
  <1>5. CASE ~disconnected
    <2> DEFINE k == Fitting(Batch(n))
    <2>1. Push(Batch(n)) /\ returned' = returned + (n - k)
      BY <1>2, <1>5 DEF TrySend, Rejected
    <2>2. k \in 0..n
      BY <1>1, <1>2, FittingFits DEF TypeOK
    <2>3. /\ bytes' \in Seq(Nat) /\ accepted' \in Seq(Nat)
          /\ receiver' \in Locations
          /\ Len(bytes') <= Limit
          /\ Len(accepted') = Len(accepted) + k
          /\ delivered \o bytes' = accepted'
      BY <1>1, <1>2, <2>1, PushEffect
    <2> HIDE DEF k
    <2>4. returned' \in Nat /\ offered' \in Nat
      BY <1>1, <1>2, <1>3, <2>1, <2>2 DEF TypeOK
    <2>5. Conserved'
      BY <1>1, <1>2, <1>3, <2>1, <2>2, <2>3, LengthsAreNat, SMTT(60) DEF Conserved
    <2>6. TypeOK'
      <3>1. missed' \in SUBSET Handles
        BY <1>1, <2>1, MissedType
      <3>2. QED
        BY <1>1, <1>3, <2>3, <2>4, <3>1 DEF TypeOK
    <2>7. QED
      BY <1>3, <2>3, <2>5, <2>6 DEF IInv, WithinLimit, FifoExact, RestInCall
  <1>6. QED
    BY <1>1, <1>4, <1>5 DEF TypeOK

LEMMA SendAsyncPushIInv ==
    ASSUME IInv, SendAsyncPush
    PROVE  IInv'
  <1> DEFINE k == Fitting(rest)
  <1>1. TypeOK /\ WithinLimit /\ FifoExact /\ Conserved /\ RestInCall
        /\ rest \in Seq(Nat)
    BY DEF IInv, TypeOK
  <1>2. /\ Push(rest)
        /\ rest' = SubSeq(rest, k + 1, Len(rest))
        /\ sender' = IF Len(rest) <= Available THEN "idle" ELSE "unlocked"
        /\ disconnected' = disconnected /\ offered' = offered
        /\ returned' = returned /\ delivered' = delivered
    BY DEF SendAsyncPush, Remaining
  <1>3. /\ bytes' \in Seq(Nat) /\ accepted' \in Seq(Nat)
        /\ receiver' \in Locations
        /\ Len(bytes') <= Limit
        /\ Len(accepted') = Len(accepted) + k
        /\ delivered \o bytes' = accepted'
    BY <1>1, <1>2, PushEffect
  <1>4. rest' \in Seq(Nat) /\ Len(rest') = Len(rest) - k
    BY <1>1, <1>2, RestEffect
  <1>5. k \in 0..Len(rest)
    BY <1>1, FittingFits DEF TypeOK
  <1>6. Len(rest) <= Available => k = Len(rest)
    BY DEF Fitting
  <1> HIDE DEF k
  <1>7. RestInCall'
    BY <1>1, <1>2, <1>4, <1>6, EmptySeq DEF RestInCall
  <1>8. Conserved'
    <2>1. /\ Len(accepted) \in Nat /\ Len(rest) \in Nat
          /\ returned \in Nat /\ offered \in Nat /\ k \in Nat
      BY <1>1, <1>5, LengthsAreNat
    <2>2. Len(accepted) + Len(rest) + returned = offered
      BY <1>1 DEF Conserved
    <2>3. Len(accepted') = Len(accepted) + k /\ Len(rest') = Len(rest) - k
      BY <1>3, <1>4
    <2>4. returned' = returned /\ offered' = offered
      BY <1>2
    <2>5. Len(accepted') + Len(rest') + returned' = offered'
      BY ONLY <2>1, <2>2, <2>3, <2>4, SMTT(60)
    <2>6. QED
      BY <2>5 DEF Conserved
  <1>9. TypeOK'
    <2>1. missed' \in SUBSET Handles
      BY <1>1, <1>2, MissedType
    <2>2. QED
      BY <1>1, <1>2, <1>3, <1>4, <2>1 DEF TypeOK, Locations
  <1>10. QED
    BY <1>2, <1>3, <1>7, <1>8, <1>9 DEF IInv, WithinLimit, FifoExact

\* Both receiving calls take everything and leave the other variables alone.
LEMMA TakeIInv ==
    ASSUME IInv, Take, receiver' \in Locations,
           UNCHANGED <<disconnected, rest, offered, returned, accepted>>
    PROVE  IInv'
  <1>1. TypeOK /\ WithinLimit /\ FifoExact /\ Conserved /\ RestInCall
    BY DEF IInv
  <1>2. /\ bytes' \in Seq(Nat) /\ Len(bytes') = 0
        /\ delivered' \in Seq(Nat) /\ sender' \in Locations
        /\ delivered' \o bytes' = accepted
    BY <1>1, TakeEffect
  <1>3. TypeOK'
    <2>1. missed' \in SUBSET Handles
      BY <1>1, MissedType
    <2>2. QED
      BY <1>1, <1>2, <2>1 DEF TypeOK
  <1>4. Conserved'
    BY <1>1 DEF Conserved
  <1>5. RestInCall'
    BY <1>1 DEF RestInCall, Take, Woken
  <1>6. QED
    BY <1>2, <1>3, <1>4, <1>5, LimitAssumption DEF IInv, WithinLimit, FifoExact, RestInCall

\* The actions that move no byte out of or into the buffer.
LEMMA QuietIInv ==
    ASSUME IInv, UNCHANGED <<bytes, accepted, delivered, missed>>,
           disconnected' \in BOOLEAN, sender' \in Locations,
           receiver' \in Locations, rest' \in Seq(Nat),
           sender' \in {"idle", "dropped"} => rest' = <<>>,
           offered' \in Nat, returned' \in Nat,
           Len(rest') + returned' - offered' = Len(rest) + returned - offered
    PROVE  IInv'
  <1>1. TypeOK /\ WithinLimit /\ FifoExact /\ Conserved /\ RestInCall
    BY DEF IInv
  <1>2. Len(rest') \in Nat
    OBVIOUS
  <1>3. Conserved'
    <2>1. /\ Len(accepted) \in Nat /\ Len(rest) \in Nat
          /\ returned \in Nat /\ offered \in Nat
      BY <1>1, LengthsAreNat
    <2>2. Len(accepted) + Len(rest) + returned = offered
      BY <1>1 DEF Conserved
    <2>3. Len(accepted') = Len(accepted)
      OBVIOUS
    <2>4. Len(accepted') + Len(rest') + returned' = offered'
      <3>1. /\ offered' \in Nat /\ returned' \in Nat
            /\ Len(rest') + returned' - offered' = Len(rest) + returned - offered
        OBVIOUS
      <3>2. QED
        BY ONLY <1>2, <2>1, <2>2, <2>3, <3>1, SMTT(60)
    <2>5. QED
      BY <2>4 DEF Conserved
  <1>4. RestInCall'
    BY DEF RestInCall
  <1>5. QED
    BY <1>1, <1>3, <1>4 DEF IInv, TypeOK, WithinLimit, FifoExact

LEMMA NextIInv == IInv /\ [Next]_vars => IInv'
  <1> SUFFICES ASSUME IInv, [Next]_vars PROVE IInv'
    OBVIOUS
  <1>0. /\ TypeOK
        /\ sender \in {"idle", "dropped"} => rest = <<>>
        /\ Len(rest) \in Nat /\ returned \in Nat /\ offered \in Nat
    BY LengthsAreNat DEF IInv, RestInCall
  <1>1. ASSUME NEW n \in 0..MaxBatch, TrySend(n) PROVE IInv'
    BY <1>1, TrySendIInv
  <1>2. ASSUME NEW n \in 0..MaxBatch, SendAsync(n) PROVE IInv'
    <2>1. n \in Nat /\ Batch(n) \in Seq(Nat) /\ Len(Batch(n)) = n
      BY <1>0, BoundsAssumption, BatchIsSeq
    <2>2. /\ offered' = offered + n /\ rest' = Batch(n) /\ sender' = "locking"
          /\ UNCHANGED <<chan, receiver, returned, accepted, delivered, missed>>
      BY <1>2 DEF SendAsync, Offer
    <2>3. rest = <<>>
      BY <1>2 DEF SendAsync, IInv, RestInCall
    <2>4. Len(rest') + returned' - offered' = Len(rest) + returned - offered
      <3>1. Len(rest) = 0 /\ Len(rest') = n /\ returned' = returned /\ offered' = offered + n
        BY <2>1, <2>2, <2>3, EmptySeq
      <3>2. QED
        BY ONLY <1>0, <2>1, <3>1, SMTT(60)
    <2>5. offered' \in Nat
      BY <1>0, <2>1, <2>2
    <2>6. QED
      BY <1>0, <2>1, <2>2, <2>4, <2>5, QuietIInv DEF TypeOK, chan, Locations
  <1>3. CASE SendAsyncPush
    BY <1>3, SendAsyncPushIInv
  <1>4. CASE SendAsyncError
    BY <1>0, <1>4, QuietIInv DEF SendAsyncError, TypeOK, chan, Locations
  <1>5. CASE SendAsyncWait
    BY <1>0, <1>5, QuietIInv DEF SendAsyncWait, TypeOK, chan, history, Locations
  <1>6. CASE DropSender
    BY <1>0, <1>6, QuietIInv DEF DropSender, TypeOK, Locations
  <1>7. CASE TryRecv
    BY <1>0, <1>7, TakeIInv DEF TryRecv, TypeOK
  <1>8. CASE RecvAsync
    BY <1>0, <1>8, QuietIInv DEF RecvAsync, TypeOK, chan, history, Locations
  <1>9. CASE RecvAsyncTake
    BY <1>0, <1>9, TakeIInv DEF RecvAsyncTake, TypeOK, Locations
  <1>10. CASE RecvAsyncError
    BY <1>0, <1>10, QuietIInv DEF RecvAsyncError, TypeOK, chan, history, Locations
  <1>11. CASE RecvAsyncEmpty
    BY <1>0, <1>11, QuietIInv DEF RecvAsyncEmpty, TypeOK, chan, history, Locations
  <1>12. CASE RecvAsyncWait
    BY <1>0, <1>12, QuietIInv DEF RecvAsyncWait, TypeOK, chan, history, Locations
  <1>13. CASE DropReceiver
    BY <1>0, <1>13, QuietIInv DEF DropReceiver, TypeOK, history, Locations
  <1>14. CASE UNCHANGED vars
    BY <1>0, <1>14, QuietIInv DEF vars, TypeOK
  <1>15. QED
    BY <1>1, <1>2, <1>3, <1>4, <1>5, <1>6, <1>7, <1>8, <1>9, <1>10, <1>11,
       <1>12, <1>13, <1>14 DEF Next, SenderStep, ReceiverStep

-----------------------------------------------------------------------------
\* IInv holds in every reachable state.
THEOREM SpecIInv == Spec => []IInv
  <1>1. QED
    BY InitIInv, NextIInv, PTL DEF Spec

\* Every variable keeps its type.
THEOREM SpecTypeOK == Spec => []TypeOK
  <1>1. IInv => TypeOK
    BY DEF IInv
  <1>2. QED
    BY <1>1, SpecIInv, PTL

\* The buffer never outgrows the limit, for any limit and any batches.
THEOREM SpecWithinLimit == Spec => []WithinLimit
  <1>1. IInv => WithinLimit
    BY DEF IInv
  <1>2. QED
    BY <1>1, SpecIInv, PTL

\* The receiver gets the accepted bytes, each once and in order.
THEOREM SpecFifoExact == Spec => []FifoExact
  <1>1. IInv => FifoExact
    BY DEF IInv
  <1>2. QED
    BY <1>1, SpecIInv, PTL

\* Every byte handed over is accepted, held by send_async, or given back.
THEOREM SpecConserved == Spec => []Conserved
  <1>1. IInv => Conserved
    BY DEF IInv
  <1>2. QED
    BY <1>1, SpecIInv, PTL

-----------------------------------------------------------------------------
\* Pushing wakes the receiver or is missed by it; a sender that could not push
\* all it holds has filled the buffer.
LEMMA PushNotifies ==
    ASSUME IInv, AwakeUnlessMissed, NEW batch \in Seq(Nat), Push(batch)
    PROVE  /\ receiver' \in {"unlocked", "waiting"} /\ bytes' # <<>>
                => "receiver" \in missed'
           /\ "sender" \in missed => "sender" \in missed'
           /\ Len(bytes) <= Len(bytes')
           /\ Len(batch) > Available => Len(bytes') = Limit
  <1>1. TypeOK /\ WithinLimit /\ bytes \in Seq(Nat) /\ Len(bytes) \in Nat
    BY DEF IInv, TypeOK
  <1>2. Fitting(batch) \in 0..Len(batch)
    BY <1>1, FittingFits
  <1>3. Len(bytes') = Len(bytes) + Fitting(batch) /\ Fitting(batch) \in Nat
    BY <1>1, <1>2, PushEffect
  <1>4. Len(batch) > Available => Len(bytes') = Limit
    BY <1>1, <1>3, LimitAssumption DEF Fitting, Available
  <1>5. CASE Fitting(batch) > 0
    <2>1. receiver' = Woken(receiver) /\ missed' = Missing("receiver", receiver)
      BY <1>5 DEF Push
    <2>2. QED
      BY <1>1, <1>3, <1>4, <2>1 DEF Woken, Missing
  <1>6. CASE ~(Fitting(batch) > 0)
    <2>1. receiver' = receiver /\ missed' = missed
      BY <1>6 DEF Push
    <2>2. bytes' # <<>> => bytes # <<>>
      <3>1. Len(bytes') = Len(bytes) /\ bytes' \in Seq(Nat)
        BY <1>1, <1>2, <1>3, <1>6, PushEffect
      <3>2. QED
        BY <1>1, <3>1, EmptySeq
    <2>3. QED
      BY <1>1, <1>3, <1>4, <2>1, <2>2 DEF AwakeUnlessMissed
  <1>7. QED
    BY <1>5, <1>6

\* Taking everything wakes the sender or is missed by it.
LEMMA TakeNotifies ==
    ASSUME Take
    PROVE  /\ bytes' = <<>>
           /\ sender' \in {"unlocked", "waiting"} => "sender" \in missed'
  BY DEF Take, Woken, Missing

\* A step of the channel keeps AwakeUnlessMissed.
LEMMA NextAwake ==
    ASSUME IInv, AwakeUnlessMissed, [Next]_vars
    PROVE  AwakeUnlessMissed'
  <1>0. TypeOK /\ Len(bytes) \in Nat /\ rest \in Seq(Nat)
    BY LengthsAreNat DEF IInv, TypeOK
  <1>1. ASSUME NEW n \in 0..MaxBatch, TrySend(n) PROVE AwakeUnlessMissed'
    <2>1. sender = "idle" /\ sender' = "idle"
      BY <1>1 DEF TrySend
    <2>2. CASE disconnected
      BY <1>1, <2>1, <2>2 DEF TrySend, AwakeUnlessMissed
    <2>3. CASE ~disconnected
      <3>1. Batch(n) \in Seq(Nat) /\ Push(Batch(n))
        BY <1>0, <1>1, <2>3, BoundsAssumption, BatchIsSeq DEF TrySend, TypeOK
      <3>2. receiver' \in {"unlocked", "waiting"} /\ bytes' # <<>>
              => "receiver" \in missed'
        BY <3>1, PushNotifies
      <3>3. QED
        BY <2>1, <3>2 DEF AwakeUnlessMissed
    <2>4. QED
      BY <1>0, <2>2, <2>3 DEF TypeOK
  <1>2. CASE SendAsyncPush
    <2>1. /\ Push(rest)
          /\ sender' = IF Len(rest) <= Available THEN "idle" ELSE "unlocked"
      BY <1>2 DEF SendAsyncPush
    <2>2. /\ receiver' \in {"unlocked", "waiting"} /\ bytes' # <<>>
                => "receiver" \in missed'
          /\ Len(rest) > Available => Len(bytes') = Limit
      BY <1>0, <2>1, PushNotifies
    <2>3. sender' = "unlocked" => Len(bytes') = Limit
      BY <1>0, <2>1, <2>2, LimitAssumption DEF Available
    <2>4. sender' \in {"unlocked", "waiting"} => ~(Len(bytes') < Limit)
      BY <2>1, <2>3, LimitAssumption
    <2>5. QED
      BY <2>2, <2>4 DEF AwakeUnlessMissed
  <1>3. CASE TryRecv \/ RecvAsyncTake
    BY <1>3, TakeNotifies DEF TryRecv, RecvAsyncTake, AwakeUnlessMissed
  <1>4. ASSUME NEW n \in 0..MaxBatch, SendAsync(n) PROVE AwakeUnlessMissed'
    BY <1>4 DEF SendAsync, AwakeUnlessMissed, chan
  <1>5. CASE SendAsyncError \/ SendAsyncWait \/ DropSender
    BY <1>5 DEF SendAsyncError, SendAsyncWait, DropSender, AwakeUnlessMissed,
                chan, history
  <1>6. CASE RecvAsync \/ RecvAsyncError \/ RecvAsyncEmpty
    BY <1>6 DEF RecvAsync, RecvAsyncError, RecvAsyncEmpty, AwakeUnlessMissed,
                chan, history
  <1>7. CASE RecvAsyncWait \/ DropReceiver
    BY <1>7 DEF RecvAsyncWait, DropReceiver, AwakeUnlessMissed, chan, history
  <1>8. CASE UNCHANGED vars
    BY <1>8 DEF vars, AwakeUnlessMissed
  <1>9. QED
    BY <1>1, <1>2, <1>3, <1>4, <1>5, <1>6, <1>7, <1>8
       DEF Next, SenderStep, ReceiverStep

\* A handle sleeps on something it could do only after a notification that fell
\* in its window, for every limit and every batch (byte_channel.rs:112-115,
\* 175-178): no other lost wakeup exists.
THEOREM SpecAwakeUnlessMissed == Spec => []AwakeUnlessMissed
  <1>1. Init => AwakeUnlessMissed
    BY DEF Init, AwakeUnlessMissed
  <1>2. IInv /\ AwakeUnlessMissed /\ [Next]_vars => AwakeUnlessMissed'
    BY NextAwake
  <1>3. QED
    BY <1>1, <1>2, SpecIInv, PTL DEF Spec

-----------------------------------------------------------------------------
\* A push extends the stream and stays Limit bytes ahead of the reader at most.
LEMMA PushIsSend ==
    ASSUME IInv, IInv', NEW batch \in Seq(Nat), Push(batch), ~disconnected,
           UNCHANGED <<delivered, disconnected>>
    PROVE  Stream!Send
  <1> DEFINE pushed == SubSeq(batch, 1, Fitting(batch))
  <1>1. /\ accepted \in Seq(Nat) /\ accepted' \in Seq(Nat)
        /\ delivered' \in Seq(Nat) /\ bytes' \in Seq(Nat) /\ WithinLimit'
    BY DEF IInv, TypeOK
  <1>2. pushed \in Seq(Nat) /\ accepted' = accepted \o pushed
    BY FittingFits, BatchSplits DEF Push, IInv, TypeOK
  <1> HIDE DEF pushed
  <1>3. Len(accepted') >= Len(accepted)
    BY <1>1, <1>2, ConcatProperties
  <1>4. SubSeq(accepted', 1, Len(accepted)) = accepted
    <2>1. \A i \in 1..Len(accepted) : accepted'[i] = accepted[i]
      BY <1>1, <1>2, ConcatProperties
    <2>2. /\ SubSeq(accepted', 1, Len(accepted)) \in Seq(Nat)
          /\ Len(SubSeq(accepted', 1, Len(accepted))) = Len(accepted)
      BY <1>1, <1>3, BatchSplits
    <2>3. \A i \in 1..Len(accepted) :
             SubSeq(accepted', 1, Len(accepted))[i] = accepted'[i]
      BY <1>1, <1>3
    <2>4. QED
      BY <1>1, <2>1, <2>2, <2>3, SeqEqual
  <1>5. Len(accepted') <= Len(delivered) + Limit
    <2>1. accepted' = delivered' \o bytes'
      BY DEF IInv, FifoExact
    <2>2. Len(accepted') = Len(delivered') + Len(bytes')
      BY <1>1, <2>1, ConcatProperties
    <2>3. QED
      BY <1>1, <2>2, LimitAssumption DEF WithinLimit
  <1>6. QED
    BY <1>3, <1>4, <1>5 DEF Stream!Send, Stream!Extends

\* Taking the whole buffer hands over everything the stream took.
LEMMA TakeIsReceive ==
    ASSUME IInv, Take, UNCHANGED <<accepted, disconnected>>
    PROVE  Stream!Receive
  <1>1. delivered' = accepted
    BY TakeEffect DEF IInv
  <1>2. QED
    BY <1>1 DEF Stream!Receive

LEMMA NextImplements ==
    ASSUME IInv, IInv', [Next]_vars
    PROVE  [Stream!StreamNext]_(Stream!streamVars)
  <1> USE DEF Stream!StreamNext, Stream!streamVars
  <1>1. ASSUME NEW n \in 0..MaxBatch, TrySend(n)
        PROVE  Stream!Send \/ UNCHANGED Stream!streamVars
    <2>1. CASE disconnected
      BY <1>1, <2>1 DEF TrySend
    <2>2. CASE ~disconnected
      <3>1. Batch(n) \in Seq(Nat)
        BY BoundsAssumption, BatchIsSeq DEF IInv, TypeOK
      <3>2. Push(Batch(n)) /\ UNCHANGED <<delivered, disconnected>>
        BY <1>1, <2>2 DEF TrySend
      <3>3. QED
        BY <2>2, <3>1, <3>2, PushIsSend
    <2>3. QED
      BY <2>1, <2>2
  <1>2. ASSUME NEW n \in 0..MaxBatch, SendAsync(n)
        PROVE  UNCHANGED Stream!streamVars
    BY <1>2 DEF SendAsync, chan
  <1>3. CASE SendAsyncPush
    BY <1>3, PushIsSend DEF SendAsyncPush, IInv, TypeOK
  <1>4. CASE SendAsyncError
    BY <1>4 DEF SendAsyncError, chan
  <1>5. CASE SendAsyncWait
    BY <1>5 DEF SendAsyncWait, chan, history
  <1>6. CASE DropSender
    BY <1>6 DEF DropSender, Stream!Close
  <1>7. CASE TryRecv
    BY <1>7, TakeIsReceive DEF TryRecv
  <1>8. CASE RecvAsyncTake
    BY <1>8, TakeIsReceive DEF RecvAsyncTake
  <1>9. CASE RecvAsync \/ RecvAsyncError \/ RecvAsyncEmpty \/ RecvAsyncWait
    BY <1>9 DEF RecvAsync, RecvAsyncError, RecvAsyncEmpty, RecvAsyncWait, chan, history
  <1>10. CASE DropReceiver
    BY <1>10 DEF DropReceiver, history, Stream!Close
  <1>11. CASE UNCHANGED vars
    BY <1>11 DEF vars
  <1>12. QED
    BY <1>1, <1>2, <1>3, <1>4, <1>5, <1>6, <1>7, <1>8, <1>9, <1>10, <1>11
    DEF Next, SenderStep, ReceiverStep

\* The channel implements the abstract stream: every step of a handle is a Send,
\* a Receive, a Close or invisible.
THEOREM SpecImplementsStream == Spec => Stream!StreamSpec
  <1>1. Init => Stream!StreamInit
    BY DEF Init, Stream!StreamInit
  <1>2. IInv /\ IInv' /\ [Next]_vars => [Stream!StreamNext]_(Stream!streamVars)
    BY NextImplements
  <1>3. QED
    BY <1>1, <1>2, SpecIInv, PTL DEF Spec, Stream!StreamSpec

-----------------------------------------------------------------------------
(***************************************************************************)
(* The order of the stream.  What is accepted and what send_async still    *)
(* holds are each in order, the one before the other, and neither is       *)
(* beyond what was handed over, so that what comes next is in order too.   *)
(***************************************************************************)
Ascending(s) == \A i, j \in 1..Len(s) : i < j => s[i] < s[j]

InOrder(a, r, top) ==
    /\ Ascending(a) /\ Ascending(r)
    /\ \A i \in 1..Len(a) : \A j \in 1..Len(r) : a[i] < r[j]
    /\ \A i \in 1..Len(a) : a[i] <= top
    /\ \A i \in 1..Len(r) : r[i] <= top

OrderInv == InOrder(accepted, rest, offered)

\* A new batch comes after everything that was handed over before.
LEMMA OfferKeepsOrder ==
    ASSUME NEW a \in Seq(Nat), NEW n \in Nat, TypeOK, InOrder(a, <<>>, offered)
    PROVE  InOrder(a, Batch(n), offered + n)
  <1> DEFINE b == Batch(n)
             none == <<>>
  <1>1. /\ offered \in Nat /\ b \in Seq(Nat) /\ Len(b) = n
        /\ \A i \in 1..n : b[i] = offered + i
    BY BatchIsSeq DEF TypeOK, Batch
  <1>2. InOrder(a, none, offered)
    OBVIOUS
  <1>3. \A i \in 1..Len(a) : a[i] \in Nat
    OBVIOUS
  <1> HIDE DEF b, none
  <1>4. Ascending(b) /\ \A i \in 1..Len(b) : b[i] <= offered + n
    BY <1>1 DEF Ascending
  <1>5. \A i \in 1..Len(a) : a[i] <= offered + n
    BY <1>1, <1>2, <1>3 DEF InOrder
  <1>6. \A i \in 1..Len(a) : \A j \in 1..Len(b) : a[i] < b[j]
    BY <1>1, <1>2, <1>3 DEF InOrder
  <1>7. QED
    BY <1>2, <1>4, <1>5, <1>6 DEF InOrder, b

\* Moving a prefix of what is held to what is accepted keeps the order.
LEMMA PushKeepsOrder ==
    ASSUME NEW a \in Seq(Nat), NEW r \in Seq(Nat), NEW top \in Nat, InOrder(a, r, top),
           NEW k \in 0..Len(r)
    PROVE  InOrder(a \o SubSeq(r, 1, k), SubSeq(r, k + 1, Len(r)), top)
  <1> DEFINE p == SubSeq(r, 1, k)
             q == SubSeq(r, k + 1, Len(r))
             b == a \o p
             n == Len(a)
  <1>1. /\ p \in Seq(Nat) /\ Len(p) = k /\ \A i \in 1..k : p[i] = r[i]
        /\ q \in Seq(Nat) /\ Len(q) = Len(r) - k /\ \A i \in 1..(Len(r) - k) : q[i] = r[k + i]
    <2>1. p \in Seq(Nat) /\ Len(p) = k /\ q \in Seq(Nat) /\ Len(q) = Len(r) - k
      BY BatchSplits
    <2>2. \A i \in 1..k : p[i] = r[i]
      OBVIOUS
    <2>3. \A i \in 1..(Len(r) - k) : q[i] = r[k + i]
      OBVIOUS
    <2>4. QED
      BY <2>1, <2>2, <2>3
  <1>2. /\ n \in Nat /\ Len(r) \in Nat /\ k \in 0..Len(r)
        /\ \A i \in 1..n : a[i] \in Nat
        /\ \A i \in 1..Len(r) : r[i] \in Nat
    OBVIOUS
  <1> HIDE DEF p, q
  <1>3. /\ Len(b) = n + k
        /\ \A i \in 1..n : b[i] = a[i]
        /\ \A i \in (n + 1)..(n + k) : b[i] = r[i - n] /\ i - n \in 1..Len(r)
    <2>1. /\ Len(b) = n + Len(p)
          /\ \A i \in 1..n + Len(p) : b[i] = IF i <= n THEN a[i] ELSE p[i - n]
      BY <1>1, ConcatProperties
    <2> HIDE DEF b, n
    <2>2. QED
      BY <1>1, <1>2, <2>1
  <1> HIDE DEF b, n
  <1>4. /\ \A i, j \in 1..n : i < j => a[i] < a[j]
        /\ \A i, j \in 1..Len(r) : i < j => r[i] < r[j]
        /\ \A i \in 1..n : \A j \in 1..Len(r) : a[i] < r[j]
        /\ \A i \in 1..n : a[i] <= top
        /\ \A i \in 1..Len(r) : r[i] <= top
    BY DEF InOrder, Ascending, n
  <1>5. Ascending(b)
    <2> SUFFICES ASSUME NEW i \in 1..(n + k), NEW j \in 1..(n + k), i < j
                 PROVE  b[i] < b[j]
      BY <1>3 DEF Ascending
    <2>1. CASE j \in 1..n
      BY <2>1, <1>2, <1>3, <1>4
    <2>2. CASE i \in 1..n /\ j \in (n + 1)..(n + k)
      BY <2>2, <1>2, <1>3, <1>4
    <2>3. CASE i \in (n + 1)..(n + k) /\ j \in (n + 1)..(n + k)
      <3>1. i - n < j - n
        BY <1>2
      <3>2. QED
        BY <2>3, <3>1, <1>3, <1>4
    <2>4. QED
      BY <1>2, <2>1, <2>2, <2>3
  <1>6. Ascending(q)
    <2> SUFFICES ASSUME NEW i \in 1..Len(q), NEW j \in 1..Len(q), i < j
                 PROVE  q[i] < q[j]
      BY DEF Ascending
    <2>1. k + i \in 1..Len(r) /\ k + j \in 1..Len(r) /\ k + i < k + j
      BY <1>1, <1>2
    <2>2. QED
      BY <2>1, <1>1, <1>4
  <1>7. ASSUME NEW i \in 1..Len(b), NEW j \in 1..Len(q)
        PROVE  b[i] < q[j]
    <2>1. k + j \in 1..Len(r) /\ q[j] = r[k + j]
      BY <1>1, <1>2
    <2>2. CASE i \in 1..n
      BY <2>1, <2>2, <1>3, <1>4
    <2>3. CASE i \in (n + 1)..(n + k)
      <3>1. i - n \in 1..Len(r) /\ i - n < k + j
        BY <2>1, <2>3, <1>2
      <3>2. QED
        BY <2>1, <2>3, <3>1, <1>3, <1>4
    <2>4. QED
      BY <1>2, <1>3, <2>2, <2>3
  <1>8. \A i \in 1..Len(b) : b[i] <= top
    <2> SUFFICES ASSUME NEW i \in 1..(n + k) PROVE b[i] <= top
      BY <1>3
    <2>1. CASE i \in 1..n
      BY <2>1, <1>3, <1>4
    <2>2. CASE i \in (n + 1)..(n + k)
      BY <2>2, <1>3, <1>4
    <2>3. QED
      BY <1>2, <2>1, <2>2
  <1>9. \A i \in 1..Len(q) : q[i] <= top
    <2> SUFFICES ASSUME NEW i \in 1..Len(q) PROVE q[i] <= top
      OBVIOUS
    <2>1. k + i \in 1..Len(r) /\ q[i] = r[k + i]
      BY <1>1, <1>2
    <2>2. QED
      BY <2>1, <1>4
  <1>10. InOrder(b, q, top)
    BY <1>5, <1>6, <1>7, <1>8, <1>9 DEF InOrder
  <1>11. QED
    BY <1>10 DEF b, p, q

\* Giving back what is held keeps the order, and so does handing over more.
LEMMA DropKeepsOrder ==
    ASSUME NEW a \in Seq(Nat), NEW r \in Seq(Nat), NEW top \in Nat, InOrder(a, r, top),
           NEW more \in Nat
    PROVE  InOrder(a, <<>>, top + more)
  <1> DEFINE none == <<>>
  <1>1. Len(none) = 0
    OBVIOUS
  <1> HIDE DEF none
  <1>2. \A i \in 1..Len(a) : a[i] \in Nat /\ a[i] <= top
    BY DEF InOrder
  <1>3. InOrder(a, none, top + more)
    BY <1>1, <1>2 DEF InOrder, Ascending
  <1>4. QED
    BY <1>3 DEF none

LEMMA NextOrderInv ==
    ASSUME IInv, OrderInv, [Next]_vars
    PROVE  OrderInv'
  <1>1. /\ TypeOK /\ accepted \in Seq(Nat) /\ rest \in Seq(Nat) /\ offered \in Nat
        /\ sender \in {"idle", "dropped"} => rest = <<>>
        /\ InOrder(accepted, rest, offered) /\ WithinLimit
    BY DEF IInv, OrderInv, TypeOK, RestInCall
  <1>2. ASSUME NEW n \in 0..MaxBatch, TrySend(n)
        PROVE  OrderInv'
    <2> DEFINE b == Batch(n)
               k == Fitting(b)
    <2>1. n \in Nat /\ b \in Seq(Nat) /\ Len(b) = n
      BY <1>1, BoundsAssumption, BatchIsSeq DEF TypeOK
    <2>2. /\ rest = <<>> /\ rest' = <<>> /\ offered' = offered + n
          /\ \/ accepted' = accepted
             \/ accepted' = accepted \o SubSeq(b, 1, k)
      BY <1>1, <1>2 DEF TrySend, Offer, Push
    <2>3. InOrder(accepted, <<>>, offered) /\ InOrder(accepted, b, offered + n)
      BY <1>1, <2>1, <2>2, OfferKeepsOrder
    <2>4. k \in 0..Len(b) /\ offered + n \in Nat
      BY <1>1, <2>1, FittingFits DEF TypeOK
    <2> HIDE DEF b, k
    <2>5. InOrder(accepted \o SubSeq(b, 1, k), SubSeq(b, k + 1, Len(b)), offered + n)
      BY <1>1, <2>1, <2>3, <2>4, PushKeepsOrder
    <2>6. accepted \o SubSeq(b, 1, k) \in Seq(Nat) /\ SubSeq(b, k + 1, Len(b)) \in Seq(Nat)
      <3>1. SubSeq(b, 1, k) \in Seq(Nat) /\ SubSeq(b, k + 1, Len(b)) \in Seq(Nat)
        BY <2>1, <2>4, BatchSplits
      <3>2. QED
        BY <1>1, <3>1, ConcatProperties
    <2>7. InOrder(accepted \o SubSeq(b, 1, k), <<>>, (offered + n) + 0)
      BY <2>4, <2>5, <2>6, DropKeepsOrder
    <2>8. InOrder(accepted, <<>>, (offered + n) + 0)
      BY <1>1, <2>1, <2>3, <2>4, DropKeepsOrder
    <2>9. (offered + n) + 0 = offered + n
      BY <2>4
    <2>10. QED
      BY <2>2, <2>7, <2>8, <2>9 DEF OrderInv
  <1>3. ASSUME NEW n \in 0..MaxBatch, SendAsync(n)
        PROVE  OrderInv'
    <2>1. n \in Nat
      BY BoundsAssumption
    <2>2. /\ rest = <<>> /\ rest' = Batch(n) /\ offered' = offered + n /\ accepted' = accepted
      BY <1>1, <1>3 DEF SendAsync, Offer
    <2>3. QED
      BY <1>1, <2>1, <2>2, OfferKeepsOrder DEF OrderInv
  <1>4. CASE SendAsyncPush
    <2>1. /\ accepted' = accepted \o SubSeq(rest, 1, Fitting(rest))
          /\ rest' = SubSeq(rest, Fitting(rest) + 1, Len(rest)) /\ offered' = offered
      BY <1>4 DEF SendAsyncPush, Push, Remaining
    <2>2. Fitting(rest) \in 0..Len(rest)
      BY <1>1, FittingFits DEF TypeOK
    <2>3. QED
      BY <1>1, <2>1, <2>2, PushKeepsOrder DEF OrderInv
  <1>5. CASE SendAsyncError \/ DropSender
    <2>1. accepted' = accepted /\ rest' = <<>> /\ offered' = offered
      BY <1>5 DEF SendAsyncError, DropSender
    <2>2. InOrder(accepted, <<>>, offered + 0) /\ offered + 0 = offered
      BY <1>1, DropKeepsOrder
    <2>3. QED
      BY <2>1, <2>2 DEF OrderInv
  <1>6. CASE UNCHANGED <<accepted, rest, offered>>
    BY <1>6, <1>1 DEF OrderInv
  <1>7. QED
    BY <1>2, <1>3, <1>4, <1>5, <1>6
    DEF Next, SenderStep, ReceiverStep, SendAsyncWait, TryRecv, RecvAsync, RecvAsyncTake,
        RecvAsyncError, RecvAsyncEmpty, RecvAsyncWait, DropReceiver, history, vars

\* The accepted bytes and those still held are in the caller's order.
THEOREM SpecStreamOrdered == Spec => []StreamOrdered
  <1>1. Init => OrderInv
    <2>1. InOrder(<<>>, <<>>, 0)
      BY DEF InOrder, Ascending
    <2>2. QED
      BY <2>1 DEF Init, OrderInv
  <1>2. IInv /\ OrderInv /\ [Next]_vars => OrderInv'
    BY NextOrderInv
  <1>3. IInv /\ OrderInv => StreamOrdered
    <2> SUFFICES ASSUME IInv, OrderInv PROVE Ascending(accepted \o rest)
      BY DEF StreamOrdered, Ascending
    <2> DEFINE s == accepted \o rest
               n == Len(accepted)
               m == Len(rest)
    <2>1. accepted \in Seq(Nat) /\ rest \in Seq(Nat) /\ n \in Nat /\ m \in Nat
      BY DEF IInv, TypeOK
    <2>2. /\ Len(s) = n + m
          /\ \A i \in 1..n + m : s[i] = IF i <= n THEN accepted[i] ELSE rest[i - n]
      BY <2>1, ConcatProperties
    <2>3. /\ \A i, j \in 1..n : i < j => accepted[i] < accepted[j]
          /\ \A i, j \in 1..m : i < j => rest[i] < rest[j]
          /\ \A i \in 1..n : \A j \in 1..m : accepted[i] < rest[j]
      BY DEF OrderInv, InOrder, Ascending
    <2> HIDE DEF s, n, m
    <2>4. ASSUME NEW i \in 1..(n + m), NEW j \in 1..(n + m), i < j
          PROVE  s[i] < s[j]
      <3>1. CASE j <= n
        BY <3>1, <2>1, <2>2, <2>3, <2>4
      <3>2. CASE i <= n /\ j > n
        <4>1. j - n \in 1..m
          BY <3>2, <2>1
        <4>2. i \in 1..n /\ s[i] = accepted[i] /\ s[j] = rest[j - n]
          BY <3>2, <2>1, <2>2
        <4>3. QED
          BY <4>1, <4>2, <2>3
      <3>3. CASE i > n
        <4>1. i - n \in 1..m /\ j - n \in 1..m /\ i - n < j - n
          BY <3>3, <2>1, <2>4
        <4>2. s[i] = rest[i - n] /\ s[j] = rest[j - n]
          BY <3>3, <2>1, <2>2, <2>4
        <4>3. QED
          BY <4>1, <4>2, <2>3
      <3>4. QED
        BY <2>1, <3>1, <3>2, <3>3
    <2>5. Ascending(s)
      BY <2>2, <2>4 DEF Ascending
    <2>6. QED
      BY <2>5 DEF s
  <1>4. QED
    BY <1>1, <1>2, <1>3, SpecIInv, PTL DEF Spec

=============================================================================
