----------------------------- MODULE ByteChannel -----------------------------
(***************************************************************************)
(* The bounded byte channel between the game thread, which encodes         *)
(* clientbound packets, and the network task that writes them to a socket  *)
(* (crates/chunkedge_network/src/byte_channel.rs).                         *)
(*                                                                         *)
(* Shared state is a byte buffer and a flag under one mutex, and one       *)
(* tokio Notify.  A call that holds the mutex is one action.  Between the  *)
(* release of the mutex and the creation of the Notified future an async   *)
(* call holds nothing and is registered nowhere: that window is a program  *)
(* counter value of its own ("unlocked"), because Notify::notify_waiters   *)
(* only wakes futures that exist when it is called.                        *)
(*                                                                         *)
(* Bytes are numbered in the order the caller hands them over.             *)
(***************************************************************************)
EXTENDS Integers, Sequences

CONSTANTS
    Limit,      \* Shared::limit, the capacity in bytes
    MaxBatch,   \* bound: the longest batch of one call
    MaxBytes    \* bound: how many bytes the caller hands over in a behaviour

ASSUME LimitAssumption == Limit \in Nat
ASSUME BoundsAssumption == MaxBatch \in Nat /\ MaxBytes \in Nat

VARIABLES
    bytes,         \* Inner::bytes
    disconnected,  \* Inner::disconnected
    sender,        \* where the owner of the ByteSender is
    rest,          \* send_async's local: the bytes it has still to push
    receiver,      \* where the owner of the ByteReceiver is
    offered,       \* history: how many bytes were handed to the sending calls
    returned,      \* history: how many of them an error gave back
    accepted,      \* history: the bytes put into the buffer, in order
    delivered,     \* history: the bytes handed to the receiver, in order
    missed         \* history: whose last notification fell in its window

chan == <<bytes, disconnected>>
history == <<offered, returned, accepted, delivered, missed>>
vars == <<bytes, disconnected, sender, rest, receiver,
          offered, returned, accepted, delivered, missed>>

(***************************************************************************)
(* "idle"      no call in progress                                         *)
(* "locking"   in an async call, about to take the mutex                   *)
(* "unlocked"  the mutex released, Notify::notified() not yet called       *)
(* "waiting"   awaiting a Notified future                                  *)
(* "dropped"   the handle is gone                                          *)
(***************************************************************************)
Locations == {"idle", "locking", "unlocked", "waiting", "dropped"}

Handles == {"sender", "receiver"}

TypeOK ==
    /\ bytes \in Seq(Nat)
    /\ disconnected \in BOOLEAN
    /\ sender \in Locations
    /\ rest \in Seq(Nat)
    /\ receiver \in Locations
    /\ offered \in Nat
    /\ returned \in Nat
    /\ accepted \in Seq(Nat)
    /\ delivered \in Seq(Nat)
    /\ missed \in SUBSET Handles

Init ==
    /\ bytes = <<>>
    /\ disconnected = FALSE
    /\ sender = "idle"
    /\ rest = <<>>
    /\ receiver = "idle"
    /\ offered = 0
    /\ returned = 0
    /\ accepted = <<>>
    /\ delivered = <<>>
    /\ missed = {}

-----------------------------------------------------------------------------
\* Notify::notify_waiters as seen by one task: only a registered one wakes.
Woken(location) == IF location = "waiting" THEN "locking" ELSE location

\* Who has missed a notification once this handle, there, was notified.
Missing(handle, location) ==
    IF location = "unlocked" THEN missed \union {handle} ELSE missed \ {handle}

Available == Limit - Len(bytes)

\* Mistakes of the kind the code could make; the runs must notice each of them.
FittingOneMore(batch) ==
    IF Len(batch) <= Available + 1 THEN Len(batch) ELSE Available

\* How much of a batch fits: all of it, or what is available.
Fitting(batch) == IF Len(batch) <= Available THEN Len(batch) ELSE Available

RemainingWhole(batch) == batch
RemainingShort(batch) == SubSeq(batch, Fitting(batch) + 2, Len(batch))

\* What bytes.split_off and bytes.split_to leave of a batch, and its length.
Remaining(batch) == SubSeq(batch, Fitting(batch) + 1, Len(batch))

RejectedSwapped(batch) == Fitting(batch) - Len(batch)

Rejected(batch) == Len(batch) - Fitting(batch)

\* notify_waiters only where the whole batch fits.
PushNotifyingWhole(batch) ==
    LET k == Fitting(batch) IN
    /\ bytes' = bytes \o SubSeq(batch, 1, k)
    /\ accepted' = accepted \o SubSeq(batch, 1, k)
    /\ IF k > 0 /\ k = Len(batch)
         THEN receiver' = Woken(receiver) /\ missed' = Missing("receiver", receiver)
         ELSE UNCHANGED <<receiver, missed>>

\* The locked section the two sending calls share: the fitting prefix goes
\* into the buffer, and only a push of at least one byte notifies.
Push(batch) ==
    LET k == Fitting(batch) IN
    /\ bytes' = bytes \o SubSeq(batch, 1, k)
    /\ accepted' = accepted \o SubSeq(batch, 1, k)
    /\ IF k > 0
         THEN receiver' = Woken(receiver) /\ missed' = Missing("receiver", receiver)
         ELSE UNCHANGED <<receiver, missed>>

\* The next n bytes of the caller.
Batch(n) == [i \in 1..n |-> offered + i]

Offer(n) ==
    /\ offered + n <= MaxBytes
    /\ offered' = offered + n

\* ByteSender::try_send.  What does not fit goes back to the caller in
\* TrySendError::Full; a disconnected channel takes nothing.
TrySend(n) ==
    /\ sender = "idle"
    /\ Offer(n)
    /\ \/ /\ disconnected
          /\ returned' = returned + n
          /\ UNCHANGED <<bytes, accepted, receiver, missed>>
       \/ /\ ~disconnected
          /\ Push(Batch(n))
          /\ returned' = returned + Rejected(Batch(n))
    /\ UNCHANGED <<disconnected, sender, rest, delivered>>

\* ByteSender::send_async, the call.
SendAsync(n) ==
    /\ sender = "idle"
    /\ Offer(n)
    /\ rest' = Batch(n)
    /\ sender' = "locking"
    /\ UNCHANGED <<chan, receiver, returned, accepted, delivered, missed>>

SendAsyncPushUnchecked ==
    /\ sender = "locking"
    /\ Push(rest)
    /\ rest' = Remaining(rest)
    /\ sender' = IF Len(rest) <= Available THEN "idle" ELSE "unlocked"
    /\ UNCHANGED <<disconnected, offered, returned, delivered>>

\* One turn of send_async's loop under the mutex.
SendAsyncPush ==
    /\ sender = "locking"
    /\ ~disconnected
    /\ Push(rest)
    /\ rest' = Remaining(rest)
    /\ sender' = IF Len(rest) <= Available THEN "idle" ELSE "unlocked"
    /\ UNCHANGED <<disconnected, offered, returned, delivered>>

\* send_async gives up with SendError(bytes).
SendAsyncError ==
    /\ sender = "locking"
    /\ disconnected
    /\ returned' = returned + Len(rest)
    /\ rest' = <<>>
    /\ sender' = "idle"
    /\ UNCHANGED <<chan, receiver, offered, accepted, delivered, missed>>

\* send_async reaches notified().await.
SendAsyncWait ==
    /\ sender = "unlocked"
    /\ sender' = "waiting"
    /\ UNCHANGED <<chan, rest, receiver, history>>

-----------------------------------------------------------------------------
TakeUncleared ==
    /\ bytes # <<>>
    /\ delivered' = delivered \o bytes
    /\ bytes' = bytes
    /\ sender' = Woken(sender)
    /\ missed' = Missing("sender", sender)

\* The locked section the two receiving calls share: take everything.
Take ==
    /\ bytes # <<>>
    /\ delivered' = delivered \o bytes
    /\ bytes' = <<>>
    /\ sender' = Woken(sender)
    /\ missed' = Missing("sender", sender)

\* ByteReceiver::try_recv with something to take; its errors change nothing.
TryRecv ==
    /\ receiver = "idle"
    /\ Take
    /\ UNCHANGED <<disconnected, rest, receiver, offered, returned, accepted>>

\* ByteReceiver::recv_async, the call.
RecvAsync ==
    /\ receiver = "idle"
    /\ receiver' = "locking"
    /\ UNCHANGED <<chan, sender, rest, history>>

RecvAsyncTake ==
    /\ receiver = "locking"
    /\ Take
    /\ receiver' = "idle"
    /\ UNCHANGED <<disconnected, rest, offered, returned, accepted>>

\* recv_async returns RecvError::Disconnected, only on an empty buffer.
RecvAsyncError ==
    /\ receiver = "locking"
    /\ bytes = <<>>
    /\ disconnected
    /\ receiver' = "idle"
    /\ UNCHANGED <<chan, sender, rest, history>>

\* Nothing to take: recv_async releases the mutex ...
RecvAsyncEmpty ==
    /\ receiver = "locking"
    /\ bytes = <<>>
    /\ ~disconnected
    /\ receiver' = "unlocked"
    /\ UNCHANGED <<chan, sender, rest, history>>

\* ... and then reaches notified().await.
RecvAsyncWait ==
    /\ receiver = "unlocked"
    /\ receiver' = "waiting"
    /\ UNCHANGED <<chan, sender, rest, history>>

-----------------------------------------------------------------------------
\* An async call is cancelled only where it awaits; a handle that is not in a
\* call can be dropped at any time.  Neither Drop notifies.
Droppable == {"idle", "waiting"}

DropSender ==
    /\ sender \in Droppable
    /\ sender' = "dropped"
    /\ returned' = returned + Len(rest)
    /\ rest' = <<>>
    /\ disconnected' = TRUE
    /\ UNCHANGED <<bytes, receiver, offered, accepted, delivered, missed>>

DropReceiver ==
    /\ receiver \in Droppable
    /\ receiver' = "dropped"
    /\ disconnected' = TRUE
    /\ UNCHANGED <<bytes, sender, rest, history>>

SenderStep ==
    \/ \E n \in 0..MaxBatch : TrySend(n) \/ SendAsync(n)
    \/ SendAsyncPush
    \/ SendAsyncError
    \/ SendAsyncWait
    \/ DropSender

ReceiverStep ==
    \/ TryRecv
    \/ RecvAsync
    \/ RecvAsyncTake
    \/ RecvAsyncError
    \/ RecvAsyncEmpty
    \/ RecvAsyncWait
    \/ DropReceiver

Next == SenderStep \/ ReceiverStep

Spec == Init /\ [][Next]_vars

(***************************************************************************)
(* The runtime keeps polling a task that is ready, so the steps of an      *)
(* async call are weakly fair, and the writer task calls recv_async again  *)
(* whenever it is idle.  Nothing obliges the game thread to send again,    *)
(* and nothing obliges anyone to drop a handle.                            *)
(***************************************************************************)
FairSpec ==
    /\ Spec
    /\ WF_vars(SendAsyncPush)
    /\ WF_vars(SendAsyncError)
    /\ WF_vars(SendAsyncWait)
    /\ WF_vars(RecvAsync)
    /\ WF_vars(RecvAsyncTake)
    /\ WF_vars(RecvAsyncError)
    /\ WF_vars(RecvAsyncEmpty)
    /\ WF_vars(RecvAsyncWait)

-----------------------------------------------------------------------------
\* The buffer never outgrows the limit, so that try_send's and send_async's
\* `limit - len` cannot wrap around (byte_channel.rs:70, 100).
WithinLimit == Len(bytes) <= Limit

\* Whatever sending calls, partial sends, receiving calls and drops do, the
\* receiver gets exactly the accepted bytes, in order and once: what was
\* delivered followed by what is buffered is what was accepted.
FifoExact == delivered \o bytes = accepted

\* The halves of a batch split at a full buffer keep their places: the accepted
\* bytes followed by those send_async still holds are in the caller's order,
\* none of them twice (byte_channel.rs:72-79, 108-111).
StreamOrdered ==
    LET stream == accepted \o rest IN
    \A i, j \in 1..Len(stream) : i < j => stream[i] < stream[j]

\* No byte handed to the channel disappears: it was accepted, or send_async
\* still holds it, or an error gave it back to the caller.
Conserved == Len(accepted) + Len(rest) + returned = offered

\* The queued bytes reach the receiver without waiting for the next send: the
\* promise of ClientConnection::try_send (client.rs:256-257) that the data is
\* sent as soon as possible.
SentAsSoonAsPossible ==
    (bytes # <<>>) ~> (bytes = <<>> \/ disconnected)

\* A handle that sleeps, or is about to, although there is something to take or
\* room to push, has missed a notification in its window and nowhere else.
AwakeUnlessMissed ==
    /\ receiver \in {"unlocked", "waiting"} /\ bytes # <<>>
         => "receiver" \in missed
    /\ sender \in {"unlocked", "waiting"} /\ Len(bytes) < Limit
         => "sender" \in missed

\* Whatever is in the buffer or held by send_async reaches the receiver, be the
\* two handles idle, in a call or asleep, unless a notification fell between a
\* handle's unlocking and its registration: that window is the only place where
\* a wakeup is lost (byte_channel.rs:112-115, 175-178).  Dropping the receiver
\* ends the obligation; dropping the sender does not.
DrainedUnlessMissed ==
    (bytes \o rest # <<>>)
        ~> (bytes \o rest = <<>> \/ receiver = "dropped" \/ missed # {})

=============================================================================
