------------------------------ MODULE ByteStream ------------------------------
(***************************************************************************)
(* What a byte channel promises, without mutex, wakeups or partial sends:  *)
(* a stream that grows at one end by at most Limit bytes ahead of the      *)
(* reader, is read in full and in order, and grows no more once closed.    *)
(***************************************************************************)
EXTENDS Integers, Sequences

CONSTANT Limit

VARIABLES
    sent,      \* the bytes the stream took
    received,  \* the bytes the reader got
    closed

streamVars == <<sent, received, closed>>

Extends(longer, shorter) ==
    /\ Len(longer) >= Len(shorter)
    /\ SubSeq(longer, 1, Len(shorter)) = shorter

StreamInit ==
    /\ sent = <<>>
    /\ received = <<>>
    /\ closed = FALSE

Send ==
    /\ ~closed
    /\ Extends(sent', sent)
    /\ Len(sent') <= Len(received) + Limit
    /\ UNCHANGED <<received, closed>>

\* The reader takes everything there is, also after the stream was closed.
Receive ==
    /\ received' = sent
    /\ UNCHANGED <<sent, closed>>

Close ==
    /\ closed' = TRUE
    /\ UNCHANGED <<sent, received>>

StreamNext == Send \/ Receive \/ Close

StreamSpec == StreamInit /\ [][StreamNext]_streamVars

=============================================================================
