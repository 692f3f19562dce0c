---------------------------- MODULE MCByteChannel ----------------------------
(***************************************************************************)
(* ByteChannel for TLC.  A limit of three bytes, batches of up to four     *)
(* and six bytes in all make a batch that fits, one that fits in part, one *)
(* that does not fit at all, one longer than the empty buffer, and a       *)
(* channel that fills, drains and refills.                                 *)
(***************************************************************************)
EXTENDS ByteChannel

Stream == INSTANCE ByteStream WITH
    sent <- accepted, received <- delivered, closed <- disconnected

\* The channel implements the abstract stream: nothing is reordered, repeated,
\* dropped, buffered beyond the limit or accepted after either end was dropped.
ImplementsStream == Stream!StreamSpec

=============================================================================
