---------------------------- MODULE StreamRules ----------------------------
(***************************************************************************)
(* The decision rules every storage backend shares (src/src/storage/mod.rs *)
(* and the offsets of src/src/protocol/offset.rs), as pure operators.      *)
(*                                                                         *)
(* An Option<T> of the code is a set with at most one element: {} is None  *)
(* and {x} is Some(x).  Time is a natural number of ticks.  A content type *)
(* is any value, already normalised by the handlers; a Stream-Seq token is *)
(* its rank in the lexicographic order the code compares with.             *)
(*                                                                         *)
(* The messages of one call are a batch: the strictly increasing sequence  *)
(* of the positions at which they end, relative to the start of the batch. *)
(* <<2, 3>> is a message of two bytes followed by one of one byte.         *)
(***************************************************************************)
EXTENDS Integers, Sequences

Option(S) == {o \in SUBSET S : \A x, y \in o : x = y}

Batch == {b \in Seq(Nat \ {0}) : \A i, j \in 1 .. Len(b) : i < j => b[i] < b[j]}

BatchBytes(b) == IF b = <<>> THEN 0 ELSE b[Len(b)]

-----------------------------------------------------------------------------
(* Expiry and content type. *)

is_stream_expired(config, now) == \E t \in config.expires_at : now >= t

validate_content_type(stream_ct, request_ct) == request_ct = stream_ct

-----------------------------------------------------------------------------
(* Stream-Seq: a token must exceed the last one; no token changes nothing. *)

validate_seq(last_seq, new_seq) == \A n \in new_seq, l \in last_seq : n > l

pending_seq(last_seq, new_seq) == IF new_seq = {} THEN last_seq ELSE new_seq

-----------------------------------------------------------------------------
(* Idempotent producers: an existing state is [epoch, last_seq, updated_at]*)
(* and a request carries [id, epoch, seq].                                 *)

cleanup_stale_producers(producers, now, ttl) ==
    [p \in DOMAIN producers |-> {s \in producers[p] : s.updated_at > now - ttl}]

(* Variants that a mistake in the code could produce: the retry of the     *)
(* last request is not a duplicate; a producer without state may start     *)
(* anywhere.                                                               *)
DuplicateMissesLast(existing, p) ==
    \E s \in existing : p.epoch = s.epoch /\ p.seq < s.last_seq

GapUnlessNew(existing, p) ==
    \E s \in existing : p.epoch = s.epoch /\ p.seq > s.last_seq + 1

Duplicate(existing, p) == \E s \in existing : p.epoch = s.epoch /\ p.seq <= s.last_seq

Gap(existing, p) ==
    \/ \E s \in existing : p.epoch = s.epoch /\ p.seq > s.last_seq + 1
    \/ existing = {} /\ p.seq # 0

check_producer(existing, p, closed) ==
    IF \E s \in existing : p.epoch < s.epoch THEN "EpochFenced"
    ELSE IF Duplicate(existing, p) THEN "Duplicate"
    ELSE IF closed THEN "StreamClosed"
    ELSE IF \E s \in existing : p.epoch > s.epoch /\ p.seq # 0 THEN "InvalidProducerState"
    ELSE IF Gap(existing, p) THEN "SequenceGap"
    ELSE "Accept"

-----------------------------------------------------------------------------
(* Offsets and the position a read starts from. *)

Offset == [read_seq : Nat, byte_offset : Nat]

Before(a, b) ==
    \/ a.read_seq < b.read_seq
    \/ a.read_seq = b.read_seq /\ a.byte_offset < b.byte_offset

(* The offsets the messages of a batch get when the first one is at tail. *)
Place(b, tail) ==
    [i \in 1 .. Len(b) |->
        [read_seq    |-> tail.read_seq + (i - 1),
         byte_offset |-> tail.byte_offset + (IF i = 1 THEN 0 ELSE b[i - 1])]]

Advance(b, tail) == [read_seq    |-> tail.read_seq + Len(b),
                     byte_offset |-> tail.byte_offset + BatchBytes(b)]

(* A mistaken variant: the message found at the offset counts as read. *)
ReadAfter(messages, from) ==
    LET idx == CHOOSE i \in 0 .. Len(messages) :
                 /\ \A j \in 1 .. i : ~ Before(from, messages[j])
                 /\ i < Len(messages) => Before(from, messages[i + 1])
    IN  SubSeq(messages, idx + 1, Len(messages))

(* The messages a read from a concrete offset returns: the binary search   *)
(* finds the first message that is not before the offset.                  *)
ReadFrom(messages, from) ==
    LET idx == CHOOSE i \in 0 .. Len(messages) :
                 /\ \A j \in 1 .. i : Before(messages[j], from)
                 /\ i < Len(messages) => ~ Before(messages[i + 1], from)
    IN  SubSeq(messages, idx + 1, Len(messages))
=============================================================================
