-------------------------- MODULE MemoryStorageInv --------------------------
(***************************************************************************)
(* The inductive invariant of MemoryStorage from which ResumeExact,        *)
(* ExactlyOnce, NoGap and ClosedIsFinal follow.  TLC checks it on small    *)
(* instances; MemoryStorageProofs proves it for all.                       *)
(***************************************************************************)
EXTENDS MemoryStorage

Private(c) == c.stage \in {"vacant", "create"}

(* An entry no call has committed anything to. *)
Untouched(e) ==
    /\ heap[e].messages = <<>> /\ heap[e].tail = [read_seq |-> 0, byte_offset |-> 0]
    /\ ~ heap[e].closed
    /\ heap[e].producers = [id \in ProducerIds |-> {}]
    /\ accepted[e] = <<>> /\ shown[e] = {}

(* A commit owns its entry, and so does a creation from beginning to end. *)
Ownership ==
    /\ \A n \in Names : streams[n] \subseteq allocated
    /\ \A e \in Entries \ allocated : Untouched(e)
    /\ \A t \in Threads : \A c \in call[t] :
         /\ c.entry \in allocated
         /\ Private(c) => Untouched(c.entry) /\ \A n \in Names : c.entry \notin streams[n]
    /\ \A t, u \in Threads : \A c \in call[t], d \in call[u] :
         t # u /\ c.entry = d.entry =>
            /\ ~ Private(c)
            /\ ~ (c.stage = "commit" /\ d.stage = "commit")

(* Messages are numbered from zero without a gap, and every offset shown   *)
(* is the position of the message that came next, or still the tail.       *)
Numbering ==
    \A e \in Entries :
        /\ heap[e].tail.read_seq = Len(heap[e].messages)
        /\ \A i \in 1 .. Len(heap[e].messages) : heap[e].messages[i].read_seq = i - 1
        /\ \A s \in shown[e] :
             /\ s.count <= Len(heap[e].messages)
             /\ s.offset = IF s.count < Len(heap[e].messages)
                           THEN heap[e].messages[s.count + 1] ELSE heap[e].tail

Latest(A, id, k) ==
    /\ k \in 1 .. Len(A) /\ A[k].id = id
    /\ \A l \in (k + 1) .. Len(A) : A[l].id # id

(* The state kept for a producer is the last request accepted from it; it  *)
(* is missing if there was none, or if the last is older than the TTL.     *)
RememberedIn(A, state, id, time) ==
    \/ state = {} /\ \A k \in 1 .. Len(A) : A[k].id # id
    \/ \E k \in 1 .. Len(A) :
         /\ Latest(A, id, k)
         /\ \/ state = {[epoch |-> A[k].epoch, last_seq |-> A[k].seq, updated_at |-> A[k].at]}
            \/ state = {} /\ time >= A[k].at + PRODUCER_STATE_TTL_SECS

Remembered(e, id, time) == RememberedIn(accepted[e], heap[e].producers[id], id, time)

(* What a call has checked under the lock still holds when it commits. *)
Checked ==
    \A t \in Threads : \A c \in call[t] :
        /\ c.now <= now
        /\ c.stage = "found" => c.req \in Requests
        /\ Private(c) => c.req.producer = {}
        /\ c.stage = "commit" =>
             /\ ~ heap[c.entry].closed
             /\ \A p \in c.req.producer :
                  /\ check_producer(heap[c.entry].producers[p.id], p, FALSE) = "Accept"
                  /\ Remembered(c.entry, p.id, c.now)

IInv ==
    /\ TypeOK
    /\ Ownership
    /\ Checked
    /\ Numbering
    /\ \A e \in Entries, id \in ProducerIds : Remembered(e, id, now)
    /\ ExactlyOnce
    /\ NoGap
=============================================================================
