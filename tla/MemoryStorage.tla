--------------------------- MODULE MemoryStorage ---------------------------
(***************************************************************************)
(* InMemoryStorage (src/src/storage/memory.rs), called by any number of    *)
(* handler threads at once.                                                *)
(*                                                                         *)
(* `streams` is the map behind its RwLock, from a name to the Arc of an    *)
(* entry.  An Arc outlives its removal from the map, so entries are named  *)
(* by identities of their own and kept in `heap`; a thread that looked an  *)
(* entry up may use it after a DELETE removed it.  `total_bytes` is the    *)
(* atomic counter of the whole store.                                      *)
(*                                                                         *)
(* What a thread does between two acquisitions or atomic operations that   *)
(* others can observe is one step.  A call is in one of these stages:      *)
(*   "found"   it holds the Arc of its entry, and no lock                  *)
(*   "commit"  it holds the entry's write lock and its bytes are reserved  *)
(*   "vacant"  it holds the map's write lock, creating a private entry     *)
(*   "create"  the same, and the bytes of the body are reserved            *)
(* Reads change nothing and take one lock: they are operators here.        *)
(***************************************************************************)
EXTENDS StreamRules, FiniteSets, FiniteSetsExt

CONSTANTS
    Names,                      \* stream names
    Entries,                    \* identities of stream entries (the bound on creations)
    Threads,                    \* concurrent handlers
    ProducerIds, ContentTypes,
    Requests,                   \* the calls on an existing stream the environment makes
    Creates,                    \* the create calls it makes
    PRODUCER_STATE_TTL_SECS,
    max_total_bytes, max_stream_bytes,
    MaxTime                     \* the bound on the clock

VARIABLES
    streams,        \* name -> Option(entry)
    heap,           \* entry -> its StreamEntry
    allocated,      \* the entries created so far
    total_bytes,    \* the global byte counter
    call,           \* thread -> Option(the call it is executing)
    now,            \* the clock
    notified,       \* the entries on whose channel the last step sent
    accepted,       \* history: entry -> the producer requests it accepted, in order
    shown,          \* history: entry -> the tails it had, with the message count of each
    freed           \* history: entry -> the bytes given back when it was removed

vars == <<streams, heap, allocated, total_bytes, call, now, notified, accepted, shown, freed>>

-----------------------------------------------------------------------------
Producer == [id : ProducerIds, epoch : Nat, seq : Nat]

ProducerState == [epoch : Nat, last_seq : Nat, updated_at : Nat]

Request == [op : {"append", "batch", "producer", "close", "create"}, name : Names,
            msgs : Batch, content_type : ContentTypes, seq : Option(Nat),
            producer : Option(Producer), should_close : BOOLEAN]

Create == [name : Names, msgs : Batch, content_type : ContentTypes,
           ttl_seconds : Option(Nat), expires_at : Option(Nat), should_close : BOOLEAN]

StreamConfig == [content_type : ContentTypes, ttl_seconds : Option(Nat),
                 expires_at : Option(Nat), created_closed : BOOLEAN]

StreamEntry == [config : StreamConfig, messages : Seq(Offset), closed : BOOLEAN,
                tail : Offset, total_bytes : Nat,
                producers : [ProducerIds -> Option(ProducerState)],
                last_seq : Option(Nat)]

Stages == {"found", "commit", "vacant", "create"}

Call == [stage : Stages, entry : Entries, req : Request, now : Nat]

Acceptance == [id : ProducerIds, epoch : Nat, seq : Nat, at : Nat]

Shown == [count : Nat, offset : Offset]

(* What the callers of the trait guarantee: `append` and `batch_append`    *)
(* carry at least one message and no producer and never close (the handler *)
(* closes separately), and only a producer request names a producer.       *)
ASSUME RequestsAssumption ==
    /\ Requests \subseteq Request
    /\ \A r \in Requests :
         /\ r.op # "create"
         /\ (r.op = "producer") <=> (r.producer # {})
         /\ r.op \in {"append", "batch"} => r.msgs # <<>> /\ ~ r.should_close
         /\ r.op = "append" => Len(r.msgs) = 1 /\ r.seq = {}

ASSUME CreatesAssumption ==
    /\ Creates \subseteq Create
    /\ \A cr \in Creates : cr.ttl_seconds = {} \/ cr.expires_at = {}

ASSUME BoundsAssumption ==
    /\ max_total_bytes \in Nat
    /\ max_stream_bytes \in Nat
    /\ MaxTime \in Nat
    /\ PRODUCER_STATE_TTL_SECS \in Nat \ {0}
    /\ ContentTypes # {}

-----------------------------------------------------------------------------
(* The put handler turns a TTL into an absolute instant when it is called. *)
ConfigOf(cr) ==
    [content_type   |-> cr.content_type,
     ttl_seconds    |-> cr.ttl_seconds,
     expires_at     |-> IF cr.ttl_seconds = {} THEN cr.expires_at
                        ELSE {now + s : s \in cr.ttl_seconds},
     created_closed |-> cr.should_close]

CreateRequest(cr) ==
    [op |-> "create", name |-> cr.name, msgs |-> cr.msgs, content_type |-> cr.content_type,
     seq |-> {}, producer |-> {}, should_close |-> cr.should_close]

NewEntry(config) ==
    [config |-> config, messages |-> <<>>, closed |-> FALSE,
     tail |-> [read_seq |-> 0, byte_offset |-> 0], total_bytes |-> 0,
     producers |-> [p \in ProducerIds |-> {}], last_seq |-> {}]

Blank == NewEntry([content_type |-> CHOOSE c \in ContentTypes : TRUE, ttl_seconds |-> {},
                   expires_at |-> {}, created_closed |-> FALSE])

saturating_sub(a, b) == IF b <= a THEN a - b ELSE 0

-----------------------------------------------------------------------------
(* The locks, read off the stages of the calls in progress. *)

(* A mistaken variant: the entry's lock is not kept until the commit. *)
NeverLocked(e) == FALSE

Locked(e) == \E t \in Threads : \E c \in call[t] : c.stage = "commit" /\ c.entry = e

MapLocked == \E t \in Threads : \E c \in call[t] : c.stage \in {"vacant", "create"}

Expired(e) == is_stream_expired(heap[e].config, now)

(* The producers that are left once the stale ones are dropped. *)
Retained(e) == cleanup_stale_producers(heap[e].producers, now, PRODUCER_STATE_TTL_SECS)

(* A mistaken variant: the counter is compared before the bytes are added. *)
FitsNow(msgs) == msgs = <<>> \/ total_bytes <= max_total_bytes

(* commit_messages returns at once when there is nothing to commit. *)
FitsTotal(msgs) == msgs = <<>> \/ total_bytes + BatchBytes(msgs) <= max_total_bytes

FitsStream(entry, msgs) == msgs = <<>> \/ entry.total_bytes + BatchBytes(msgs) <= max_stream_bytes

(* A mistaken variant: closure is not checked again under the lock. *)
AdmittedThoughClosed(e, r) ==
    /\ ~ Expired(e)
    /\ validate_content_type(heap[e].config.content_type, r.content_type)
    /\ validate_seq(heap[e].last_seq, r.seq)

(* Every check an append passes before it reserves bytes. *)
AppendAdmitted(e, r) ==
    /\ ~ Expired(e)
    /\ ~ heap[e].closed
    /\ validate_content_type(heap[e].config.content_type, r.content_type)
    /\ validate_seq(heap[e].last_seq, r.seq)

(* The same for a producer append: closure is check_producer's business. *)
ProducerAdmitted(e, r) ==
    /\ r.msgs # <<>> => validate_content_type(heap[e].config.content_type, r.content_type)
    /\ \A p \in r.producer : check_producer(Retained(e)[p.id], p, heap[e].closed) = "Accept"
    /\ validate_seq(heap[e].last_seq, r.seq)

(* The entry once a call's messages, Stream-Seq, closure and producer are in it. *)
Committed(entry, c) ==
    [config      |-> entry.config,
     messages    |-> entry.messages \o Place(c.req.msgs, entry.tail),
     tail        |-> Advance(c.req.msgs, entry.tail),
     total_bytes |-> entry.total_bytes + BatchBytes(c.req.msgs),
     last_seq    |-> pending_seq(entry.last_seq, c.req.seq),
     closed      |-> entry.closed \/ c.req.should_close,
     producers   |-> [id \in ProducerIds |->
        IF \E p \in c.req.producer : p.id = id
        THEN {[epoch |-> p.epoch, last_seq |-> p.seq, updated_at |-> c.now] :
                p \in c.req.producer}
        ELSE entry.producers[id]]]

(* A read's messages, and the offset it returns with them. *)
read(e, from) == [messages |-> ReadFrom(heap[e].messages, from),
                  next_offset |-> heap[e].tail,
                  closed |-> heap[e].closed]

-----------------------------------------------------------------------------
Init ==
    /\ streams = [n \in Names |-> {}]
    /\ heap = [e \in Entries |-> Blank]
    /\ allocated = {}
    /\ total_bytes = 0
    /\ call = [t \in Threads |-> {}]
    /\ now = 0
    /\ notified = {}
    /\ accepted = [e \in Entries |-> <<>>]
    /\ shown = [e \in Entries |-> {}]
    /\ freed = [e \in Entries |-> 0]

(* What most steps leave alone. *)
MapUnchanged == UNCHANGED <<streams, allocated, freed, now>>

HistoryUnchanged == UNCHANGED <<accepted, shown>>

Return(t) == call' = [call EXCEPT ![t] = {}]

Enter(t, c) == call' = [call EXCEPT ![t] = {c}]

(* get_stream: the map's read lock is taken and dropped, the Arc is kept.  *)
(* An unknown name ends the call with NotFound and changes nothing.        *)
Lookup(t, r, e) ==
    /\ call[t] = {} /\ ~ MapLocked
    /\ Enter(t, [stage |-> "found", entry |-> e, req |-> r, now |-> now])
    /\ notified' = {}
    /\ UNCHANGED <<heap, total_bytes>> /\ MapUnchanged /\ HistoryUnchanged

(* append and batch_append: all checks pass and the bytes are reserved. *)
AppendReserve(t, c) ==
    /\ c.stage = "found" /\ c.req.op \in {"append", "batch"}
    /\ ~ Locked(c.entry)
    /\ AppendAdmitted(c.entry, c.req)
    /\ FitsTotal(c.req.msgs)
    /\ total_bytes' = total_bytes + BatchBytes(c.req.msgs)
    /\ Enter(t, [c EXCEPT !.stage = "commit", !.now = now])
    /\ notified' = {}
    /\ UNCHANGED heap /\ MapUnchanged /\ HistoryUnchanged

(* ... or one of them fails, and the error is returned. *)
AppendReject(t, c) ==
    /\ c.stage = "found" /\ c.req.op \in {"append", "batch"}
    /\ ~ Locked(c.entry)
    /\ ~ (AppendAdmitted(c.entry, c.req) /\ FitsTotal(c.req.msgs))
    /\ Return(t)
    /\ notified' = {}
    /\ UNCHANGED <<heap, total_bytes>> /\ MapUnchanged /\ HistoryUnchanged

(* append_with_producer: stale producers are dropped, the checks pass and  *)
(* the bytes are reserved; the clock is read here, for the new state.      *)
ProducerReserve(t, c) ==
    /\ c.stage = "found" /\ c.req.op = "producer"
    /\ ~ Locked(c.entry)
    /\ ~ Expired(c.entry)
    /\ ProducerAdmitted(c.entry, c.req)
    /\ FitsTotal(c.req.msgs)
    /\ heap' = [heap EXCEPT ![c.entry].producers = Retained(c.entry)]
    /\ total_bytes' = total_bytes + BatchBytes(c.req.msgs)
    /\ Enter(t, [c EXCEPT !.stage = "commit", !.now = now])
    /\ notified' = {}
    /\ MapUnchanged /\ HistoryUnchanged

(* ... or the request is a duplicate, or fails: the stale producers are    *)
(* gone all the same, unless the stream had expired.                       *)
ProducerReject(t, c) ==
    /\ c.stage = "found" /\ c.req.op = "producer"
    /\ ~ Locked(c.entry)
    /\ \/ Expired(c.entry) /\ UNCHANGED heap
       \/ /\ ~ Expired(c.entry)
          /\ ~ (ProducerAdmitted(c.entry, c.req) /\ FitsTotal(c.req.msgs))
          /\ heap' = [heap EXCEPT ![c.entry].producers = Retained(c.entry)]
    /\ Return(t)
    /\ notified' = {}
    /\ UNCHANGED total_bytes /\ MapUnchanged /\ HistoryUnchanged

(* close_stream, idempotent, refused only once the stream has expired. *)
CloseStream(t, c) ==
    /\ c.stage = "found" /\ c.req.op = "close"
    /\ ~ Locked(c.entry)
    /\ \/ Expired(c.entry) /\ UNCHANGED heap /\ notified' = {}
       \/ /\ ~ Expired(c.entry)
          /\ heap' = [heap EXCEPT ![c.entry].closed = TRUE]
          /\ notified' = {c.entry}
    /\ Return(t)
    /\ UNCHANGED total_bytes /\ MapUnchanged /\ HistoryUnchanged

(* A mistaken variant: the bytes of a removed stream stay counted. *)
RemoveKeepsBytes(name, e) ==
    /\ streams' = [streams EXCEPT ![name] = {}]
    /\ UNCHANGED total_bytes
    /\ freed' = [freed EXCEPT ![e] = heap[e].total_bytes]

(* create_stream and create_stream_with_data take the map's write lock and *)
(* keep it to the end.  A live stream of that name ends the call at once   *)
(* (AlreadyExists or ConfigMismatch, nothing changes); an expired one is   *)
(* removed first and its bytes are given back, whatever happens next.      *)
Remove(name, e) ==
    /\ streams' = [streams EXCEPT ![name] = {}]
    /\ total_bytes' = saturating_sub(total_bytes, heap[e].total_bytes)
    /\ freed' = [freed EXCEPT ![e] = heap[e].total_bytes]

NewPrivateEntry(t, cr) == \E e \in Entries \ allocated :
    /\ heap' = [heap EXCEPT ![e] = NewEntry(ConfigOf(cr))]
    /\ allocated' = allocated \cup {e}
    /\ Enter(t, [stage |-> "vacant", entry |-> e, req |-> CreateRequest(cr), now |-> now])

CreateAbsent(t, cr) ==
    /\ call[t] = {} /\ ~ MapLocked
    /\ streams[cr.name] = {}
    /\ NewPrivateEntry(t, cr)
    /\ notified' = {}
    /\ UNCHANGED <<streams, total_bytes, freed, now>> /\ HistoryUnchanged

CreateOverExpired(t, cr, old) ==
    /\ call[t] = {} /\ ~ MapLocked
    /\ ~ Locked(old)
    /\ Expired(old)
    /\ Remove(cr.name, old)
    /\ NewPrivateEntry(t, cr)
    /\ notified' = {}
    /\ UNCHANGED now /\ HistoryUnchanged

CreateReserve(t, c) ==
    /\ c.stage = "vacant"
    /\ FitsTotal(c.req.msgs)
    /\ total_bytes' = total_bytes + BatchBytes(c.req.msgs)
    /\ Enter(t, [c EXCEPT !.stage = "create"])
    /\ notified' = {}
    /\ UNCHANGED heap /\ MapUnchanged /\ HistoryUnchanged

(* The private entry of a creation that fails is dropped unseen. *)
Discard(e) ==
    /\ heap' = [heap EXCEPT ![e] = Blank]
    /\ allocated' = allocated \ {e}

CreateReject(t, c) ==
    /\ c.stage = "vacant"
    /\ ~ FitsTotal(c.req.msgs)
    /\ Discard(c.entry)
    /\ Return(t)
    /\ notified' = {}
    /\ UNCHANGED <<streams, total_bytes, freed, now>> /\ HistoryUnchanged

(* A mistaken variant: the commit tells nobody. *)
Silent(c) == FALSE

(* Subscribers are notified of messages only, and `append`, which has its  *)
(* own copy of commit_messages, notifies nobody.                           *)
Notifies(c) == c.req.msgs # <<>> /\ c.req.op # "append"

(* commit_messages after its reservation, and what the callers do after it *)
(* before they drop the lock.                                              *)
CommitMessages(t, c) ==
    /\ c.stage \in {"commit", "create"}
    /\ FitsStream(heap[c.entry], c.req.msgs)
    /\ heap' = [heap EXCEPT ![c.entry] = Committed(@, c)]
    /\ streams' = IF c.stage = "create" THEN [streams EXCEPT ![c.req.name] = {c.entry}]
                  ELSE streams
    /\ notified' = IF Notifies(c) THEN {c.entry} ELSE {}
    /\ \/ c.req.producer = {} /\ UNCHANGED accepted
       \/ \E p \in c.req.producer :
            accepted' = [accepted EXCEPT ![c.entry] =
                Append(@, [id |-> p.id, epoch |-> p.epoch, seq |-> p.seq, at |-> c.now])]
    /\ shown' = [shown EXCEPT ![c.entry] =
                      @ \cup {[count  |-> Len(heap'[c.entry].messages),
                               offset |-> heap'[c.entry].tail]}]
    /\ Return(t)
    /\ UNCHANGED <<allocated, total_bytes, freed, now>>

(* A mistaken variant: both commit_messages and its caller take it back,   *)
(* without saturating.                                                     *)
RollbackTwice(t, c) ==
    /\ c.stage \in {"commit", "create"}
    /\ ~ FitsStream(heap[c.entry], c.req.msgs)
    /\ total_bytes' = total_bytes - 2 * BatchBytes(c.req.msgs)
    /\ IF c.stage = "create" THEN Discard(c.entry) ELSE UNCHANGED <<heap, allocated>>
    /\ Return(t)
    /\ notified' = {}
    /\ UNCHANGED <<streams, freed, now>> /\ HistoryUnchanged

(* The stream is at its limit: the reservation is taken back. *)
RollbackReservation(t, c) ==
    /\ c.stage \in {"commit", "create"}
    /\ ~ FitsStream(heap[c.entry], c.req.msgs)
    /\ total_bytes' = saturating_sub(total_bytes, BatchBytes(c.req.msgs))
    /\ IF c.stage = "create" THEN Discard(c.entry) ELSE UNCHANGED <<heap, allocated>>
    /\ Return(t)
    /\ notified' = {}
    /\ UNCHANGED <<streams, freed, now>> /\ HistoryUnchanged

(* delete: under the map's write lock it waits for whoever holds the       *)
(* entry's lock; a call that only holds the Arc is not waited for.         *)
Delete(t, n, e) ==
    /\ call[t] = {} /\ ~ MapLocked
    /\ ~ Locked(e)
    /\ Remove(n, e)
    /\ notified' = {}
    /\ UNCHANGED <<heap, allocated, call, now>> /\ HistoryUnchanged

Tick ==
    /\ now < MaxTime
    /\ now' = now + 1
    /\ notified' = {}
    /\ UNCHANGED <<streams, heap, allocated, total_bytes, call, freed>> /\ HistoryUnchanged

Next ==
    \/ \E t \in Threads :
         \/ \E r \in Requests : \E e \in streams[r.name] : Lookup(t, r, e)
         \/ \E cr \in Creates : CreateAbsent(t, cr)
         \/ \E cr \in Creates : \E old \in streams[cr.name] : CreateOverExpired(t, cr, old)
         \/ \E n \in Names : \E e \in streams[n] : Delete(t, n, e)
         \/ \E c \in call[t] :
              \/ AppendReserve(t, c) \/ AppendReject(t, c)
              \/ ProducerReserve(t, c) \/ ProducerReject(t, c)
              \/ CloseStream(t, c)
              \/ CreateReserve(t, c) \/ CreateReject(t, c)
              \/ CommitMessages(t, c) \/ RollbackReservation(t, c)
    \/ Tick

Spec == Init /\ [][Next]_vars

-----------------------------------------------------------------------------
(* The state has its type; every entry in use by the map or a call exists. *)
TypeOK ==
    /\ streams \in [Names -> Option(Entries)]
    /\ heap \in [Entries -> StreamEntry]
    /\ allocated \subseteq Entries
    /\ total_bytes \in Nat
    /\ call \in [Threads -> Option(Call)]
    /\ now \in Nat
    /\ notified \subseteq Entries
    /\ accepted \in [Entries -> Seq(Acceptance)]
    /\ shown \in [Entries -> SUBSET Shown]
    /\ freed \in [Entries -> Nat]

(* Resuming is exact.  A read from an offset that a response carried when  *)
(* the stream had `count` messages returns precisely the messages appended *)
(* since: none is skipped and none is repeated, however the appends of     *)
(* other threads came in between (batch_append, append_with_producer and   *)
(* read of memory.rs).                                                     *)
ResumeExact ==
    \A e \in Entries : \A s \in shown[e] :
        read(e, s.offset).messages =
            SubSeq(heap[e].messages, s.count + 1, Len(heap[e].messages))

Later(a, b) == a.epoch > b.epoch \/ (a.epoch = b.epoch /\ a.seq > b.seq)

(* Between positions i and j the producer was silent for the state's TTL. *)
Forgotten(A, i, j) ==
    \E k, m \in i .. j :
        /\ k < m
        /\ A[k].id = A[j].id /\ A[m].id = A[j].id
        /\ \A l \in (k + 1) .. (m - 1) : A[l].id # A[j].id
        /\ A[m].at >= A[k].at + PRODUCER_STATE_TTL_SECS

OnceIn(A) ==
    \A i, j \in 1 .. Len(A) :
        i < j /\ A[i].id = A[j].id => Later(A[j], A[i]) \/ Forgotten(A, i, j)

(* Exactly once, and zombies are fenced.  What a stream accepts from one   *)
(* producer strictly increases in (epoch, seq): a retry is never applied a *)
(* second time and an older epoch is never let in again, whichever threads *)
(* carry the requests, unless the producer was silent for its state's TTL  *)
(* (append_with_producer with check_producer and cleanup_stale_producers). *)
ExactlyOnce == \A e \in Entries : OnceIn(accepted[e])

NoGapIn(A) ==
    \A j \in 1 .. Len(A) :
        \/ A[j].seq = 0
        \/ \E i \in 1 .. (j - 1) :
             A[i].id = A[j].id /\ A[i].epoch = A[j].epoch /\ A[i].seq = A[j].seq - 1

(* No gap: a request numbered above zero is accepted only after the one    *)
(* numbered just below it, of the same producer and epoch (check_producer).*)
NoGap == \A e \in Entries : NoGapIn(accepted[e])

(* Closing is final: no step reopens a closed stream or changes what is in *)
(* it, not even one of a call that found the stream while it was open.     *)
ClosedIsFinal ==
    [][\A e \in Entries : heap[e].closed =>
            /\ heap'[e].closed
            /\ heap'[e].messages = heap[e].messages
            /\ heap'[e].tail = heap[e].tail]_vars

-----------------------------------------------------------------------------
LiveEntries == UNION {streams[n] : n \in Names}

(* The bytes of a call between its reservation and its commit or rollback. *)
Reserved(t) ==
    MapThenSumSet(LAMBDA c : BatchBytes(c.req.msgs),
                  {c \in call[t] : c.stage \in {"commit", "create"}})

(* The counter is exact: it is the bytes of every entry, less what removal *)
(* gave back, plus what is reserved.  Only an append to an entry that was  *)
(* already removed makes it differ from the bytes that can be read.        *)
Accounting ==
    total_bytes = MapThenSumSet(LAMBDA e : heap[e].total_bytes - freed[e], allocated)
                  + MapThenSumSet(Reserved, Threads)

(* The configured limits are never exceeded, by the streams together or by *)
(* one of them, though the counter and the entries are updated apart.      *)
LimitsHold ==
    /\ MapThenSumSet(LAMBDA e : heap[e].total_bytes, LiveEntries) <= max_total_bytes
    /\ \A e \in Entries : heap[e].total_bytes <= max_stream_bytes

(* What the repository says of the counter: with no call in progress it is *)
(* the sum of the bytes of the streams.                                    *)
CounterEqualsStreams ==
    (\A t \in Threads : call[t] = {}) =>
        total_bytes = MapThenSumSet(LAMBDA e : heap[e].total_bytes, LiveEntries)

(* What the trait says of subscriptions: a subscriber's channel fires when *)
(* data is appended or the stream is closed.                               *)
NotifiesSubscribers ==
    [][\A e \in LiveEntries :
          (\/ heap'[e].messages # heap[e].messages
           \/ heap'[e].closed # heap[e].closed)
          => e \in notified']_vars
=============================================================================
