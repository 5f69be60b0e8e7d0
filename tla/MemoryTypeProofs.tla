------------------------- MODULE MemoryTypeProofs --------------------------
(***************************************************************************)
(* Type correctness of MemoryStorage, for every set of names, threads,     *)
(* requests and limits, and lemmas on what its operators return.           *)
(***************************************************************************)
EXTENDS MemoryStorageInv, TLAPS

-----------------------------------------------------------------------------
(* Facts about batches and offsets. *)

(* The size of a batch is a number, and zero only when it is empty. *)
LEMMA BatchBytesType ==
    ASSUME NEW b \in Batch
    PROVE  /\ BatchBytes(b) \in Nat
           /\ b \in Seq(Nat)
           /\ Len(b) \in Nat
BY DEF Batch, BatchBytes

(* A batch is placed at one offset per message, the first one at the tail. *)
LEMMA PlaceType ==
    ASSUME NEW b \in Batch, NEW tail \in Offset
    PROVE  /\ Place(b, tail) \in Seq(Offset)
           /\ Len(Place(b, tail)) = Len(b)
           /\ \A i \in 1 .. Len(b) : Place(b, tail)[i].read_seq = tail.read_seq + (i - 1)
           /\ b # <<>> => Place(b, tail)[1] = tail
<1>1. /\ Len(b) \in Nat
      /\ \A i \in 1 .. Len(b) : b[i] \in Nat
  BY DEF Batch
<1>2. \A i \in 1 .. Len(b) : Place(b, tail)[i] \in Offset
  BY <1>1 DEF Place, Offset
<1>3. Place(b, tail) \in Seq(Offset) /\ Len(Place(b, tail)) = Len(b)
  BY <1>1, <1>2 DEF Place
<1>4. b # <<>> => Len(b) > 0
  BY DEF Batch
<1> QED
  BY <1>1, <1>3, <1>4 DEF Place, Offset

(* The elements of a concatenation. *)
LEMMA Concatenation ==
    ASSUME NEW S, NEW M \in Seq(S), NEW P \in Seq(S)
    PROVE  /\ Len(M \o P) = Len(M) + Len(P) /\ Len(M) \in Nat /\ Len(P) \in Nat
           /\ \A i \in 1 .. Len(M) : (M \o P)[i] = M[i]
           /\ \A i \in (Len(M) + 1) .. (Len(M) + Len(P)) : (M \o P)[i] = P[i - Len(M)]
OBVIOUS

(* The tail advances by the messages and the bytes of the batch. *)
LEMMA AdvanceType ==
    ASSUME NEW b \in Batch, NEW tail \in Offset
    PROVE  /\ Advance(b, tail) \in Offset
           /\ Advance(b, tail).read_seq = tail.read_seq + Len(b)
           /\ b = <<>> => Advance(b, tail) = tail
BY BatchBytesType DEF Advance, Offset, BatchBytes

-----------------------------------------------------------------------------
(* Type correctness. *)

(* The empty option and the full one. *)
LEMMA OptionType ==
    ASSUME NEW S
    PROVE  /\ {} \in Option(S)
           /\ \A x \in S : {x} \in Option(S)
           /\ \A o \in Option(S) : \A x \in o : x \in S /\ o = {x}
BY DEF Option

(* Dropping stale producers leaves a map of optional producer states. *)
LEMMA RetainedType ==
    ASSUME TypeOK, NEW e \in Entries
    PROVE  /\ Retained(e) \in [ProducerIds -> Option(ProducerState)]
           /\ \A id \in ProducerIds : Retained(e)[id] \subseteq heap[e].producers[id]
BY DEF TypeOK, StreamEntry, Retained, cleanup_stale_producers, Option

(* A new entry is an entry. *)
LEMMA NewEntryType ==
    ASSUME NEW config \in StreamConfig
    PROVE  NewEntry(config) \in StreamEntry
<1>1. [read_seq |-> 0, byte_offset |-> 0] \in Offset
  BY DEF Offset
<1> QED
  BY <1>1, OptionType DEF NewEntry, StreamEntry

(* The placeholder of an entry that was never created is an entry. *)
LEMMA BlankType == Blank \in StreamEntry
<1>1. (CHOOSE c \in ContentTypes : TRUE) \in ContentTypes
  BY BoundsAssumption
<1> DEFINE config == [content_type |-> CHOOSE c \in ContentTypes : TRUE, ttl_seconds |-> {},
                      expires_at |-> {}, created_closed |-> FALSE]
<1>2. config \in StreamConfig
  BY <1>1, OptionType DEF StreamConfig
<1> QED
  BY <1>2, NewEntryType DEF Blank

(* The configuration and the request made from a create call have their types. *)
LEMMA CreateType ==
    ASSUME NEW cr \in Creates, now \in Nat
    PROVE  /\ ConfigOf(cr) \in StreamConfig
           /\ CreateRequest(cr) \in Request
           /\ cr.name \in Names
<1>1. cr \in Create
  BY CreatesAssumption
<1>2. {now + x : x \in cr.ttl_seconds} \in Option(Nat)
  BY <1>1 DEF Create, Option
<1>3. ConfigOf(cr) \in StreamConfig
  BY <1>1, <1>2 DEF Create, ConfigOf, StreamConfig
<1>4. CreateRequest(cr) \in Request
  BY <1>1, OptionType DEF Create, CreateRequest, Request
<1> QED
  BY <1>1, <1>3, <1>4 DEF Create

(* Committing a call to an entry gives an entry. *)
LEMMA CommittedType ==
    ASSUME NEW entry \in StreamEntry, NEW c \in Call
    PROVE  Committed(entry, c) \in StreamEntry
<1>1. /\ c.req.msgs \in Batch
      /\ c.req.seq \in Option(Nat)
      /\ c.req.producer \in Option(Producer)
      /\ c.req.should_close \in BOOLEAN
      /\ c.now \in Nat
  BY DEF Call, Request
<1>2. /\ entry.messages \in Seq(Offset)
      /\ entry.tail \in Offset
      /\ entry.total_bytes \in Nat
      /\ entry.last_seq \in Option(Nat)
      /\ entry.producers \in [ProducerIds -> Option(ProducerState)]
      /\ entry.closed \in BOOLEAN
  BY DEF StreamEntry
<1>3. entry.messages \o Place(c.req.msgs, entry.tail) \in Seq(Offset)
  BY <1>1, <1>2, PlaceType
<1>4. Advance(c.req.msgs, entry.tail) \in Offset
  BY <1>1, <1>2, AdvanceType
<1>5. entry.total_bytes + BatchBytes(c.req.msgs) \in Nat
  BY <1>1, <1>2, BatchBytesType
<1>6. pending_seq(entry.last_seq, c.req.seq) \in Option(Nat)
  BY <1>1, <1>2 DEF pending_seq
<1>7. (entry.closed \/ c.req.should_close) \in BOOLEAN
  OBVIOUS
<1> DEFINE new == {[epoch |-> p.epoch, last_seq |-> p.seq, updated_at |-> c.now] :
                     p \in c.req.producer}
<1>8. new \in Option(ProducerState)
  BY <1>1 DEF Option, Producer, ProducerState
<1>9. [id \in ProducerIds |-> IF \E p \in c.req.producer : p.id = id
                             THEN new ELSE entry.producers[id]]
        \in [ProducerIds -> Option(ProducerState)]
  BY <1>2, <1>8, Zenon
<1> QED
  BY <1>3, <1>4, <1>5, <1>6, <1>7, <1>9, Zenon DEF Committed, StreamEntry

(* The call of a thread, and its parts. *)
LEMMA CallType ==
    ASSUME TypeOK, NEW t \in Threads, NEW c \in call[t]
    PROVE  /\ c \in Call
           /\ call[t] = {c}
           /\ c.entry \in Entries
           /\ c.stage \in Stages
           /\ c.now \in Nat
           /\ c.req \in Request
           /\ c.req.msgs \in Batch
           /\ c.req.name \in Names
           /\ c.req.producer \in Option(Producer)
           /\ heap[c.entry] \in StreamEntry
<1>1. c \in Call /\ call[t] = {c}
  BY OptionType DEF TypeOK
<1> QED
  BY <1>1 DEF TypeOK, Call, Request

(* Entering and leaving a call. *)
LEMMA EnterType ==
    ASSUME TypeOK, NEW t \in Threads
    PROVE  /\ Return(t) => call' \in [Threads -> Option(Call)]
           /\ \A c \in Call : Enter(t, c) => call' \in [Threads -> Option(Call)]
<1>1. {} \in Option(Call)
  BY OptionType
<1>2. \A c \in Call : {c} \in Option(Call)
  BY OptionType, Zenon
<1> QED
  BY <1>1, <1>2, Zenon DEF TypeOK, Return, Enter

(* Moving a call to a later stage. *)
LEMMA StageType ==
    ASSUME NEW c \in Call, NEW stage \in Stages, NEW n \in Nat
    PROVE  /\ [c EXCEPT !.stage = stage, !.now = n] \in Call
           /\ [c EXCEPT !.stage = stage] \in Call
BY Zenon DEF Call

(* Changing the producers or the closed flag of an entry. *)
LEMMA EntryUpdateType ==
    ASSUME NEW entry \in StreamEntry, NEW v \in [ProducerIds -> Option(ProducerState)]
    PROVE  /\ [entry EXCEPT !.producers = v] \in StreamEntry
           /\ [entry EXCEPT !.closed = TRUE] \in StreamEntry
BY Zenon DEF StreamEntry

(* Storing an entry in the heap. *)
LEMMA HeapType ==
    ASSUME TypeOK, NEW e \in Entries
    PROVE  /\ \A entry \in StreamEntry :
                [heap EXCEPT ![e] = entry] \in [Entries -> StreamEntry]
           /\ [heap EXCEPT ![e].producers = Retained(e)] \in [Entries -> StreamEntry]
           /\ [heap EXCEPT ![e].closed = TRUE] \in [Entries -> StreamEntry]
<1>1. heap[e] \in StreamEntry /\ heap \in [Entries -> StreamEntry]
  BY DEF TypeOK
<1>2. [heap[e] EXCEPT !.producers = Retained(e)] \in StreamEntry
  BY <1>1, RetainedType, EntryUpdateType, Zenon
<1>3. [heap[e] EXCEPT !.closed = TRUE] \in StreamEntry
  BY <1>1, RetainedType, EntryUpdateType, Zenon
<1> QED
  BY <1>1, <1>2, <1>3

(* Giving bytes back leaves a number. *)
LEMMA SaturatingSubType ==
    ASSUME NEW a \in Nat, NEW b \in Nat
    PROVE  saturating_sub(a, b) \in Nat
BY DEF saturating_sub

(* A new private entry, a removal and a discarded creation, with their types. *)
LEMMA NewPrivateEntryType ==
    ASSUME TypeOK, NEW t \in Threads, NEW cr \in Creates, NewPrivateEntry(t, cr)
    PROVE  /\ heap' \in [Entries -> StreamEntry]
           /\ allocated' \subseteq Entries
           /\ call' \in [Threads -> Option(Call)]
<1>1. PICK e \in Entries \ allocated :
        /\ heap' = [heap EXCEPT ![e] = NewEntry(ConfigOf(cr))]
        /\ allocated' = allocated \cup {e}
        /\ Enter(t, [stage |-> "vacant", entry |-> e, req |-> CreateRequest(cr), now |-> now])
  BY Zenon DEF NewPrivateEntry
<1>2. NewEntry(ConfigOf(cr)) \in StreamEntry /\ CreateRequest(cr) \in Request
  BY CreateType, NewEntryType DEF TypeOK
<1>3. [stage |-> "vacant", entry |-> e, req |-> CreateRequest(cr), now |-> now] \in Call
  BY <1>2 DEF Call, Stages, TypeOK
<1>4. call' \in [Threads -> Option(Call)]
  BY <1>1, <1>3, EnterType
<1>5. heap' \in [Entries -> StreamEntry]
  BY <1>1, <1>2, HeapType, Zenon
<1> QED
  BY <1>1, <1>4, <1>5 DEF TypeOK

(* Removing a stream, in delete and in a create over an expired one, keeps *)
(* the map, the counter and the bytes given back in their types.           *)
LEMMA RemoveType ==
    ASSUME TypeOK, NEW n \in Names, NEW e \in streams[n], Remove(n, e)
    PROVE  /\ streams' \in [Names -> Option(Entries)]
           /\ total_bytes' \in Nat
           /\ freed' \in [Entries -> Nat]
<1>1. {} \in Option(Entries) /\ e \in Entries
  BY OptionType DEF TypeOK
<1>2. heap[e].total_bytes \in Nat
  BY <1>1 DEF TypeOK, StreamEntry
<1> QED
  BY <1>1, <1>2, SaturatingSubType, Zenon DEF Remove, TypeOK

(* Dropping the private entry of a failed creation keeps the types. *)
LEMMA DiscardType ==
    ASSUME TypeOK, NEW e \in Entries, Discard(e)
    PROVE  heap' \in [Entries -> StreamEntry] /\ allocated' \subseteq Entries
BY BlankType, HeapType DEF Discard, TypeOK

(* Every step preserves the types. *)
LEMMA TypeOKStep ==
    ASSUME TypeOK, [Next]_vars
    PROVE  TypeOK'
<1> USE DEF MapUnchanged, HistoryUnchanged
<1>1. ASSUME NEW t \in Threads, NEW r \in Requests, NEW e \in streams[r.name], Lookup(t, r, e)
      PROVE  TypeOK'
  <2>1. r \in Request /\ r.name \in Names
    BY RequestsAssumption DEF Request
  <2>2. e \in Entries
    BY <2>1, OptionType DEF TypeOK
  <2>3. [stage |-> "found", entry |-> e, req |-> r, now |-> now] \in Call
    BY <2>1, <2>2 DEF TypeOK, Call, Stages
  <2>4. call' \in [Threads -> Option(Call)]
    BY <1>1, <2>3, EnterType DEF Lookup
  <2> QED
    BY <1>1, <2>4 DEF Lookup, TypeOK
<1>2. ASSUME NEW t \in Threads, NEW cr \in Creates, CreateAbsent(t, cr)
      PROVE  TypeOK'
  BY <1>2, NewPrivateEntryType DEF CreateAbsent, TypeOK
<1>3. ASSUME NEW t \in Threads, NEW cr \in Creates, NEW old \in streams[cr.name],
             CreateOverExpired(t, cr, old)
      PROVE  TypeOK'
  <2>1. cr.name \in Names
    BY CreateType DEF TypeOK
  <2>2. /\ streams' \in [Names -> Option(Entries)]
        /\ total_bytes' \in Nat
        /\ freed' \in [Entries -> Nat]
    BY <1>3, <2>1, RemoveType DEF CreateOverExpired
  <2>3. /\ heap' \in [Entries -> StreamEntry]
        /\ allocated' \subseteq Entries
        /\ call' \in [Threads -> Option(Call)]
    BY <1>3, NewPrivateEntryType DEF CreateOverExpired
  <2> QED
    BY <1>3, <2>2, <2>3 DEF CreateOverExpired, TypeOK
<1>4. ASSUME NEW t \in Threads, NEW n \in Names, NEW e \in streams[n], Delete(t, n, e)
      PROVE  TypeOK'
  BY <1>4, RemoveType DEF Delete, TypeOK
<1>5. ASSUME NEW t \in Threads, NEW c \in call[t],
             \/ AppendReserve(t, c) \/ AppendReject(t, c)
             \/ ProducerReserve(t, c) \/ ProducerReject(t, c)
             \/ CloseStream(t, c)
             \/ CreateReserve(t, c) \/ CreateReject(t, c)
             \/ CommitMessages(t, c) \/ RollbackReservation(t, c)
      PROVE  TypeOK'
  <2>1. /\ c \in Call /\ c.entry \in Entries
        /\ c.req.msgs \in Batch /\ c.req.producer \in Option(Producer)
        /\ c.now \in Nat /\ now \in Nat
        /\ heap[c.entry] \in StreamEntry
        /\ BatchBytes(c.req.msgs) \in Nat
    BY CallType, BatchBytesType DEF TypeOK
  <2>2. /\ [c EXCEPT !.stage = "commit", !.now = now] \in Call
        /\ [c EXCEPT !.stage = "create"] \in Call
    BY <2>1, StageType, Zenon DEF Stages
  <2>3. CASE AppendReserve(t, c)
    <3>1. call' \in [Threads -> Option(Call)]
      BY <2>2, <2>3, EnterType DEF AppendReserve
    <3> QED
      BY <2>1, <2>3, <3>1 DEF AppendReserve, TypeOK
  <2>4. CASE AppendReject(t, c)
    BY <2>4, EnterType DEF AppendReject, TypeOK
  <2>5. CASE ProducerReserve(t, c)
    <3>1. call' \in [Threads -> Option(Call)]
      BY <2>2, <2>5, EnterType DEF ProducerReserve
    <3>2. heap' \in [Entries -> StreamEntry]
      BY <2>1, <2>5, HeapType, Zenon DEF ProducerReserve
    <3> QED
      BY <2>1, <2>5, <3>1, <3>2 DEF ProducerReserve, TypeOK
  <2>6. CASE ProducerReject(t, c)
    <3>1. [heap EXCEPT ![c.entry].producers = Retained(c.entry)] \in [Entries -> StreamEntry]
      BY <2>1, HeapType, Zenon
    <3>2. heap' \in [Entries -> StreamEntry]
      BY <2>6, <3>1, Zenon DEF ProducerReject, TypeOK
    <3> QED
      BY <2>6, <3>2, EnterType DEF ProducerReject, TypeOK
  <2>7. CASE CloseStream(t, c)
    <3>1. heap' \in [Entries -> StreamEntry] /\ notified' \subseteq Entries
      <4>1. /\ [heap EXCEPT ![c.entry].closed = TRUE] \in [Entries -> StreamEntry]
            /\ heap \in [Entries -> StreamEntry]
        BY <2>1, HeapType, Zenon DEF TypeOK
      <4> QED
        BY <2>1, <2>7, <4>1 DEF CloseStream
    <3> QED
      BY <2>7, <3>1, EnterType DEF CloseStream, TypeOK
  <2>8. CASE CreateReserve(t, c)
    <3>1. call' \in [Threads -> Option(Call)]
      BY <2>2, <2>8, EnterType DEF CreateReserve
    <3> QED
      BY <2>1, <2>8, <3>1 DEF CreateReserve, TypeOK
  <2>9. CASE CreateReject(t, c)
    BY <2>1, <2>9, EnterType, DiscardType DEF CreateReject, TypeOK
  <2>10. CASE CommitMessages(t, c)
    <3>1. heap' \in [Entries -> StreamEntry]
      BY <2>1, <2>10, CommittedType, HeapType, Zenon DEF CommitMessages
    <3>2. {c.entry} \in Option(Entries)
      BY <2>1, OptionType
    <3>3. streams' \in [Names -> Option(Entries)]
      BY <2>10, <3>2, Zenon DEF CommitMessages, TypeOK
    <3>4. ASSUME NEW p \in c.req.producer
          PROVE  [id |-> p.id, epoch |-> p.epoch, seq |-> p.seq, at |-> c.now] \in Acceptance
      <4>1. p \in Producer
        BY <2>1 DEF Option
      <4> QED
        BY <2>1, <4>1 DEF Producer, Acceptance
    <3>5. accepted' \in [Entries -> Seq(Acceptance)]
      <4>1. CASE UNCHANGED accepted
        BY <4>1 DEF TypeOK
      <4>2. ASSUME NEW p \in c.req.producer,
                   accepted' = [accepted EXCEPT ![c.entry] =
                     Append(@, [id |-> p.id, epoch |-> p.epoch, seq |-> p.seq, at |-> c.now])]
            PROVE  accepted' \in [Entries -> Seq(Acceptance)]
        BY <2>1, <3>4, <4>2 DEF TypeOK
      <4> QED
        BY <2>10, <4>1, <4>2, Zenon DEF CommitMessages
    <3>6. heap'[c.entry].tail \in Offset /\ heap'[c.entry].messages \in Seq(Offset)
      BY <2>1, <3>1 DEF StreamEntry
    <3>7. [count |-> Len(heap'[c.entry].messages), offset |-> heap'[c.entry].tail] \in Shown
      BY <3>6 DEF Shown
    <3>8. shown' \in [Entries -> SUBSET Shown]
      BY <2>10, <3>7, Zenon DEF CommitMessages, TypeOK
    <3>9. call' \in [Threads -> Option(Call)] /\ notified' \subseteq Entries
      <4>1. Return(t) /\ notified' \subseteq {c.entry}
        BY <2>10 DEF CommitMessages
      <4> QED
        BY <2>1, <4>1, EnterType
    <3> QED
      BY <2>10, <3>1, <3>3, <3>5, <3>8, <3>9 DEF CommitMessages, TypeOK
  <2>11. CASE RollbackReservation(t, c)
    <3>1. heap' \in [Entries -> StreamEntry] /\ allocated' \subseteq Entries
      BY <2>1, <2>11, DiscardType DEF RollbackReservation, TypeOK
    <3>2. total_bytes' \in Nat
      BY <2>1, <2>11, SaturatingSubType DEF RollbackReservation, TypeOK
    <3> QED
      BY <2>11, <3>1, <3>2, EnterType DEF RollbackReservation, TypeOK
  <2> QED
    BY <1>5, <2>3, <2>4, <2>5, <2>6, <2>7, <2>8, <2>9, <2>10, <2>11
<1>6. CASE Tick
  BY <1>6 DEF Tick, TypeOK
<1>7. CASE UNCHANGED vars
  BY <1>7 DEF vars, TypeOK
<1> QED
  BY <1>1, <1>2, <1>3, <1>4, <1>5, <1>6, <1>7 DEF Next

(* The initial state has its type. *)
LEMMA TypeOKInit == Init => TypeOK
<1>1. {} \in Option(Entries) /\ {} \in Option(Call)
  BY OptionType
<1> QED
  BY <1>1, BlankType DEF Init, TypeOK

(* The types hold in every reachable state, whatever the constants. *)
THEOREM TypeCorrect == Spec => []TypeOK
BY TypeOKInit, TypeOKStep, PTL DEF Spec
=============================================================================
