----------------------- MODULE MemoryStorageProofs -------------------------
(***************************************************************************)
(* The inductive invariant of MemoryStorage and the theorems that follow   *)
(* from it, for every set of names, threads, requests and limits.          *)
(***************************************************************************)
EXTENDS MemoryOwnershipProofs, MemoryProducerProofs

-----------------------------------------------------------------------------
(* What the entry of a committing call knows of the call's producer. *)
LEMMA CommitChecked ==
    ASSUME Checked, NEW t \in Threads, NEW c \in call[t], CommitMessages(t, c),
           NEW p \in c.req.producer
    PROVE  /\ check_producer(heap[c.entry].producers[p.id], p, FALSE) = "Accept"
           /\ RememberedIn(accepted[c.entry], heap[c.entry].producers[p.id], p.id, c.now)
<1>1. c.stage = "commit"
  BY Zenon DEF Checked, CommitMessages, Private
<1> QED
  BY <1>1, Zenon DEF Checked, Remembered

(* Every step preserves the order of what was accepted, and its memory. *)
LEMMA HistoryStep ==
    ASSUME IInv, [Next]_vars, NEW e \in Entries
    PROVE  /\ OnceIn(accepted'[e]) /\ NoGapIn(accepted'[e])
           /\ \A id \in ProducerIds :
                RememberedIn(accepted'[e], heap'[e].producers[id], id, now')
<1>1. /\ OnceIn(accepted[e]) /\ NoGapIn(accepted[e])
      /\ \A id \in ProducerIds :
           RememberedIn(accepted[e], heap[e].producers[id], id, now)
  BY DEF IInv, ExactlyOnce, NoGap, Remembered
<1>2. TypeOK /\ TypeOK' /\ Ownership /\ Checked
  BY TypeOKStep DEF IInv
<1>3. /\ accepted[e] \in Seq(Acceptance) /\ now \in Nat /\ now' \in Nat
      /\ heap[e].producers \in [ProducerIds -> Option(ProducerState)]
  BY <1>2 DEF TypeOK, StreamEntry
<1>4. now <= now'
  BY <1>2, <1>3, EntryStep
<1>5. \A id \in ProducerIds : RememberedIn(accepted[e], heap[e].producers[id], id, now')
  BY <1>1, <1>3, <1>4, RememberLater
<1>6. CASE Kept(e)
  BY <1>1, <1>5, <1>6 DEF Kept
<1>7. CASE Closed(e)
  BY <1>1, <1>5, <1>7 DEF Closed, SameData
<1>8. CASE Cleaned(e)
  <2>1. accepted'[e] = accepted[e] /\ heap'[e].producers = Retained(e)
    BY <1>8 DEF Cleaned, SameData
  <2>2. ASSUME NEW id \in ProducerIds
        PROVE  RememberedIn(accepted[e], Retained(e)[id], id, now')
    <3>1. Retained(e)[id] = {s \in heap[e].producers[id] :
                               s.updated_at > now - PRODUCER_STATE_TTL_SECS}
      BY <1>3 DEF Retained, cleanup_stale_producers
    <3>2. RememberedIn(accepted[e], Retained(e)[id], id, now)
      BY <1>1, <1>3, <3>1, RememberClean
    <3> QED
      BY <1>3, <1>4, <3>2, RememberLater
  <2> QED
    BY <1>1, <2>1, <2>2
<1>9. CASE Fresh(e)
  <2>1. accepted'[e] = <<>> /\ heap'[e].producers = [id \in ProducerIds |-> {}]
    BY <1>9 DEF Fresh, Untouched
  <2>2. OnceIn(accepted'[e]) /\ NoGapIn(accepted'[e])
    BY <2>1, EmptyHistory
  <2>3. ASSUME NEW id \in ProducerIds
        PROVE  RememberedIn(accepted'[e], heap'[e].producers[id], id, now')
    <3>1. heap'[e].producers[id] = {}
      BY <2>1
    <3> QED
      BY <2>1, <3>1, EmptyHistory
  <2> QED
    BY <2>2, <2>3
<1>10. CASE CommittedTo(e)
  <2>1. PICK t \in Threads : \E c \in call[t] : CommitMessages(t, c) /\ c.entry = e
    BY <1>10 DEF CommittedTo
  <2>2. PICK c \in call[t] : CommitMessages(t, c) /\ c.entry = e
    BY <2>1
  <2>3. c.req.producer \in Option(Producer) /\ c.now \in Nat
    BY <1>2, CallType
  <2>4. /\ heap'[e].producers = [id \in ProducerIds |->
              IF \E p \in c.req.producer : p.id = id
              THEN {[epoch |-> p.epoch, last_seq |-> p.seq, updated_at |-> c.now] :
                      p \in c.req.producer}
              ELSE heap[e].producers[id]]
        /\ \/ c.req.producer = {} /\ accepted'[e] = accepted[e]
           \/ \E p \in c.req.producer :
                accepted'[e] = Append(accepted[e],
                  [id |-> p.id, epoch |-> p.epoch, seq |-> p.seq, at |-> c.now])
    <3>1. HistoryAfter(e, c)
      BY <1>2, <2>2, CommitStep, Zenon
    <3> QED
      BY <3>1 DEF HistoryAfter
  <2>5. CASE c.req.producer = {}
    <3>1. \A id \in ProducerIds : heap'[e].producers[id] = heap[e].producers[id]
      BY <2>4, <2>5
    <3> QED
      BY <1>1, <1>5, <2>4, <2>5, <3>1
  <2>6. ASSUME NEW p \in c.req.producer,
               accepted'[e] = Append(accepted[e],
                 [id |-> p.id, epoch |-> p.epoch, seq |-> p.seq, at |-> c.now])
        PROVE  /\ OnceIn(accepted'[e]) /\ NoGapIn(accepted'[e])
               /\ \A id \in ProducerIds :
                    RememberedIn(accepted'[e], heap'[e].producers[id], id, now')
    <3> DEFINE r == [id |-> p.id, epoch |-> p.epoch, seq |-> p.seq, at |-> c.now]
    <3>1. p \in Producer /\ c.req.producer = {p}
      BY <2>3, OptionType
    <3>2. r \in Acceptance
      BY <2>3, <3>1 DEF Producer, Acceptance
    <3>3. /\ check_producer(heap[e].producers[p.id], p, FALSE) = "Accept"
          /\ RememberedIn(accepted[e], heap[e].producers[p.id], p.id, c.now)
      BY <1>2, <2>2, CommitChecked, Zenon
    <3>4. OnceIn(accepted'[e])
      BY <1>1, <1>3, <2>3, <2>6, <3>1, <3>3, OnceAppend, Zenon
    <3>5. NoGapIn(accepted'[e])
      BY <1>1, <1>3, <2>3, <2>6, <3>1, <3>3, NoGapAppend, Zenon
    <3>6. ASSUME NEW id \in ProducerIds
          PROVE  RememberedIn(accepted'[e], heap'[e].producers[id], id, now')
      <4>1. CASE id = p.id
        <5>1. heap'[e].producers[id] =
                {[epoch |-> r.epoch, last_seq |-> r.seq, updated_at |-> r.at]}
          BY <2>4, <3>1, <4>1
        <5> QED
          BY <1>3, <2>6, <3>2, <4>1, <5>1, RememberAppend, Zenon
      <4>2. CASE id # p.id
        <5>1. heap'[e].producers[id] = heap[e].producers[id]
          BY <2>4, <3>1, <4>2
        <5>2. r.id # id /\ accepted'[e] = Append(accepted[e], r)
          BY <2>6, <4>2
        <5> QED
          BY <1>3, <1>5, <3>2, <5>1, <5>2, RememberAppend, Zenon
      <4> QED
        BY <4>1, <4>2
    <3> QED
      BY <3>4, <3>5, <3>6
  <2> QED
    BY <2>4, <2>5, <2>6, Zenon
<1> QED
  BY <1>2, <1>6, <1>7, <1>8, <1>9, <1>10, EntryStep

-----------------------------------------------------------------------------
(* What was checked for a call, as it must hold when the call commits. *)
CheckedFor(c) ==
    /\ ~ heap[c.entry].closed
    /\ \A p \in c.req.producer :
         /\ check_producer(heap[c.entry].producers[p.id], p, FALSE) = "Accept"
         /\ RememberedIn(accepted[c.entry], heap[c.entry].producers[p.id], p.id, c.now)

(* Nobody disturbs an entry whose write lock a call holds. *)
LEMMA LockedStep ==
    ASSUME TypeOK, Ownership, Checked, [Next]_vars,
           NEW t \in Threads, NEW c \in call[t], c \in call'[t], c.stage = "commit"
    PROVE  CheckedFor(c)'
<1>0. c.entry \in Entries /\ call[t] = {c} /\ Locked(c.entry)
  BY CallType DEF Locked
<1>1. CheckedFor(c)
  BY Zenon DEF Checked, CheckedFor, Remembered
<1>2. ~ CommittedTo(c.entry)
  <2>1. SUFFICES ASSUME NEW u \in Threads, NEW d \in call[u], CommitMessages(u, d),
                        d.entry = c.entry
                 PROVE  FALSE
    BY DEF CommittedTo
  <2>2. call'[u] = {}
    BY <2>1 DEF CommitMessages, Return, TypeOK
  <2>3. u # t
    BY <2>2
  <2>4. d.stage = "commit" \/ Private(d)
    BY <2>1 DEF CommitMessages, Private
  <2> QED
    BY <2>1, <2>3, <2>4 DEF Ownership
<1>3. /\ heap'[c.entry].closed => heap[c.entry].closed
      /\ heap'[c.entry].producers = heap[c.entry].producers
      /\ accepted'[c.entry] = accepted[c.entry]
  <2>1. CASE Kept(c.entry)
    BY <2>1 DEF Kept
  <2>2. CASE Fresh(c.entry)
    BY <2>2 DEF Fresh, Untouched
  <2>3. ~ Cleaned(c.entry) /\ ~ Closed(c.entry)
    BY <1>0 DEF Cleaned, Closed, Found
  <2> QED
    BY <1>0, <1>2, <2>1, <2>2, <2>3, EntryStep
<1> QED
  BY <1>1, <1>3, Zenon DEF CheckedFor

(* A call that reserves has been checked. *)
LEMMA ReserveStep ==
    ASSUME IInv, NEW t \in Threads, NEW d \in call[t], NEW c,
           AppendReserve(t, d) \/ ProducerReserve(t, d),
           c.entry = d.entry, c.req = d.req, c.now = now
    PROVE  CheckedFor(c)'
<1>0. /\ TypeOK /\ Checked /\ d.entry \in Entries /\ heap[d.entry] \in StreamEntry
      /\ heap \in [Entries -> StreamEntry]
  BY CallType DEF IInv, TypeOK
<1>1. CASE AppendReserve(t, d)
  <2>1. d.req \in Requests /\ d.req.op # "producer"
    BY <1>0, <1>1, Zenon DEF AppendReserve, Checked
  <2>2. d.req.producer = {}
    BY <2>1, RequestsAssumption
  <2>3. ~ heap[d.entry].closed /\ UNCHANGED heap
    BY <1>1 DEF AppendReserve, AppendAdmitted
  <2> QED
    BY <2>2, <2>3 DEF CheckedFor
<1>2. CASE ProducerReserve(t, d)
  <2>1. /\ heap'[d.entry] = [heap[d.entry] EXCEPT !.producers = Retained(d.entry)]
        /\ UNCHANGED accepted
    BY <1>0, <1>2 DEF ProducerReserve, HistoryUnchanged
  <2>2. /\ heap'[d.entry].producers = Retained(d.entry)
        /\ heap'[d.entry].closed = heap[d.entry].closed
    BY <1>0, <2>1, EntryFields
  <2>3. \A p \in d.req.producer :
           check_producer(Retained(d.entry)[p.id], p, heap[d.entry].closed) = "Accept"
    BY <1>2 DEF ProducerReserve, ProducerAdmitted
  <2>4. \A p \in d.req.producer :
          /\ ~ heap[d.entry].closed
          /\ check_producer(Retained(d.entry)[p.id], p, FALSE) = "Accept"
    BY <2>3 DEF check_producer
  <2>5. PICK p \in d.req.producer : d.req.producer = {p} /\ p \in Producer
    <3>1. d.req \in Requests /\ d.req.op = "producer"
      BY <1>0, <1>2, Zenon DEF ProducerReserve, Checked
    <3>2. d.req.producer # {} /\ d.req.producer \in Option(Producer)
      BY <3>1, RequestsAssumption DEF Request
    <3> QED
      BY <3>2, OptionType
  <2>6. RememberedIn(accepted[d.entry], Retained(d.entry)[p.id], p.id, now)
    <3>1. p.id \in ProducerIds /\ accepted[d.entry] \in Seq(Acceptance) /\ now \in Nat
      BY <1>0, <2>5 DEF Producer, TypeOK
    <3>2. RememberedIn(accepted[d.entry], heap[d.entry].producers[p.id], p.id, now)
      BY <1>0, <3>1 DEF IInv, Remembered
    <3>3. Retained(d.entry)[p.id] =
            {s \in heap[d.entry].producers[p.id] : s.updated_at > now - PRODUCER_STATE_TTL_SECS}
      BY <1>0, <3>1 DEF Retained, cleanup_stale_producers, StreamEntry
    <3> QED
      BY <3>1, <3>2, <3>3, RememberClean
  <2> QED
    BY <2>1, <2>2, <2>4, <2>5, <2>6, Zenon DEF CheckedFor
<1> QED
  BY <1>1, <1>2

(* The clock never goes back. *)
LEMMA ClockStep ==
    ASSUME now \in Nat, [Next]_vars
    PROVE  now <= now'
<1> USE DEF MapUnchanged
<1>1. ASSUME NEW t \in Threads, NEW c \in call[t],
              \/ AppendReserve(t, c) \/ AppendReject(t, c)
              \/ ProducerReserve(t, c) \/ ProducerReject(t, c)
              \/ CloseStream(t, c)
              \/ CreateReserve(t, c) \/ CreateReject(t, c)
              \/ CommitMessages(t, c) \/ RollbackReservation(t, c)
      PROVE  now' = now
  BY <1>1 DEF AppendReserve, AppendReject, ProducerReserve, ProducerReject, CloseStream,
              CreateReserve, CreateReject, CommitMessages, RollbackReservation
<1>2. ASSUME NEW t \in Threads,
              \/ \E r \in Requests : \E e \in streams[r.name] : Lookup(t, r, e)
              \/ \E cr \in Creates : CreateAbsent(t, cr)
              \/ \E cr \in Creates : \E old \in streams[cr.name] : CreateOverExpired(t, cr, old)
              \/ \E n \in Names : \E e \in streams[n] : Delete(t, n, e)
      PROVE  now' = now
  BY <1>2, Zenon DEF Lookup, CreateAbsent, CreateOverExpired, Delete
<1>3. Next => now' = now \/ Tick
  BY <1>1, <1>2, Zenon DEF Next
<1> QED
  BY <1>3 DEF vars, Tick

(* Every step preserves what calls have checked. *)
LEMMA CheckedStep ==
    ASSUME IInv, [Next]_vars
    PROVE  Checked'
<1>0. TypeOK /\ Ownership /\ Checked /\ now \in Nat
  BY DEF IInv, TypeOK
<1>1. now <= now'
  BY <1>0, ClockStep
<1>2. ASSUME NEW t \in Threads, NEW c \in call'[t]
      PROVE  /\ c.now <= now'
             /\ c.stage = "found" => c.req \in Requests
             /\ Private(c) => c.req.producer = {}
             /\ c.stage = "commit" => CheckedFor(c)'
  <2>1. CASE c \in call[t]
    <3>1. /\ c.now \in Nat /\ c.now <= now
          /\ c.stage = "found" => c.req \in Requests
          /\ Private(c) => c.req.producer = {}
      BY <1>0, <2>1, CallType, Zenon DEF Checked
    <3>2. now' \in Nat
      BY <1>0, TypeOKStep DEF TypeOK
    <3>3. c.now <= now'
      BY <1>0, <1>1, <3>1, <3>2
    <3> QED
      BY <1>0, <1>2, <2>1, <3>1, <3>3, LockedStep
  <2>2. CASE NewFound(c)
    BY <1>1, <2>2 DEF NewFound, Private
  <2>3. CASE NewVacant(c)
    BY <1>1, <2>3 DEF NewVacant, Private
  <2>4. CASE NewCommit(t, c)
    <3>1. c.stage = "commit" /\ c.now = now
      BY <2>4 DEF NewCommit
    <3>2. CheckedFor(c)'
      BY <2>4, ReserveStep DEF NewCommit
    <3> QED
      BY <1>1, <3>1, <3>2 DEF Private
  <2>5. CASE NewCreate(t, c)
    <3>1. PICK d \in call[t] : /\ d.stage = "vacant" /\ c.stage = "create"
                               /\ c.req = d.req /\ c.now = d.now
      BY <2>5 DEF NewCreate
    <3>2. d.now \in Nat /\ d.now <= now /\ d.req.producer = {}
      BY <1>0, <3>1, CallType, Zenon DEF Checked, Private
    <3>3. now' \in Nat
      BY <1>0, TypeOKStep DEF TypeOK
    <3>4. c.now <= now'
      BY <1>0, <1>1, <3>1, <3>2, <3>3
    <3> QED
      BY <3>1, <3>2, <3>4 DEF Private
  <2> QED
    BY <1>0, <1>2, <2>1, <2>2, <2>3, <2>4, <2>5, CallStep DEF CallsFollow
<1> QED
  BY <1>2, Zenon DEF Checked, CheckedFor, Remembered, Private

-----------------------------------------------------------------------------
(* The inductive invariant holds at the start, with every entry untouched. *)
LEMMA IInvInit == Init => IInv
<1> SUFFICES ASSUME Init
             PROVE  IInv
  OBVIOUS
<1>1. TypeOK
  BY TypeOKInit
<1>2. \A e \in Entries : Untouched(e)
  BY Zenon DEF Init, Untouched, Blank, NewEntry
<1>3. Ownership /\ Checked
  BY <1>2 DEF Init, Ownership, Checked
<1>4. Numbering
  BY <1>2 DEF Numbering, Untouched
<1>5. ASSUME NEW e \in Entries
      PROVE  /\ OnceIn(accepted[e]) /\ NoGapIn(accepted[e])
             /\ \A id \in ProducerIds : Remembered(e, id, now)
  <2>1. accepted[e] = <<>> /\ heap[e].producers = [id \in ProducerIds |-> {}]
    BY <1>2, Zenon DEF Untouched
  <2>2. OnceIn(accepted[e]) /\ NoGapIn(accepted[e])
    BY <2>1, EmptyHistory
  <2>3. ASSUME NEW id \in ProducerIds
        PROVE  RememberedIn(accepted[e], heap[e].producers[id], id, now)
    <3>1. heap[e].producers[id] = {}
      BY <2>1
    <3> QED
      BY <2>1, <3>1, EmptyHistory
  <2> QED
    BY <2>2, <2>3 DEF Remembered
<1> QED
  BY <1>1, <1>3, <1>4, <1>5 DEF IInv, ExactlyOnce, NoGap

(* The invariant is inductive. *)
LEMMA IInvStep == IInv /\ [Next]_vars => IInv'
<1> SUFFICES ASSUME IInv, [Next]_vars
             PROVE  IInv'
  OBVIOUS
<1>1. TypeOK /\ Ownership /\ Numbering
  BY DEF IInv
<1>2. TypeOK'
  BY <1>1, TypeOKStep
<1>3. Ownership'
  BY <1>1, OwnershipStep
<1>4. Checked'
  BY CheckedStep
<1>5. Numbering'
  BY <1>1, NumberingStep
<1>6. ExactlyOnce' /\ NoGap' /\ \A e \in Entries, id \in ProducerIds : Remembered(e, id, now)'
  BY HistoryStep DEF ExactlyOnce, NoGap, Remembered
<1> QED
  BY <1>2, <1>3, <1>4, <1>5, <1>6 DEF IInv

(* The inductive invariant of the in-memory store: lock ownership, what a  *)
(* call has checked, the numbering of messages and the producer history.   *)
THEOREM Inductive == Spec => []IInv
BY IInvInit, IInvStep, PTL DEF Spec

-----------------------------------------------------------------------------
(* The search for an offset that was shown finds the message that was next *)
(* when it was shown, and no other position satisfies the search.          *)
LEMMA SearchExact ==
    ASSUME NEW M \in Seq(Offset), NEW n \in 0 .. Len(M), NEW off \in Offset,
           off.read_seq = n,
           n < Len(M) => off = M[n + 1],
           \A i \in 1 .. Len(M) : M[i].read_seq = i - 1
    PROVE  ReadFrom(M, off) = SubSeq(M, n + 1, Len(M))
<1> DEFINE P(i) == /\ \A j \in 1 .. i : Before(M[j], off)
                   /\ i < Len(M) => ~ Before(M[i + 1], off)
<1>0. Len(M) \in Nat /\ n \in Nat /\ n <= Len(M)
  OBVIOUS
<1>1. \A j \in 1 .. n : Before(M[j], off)
  BY <1>0 DEF Before
<1>2. n < Len(M) => ~ Before(M[n + 1], off)
  BY <1>0 DEF Before, Offset
<1>3. ASSUME NEW i \in 0 .. Len(M), P(i)
      PROVE  i = n
  <2>1. CASE i < n
    <3>1. Before(M[i + 1], off)
      BY <1>0, <1>1, <2>1
    <3> QED
      BY <1>0, <1>3, <2>1, <3>1
  <2>2. CASE i > n
    <3>1. Before(M[n + 1], off)
      BY <1>0, <1>3, <2>2
    <3> QED
      BY <1>0, <1>2, <2>2, <3>1
  <2> QED
    BY <1>0, <2>1, <2>2
<1>4. P(n)
  BY <1>1, <1>2
<1> HIDE DEF P
<1>5. (CHOOSE i \in 0 .. Len(M) : P(i)) = n
  BY <1>3, <1>4
<1> QED
  BY <1>5, Zenon DEF ReadFrom, P

(* The numbering of the messages makes resuming exact. *)
LEMMA NumberingResumes ==
    ASSUME TypeOK, Numbering
    PROVE  ResumeExact
<1> SUFFICES ASSUME NEW e \in Entries, NEW s \in shown[e]
             PROVE  read(e, s.offset).messages =
                      SubSeq(heap[e].messages, s.count + 1, Len(heap[e].messages))
  BY DEF ResumeExact
<1> DEFINE M == heap[e].messages
<1>1. M \in Seq(Offset) /\ heap[e].tail \in Offset /\ s.count \in Nat /\ s.offset \in Offset
  BY DEF TypeOK, StreamEntry, Shown
<1>2. /\ heap[e].tail.read_seq = Len(M)
      /\ \A i \in 1 .. Len(M) : M[i].read_seq = i - 1
      /\ s.count <= Len(M)
      /\ s.offset = IF s.count < Len(M) THEN M[s.count + 1] ELSE heap[e].tail
  BY DEF Numbering
<1> HIDE DEF M
<1>3. s.count \in 0 .. Len(M) /\ s.offset.read_seq = s.count
  <2>1. Len(M) \in Nat
    BY <1>1
  <2>2. CASE s.count < Len(M)
    <3>1. s.count + 1 \in 1 .. Len(M) /\ s.offset = M[s.count + 1]
      BY <1>1, <1>2, <2>1, <2>2
    <3>2. M[s.count + 1].read_seq = (s.count + 1) - 1
      BY <1>2, <3>1
    <3> QED
      BY <1>1, <2>1, <2>2, <3>1, <3>2
  <2>3. CASE s.count = Len(M)
    BY <1>2, <2>1, <2>3
  <2> QED
    BY <1>1, <1>2, <2>1, <2>2, <2>3
<1>4. ReadFrom(M, s.offset) = SubSeq(M, s.count + 1, Len(M))
  BY <1>1, <1>2, <1>3, SearchExact, Zenon
<1> QED
  BY <1>4, Zenon DEF read, M

(* Resuming is exact in every store: whatever the limits and however many  *)
(* handlers append, a read from an offset a response carried returns what  *)
(* was appended since, no less and no more.                                *)
THEOREM ResumeIsExact == Spec => []ResumeExact
<1>1. IInv => ResumeExact
  BY NumberingResumes DEF IInv
<1> QED
  BY <1>1, Inductive, PTL

(* Exactly once in every store: a stream accepts the requests of a         *)
(* producer in strictly increasing (epoch, seq) order, unless its state    *)
(* was forgotten after the TTL.                                            *)
THEOREM AcceptsOnce == Spec => []ExactlyOnce
<1>1. IInv => ExactlyOnce
  BY DEF IInv
<1> QED
  BY <1>1, Inductive, PTL

(* No gap in every store: a request numbered above zero is accepted only   *)
(* after its predecessor of the same epoch.                                *)
THEOREM AcceptsInOrder == Spec => []NoGap
<1>1. IInv => NoGap
  BY DEF IInv
<1> QED
  BY <1>1, Inductive, PTL

(* Closing is final in every store: no step of any handler changes the     *)
(* content of a closed stream or reopens it.                               *)
THEOREM ClosureIsFinal == Spec => ClosedIsFinal
<1>1. IInv /\ [Next]_vars => [\A e \in Entries : heap[e].closed =>
                                /\ heap'[e].closed
                                /\ heap'[e].messages = heap[e].messages
                                /\ heap'[e].tail = heap[e].tail]_vars
  BY ClosedStep DEF IInv
<1> QED
  BY <1>1, Inductive, PTL DEF Spec, ClosedIsFinal
=============================================================================
