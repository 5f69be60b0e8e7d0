------------------------ MODULE MemoryEntryProofs --------------------------
(***************************************************************************)
(* What one step of MemoryStorage does to one entry, and that it keeps the *)
(* messages numbered and a closed entry as it is.                          *)
(***************************************************************************)
EXTENDS MemoryTypeProofs

-----------------------------------------------------------------------------
(* What one step does to one entry: nothing, or it drops the stale         *)
(* producers, or closes it, or commits a call to it; an entry nobody has   *)
(* seen may be reset.                                                      *)

Kept(e) == heap'[e] = heap[e] /\ accepted'[e] = accepted[e] /\ shown'[e] = shown[e]

SameData(e) ==
    /\ heap'[e].messages = heap[e].messages /\ heap'[e].tail = heap[e].tail
    /\ accepted'[e] = accepted[e] /\ shown'[e] = shown[e]

Found(e) == ~ Locked(e) /\ \E t \in Threads : \E c \in call[t] : c.stage = "found" /\ c.entry = e

Cleaned(e) ==
    /\ SameData(e) /\ heap'[e].closed = heap[e].closed
    /\ heap'[e].producers = Retained(e)
    /\ Found(e)

Closed(e) ==
    /\ SameData(e) /\ heap'[e].closed
    /\ heap'[e].producers = heap[e].producers
    /\ Found(e)

Fresh(e) == Untouched(e) /\ Untouched(e)'

CommittedTo(e) == \E t \in Threads : \E c \in call[t] : CommitMessages(t, c) /\ c.entry = e

(* The fields of an updated entry. *)
LEMMA EntryFields ==
    ASSUME NEW entry \in StreamEntry, NEW v
    PROVE  /\ [entry EXCEPT !.producers = v].producers = v
           /\ [entry EXCEPT !.producers = v].messages = entry.messages
           /\ [entry EXCEPT !.producers = v].tail = entry.tail
           /\ [entry EXCEPT !.producers = v].closed = entry.closed
           /\ [entry EXCEPT !.closed = TRUE].producers = entry.producers
           /\ [entry EXCEPT !.closed = TRUE].messages = entry.messages
           /\ [entry EXCEPT !.closed = TRUE].tail = entry.tail
           /\ [entry EXCEPT !.closed = TRUE].closed = TRUE
BY DEF StreamEntry

(* What one step can do to an entry: leave it as it is, drop stale         *)
(* producers, close it, start or drop a private one, or commit to it.      *)
LEMMA EntryStep ==
    ASSUME TypeOK, Ownership, [Next]_vars, NEW e \in Entries
    PROVE  /\ Kept(e) \/ Cleaned(e) \/ Closed(e) \/ Fresh(e) \/ CommittedTo(e)
           /\ now' >= now
<1> USE DEF MapUnchanged, HistoryUnchanged
<1>0. /\ heap \in [Entries -> StreamEntry] /\ heap[e] \in StreamEntry
      /\ now \in Nat
      /\ now + 1 >= now /\ now >= now
  BY DEF TypeOK
<1>1. ASSUME UNCHANGED <<heap, accepted, shown>>
      PROVE  Kept(e)
  BY <1>1 DEF Kept
<1>2. ASSUME NEW cr \in Creates, NEW t \in Threads, NewPrivateEntry(t, cr),
             UNCHANGED <<accepted, shown>>
      PROVE  Kept(e) \/ Fresh(e)
  <2>1. PICK x \in Entries \ allocated : heap' = [heap EXCEPT ![x] = NewEntry(ConfigOf(cr))]
    BY <1>2, Zenon DEF NewPrivateEntry
  <2>2. CASE x = e
    <3>1. Untouched(e)
      BY <2>2 DEF Ownership
    <3>2. heap'[e] = NewEntry(ConfigOf(cr))
      BY <1>0, <2>1, <2>2
    <3> QED
      BY <1>2, <3>1, <3>2 DEF Fresh, Untouched, NewEntry
  <2>3. CASE x # e
    BY <1>0, <1>2, <2>1, <2>3 DEF Kept
  <2> QED
    BY <2>2, <2>3
<1>3. ASSUME NEW t \in Threads, NEW c \in call[t], Private(c), Discard(c.entry),
             UNCHANGED <<accepted, shown>>
      PROVE  Kept(e) \/ Fresh(e)
  <2>1. CASE c.entry = e
    <3>1. Untouched(e)
      BY <1>3, <2>1 DEF Ownership
    <3>2. heap'[e] = Blank
      BY <1>0, <1>3, <2>1 DEF Discard
    <3> QED
      BY <1>3, <3>1, <3>2 DEF Fresh, Untouched, Blank, NewEntry
  <2>2. CASE c.entry # e
    BY <1>0, <1>3, <2>2 DEF Kept, Discard
  <2> QED
    BY <2>1, <2>2
<1>4. ASSUME NEW x \in Entries, Found(x), UNCHANGED <<accepted, shown>>,
             heap' = [heap EXCEPT ![x].producers = Retained(x)]
      PROVE  Kept(e) \/ Cleaned(e)
  <2>1. CASE x = e
    <3>1. heap'[e] = [heap[e] EXCEPT !.producers = Retained(e)]
      BY <1>0, <1>4, <2>1
    <3> QED
      BY <1>0, <1>4, <2>1, <3>1, EntryFields DEF Cleaned, SameData
  <2>2. CASE x # e
    BY <1>0, <1>4, <2>2 DEF Kept
  <2> QED
    BY <2>1, <2>2
<1>5. ASSUME NEW x \in Entries, Found(x), UNCHANGED <<accepted, shown>>,
             heap' = [heap EXCEPT ![x].closed = TRUE]
      PROVE  Kept(e) \/ Closed(e)
  <2>1. CASE x = e
    <3>1. heap'[e] = [heap[e] EXCEPT !.closed = TRUE]
      BY <1>0, <1>5, <2>1
    <3> QED
      BY <1>0, <1>5, <2>1, <3>1, EntryFields DEF Closed, SameData
  <2>2. CASE x # e
    BY <1>0, <1>5, <2>2 DEF Kept
  <2> QED
    BY <2>1, <2>2
<1>6. ASSUME NEW t \in Threads, NEW r \in Requests, NEW x \in streams[r.name], Lookup(t, r, x)
      PROVE  Kept(e) /\ now' = now
  BY <1>1, <1>6 DEF Lookup
<1>7. ASSUME NEW t \in Threads, NEW cr \in Creates, CreateAbsent(t, cr)
      PROVE  (Kept(e) \/ Fresh(e)) /\ now' = now
  BY <1>2, <1>7 DEF CreateAbsent
<1>8. ASSUME NEW t \in Threads, NEW cr \in Creates, NEW old \in streams[cr.name],
             CreateOverExpired(t, cr, old)
      PROVE  (Kept(e) \/ Fresh(e)) /\ now' = now
  BY <1>2, <1>8 DEF CreateOverExpired
<1>9. ASSUME NEW t \in Threads, NEW n \in Names, NEW x \in streams[n], Delete(t, n, x)
      PROVE  Kept(e) /\ now' = now
  BY <1>1, <1>9 DEF Delete
<1>10. ASSUME NEW t \in Threads, NEW c \in call[t],
              AppendReserve(t, c) \/ AppendReject(t, c) \/ CreateReserve(t, c)
       PROVE  Kept(e) /\ now' = now
  BY <1>1, <1>10 DEF AppendReserve, AppendReject, CreateReserve
<1>11. ASSUME NEW t \in Threads, NEW c \in call[t],
              ProducerReserve(t, c) \/ ProducerReject(t, c)
       PROVE  (Kept(e) \/ Cleaned(e)) /\ now' = now
  <2>1. c.entry \in Entries /\ Found(c.entry)
    BY <1>11, CallType DEF ProducerReserve, ProducerReject, Found
  <2> QED
    BY <1>1, <1>4, <1>11, <2>1 DEF ProducerReserve, ProducerReject
<1>12. ASSUME NEW t \in Threads, NEW c \in call[t], CloseStream(t, c)
       PROVE  (Kept(e) \/ Closed(e)) /\ now' = now
  <2>1. c.entry \in Entries /\ Found(c.entry)
    BY <1>12, CallType DEF CloseStream, Found
  <2> QED
    BY <1>1, <1>5, <1>12, <2>1 DEF CloseStream
<1>13. ASSUME NEW t \in Threads, NEW c \in call[t],
              CreateReject(t, c) \/ RollbackReservation(t, c)
       PROVE  (Kept(e) \/ Fresh(e)) /\ now' = now
  BY <1>1, <1>3, <1>13 DEF CreateReject, RollbackReservation, Private
<1>14. ASSUME NEW t \in Threads, NEW c \in call[t], CommitMessages(t, c)
       PROVE  (Kept(e) \/ CommittedTo(e)) /\ now' = now
  <2>1. now' = now
    BY <1>14 DEF CommitMessages
  <2>2. CASE c.entry = e
    BY <1>14, <2>1, <2>2 DEF CommittedTo
  <2>3. CASE c.entry # e
    BY <1>0, <1>14, <2>1, <2>3, Zenon DEF CommitMessages, Kept, TypeOK
  <2> QED
    BY <2>2, <2>3
<1>15. CASE Tick
  BY <1>0, <1>1, <1>15 DEF Tick
<1>16. CASE UNCHANGED vars
  BY <1>0, <1>1, <1>16 DEF vars
<1> QED
  BY <1>0, <1>6, <1>7, <1>8, <1>9, <1>10, <1>11, <1>12, <1>13, <1>14, <1>15, <1>16 DEF Next

(* The fields of an entry a call has committed to. *)
LEMMA CommittedData ==
    ASSUME NEW entry, NEW c
    PROVE  /\ Committed(entry, c).messages = entry.messages \o Place(c.req.msgs, entry.tail)
           /\ Committed(entry, c).tail = Advance(c.req.msgs, entry.tail)
BY Zenon DEF Committed

(* After a commit an entry is closed if it was, or if the call closes it. *)
LEMMA CommittedClosed ==
    ASSUME NEW entry, NEW c
    PROVE  Committed(entry, c).closed = (entry.closed \/ c.req.should_close)
BY Zenon DEF Committed

(* A commit sets the state of the request's own producer and of no other. *)
LEMMA CommittedProducers ==
    ASSUME NEW entry, NEW c
    PROVE  Committed(entry, c).producers = [id \in ProducerIds |->
             IF \E p \in c.req.producer : p.id = id
             THEN {[epoch |-> p.epoch, last_seq |-> p.seq, updated_at |-> c.now] :
                     p \in c.req.producer}
             ELSE entry.producers[id]]
BY Zenon DEF Committed

(* What committing c does to the producer table and the accepted history of e. *)
HistoryAfter(e, c) ==
    /\ heap'[e].producers = [id \in ProducerIds |->
          IF \E p \in c.req.producer : p.id = id
          THEN {[epoch |-> p.epoch, last_seq |-> p.seq, updated_at |-> c.now] :
                  p \in c.req.producer}
          ELSE heap[e].producers[id]]
    /\ \/ c.req.producer = {} /\ accepted'[e] = accepted[e]
       \/ \E p \in c.req.producer :
            accepted'[e] = Append(accepted[e],
              [id |-> p.id, epoch |-> p.epoch, seq |-> p.seq, at |-> c.now])

(* The entry a call commits to, before and after. *)
LEMMA CommitStep ==
    ASSUME TypeOK, NEW t \in Threads, NEW c \in call[t], CommitMessages(t, c)
    PROVE  LET e == c.entry
               b == c.req.msgs
           IN  /\ heap'[e].messages = heap[e].messages \o Place(b, heap[e].tail)
               /\ heap'[e].tail = Advance(b, heap[e].tail)
               /\ heap'[e].closed = (heap[e].closed \/ c.req.should_close)
               /\ shown'[e] = shown[e] \cup {[count  |-> Len(heap'[e].messages),
                                              offset |-> heap'[e].tail]}
               /\ HistoryAfter(e, c)
<1>1. c.entry \in Entries
  BY CallType
<1>2. heap'[c.entry] = Committed(heap[c.entry], c)
  BY <1>1 DEF CommitMessages, TypeOK
<1>3. \/ c.req.producer = {} /\ accepted'[c.entry] = accepted[c.entry]
      \/ \E p \in c.req.producer :
           accepted'[c.entry] = Append(accepted[c.entry],
             [id |-> p.id, epoch |-> p.epoch, seq |-> p.seq, at |-> c.now])
  BY <1>1, Zenon DEF CommitMessages, TypeOK
<1>4. shown'[c.entry] = shown[c.entry] \cup {[count  |-> Len(heap'[c.entry].messages),
                                             offset |-> heap'[c.entry].tail]}
  BY <1>1 DEF CommitMessages, TypeOK
<1>5. heap'[c.entry].closed = (heap[c.entry].closed \/ c.req.should_close)
  BY <1>2, CommittedClosed
<1>6. /\ heap'[c.entry].messages =
           heap[c.entry].messages \o Place(c.req.msgs, heap[c.entry].tail)
      /\ heap'[c.entry].tail = Advance(c.req.msgs, heap[c.entry].tail)
  BY <1>2, CommittedData, Zenon
<1>7. heap'[c.entry].producers = [id \in ProducerIds |->
         IF \E p \in c.req.producer : p.id = id
         THEN {[epoch |-> p.epoch, last_seq |-> p.seq, updated_at |-> c.now] :
                 p \in c.req.producer}
         ELSE heap[c.entry].producers[id]]
  BY <1>2, CommittedProducers
<1>8. HistoryAfter(c.entry, c)
  BY <1>3, <1>7, Zenon DEF HistoryAfter
<1> QED
  BY <1>4, <1>5, <1>6, <1>8, Zenon

(* A call that commits finds its entry open. *)
LEMMA CommitFindsOpen ==
    ASSUME Ownership, Checked, NEW t \in Threads, NEW c \in call[t], CommitMessages(t, c)
    PROVE  ~ heap[c.entry].closed
BY Zenon DEF Ownership, Checked, CommitMessages, Private, Untouched

(* Closing is final. *)
LEMMA ClosedStep ==
    ASSUME TypeOK, Ownership, Checked, [Next]_vars, NEW e \in Entries, heap[e].closed
    PROVE  /\ heap'[e].closed
           /\ heap'[e].messages = heap[e].messages
           /\ heap'[e].tail = heap[e].tail
<1>1. CASE Kept(e)
  BY <1>1 DEF Kept
<1>2. CASE Cleaned(e) \/ Closed(e)
  BY <1>2, Zenon DEF Cleaned, Closed, SameData
<1>3. ~ Fresh(e)
  BY DEF Fresh, Untouched
<1>4. ~ CommittedTo(e)
  BY CommitFindsOpen DEF CommittedTo
<1> QED
  BY <1>1, <1>2, <1>3, <1>4, EntryStep

(* Every step preserves the numbering of the messages. *)
LEMMA NumberingStep ==
    ASSUME TypeOK, Ownership, Numbering, [Next]_vars
    PROVE  Numbering'
<1> SUFFICES ASSUME NEW e \in Entries
             PROVE  /\ heap'[e].tail.read_seq = Len(heap'[e].messages)
                    /\ \A i \in 1 .. Len(heap'[e].messages) :
                         heap'[e].messages[i].read_seq = i - 1
                    /\ \A s \in shown'[e] :
                         /\ s.count <= Len(heap'[e].messages)
                         /\ s.offset = IF s.count < Len(heap'[e].messages)
                                       THEN heap'[e].messages[s.count + 1] ELSE heap'[e].tail
  BY DEF Numbering
<1>1. CASE Kept(e)
  BY <1>1 DEF Kept, Numbering
<1>2. CASE Cleaned(e) \/ Closed(e)
  BY <1>2 DEF Cleaned, Closed, SameData, Numbering
<1>3. CASE Fresh(e)
  BY <1>3 DEF Fresh, Untouched
<1>4. CASE CommittedTo(e)
  <2>1. PICK t \in Threads : \E c \in call[t] : CommitMessages(t, c) /\ c.entry = e
    BY <1>4 DEF CommittedTo
  <2>2. PICK c \in call[t] : CommitMessages(t, c) /\ c.entry = e
    BY <2>1
  <2> DEFINE M == heap[e].messages
             b == c.req.msgs
             P == Place(b, heap[e].tail)
  <2>3. /\ M \in Seq(Offset) /\ heap[e].tail \in Offset /\ b \in Batch
        /\ shown[e] \subseteq Shown
    BY CallType DEF TypeOK, StreamEntry
  <2>4. /\ P \in Seq(Offset) /\ Len(P) = Len(b) /\ Len(b) \in Nat
        /\ \A i \in 1 .. Len(b) : P[i].read_seq = heap[e].tail.read_seq + (i - 1)
        /\ b # <<>> => P[1] = heap[e].tail /\ Len(b) > 0
        /\ b = <<>> => Len(b) = 0
    <3>1. Len(b) \in Nat /\ (b # <<>> => Len(b) > 0) /\ (b = <<>> => Len(b) = 0)
      BY <2>3, BatchBytesType
    <3> QED
      BY <2>3, <3>1, PlaceType, Zenon
  <2>5. /\ heap'[e].messages = M \o P
        /\ heap'[e].tail = Advance(b, heap[e].tail)
        /\ shown'[e] = shown[e] \cup {[count  |-> Len(M \o P), offset |-> heap'[e].tail]}
    BY <2>2, CommitStep, Zenon
  <2>6. /\ Advance(b, heap[e].tail).read_seq = heap[e].tail.read_seq + Len(b)
        /\ b = <<>> => Advance(b, heap[e].tail) = heap[e].tail
    BY <2>3, AdvanceType
  <2>7. /\ heap[e].tail.read_seq = Len(M)
        /\ \A i \in 1 .. Len(M) : M[i].read_seq = i - 1
        /\ \A s \in shown[e] :
             /\ s.count <= Len(M)
             /\ s.offset = IF s.count < Len(M) THEN M[s.count + 1] ELSE heap[e].tail
    BY DEF Numbering
  <2> HIDE DEF M, P, b
  <2>8. /\ Len(M \o P) = Len(M) + Len(P) /\ Len(M) \in Nat
        /\ \A i \in 1 .. Len(M) : (M \o P)[i] = M[i]
        /\ \A i \in (Len(M) + 1) .. (Len(M) + Len(P)) : (M \o P)[i] = P[i - Len(M)]
    <3>1. M \in Seq(Offset) /\ P \in Seq(Offset)
      BY <2>3, <2>4
    <3> QED
      BY <3>1, Concatenation
  <2>9. heap'[e].tail.read_seq = Len(M \o P)
    <3>1. heap'[e].tail.read_seq = Len(M) + Len(P)
      BY <2>4, <2>5, <2>6, <2>7
    <3> QED
      BY <2>8, <3>1
  <2>10. ASSUME NEW i \in 1 .. Len(M \o P)
         PROVE  (M \o P)[i].read_seq = i - 1
    <3>1. CASE i <= Len(M)
      BY <2>7, <2>8, <3>1
    <3>2. CASE i > Len(M)
      <4>1. i - Len(M) \in 1 .. Len(b) /\ i \in (Len(M) + 1) .. (Len(M) + Len(P))
        BY <2>4, <2>8, <3>2
      <4>2. (M \o P)[i] = P[i - Len(M)]
        BY <2>8, <4>1
      <4>3. P[i - Len(M)].read_seq = heap[e].tail.read_seq + ((i - Len(M)) - 1)
        BY <2>4, <4>1
      <4> QED
        BY <2>7, <2>8, <4>2, <4>3
    <3> QED
      BY <2>8, <3>1, <3>2
  <2>11. ASSUME NEW s \in shown[e]
         PROVE  /\ s.count <= Len(M \o P)
                /\ s.offset = IF s.count < Len(M \o P) THEN (M \o P)[s.count + 1]
                              ELSE heap'[e].tail
    <3>1. s.count \in Nat /\ s.count <= Len(M)
      BY <2>3, <2>7 DEF Shown
    <3>2. CASE s.count < Len(M)
      <4>1. /\ s.count + 1 \in 1 .. Len(M)
            /\ s.count < Len(M \o P) /\ s.count <= Len(M \o P)
        BY <2>4, <2>8, <3>1, <3>2
      <4>2. (M \o P)[s.count + 1] = M[s.count + 1]
        BY <2>8, <4>1
      <4>3. s.offset = M[s.count + 1]
        BY <2>7, <3>2
      <4> QED
        BY <4>1, <4>2, <4>3, Zenon
    <3>3. CASE s.count = Len(M) /\ b # <<>>
      <4>1. s.count + 1 \in (Len(M) + 1) .. (Len(M) + Len(P)) /\ (s.count + 1) - Len(M) = 1
        BY <2>4, <2>8, <3>3
      <4>2. (M \o P)[s.count + 1] = heap[e].tail
        BY <2>4, <2>8, <3>3, <4>1
      <4>3. s.count < Len(M \o P) /\ s.count <= Len(M \o P)
        BY <2>4, <2>8, <3>1, <3>3
      <4>4. s.offset = heap[e].tail
        BY <2>7, <3>1, <3>3
      <4> QED
        BY <4>2, <4>3, <4>4, Zenon
    <3>4. CASE s.count = Len(M) /\ b = <<>>
      <4>1. heap'[e].tail = heap[e].tail /\ s.offset = heap[e].tail
        BY <2>5, <2>6, <2>7, <3>1, <3>4
      <4>2. ~ (s.count < Len(M \o P)) /\ s.count <= Len(M \o P)
        BY <2>4, <2>8, <3>4
      <4> QED
        BY <4>1, <4>2, Zenon
    <3> QED
      BY <2>8, <3>1, <3>2, <3>3, <3>4
  <2>12. ASSUME NEW s \in shown'[e]
         PROVE  /\ s.count <= Len(M \o P)
                /\ s.offset = IF s.count < Len(M \o P) THEN (M \o P)[s.count + 1]
                              ELSE heap'[e].tail
    <3>1. CASE s \in shown[e]
      BY <2>11, <3>1, Zenon
    <3>2. CASE s = [count |-> Len(M \o P), offset |-> heap'[e].tail]
      <4>1. Len(M \o P) \in Nat
        BY <2>4, <2>8
      <4> QED
        BY <3>2, <4>1
    <3> QED
      BY <2>5, <3>1, <3>2, Zenon
  <2> QED
    BY <2>5, <2>9, <2>10, <2>12, Zenon
<1> QED
  BY <1>1, <1>2, <1>3, <1>4, EntryStep
=============================================================================
