---------------------- MODULE MemoryOwnershipProofs ------------------------
(***************************************************************************)
(* How a step of MemoryStorage moves the calls of its threads and the map, *)
(* and that it keeps every entry with the call that owns it.               *)
(***************************************************************************)
EXTENDS MemoryEntryProofs

-----------------------------------------------------------------------------
(* Where the call of a thread after a step comes from. *)

NewFound(c) ==
    /\ c.stage = "found" /\ c.req \in Requests /\ c.now = now
    /\ \E n \in Names : c.entry \in streams[n]
    /\ UNCHANGED <<allocated, streams>>

NewVacant(c) ==
    /\ c.stage = "vacant" /\ c.req.producer = {} /\ c.now = now
    /\ c.entry \in Entries \ allocated /\ c.entry \in allocated'
    /\ Untouched(c.entry)'
    /\ \A n \in Names : streams'[n] \subseteq streams[n]

NewCommit(t, c) == \E d \in call[t] :
    /\ d.stage = "found" /\ c.stage = "commit"
    /\ c.entry = d.entry /\ c.req = d.req /\ c.now = now
    /\ ~ Locked(c.entry)
    /\ AppendReserve(t, d) \/ ProducerReserve(t, d)

NewCreate(t, c) == \E d \in call[t] :
    /\ d.stage = "vacant" /\ c.stage = "create"
    /\ c.entry = d.entry /\ c.req = d.req /\ c.now = d.now
    /\ UNCHANGED <<heap, accepted, shown, streams, allocated>>

(* The parts of a call moved to another stage. *)
LEMMA StageFields ==
    ASSUME NEW c \in Call, NEW stage, NEW n
    PROVE  LET d == [c EXCEPT !.stage = stage, !.now = n]
               f == [c EXCEPT !.stage = stage]
           IN  /\ d.stage = stage /\ d.now = n /\ d.entry = c.entry /\ d.req = c.req
               /\ f.stage = stage /\ f.now = c.now /\ f.entry = c.entry /\ f.req = c.req
BY DEF Call

(* At most one thread's call changes, and a new call has one of these origins. *)
CallsFollow ==
    /\ \A t, u \in Threads : t # u => call'[t] = call[t] \/ call'[u] = call[u]
    /\ \A t \in Threads : \A c \in call'[t] :
         \/ c \in call[t]
         \/ NewFound(c) \/ NewVacant(c) \/ NewCommit(t, c) \/ NewCreate(t, c)

(* Every step of every handler moves calls in that way. *)
LEMMA CallStep ==
    ASSUME TypeOK, Ownership, [Next]_vars
    PROVE  CallsFollow
<1> USE DEF MapUnchanged, HistoryUnchanged
<1>0. call \in [Threads -> Option(Call)]
  BY DEF TypeOK
<1>1. ASSUME NEW t \in Threads, Return(t)
      PROVE  CallsFollow
  BY <1>0, <1>1 DEF Return, CallsFollow
<1>2. ASSUME NEW t \in Threads, NEW c, Enter(t, c),
             NewFound(c) \/ NewVacant(c) \/ NewCommit(t, c) \/ NewCreate(t, c)
      PROVE  CallsFollow
  <2>1. call'[t] = {c} /\ \A u \in Threads : u # t => call'[u] = call[u]
    BY <1>0, <1>2 DEF Enter
  <2> QED
    BY <1>2, <2>1 DEF CallsFollow
<1>3. ASSUME UNCHANGED call
      PROVE  CallsFollow
  BY <1>3 DEF CallsFollow
<1>4. ASSUME NEW t \in Threads, NEW r \in Requests, NEW e \in streams[r.name], Lookup(t, r, e)
      PROVE  CallsFollow
  <2>1. r.name \in Names
    BY RequestsAssumption DEF Request
  <2>2. NewFound([stage |-> "found", entry |-> e, req |-> r, now |-> now])
    BY <1>4, <2>1 DEF NewFound, Lookup
  <2> QED
    BY <1>2, <1>4, <2>2 DEF Lookup
<1>5. ASSUME NEW t \in Threads, NEW cr \in Creates, NewPrivateEntry(t, cr),
             UNCHANGED <<accepted, shown>>, \A n \in Names : streams'[n] \subseteq streams[n]
      PROVE  CallsFollow
  <2>1. PICK e \in Entries \ allocated :
          /\ heap' = [heap EXCEPT ![e] = NewEntry(ConfigOf(cr))]
          /\ allocated' = allocated \cup {e}
          /\ Enter(t, [stage |-> "vacant", entry |-> e, req |-> CreateRequest(cr), now |-> now])
    BY <1>5, Zenon DEF NewPrivateEntry
  <2>2. Untouched(e)'
    <3>1. heap'[e] = NewEntry(ConfigOf(cr)) /\ Untouched(e)
      BY <2>1 DEF TypeOK, Ownership
    <3> QED
      BY <1>5, <3>1 DEF Untouched, NewEntry
  <2>3. NewVacant([stage |-> "vacant", entry |-> e, req |-> CreateRequest(cr), now |-> now])
    BY <1>5, <2>1, <2>2 DEF NewVacant, CreateRequest
  <2> QED
    BY <1>2, <2>1, <2>3
<1>6. ASSUME NEW t \in Threads, NEW cr \in Creates, CreateAbsent(t, cr)
      PROVE  CallsFollow
  BY <1>5, <1>6 DEF CreateAbsent
<1>7. ASSUME NEW t \in Threads, NEW cr \in Creates, NEW old \in streams[cr.name],
             CreateOverExpired(t, cr, old)
      PROVE  CallsFollow
  <2>1. \A n \in Names : streams'[n] \subseteq streams[n]
    BY <1>7 DEF CreateOverExpired, Remove, TypeOK
  <2> QED
    BY <1>5, <1>7, <2>1 DEF CreateOverExpired
<1>8. ASSUME NEW t \in Threads, NEW n \in Names, NEW e \in streams[n], Delete(t, n, e)
      PROVE  CallsFollow
  BY <1>3, <1>8 DEF Delete
<1>9. ASSUME NEW t \in Threads, NEW c \in call[t], AppendReserve(t, c) \/ ProducerReserve(t, c)
      PROVE  CallsFollow
  <2>1. NewCommit(t, [c EXCEPT !.stage = "commit", !.now = now])
    <3>1. c \in Call
      BY CallType
    <3>2. c.stage = "found" /\ ~ Locked(c.entry)
      BY <1>9 DEF AppendReserve, ProducerReserve
    <3> QED
      BY <1>9, <3>1, <3>2, StageFields DEF NewCommit
  <2> QED
    BY <1>2, <1>9, <2>1 DEF AppendReserve, ProducerReserve
<1>10. ASSUME NEW t \in Threads, NEW c \in call[t], CreateReserve(t, c)
       PROVE  CallsFollow
  <2>1. NewCreate(t, [c EXCEPT !.stage = "create"])
    <3>1. c \in Call
      BY CallType
    <3>2. c.stage = "vacant" /\ UNCHANGED <<heap, accepted, shown, streams, allocated>>
      BY <1>10 DEF CreateReserve
    <3> QED
      BY <3>1, <3>2, StageFields DEF NewCreate
  <2> QED
    BY <1>2, <1>10, <2>1 DEF CreateReserve
<1>11. ASSUME NEW t \in Threads, NEW c \in call[t],
              \/ AppendReject(t, c) \/ ProducerReject(t, c) \/ CloseStream(t, c)
              \/ CreateReject(t, c) \/ CommitMessages(t, c) \/ RollbackReservation(t, c)
       PROVE  CallsFollow
  BY <1>1, <1>11 DEF AppendReject, ProducerReject, CloseStream, CreateReject, CommitMessages,
                     RollbackReservation
<1>12. CASE Tick \/ UNCHANGED vars
  BY <1>3, <1>12 DEF Tick, vars
<1>13. ASSUME NEW t \in Threads, NEW c \in call[t],
              \/ AppendReserve(t, c) \/ AppendReject(t, c)
              \/ ProducerReserve(t, c) \/ ProducerReject(t, c)
              \/ CloseStream(t, c)
              \/ CreateReserve(t, c) \/ CreateReject(t, c)
              \/ CommitMessages(t, c) \/ RollbackReservation(t, c)
       PROVE  CallsFollow
  BY <1>9, <1>10, <1>11, <1>13
<1>14. ASSUME NEW t \in Threads,
              \/ \E r \in Requests : \E e \in streams[r.name] : Lookup(t, r, e)
              \/ \E cr \in Creates : CreateAbsent(t, cr)
              \/ \E cr \in Creates : \E old \in streams[cr.name] : CreateOverExpired(t, cr, old)
              \/ \E n \in Names : \E e \in streams[n] : Delete(t, n, e)
       PROVE  CallsFollow
  BY <1>4, <1>6, <1>7, <1>8, <1>14
<1>15. CASE Next
  BY <1>12, <1>13, <1>14, <1>15, Zenon DEF Next
<1> QED
  BY <1>12, <1>15 DEF vars

(* What a step does to the map and to the set of entries in use: an entry   *)
(* is dropped only by the creation that owns it, and a name gets an entry   *)
(* only when a creation commits.                                            *)
Dropped(e) ==
    /\ Untouched(e)'
    /\ \E t \in Threads : \E c \in call[t] : Private(c) /\ c.entry = e /\ call'[t] = {}

Published(n) == \E t \in Threads : \E c \in call[t] :
    /\ Private(c) /\ CommitMessages(t, c)
    /\ streams'[n] = {c.entry} /\ call'[t] = {} /\ allocated' = allocated

MapFollows ==
    /\ \A e \in allocated \ allocated' : Dropped(e)
    /\ \A n \in Names : streams'[n] \subseteq streams[n] \/ Published(n)

(* Every step of every handler treats the map that way. *)
LEMMA MapStep ==
    ASSUME TypeOK, Ownership, [Next]_vars
    PROVE  MapFollows
<1> USE DEF MapUnchanged, HistoryUnchanged
<1>0. /\ heap \in [Entries -> StreamEntry] /\ streams \in [Names -> Option(Entries)]
      /\ call \in [Threads -> Option(Call)] /\ allocated \subseteq Entries
  BY DEF TypeOK
<1>1. ASSUME UNCHANGED <<streams, allocated>>
      PROVE  MapFollows
  BY <1>1 DEF MapFollows
<1>2. ASSUME NEW n \in Names, NEW e, Remove(n, e), allocated \subseteq allocated'
      PROVE  MapFollows
  <2>1. \A m \in Names : streams'[m] \subseteq streams[m]
    BY <1>0, <1>2 DEF Remove
  <2> QED
    BY <1>2, <2>1 DEF MapFollows
<1>3. ASSUME NEW t \in Threads, NEW c \in call[t], Private(c), Discard(c.entry), Return(t),
             UNCHANGED <<streams, accepted, shown>>
      PROVE  MapFollows
  <2>1. c.entry \in Entries /\ Untouched(c.entry)
    BY <1>0, <1>3 DEF Ownership
  <2>2. heap'[c.entry] = Blank /\ call'[t] = {}
    BY <1>0, <1>3, <2>1 DEF Discard, Return
  <2>3. Untouched(c.entry)'
    <3>1. accepted'[c.entry] = <<>> /\ shown'[c.entry] = {}
      BY <1>3, <2>1 DEF Untouched
    <3>2. /\ Blank.messages = <<>> /\ Blank.tail = [read_seq |-> 0, byte_offset |-> 0]
          /\ ~ Blank.closed /\ Blank.producers = [id \in ProducerIds |-> {}]
      BY DEF Blank, NewEntry
    <3> QED
      BY <2>2, <3>1, <3>2 DEF Untouched
  <2>4. Dropped(c.entry)
    BY <1>3, <2>2, <2>3 DEF Dropped
  <2>5. \A e \in allocated \ allocated' : e = c.entry
    BY <1>3 DEF Discard
  <2> QED
    BY <1>3, <2>4, <2>5 DEF MapFollows
<1>4. ASSUME NEW t \in Threads, NEW c \in call[t], CommitMessages(t, c)
      PROVE  MapFollows
  <2>1. CASE c.stage = "create"
    <3>1. call'[t] = {} /\ allocated' = allocated /\ Private(c)
      BY <1>0, <1>4, <2>1 DEF CommitMessages, Return, Private
    <3>2. ASSUME NEW n \in Names
          PROVE  streams'[n] \subseteq streams[n] \/ Published(n)
      <4>1. streams' = [streams EXCEPT ![c.req.name] = {c.entry}]
        BY <1>4, <2>1 DEF CommitMessages
      <4>2. streams'[n] = streams[n] \/ streams'[n] = {c.entry}
        BY <1>0, <4>1
      <4> QED
        BY <1>4, <3>1, <4>2 DEF Published
    <3> QED
      BY <3>1, <3>2 DEF MapFollows
  <2>2. CASE c.stage # "create"
    BY <1>1, <1>4, <2>2 DEF CommitMessages
  <2> QED
    BY <2>1, <2>2
<1>5. ASSUME NEW t \in Threads, NEW c \in call[t],
             CreateReject(t, c) \/ RollbackReservation(t, c)
      PROVE  MapFollows
  <2>1. CASE CreateReject(t, c)
    BY <1>3, <2>1 DEF CreateReject, Private
  <2>2. CASE RollbackReservation(t, c) /\ c.stage = "create"
    BY <1>3, <2>2 DEF RollbackReservation, Private
  <2>3. CASE RollbackReservation(t, c) /\ c.stage # "create"
    BY <1>1, <2>3 DEF RollbackReservation
  <2> QED
    BY <1>5, <2>1, <2>2, <2>3
<1>6. ASSUME NEW t \in Threads, NEW c \in call[t],
              \/ AppendReserve(t, c) \/ AppendReject(t, c)
              \/ ProducerReserve(t, c) \/ ProducerReject(t, c)
              \/ CloseStream(t, c) \/ CreateReserve(t, c)
      PROVE  MapFollows
  BY <1>1, <1>6 DEF AppendReserve, AppendReject, ProducerReserve, ProducerReject, CloseStream,
                    CreateReserve
<1>7. ASSUME NEW t \in Threads, NEW r \in Requests, NEW e \in streams[r.name], Lookup(t, r, e)
      PROVE  MapFollows
  BY <1>1, <1>7 DEF Lookup
<1>8. ASSUME NEW t \in Threads, NEW cr \in Creates, CreateAbsent(t, cr)
      PROVE  MapFollows
  <2>1. allocated \subseteq allocated' /\ UNCHANGED streams
    BY <1>8 DEF CreateAbsent, NewPrivateEntry
  <2> QED
    BY <2>1 DEF MapFollows
<1>9. ASSUME NEW t \in Threads, NEW cr \in Creates, NEW old \in streams[cr.name],
             CreateOverExpired(t, cr, old)
      PROVE  MapFollows
  <2>1. allocated \subseteq allocated' /\ cr.name \in Names
    BY <1>9, CreatesAssumption DEF CreateOverExpired, NewPrivateEntry, Create
  <2> QED
    BY <1>2, <1>9, <2>1 DEF CreateOverExpired
<1>10. ASSUME NEW t \in Threads, NEW n \in Names, NEW e \in streams[n], Delete(t, n, e)
       PROVE  MapFollows
  BY <1>2, <1>10 DEF Delete
<1>11. CASE Tick \/ UNCHANGED vars
  BY <1>1, <1>11 DEF Tick, vars
<1>12. ASSUME NEW t \in Threads, NEW c \in call[t],
              \/ AppendReserve(t, c) \/ AppendReject(t, c)
              \/ ProducerReserve(t, c) \/ ProducerReject(t, c)
              \/ CloseStream(t, c)
              \/ CreateReserve(t, c) \/ CreateReject(t, c)
              \/ CommitMessages(t, c) \/ RollbackReservation(t, c)
       PROVE  MapFollows
  BY <1>4, <1>5, <1>6, <1>12
<1>13. ASSUME NEW t \in Threads,
              \/ \E r \in Requests : \E e \in streams[r.name] : Lookup(t, r, e)
              \/ \E cr \in Creates : CreateAbsent(t, cr)
              \/ \E cr \in Creates : \E old \in streams[cr.name] : CreateOverExpired(t, cr, old)
              \/ \E n \in Names : \E e \in streams[n] : Delete(t, n, e)
       PROVE  MapFollows
  BY <1>7, <1>8, <1>9, <1>10, <1>13
<1>14. CASE Next
  BY <1>11, <1>12, <1>13, <1>14, Zenon DEF Next
<1> QED
  BY <1>11, <1>14 DEF vars

-----------------------------------------------------------------------------
(* Two calls at one entry: neither is creating it, and at most one of them *)
(* is committing to it.                                                    *)
Apart(c, d) == ~ Private(c) /\ ~ Private(d) /\ ~ (c.stage = "commit" /\ d.stage = "commit")

(* Two threads at one entry, one of which has not moved, keep apart. *)
LEMMA ApartStep ==
    ASSUME TypeOK, Ownership, [Next]_vars,
           NEW t \in Threads, NEW u \in Threads, t # u,
           NEW c \in call'[t], NEW d \in call[u], c.entry = d.entry
    PROVE  Apart(c, d)
<1>0. ASSUME NEW x \in call[t], x.entry = d.entry
      PROVE  Apart(x, d)
  BY <1>0 DEF Ownership, Apart
<1>1. d.entry \in allocated /\ (Private(d) => \A n \in Names : d.entry \notin streams[n])
  BY DEF Ownership
<1>2. CASE c \in call[t]
  BY <1>0, <1>2
<1>3. CASE NewFound(c)
  BY <1>1, <1>3 DEF NewFound, Apart, Private
<1>4. CASE NewVacant(c)
  BY <1>1, <1>4 DEF NewVacant
<1>5. CASE NewCommit(t, c)
  <2>1. PICK x \in call[t] : x.entry = c.entry /\ c.stage = "commit" /\ ~ Locked(c.entry)
    BY <1>5 DEF NewCommit
  <2>2. ~ Private(d) /\ d.stage # "commit"
    BY <1>0, <2>1 DEF Apart, Locked
  <2> QED
    BY <2>1, <2>2 DEF Apart, Private
<1>6. CASE NewCreate(t, c)
  <2>1. PICK x \in call[t] : x.entry = c.entry /\ Private(x)
    BY <1>6 DEF NewCreate, Private
  <2> QED
    BY <1>0, <2>1 DEF Apart
<1> QED
  BY <1>2, <1>3, <1>4, <1>5, <1>6, CallStep DEF CallsFollow

(* An entry outside the allocated ones stays untouched. *)
LEMMA UnallocatedStep ==
    ASSUME TypeOK, Ownership, [Next]_vars, NEW e \in Entries, e \notin allocated'
    PROVE  Untouched(e)'
<1>1. CASE e \in allocated
  BY <1>1, MapStep DEF MapFollows, Dropped
<1>2. CASE e \notin allocated
  <2>1. Untouched(e) /\ \A t \in Threads : \A c \in call[t] : c.entry # e
    BY <1>2 DEF Ownership
  <2>2. ~ Found(e) /\ ~ CommittedTo(e)
    BY <2>1 DEF Found, CommittedTo
  <2>3. CASE Kept(e)
    BY <2>1, <2>3 DEF Kept, Untouched
  <2> QED
    BY <2>2, <2>3, EntryStep DEF Fresh, Cleaned, Closed
<1> QED
  BY <1>1, <1>2

(* A call that stays keeps its entry, and a private one keeps it private. *)
LEMMA StayStep ==
    ASSUME TypeOK, Ownership, [Next]_vars, NEW t \in Threads, NEW c \in call[t], c \in call'[t]
    PROVE  /\ c.entry \in allocated'
           /\ Private(c) => Untouched(c.entry)' /\ \A n \in Names : c.entry \notin streams'[n]
<1>0. c.entry \in Entries /\ c.entry \in allocated /\ call[t] = {c}
  BY CallType DEF Ownership
<1>1. ASSUME NEW u \in Threads, u # t, NEW d \in call[u], d.entry = c.entry
      PROVE  Apart(c, d)
  BY <1>1 DEF Ownership, Apart
<1>2. c.entry \in allocated'
  <2>1. SUFFICES ASSUME c.entry \notin allocated'
                 PROVE  FALSE
    OBVIOUS
  <2>2. PICK u \in Threads : \E d \in call[u] : Private(d) /\ d.entry = c.entry /\ call'[u] = {}
    BY <1>0, <2>1, MapStep DEF MapFollows, Dropped
  <2>3. PICK d \in call[u] : Private(d) /\ d.entry = c.entry /\ call'[u] = {}
    BY <2>2
  <2>4. u # t
    BY <2>3
  <2> QED
    BY <1>1, <2>3, <2>4 DEF Apart
<1>3. ASSUME Private(c)
      PROVE  Untouched(c.entry)'
  <2>1. Untouched(c.entry)
    BY <1>3 DEF Ownership
  <2>2. ~ Found(c.entry)
    BY <1>0, <1>1, <1>3 DEF Found, Apart, Private
  <2>3. ~ CommittedTo(c.entry)
    <3>1. SUFFICES ASSUME NEW u \in Threads, NEW d \in call[u], CommitMessages(u, d),
                          d.entry = c.entry
                   PROVE  FALSE
      BY DEF CommittedTo
    <3>2. call'[u] = {}
      BY <3>1 DEF CommitMessages, Return, TypeOK
    <3>3. u # t
      BY <3>2
    <3> QED
      BY <1>1, <1>3, <3>1, <3>3 DEF Apart
  <2>4. CASE Kept(c.entry)
    BY <2>1, <2>4 DEF Kept, Untouched
  <2> QED
    BY <1>0, <2>2, <2>3, <2>4, EntryStep DEF Fresh, Cleaned, Closed
<1>4. ASSUME Private(c), NEW n \in Names
      PROVE  c.entry \notin streams'[n]
  <2>1. c.entry \notin streams[n]
    BY <1>4 DEF Ownership
  <2>2. CASE Published(n)
    <3>1. PICK u \in Threads : \E d \in call[u] : streams'[n] = {d.entry} /\ call'[u] = {}
      BY <2>2 DEF Published
    <3>2. PICK d \in call[u] : streams'[n] = {d.entry} /\ call'[u] = {}
      BY <3>1
    <3>3. u # t
      BY <3>2
    <3> QED
      BY <1>1, <1>4, <3>2, <3>3 DEF Apart
  <2> QED
    BY <2>1, <2>2, MapStep DEF MapFollows
<1> QED
  BY <1>2, <1>3, <1>4

(* Every step preserves ownership. *)
LEMMA OwnershipStep ==
    ASSUME TypeOK, Ownership, [Next]_vars
    PROVE  Ownership'
<1>1. ASSUME NEW n \in Names
      PROVE  streams'[n] \subseteq allocated'
  <2>1. CASE streams'[n] \subseteq streams[n]
    <3>1. SUFFICES ASSUME NEW x \in streams[n], x \notin allocated'
                   PROVE  FALSE
      BY <2>1
    <3>2. x \in allocated
      BY DEF Ownership
    <3>3. Dropped(x)
      BY <3>1, <3>2, MapStep DEF MapFollows
    <3> QED
      BY <3>3 DEF Dropped, Ownership
  <2>2. CASE Published(n)
    BY <2>2 DEF Published, Ownership
  <2> QED
    BY <2>1, <2>2, MapStep DEF MapFollows
<1>2. ASSUME NEW t \in Threads, NEW c \in call'[t]
      PROVE  /\ c.entry \in allocated'
             /\ Private(c) => Untouched(c.entry)' /\ \A n \in Names : c.entry \notin streams'[n]
  <2>1. CASE c \in call[t]
    BY <2>1, StayStep
  <2>2. CASE NewFound(c)
    BY <2>2 DEF NewFound, Private, Ownership
  <2>3. CASE NewVacant(c)
    BY <2>3 DEF NewVacant, Ownership
  <2>4. CASE NewCommit(t, c)
    <3>1. UNCHANGED allocated /\ c.stage = "commit"
      BY <2>4 DEF NewCommit, AppendReserve, ProducerReserve, MapUnchanged
    <3> QED
      BY <2>4, <3>1 DEF NewCommit, Private, Ownership
  <2>5. CASE NewCreate(t, c)
    <3>1. PICK d \in call[t] : /\ d.stage = "vacant" /\ c.entry = d.entry
                               /\ UNCHANGED <<heap, accepted, shown, streams, allocated>>
      BY <2>5 DEF NewCreate
    <3>2. /\ d.entry \in allocated /\ Untouched(d.entry)
          /\ \A n \in Names : d.entry \notin streams[n]
      BY <3>1 DEF Ownership, Private
    <3>3. Untouched(d.entry)'
      BY <3>1, <3>2 DEF Untouched
    <3> QED
      BY <3>1, <3>2, <3>3
  <2> QED
    BY <2>1, <2>2, <2>3, <2>4, <2>5, CallStep DEF CallsFollow
<1>3. ASSUME NEW t \in Threads, NEW u \in Threads, NEW c \in call'[t], NEW d \in call'[u],
             t # u, c.entry = d.entry
      PROVE  ~ Private(c) /\ ~ (c.stage = "commit" /\ d.stage = "commit")
  <2>1. CASE d \in call[u]
    BY <1>3, <2>1, ApartStep DEF Apart
  <2>2. CASE c \in call[t]
    BY <1>3, <2>2, ApartStep DEF Apart
  <2>3. call'[t] = call[t] \/ call'[u] = call[u]
    BY <1>3, CallStep DEF CallsFollow
  <2> QED
    BY <2>1, <2>2, <2>3
<1>4. \A e \in Entries \ allocated' : Untouched(e)'
  BY UnallocatedStep
<1>5. \A t \in Threads : \A c \in call'[t] :
        /\ c.entry \in allocated'
        /\ Private(c) => Untouched(c.entry)' /\ \A n \in Names : c.entry \notin streams'[n]
  BY <1>2
<1>6. \A t, u \in Threads : \A c \in call'[t], d \in call'[u] :
        t # u /\ c.entry = d.entry =>
            ~ Private(c) /\ ~ (c.stage = "commit" /\ d.stage = "commit")
  BY <1>3
<1>7. \A n \in Names : streams'[n] \subseteq allocated'
  BY <1>1
<1> QED
  BY <1>4, <1>5, <1>6, <1>7, Zenon DEF Ownership, Private
=============================================================================
