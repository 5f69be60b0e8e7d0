---------------------------- MODULE FileStorage ----------------------------
(***************************************************************************)
(* FileStorage (src/src/storage/file.rs): one directory per stream with a  *)
(* log of records and a metadata file, an index in memory, I/O that may    *)
(* fail half-way, and a process that may stop between any two steps and    *)
(* rebuild its state from the disk.                                        *)
(*                                                                         *)
(* A log is the sequence of its records; every message has one byte, so    *)
(* that bytes are records.  A directory is reached by the name of the      *)
(* stream, a file also by the handles that are open on it: after a         *)
(* deletion a call that still holds the old entry writes to a log nobody   *)
(* finds any more, but its metadata goes wherever the name leads, through  *)
(* the same meta.json.tmp as that of the stream created in its place.      *)
(*                                                                         *)
(* Left out: content types (a mismatch is refused and changes nothing),    *)
(* power loss (what write(2) took is kept), a failing fstat, and I/O that  *)
(* fails while the process starts (it does not start).  "batch" stands for *)
(* append too, which is batch_append of one message without a Stream-Seq.  *)
(*                                                                         *)
(* The stages of a call.  It holds its entry's Arc, and no lock:           *)
(*   "found"      nothing else has happened                                *)
(* an append or a close, with the entry's write lock:                      *)
(*   "logged"     its records are in the log                               *)
(* a delete, or a create that meets an expired stream, with the map's      *)
(* write lock:                                                             *)
(*   "forgotten"  the stream is no longer in the map                       *)
(*   "removing"   its bytes are given back, its directory is being removed *)
(* a create, with the map's write lock:                                    *)
(*   "cleared"    the directory of the expired stream is gone              *)
(*   "opened"     its directory and log are there, its entry is private    *)
(* and any of them but the delete, saving metadata under its lock:         *)
(*   "saving"     the entry is as it shall be, nothing is saved yet        *)
(*   "truncated"  meta.json.tmp is open, and was emptied                   *)
(*   "written"    the metadata is written, and not renamed yet             *)
(***************************************************************************)
EXTENDS StreamRules, FiniteSets, FiniteSetsExt, SequencesExt

CONSTANTS
    Names,
    Entries,                    \* entries created or restored by one process (a bound)
    Files,                      \* identities of log files (a bound)
    Threads, Readers,
    ProducerIds,
    Requests, Creates,          \* the calls the environment makes, besides delete
    PRODUCER_STATE_TTL_SECS,
    max_total_bytes, max_stream_bytes,
    MaxTime, MaxRestarts, MaxFaults, MaxWrites,
    MaxCallsAfterRestart        \* how many calls overlap once the process was restarted

VARIABLES
    running,        \* the process has started
    streams,        \* name -> Option(entry)
    heap,           \* entry -> its StreamEntry
    allocated,      \* the entries of this process
    disk,           \* name -> Option(its directory)
    log,            \* file -> its records
    total_bytes,
    call,           \* thread -> Option(the call it is executing)
    reading,        \* reader -> Option(the read it is executing)
    now,
    notified,       \* the entries on whose channel the last step sent
    response,       \* what the read that ended with the last step wanted, and got
    restarts, faults, writes,   \* counts, for the bounds; writes also tells records apart
    durable,        \* history: entry -> the metadata a restart may find of it
    overwritten,    \* history: entries whose metadata files another entry's call touched
    overlapped,     \* history: names under which two calls saved at the same time
    crossed         \* history: entries to whose log another entry has written

bounds == <<restarts, faults, writes>>

history == <<durable, overwritten, overlapped, crossed>>

vars == <<running, streams, heap, allocated, disk, log, total_bytes, call, reading, now,
          notified, response, bounds, history>>

-----------------------------------------------------------------------------
Record == [write : Nat, part : Nat, whole : BOOLEAN]

Producer == [id : ProducerIds, epoch : Nat, seq : Nat]

ProducerState == [epoch : Nat, last_seq : Nat, updated_at : Nat]

StreamMeta == [expires_at : Option(Nat), closed : BOOLEAN, last_seq : Option(Nat),
               producers : [ProducerIds -> Option(ProducerState)]]

(* The config of an entry is its expires_at; index holds positions in the  *)
(* log, file_len is the length the entry believes the log has.             *)
StreamEntry == [expires_at : Option(Nat), closed : BOOLEAN, last_seq : Option(Nat),
                producers : [ProducerIds -> Option(ProducerState)],
                index : Seq(Nat), file : Files, file_len : Nat, cursor : Nat]

(* The contents of a metadata file: whole metadata, nothing, or bytes      *)
(* serde_json does not take.                                               *)
Metadata == [meta : Option(StreamMeta), empty : BOOLEAN]

Intact(m) == [meta |-> {m}, empty |-> FALSE]

Empty == [meta |-> {}, empty |-> TRUE]

Garbled == [meta |-> {}, empty |-> FALSE]

(* meta.json, meta.json.tmp and data.log *)
Directory == [meta : Option(Metadata), tmp : Option(Metadata), data : Option(Files)]

Request == [op : {"batch", "producer", "close", "create", "delete"}, name : Names, count : Nat,
            seq : Option(Nat), producer : Option(Producer), should_close : BOOLEAN,
            expires_at : Option(Nat)]

(* link: where the temporary file a call has open is now.  bytes and todo: *)
(* what a removal has to give back, and the names it still has to unlink.  *)
Links == {"none", "tmp", "meta", "gone"}

Call == [stage : {"found", "logged", "forgotten", "removing", "cleared", "opened", "saving",
                  "truncated", "written"},
         entry : Entries, req : Request, now : Nat, link : Links, bytes : Nat,
         todo : SUBSET {"meta", "tmp", "data"}]

ASSUME CallsAssumption ==
    /\ Requests \cup Creates \subseteq Request
    /\ \A r \in Creates : r.op = "create" /\ r.seq = {} /\ r.producer = {}
    /\ \A r \in Requests :
         /\ r.op \in {"batch", "producer", "close"}
         /\ (r.op = "producer") <=> (r.producer # {})
         /\ r.op = "batch" => r.count > 0 /\ ~ r.should_close

DeleteRequest(n) == [op |-> "delete", name |-> n, count |-> 0, seq |-> {}, producer |-> {},
                     should_close |-> FALSE, expires_at |-> {}]

NewEntry(expires_at, file, file_len) ==
    [expires_at |-> expires_at, closed |-> FALSE, last_seq |-> {},
     producers |-> [p \in ProducerIds |-> {}],
     index |-> <<>>, file |-> file, file_len |-> file_len, cursor |-> 0]

Blank == NewEntry({}, CHOOSE f \in Files : TRUE, 0)

MetaOf(entry) == [expires_at |-> entry.expires_at, closed |-> entry.closed,
                  last_seq |-> entry.last_seq, producers |-> entry.producers]

saturating_sub(a, b) == IF b <= a THEN a - b ELSE 0

-----------------------------------------------------------------------------
Calls == UNION {call[t] : t \in Threads}

MapLocked == \E c \in Calls : c.req.op \in {"create", "delete"}

WriteLocked(e) == \E c \in Calls : /\ c.req.op \notin {"create", "delete"}
                                   /\ c.stage # "found" /\ c.entry = e

ReadLocked(e) == \E r \in Readers : \E g \in reading[r] : g.entry = e

Locked(e) == WriteLocked(e) \/ ReadLocked(e)

(* The entry a create is making. *)
Private(c) == c.req.op = "create" /\ c.stage \in {"opened", "saving", "truncated", "written"}

Expired(e) == is_stream_expired(heap[e], now)

Retained(e) == cleanup_stale_producers(heap[e].producers, now, PRODUCER_STATE_TTL_SECS)

(* append_records: both limits are tested under the lock of the counter. *)
Fits(e, count) ==
    \/ count = 0
    \/ /\ total_bytes + count <= max_total_bytes
       /\ Len(heap[e].index) + count <= max_stream_bytes

Admitted(e, r) ==
    /\ ~ Expired(e)
    /\ r.op = "batch" => ~ heap[e].closed
    /\ \A p \in r.producer : check_producer(Retained(e)[p.id], p, heap[e].closed) = "Accept"
    /\ validate_seq(heap[e].last_seq, r.seq)

(* A producer call drops stale producers before anything can refuse it. *)
Cleaned(e, r) == IF r.op = "producer" /\ ~ Expired(e)
                 THEN [heap EXCEPT ![e].producers = Retained(e)] ELSE heap

NewCall(r, e, stage) == [stage |-> stage, entry |-> e, req |-> r, now |-> 0, link |-> "none",
                         bytes |-> 0, todo |-> {}]

CallBegins(t) ==
    /\ call[t] = {}
    /\ restarts = 0 \/ Cardinality({u \in Threads : call[u] # {}}) < MaxCallsAfterRestart

Enter(t, c) == call' = [call EXCEPT ![t] = {c}]

Return(t) == call' = [call EXCEPT ![t] = {}]

(* An I/O operation fails. *)
Fault == faults < MaxFaults /\ faults' = faults + 1

(* A step that sends nothing: no notification, no response to a read. *)
Quiet == notified' = {} /\ response' = {}

Init ==
    /\ running = TRUE
    /\ streams = [n \in Names |-> {}] /\ heap = [e \in Entries |-> Blank] /\ allocated = {}
    /\ disk = [n \in Names |-> {}] /\ log = [f \in Files |-> <<>>] /\ total_bytes = 0
    /\ call = [t \in Threads |-> {}] /\ reading = [r \in Readers |-> {}]
    /\ now = 0 /\ notified = {} /\ response = {}
    /\ restarts = 0 /\ faults = 0 /\ writes = 0
    /\ durable = [e \in Entries |-> {}] /\ overwritten = {} /\ overlapped = {} /\ crossed = {}

-----------------------------------------------------------------------------
(* write_all of one buffer with all the records of a call. *)
Written(count) == [i \in 1 .. count |-> [write |-> writes, part |-> i, whole |-> TRUE]]

(* What an interrupted write, or a failed sync, leaves: some of the        *)
(* records, the last of them perhaps in part.                              *)
PartlyWritten(count) ==
    {SubSeq(Written(count), 1, k) : k \in 0 .. count}
    \cup {Append(SubSeq(Written(count), 1, k - 1), [Written(count)[k] EXCEPT !.whole = FALSE]) :
            k \in 1 .. count}

(* The index of an entry after append_records: positions are counted from  *)
(* the length the entry believes the log has.                              *)
Indexed(entry, count) ==
    [entry EXCEPT !.index = @ \o [i \in 1 .. count |-> entry.file_len + i],
                  !.file_len = @ + count]

(* Another entry has the log of e open, and its length no longer fits.     *)
Crossed(e) == crossed' = crossed \cup {e2 \in allocated \ {e} : heap[e2].file = heap[e].file}

WriteRecords(e, count) ==
    /\ count > 0 => writes < MaxWrites
    /\ log' = [log EXCEPT ![heap[e].file] = @ \o Written(count)]
    /\ writes' = IF count = 0 THEN writes ELSE writes + 1
    /\ total_bytes' = total_bytes + count
    /\ IF count = 0 THEN UNCHANGED crossed ELSE Crossed(e)

(* A mistaken variant: it gives back more than it took.                    *)
RollsBackTwice(e, count) ==
    /\ writes < MaxWrites /\ count > 0 /\ Fault
    /\ \E left \in PartlyWritten(count) : log' = [log EXCEPT ![heap[e].file] = @ \o left]
    /\ writes' = writes + 1
    /\ total_bytes' = total_bytes - count
    /\ Crossed(e)

(* The error path: the reservation is rolled back, and the length of the   *)
(* file is looked up again.                                                *)
WriteRecordsFails(e, count) ==
    /\ writes < MaxWrites /\ count > 0 /\ Fault
    /\ \E left \in PartlyWritten(count) : log' = [log EXCEPT ![heap[e].file] = @ \o left]
    /\ writes' = writes + 1
    /\ UNCHANGED total_bytes
    /\ Crossed(e)

-----------------------------------------------------------------------------
(* get_stream, as in the in-memory store. *)
Lookup(t, r, e) ==
    /\ CallBegins(t) /\ ~ MapLocked
    /\ Enter(t, NewCall(r, e, "found"))
    /\ Quiet
    /\ UNCHANGED <<running, streams, heap, allocated, total_bytes, reading, disk, log, now,
                   bounds, history>>

(* append, batch_append and append_with_producer up to the end of          *)
(* append_records' write: the records are in the log.                      *)
AppendLog(t, c) ==
    /\ c.stage = "found" /\ c.req.op \in {"batch", "producer"}
    /\ ~ Locked(c.entry)
    /\ Admitted(c.entry, c.req) /\ Fits(c.entry, c.req.count)
    /\ WriteRecords(c.entry, c.req.count)
    /\ heap' = Cleaned(c.entry, c.req)
    /\ Enter(t, [c EXCEPT !.stage = "logged", !.now = now])
    /\ Quiet
    /\ UNCHANGED <<running, streams, allocated, reading, disk, now, restarts, faults,
                   durable, overwritten, overlapped>>

(* A mistaken variant: the length of the file is not looked up again.      *)
KeepsLength(t, c) ==
    /\ c.stage = "found" /\ c.req.op \in {"batch", "producer"}
    /\ ~ Locked(c.entry)
    /\ Admitted(c.entry, c.req) /\ Fits(c.entry, c.req.count)
    /\ WriteRecordsFails(c.entry, c.req.count)
    /\ heap' = Cleaned(c.entry, c.req)
    /\ Return(t)
    /\ Quiet
    /\ UNCHANGED <<running, streams, allocated, reading, disk, now, restarts,
                   durable, overwritten, overlapped>>

(* ... or the write fails. *)
AppendLogFails(t, c) ==
    /\ c.stage = "found" /\ c.req.op \in {"batch", "producer"}
    /\ ~ Locked(c.entry)
    /\ Admitted(c.entry, c.req) /\ Fits(c.entry, c.req.count)
    /\ WriteRecordsFails(c.entry, c.req.count)
    /\ heap' = [Cleaned(c.entry, c.req) EXCEPT
                   ![c.entry].file_len = Len(log'[heap[c.entry].file])]
    /\ Return(t)
    /\ Quiet
    /\ UNCHANGED <<running, streams, allocated, reading, disk, now, restarts,
                   durable, overwritten, overlapped>>

(* ... or the call is refused, or is a duplicate. *)
AppendReject(t, c) ==
    /\ c.stage = "found" /\ c.req.op \in {"batch", "producer"}
    /\ ~ Locked(c.entry)
    /\ ~ (Admitted(c.entry, c.req) /\ Fits(c.entry, c.req.count))
    /\ heap' = Cleaned(c.entry, c.req)
    /\ Return(t)
    /\ Quiet
    /\ UNCHANGED <<running, streams, allocated, total_bytes, reading, disk, log, now,
                   bounds, history>>

Committed(entry, c) ==
    [Indexed(entry, c.req.count) EXCEPT
        !.last_seq = pending_seq(@, c.req.seq),
        !.closed = @ \/ c.req.should_close,
        !.producers = [id \in ProducerIds |->
            IF \E p \in c.req.producer : p.id = id
            THEN {[epoch |-> p.epoch, last_seq |-> p.seq, updated_at |-> c.now] :
                    p \in c.req.producer}
            ELSE @[id]]]

(* The metadata of the entry has changed, and shall be saved: until it is, *)
(* a restart may find it or what was there before.                         *)
SaveBegins(t, c) ==
    /\ Enter(t, [c EXCEPT !.stage = "saving", !.now = 0])
    /\ durable' = [durable EXCEPT ![c.entry] = @ \cup {MetaOf(heap'[c.entry])}]

(* The rest of append_records, and of the call.  Subscribers are notified  *)
(* of the messages; metadata is saved when it has changed.                 *)
AppendCommit(t, c) ==
    /\ c.stage = "logged"
    /\ heap' = [heap EXCEPT ![c.entry] = Committed(@, c)]
    /\ IF c.req.op = "producer" \/ c.req.seq # {}
       THEN SaveBegins(t, c)
       ELSE Return(t) /\ UNCHANGED durable
    /\ notified' = (IF c.req.count > 0 THEN {c.entry} ELSE {}) /\ response' = {}
    /\ UNCHANGED <<running, streams, allocated, total_bytes, reading, disk, log, now,
                   bounds, overwritten, overlapped, crossed>>

(* close_stream. *)
CloseStream(t, c) ==
    /\ c.stage = "found" /\ c.req.op = "close"
    /\ ~ Locked(c.entry)
    /\ IF Expired(c.entry)
       THEN Return(t) /\ UNCHANGED <<heap, durable>>
       ELSE /\ heap' = [heap EXCEPT ![c.entry].closed = TRUE]
            /\ SaveBegins(t, c)
    /\ Quiet
    /\ UNCHANGED <<running, streams, allocated, total_bytes, reading, disk, log, now,
                   bounds, overwritten, overlapped, crossed>>

-----------------------------------------------------------------------------
(* write_metadata_for.  fs::write opens and empties meta.json.tmp, then    *)
(* writes; fs::rename replaces meta.json.  All go by the name, and no lock *)
(* keeps apart calls on two entries that had it.  A file that is renamed   *)
(* or removed is still written to by the calls that have it open.          *)

(* The directory with its file k replaced. *)
Put(n, k, file) == [disk EXCEPT ![n] = {[d EXCEPT ![k] = file] : d \in disk[n]}]

(* The calls that have a metadata file of n open, after some of these have *)
(* got another name.                                                       *)
Relinked(n, moved) ==
    [t \in Threads |-> {[c EXCEPT !.link = IF c.req.name = n THEN moved[@] ELSE @] :
                          c \in call[t]}]

Renamed == [k \in Links |-> CASE k = "tmp" -> "meta" [] k = "meta" -> "gone" [] OTHER -> k]

Unlinked(k) == [l \in Links |-> IF l = k THEN "gone" ELSE l]

(* The entries, other than that of c, whose files these are. *)
Owners(c) ==
    (streams[c.req.name] \cup {d.entry : d \in {x \in Calls : x.req.name = c.req.name /\ Private(x)}})
    \ {c.entry}

(* Other calls are between the steps of a save. *)
Overlap(c) == \E d \in Calls \ {c} : d.req.name = c.req.name /\ d.stage \in {"truncated", "written"}

(* A mistaken variant: meta.json itself is emptied, and written to.        *)
OpensInPlace(t, c) ==
    /\ c.stage = "saving" /\ disk[c.req.name] # {}
    /\ disk' = Put(c.req.name, "meta", {Empty})
    /\ Enter(t, [c EXCEPT !.stage = "truncated", !.link = "meta"])
    /\ overwritten' = overwritten \cup Owners(c)
    /\ overlapped' = IF Overlap(c) THEN overlapped \cup {c.req.name} ELSE overlapped
    /\ Quiet
    /\ UNCHANGED <<running, streams, heap, allocated, total_bytes, reading, log, now, bounds,
                   durable, crossed>>

SaveOpen(t, c) ==
    /\ c.stage = "saving" /\ disk[c.req.name] # {}
    /\ disk' = Put(c.req.name, "tmp", {Empty})
    /\ Enter(t, [c EXCEPT !.stage = "truncated", !.link = "tmp"])
    /\ overwritten' = overwritten \cup Owners(c)
    /\ overlapped' = IF Overlap(c) THEN overlapped \cup {c.req.name} ELSE overlapped
    /\ Quiet
    /\ UNCHANGED <<running, streams, heap, allocated, total_bytes, reading, log, now, bounds,
                   durable, crossed>>

(* A file that is not empty may be longer than what is written over it.    *)
Overlaid(old, m) == IF old.empty THEN {Intact(m)} ELSE {Intact(m), Garbled}

SaveWrite(t, c) ==
    /\ c.stage = "truncated"
    /\ IF c.link = "gone"
       THEN UNCHANGED <<disk, overwritten>>
       ELSE /\ \E d \in disk[c.req.name] : \E old \in d[c.link] :
               \E new \in Overlaid(old, MetaOf(heap[c.entry])) :
                 disk' = Put(c.req.name, c.link, {new})
            /\ overwritten' = overwritten \cup Owners(c)
    /\ Enter(t, [c EXCEPT !.stage = "written", !.link = "none"])
    /\ Quiet
    /\ UNCHANGED <<running, streams, heap, allocated, total_bytes, reading, log, now, bounds,
                   durable, overlapped, crossed>>

(* The rename, and the end of the call: a stream that was being created is *)
(* inserted into the map, the subscribers of one that was closed are       *)
(* notified.                                                               *)
SaveRename(t, c) ==
    /\ c.stage = "written"
    /\ \E d \in disk[c.req.name] :
         /\ d.tmp # {}
         /\ disk' = [disk EXCEPT ![c.req.name] = {[d EXCEPT !.meta = d.tmp, !.tmp = {}]}]
    /\ call' = [Relinked(c.req.name, Renamed) EXCEPT ![t] = {}]
    /\ streams' = IF c.req.op = "create" THEN [streams EXCEPT ![c.req.name] = {c.entry}]
                  ELSE streams
    /\ notified' = (IF c.req.op = "close" THEN {c.entry} ELSE {}) /\ response' = {}
    /\ durable' = [durable EXCEPT ![c.entry] = {MetaOf(heap[c.entry])}]
    /\ overwritten' = overwritten \cup Owners(c)
    /\ UNCHANGED <<running, heap, allocated, total_bytes, reading, log, now, bounds,
                   overlapped, crossed>>

(* A creation that fails is dropped, with its entry; what it made on the   *)
(* disk stays.                                                             *)
Drop(e) ==
    /\ heap' = [heap EXCEPT ![e] = Blank]
    /\ allocated' = allocated \ {e}

(* One of the three fails: there is no directory, or no temporary file any *)
(* more, or the I/O fails, and what was written in part is no metadata.    *)
(* An append succeeds all the same; a close returns the error, and the     *)
(* entry stays closed, with nobody notified; a creation fails.             *)
SaveFails(t, c) ==
    /\ \/ /\ c.stage = "saving"
          /\ IF disk[c.req.name] = {} THEN UNCHANGED faults ELSE Fault
          /\ UNCHANGED <<disk, overwritten>>
       \/ /\ c.stage = "truncated" /\ Fault
          /\ \/ UNCHANGED <<disk, overwritten>>
             \/ /\ c.link # "gone" /\ disk' = Put(c.req.name, c.link, {Garbled})
                /\ overwritten' = overwritten \cup Owners(c)
       \/ /\ c.stage = "written"
          /\ IF \E d \in disk[c.req.name] : d.tmp # {} THEN Fault ELSE UNCHANGED faults
          /\ UNCHANGED <<disk, overwritten>>
    /\ IF c.req.op = "create" THEN Drop(c.entry) ELSE UNCHANGED <<heap, allocated>>
    /\ Return(t)
    /\ Quiet
    /\ UNCHANGED <<running, streams, total_bytes, reading, log, now, restarts, writes,
                   durable, overlapped, crossed>>

-----------------------------------------------------------------------------
(* delete, and the removal of an expired stream by a create.  The entry's  *)
(* lock is dropped when the stream leaves the map: calls that found it     *)
(* before may still write to it, and save its metadata into the directory  *)
(* that is being removed.                                                  *)

Present(n) == {k \in {"meta", "tmp", "data"} : \E d \in disk[n] : d[k] # {}}

Forget(t, r, e) ==
    /\ CallBegins(t) /\ ~ MapLocked /\ ~ WriteLocked(e)
    /\ streams' = [streams EXCEPT ![r.name] = {}]
    /\ Enter(t, [NewCall(r, e, "forgotten") EXCEPT !.bytes = Len(heap[e].index)])
    /\ Quiet
    /\ UNCHANGED <<running, heap, allocated, total_bytes, reading, disk, log, now, bounds, history>>

Delete(t, n, e) == Forget(t, DeleteRequest(n), e)

CreateOverExpired(t, cr, old) == Expired(old) /\ Forget(t, cr, old)

(* The bytes are given back; remove_dir_all lists the directory. *)
GiveBack(t, c) ==
    /\ c.stage = "forgotten"
    /\ total_bytes' = saturating_sub(total_bytes, c.bytes)
    /\ Enter(t, [c EXCEPT !.stage = "removing", !.bytes = 0, !.todo = Present(c.req.name)])
    /\ Quiet
    /\ UNCHANGED <<running, streams, heap, allocated, reading, disk, log, now, bounds, history>>

(* It unlinks the files of its listing, in any order; a file that came     *)
(* since may be in it, one that is gone is no error.                       *)
RemoveFile(t, c) ==
    /\ c.stage = "removing"
    /\ \E k \in c.todo \cup Present(c.req.name) :
         /\ disk' = Put(c.req.name, k, {})
         /\ call' = [Relinked(c.req.name, Unlinked(k)) EXCEPT ![t] = {[c EXCEPT !.todo = @ \ {k}]}]
    /\ Quiet
    /\ UNCHANGED <<running, streams, heap, allocated, total_bytes, reading, log, now, bounds,
                   history>>

(* The directory goes if it is empty.  If it is not, or if the I/O fails   *)
(* anywhere, the call ends with an error, and the rest stays.              *)
RemoveEnds(t, c) ==
    /\ c.stage = "removing"
    /\ \/ /\ Present(c.req.name) = {} /\ c.todo = {}
          /\ disk' = [disk EXCEPT ![c.req.name] = {}]
          /\ IF c.req.op = "create" THEN Enter(t, [c EXCEPT !.stage = "cleared"]) ELSE Return(t)
          /\ UNCHANGED faults
       \/ /\ IF c.todo = {} /\ Present(c.req.name) # {} THEN UNCHANGED faults ELSE Fault
          /\ Return(t) /\ UNCHANGED disk
    /\ Quiet
    /\ UNCHANGED <<running, streams, heap, allocated, total_bytes, reading, log, now, restarts,
                   writes, history>>

(* A new file; which one makes no difference. *)
FreshFile ==
    LET free == {f \in Files : /\ \A n \in Names : \A d \in disk[n] : d.data # {f}
                               /\ \A e \in allocated : heap[e].file # f}
    IN  IF free = {} THEN {} ELSE {CHOOSE f \in free : TRUE}

(* create_stream and create_stream_with_data keep the map's write lock to  *)
(* the end.  The directory is made, or found; the log is opened, or made.  *)
(* A log that is found is neither truncated nor indexed.  (Nothing another *)
(* call does between the two depends on whether the log is there.)         *)
OpenPrivate(t, cr) ==
    LET found == disk[cr.name]
        dir   == IF found = {} THEN [meta |-> {}, tmp |-> {}, data |-> {}]
                 ELSE CHOOSE d \in found : TRUE
    IN  \E e \in Entries \ allocated :
        \E f \in IF dir.data # {} THEN dir.data ELSE FreshFile :
          /\ allocated' = allocated \cup {e}
          /\ heap' = [heap EXCEPT ![e] = NewEntry(cr.expires_at, f, Len(log[f]))]
          /\ disk' = [disk EXCEPT ![cr.name] = {[dir EXCEPT !.data = {f}]}]
          /\ Enter(t, NewCall(cr, e, "opened"))
          /\ overwritten' = overwritten \ {e} /\ crossed' = crossed \ {e}
          /\ durable' = [durable EXCEPT ![e] = {}]
          /\ UNCHANGED <<faults, overlapped>>

(* The directory or the log cannot be made. *)
OpenFails(t, n) ==
    /\ Fault
    /\ \/ UNCHANGED disk
       \/ /\ disk[n] = {}
          /\ disk' = [disk EXCEPT ![n] = {[meta |-> {}, tmp |-> {}, data |-> {}]}]
    /\ Return(t)
    /\ UNCHANGED <<heap, allocated, history>>

CreateAbsent(t, cr) ==
    /\ CallBegins(t) /\ ~ MapLocked
    /\ streams[cr.name] = {}
    /\ OpenPrivate(t, cr) \/ OpenFails(t, cr.name)
    /\ Quiet
    /\ UNCHANGED <<running, streams, total_bytes, reading, log, now, restarts, writes>>

(* The same, once an expired stream is out of the way. *)
CreateAfterExpired(t, c) ==
    /\ c.stage = "cleared"
    /\ OpenPrivate(t, c.req) \/ OpenFails(t, c.req.name)
    /\ Quiet
    /\ UNCHANGED <<running, streams, total_bytes, reading, log, now, restarts, writes>>

CreateBody(t, c) ==
    /\ c.stage = "opened"
    /\ Fits(c.entry, c.req.count)
    /\ WriteRecords(c.entry, c.req.count)
    /\ heap' = [heap EXCEPT ![c.entry] = Committed(@, c)]
    /\ Enter(t, [c EXCEPT !.stage = "saving"])
    /\ notified' = (IF c.req.count > 0 THEN {c.entry} ELSE {}) /\ response' = {}
    /\ UNCHANGED <<running, streams, allocated, reading, disk, now, restarts, faults,
                   durable, overwritten, overlapped>>

(* A creation whose body is refused, or cannot be written, leaves its      *)
(* directory and log behind.                                               *)
CreateFails(t, c) ==
    /\ c.stage = "opened"
    /\ IF Fits(c.entry, c.req.count)
       THEN WriteRecordsFails(c.entry, c.req.count)
       ELSE UNCHANGED <<log, writes, total_bytes, faults, crossed>>
    /\ Drop(c.entry)
    /\ Return(t)
    /\ Quiet
    /\ UNCHANGED <<running, streams, reading, disk, now, restarts, durable, overwritten, overlapped>>

-----------------------------------------------------------------------------
(* read under the entry's read lock, of any entry that has been in the     *)
(* map: get_stream may have been long ago.  The handle it reads from is a  *)
(* clone, which shares its cursor with every other clone: seek, then       *)
(* read_exact.  Appends go to the end wherever the cursor is.              *)
Published == allocated \ {c.entry : c \in {d \in Calls : Private(d)}}

ReadSeek(r, e, from) ==
    /\ reading[r] = {} /\ ~ WriteLocked(e) /\ ~ Expired(e)
    /\ from \in DOMAIN heap[e].index
    /\ heap' = [heap EXCEPT ![e].cursor = heap[e].index[from] - 1]
    /\ reading' = [reading EXCEPT ![r] =
                     {[entry |-> e, wanted |-> SubSeq(heap[e].index, from, Len(heap[e].index))]}]
    /\ Quiet
    /\ UNCHANGED <<running, streams, allocated, total_bytes, call, disk, log, now, bounds, history>>

(* The bytes from the first record wanted to the last, from the cursor on; *)
(* the read fails if the file ends before.  (A cursor that is not between  *)
(* a seek and a read has no effect, and is put to 0.)                      *)
ReadExact(r, g) ==
    LET first == heap[g.entry].cursor
        end   == first + 1 + g.wanted[Len(g.wanted)] - g.wanted[1]
        enough == end <= Len(log[heap[g.entry].file])
    IN  /\ response' = IF enough
                       THEN {[wanted |-> g.wanted,
                              got |-> [i \in DOMAIN g.wanted |->
                                         first + 1 + g.wanted[i] - g.wanted[1]]]}
                       ELSE {}
        /\ heap' = [heap EXCEPT ![g.entry].cursor =
                      IF \A r2 \in Readers \ {r} : \A g2 \in reading[r2] : g2.entry # g.entry
                      THEN 0
                      ELSE IF enough THEN end ELSE Len(log[heap[g.entry].file])]
        /\ reading' = [reading EXCEPT ![r] = {}]
        /\ notified' = {}
        /\ UNCHANGED <<running, streams, allocated, total_bytes, call, disk, log, now, bounds,
                       history>>

-----------------------------------------------------------------------------
(* rebuild_index: records up to the first that is not whole, from which on *)
(* the file is cut off; but if other records follow that one, its length   *)
(* may span their bytes, which are then taken for a message.               *)
Misread == [write |-> 0, part |-> 0, whole |-> TRUE]

(* Whether that matters. *)
Misreadable == IF \E f \in Files : \E i \in DOMAIN log[f] : ~ log[f][i].whole
               THEN BOOLEAN ELSE {FALSE}

Rebuilt(records, misread) ==
    LET torn == {i \in DOMAIN records : ~ records[i].whole}
    IN  IF torn = {} THEN records
        ELSE SubSeq(records, 1, Min(torn) - 1)
             \o IF misread /\ Min(torn) < Len(records) THEN <<Misread>> ELSE <<>>

Metas(n) == UNION {x.meta : x \in UNION {d.meta : d \in disk[n]}}

Data(n) == UNION {d.data : d \in disk[n]}

(* Names whose meta.json cannot be parsed. *)
Unreadable == {n \in Names : \E d \in disk[n] : \E x \in d.meta : x.meta = {}}

(* load_existing_streams makes an entry of every directory that has        *)
(* metadata, unless it has expired: then the directory is removed.         *)
Loaded == {n \in Names : \E m \in Metas(n) : ~ is_stream_expired(m, now)}

Restored(meta, f, records) ==
    [NewEntry(meta.expires_at, f, Len(records)) EXCEPT
        !.closed = meta.closed, !.last_seq = meta.last_seq, !.producers = meta.producers,
        !.index = [i \in DOMAIN records |-> i]]

(* What ends with the process. *)
Stopped ==
    /\ restarts' = restarts + 1
    /\ call' = [t \in Threads |-> {}] /\ reading' = [r \in Readers |-> {}]
    /\ overwritten' = {} /\ crossed' = {}
    /\ Quiet

(* The process stops, wherever its threads are, and is started again.      *)
(* What was written to the disk is still there; a log that nothing leads   *)
(* to is gone, and one that is missing is made.                            *)
Restart ==
    /\ restarts < MaxRestarts /\ Unreadable = {}
    /\ \E file \in [Names -> Files], id \in [Names -> Entries], misread \in Misreadable :
         LET records(n) == IF Data(n) = {} THEN <<>> ELSE Rebuilt(log[file[n]], misread)
         IN  /\ IsInjective(file) /\ IsInjective(id)
             /\ \A n \in Names : Data(n) \subseteq {file[n]}
             /\ disk' = [n \in Names |->
                  IF n \in Loaded THEN {[d EXCEPT !.data = {file[n]}] : d \in disk[n]}
                  ELSE IF Metas(n) = {} THEN disk[n] ELSE {}]
             /\ log' = [f \in Files |->
                  IF \E n \in Loaded : file[n] = f
                  THEN records(CHOOSE n \in Loaded : file[n] = f)
                  ELSE IF \E n \in Names : \E d \in disk'[n] : d.data = {f} THEN log[f]
                  ELSE <<>>]
             /\ heap' = [e \in Entries |->
                  IF \E n \in Loaded : id[n] = e
                  THEN LET n == CHOOSE m \in Loaded : id[m] = e
                       IN  Restored(CHOOSE m \in Metas(n) : TRUE, file[n], records(n))
                  ELSE Blank]
             /\ streams' = [n \in Names |-> IF n \in Loaded THEN {id[n]} ELSE {}]
             /\ allocated' = {id[n] : n \in Loaded}
             /\ total_bytes' = MapThenSumSet(LAMBDA n : Len(records(n)), Loaded)
    /\ durable' = [e \in Entries |-> IF e \in allocated' THEN {MetaOf(heap'[e])} ELSE {}]
    /\ Stopped
    /\ UNCHANGED <<running, now, faults, writes, overlapped>>

(* ... but one metadata file that cannot be parsed and it does not start.  *)
StartFails ==
    /\ restarts < MaxRestarts /\ Unreadable # {}
    /\ running' = FALSE
    /\ streams' = [n \in Names |-> {}] /\ heap' = [e \in Entries |-> Blank] /\ allocated' = {}
    /\ total_bytes' = 0
    /\ durable' = [e \in Entries |-> {}]
    /\ Stopped
    /\ UNCHANGED <<disk, log, now, faults, writes, overlapped>>

Tick ==
    /\ now < MaxTime
    /\ now' = now + 1
    /\ Quiet
    /\ UNCHANGED <<running, streams, heap, allocated, total_bytes, call, reading, disk, log,
                   bounds, history>>

Next ==
    /\ running
    /\ \/ \E t \in Threads :
            \/ \E r \in Requests : \E e \in streams[r.name] : Lookup(t, r, e)
            \/ \E cr \in Creates : CreateAbsent(t, cr)
            \/ \E cr \in Creates : \E old \in streams[cr.name] : CreateOverExpired(t, cr, old)
            \/ \E n \in Names : \E e \in streams[n] : Delete(t, n, e)
            \/ \E c \in call[t] :
                 \/ AppendLog(t, c) \/ AppendLogFails(t, c) \/ AppendReject(t, c)
                 \/ AppendCommit(t, c) \/ CloseStream(t, c)
                 \/ SaveOpen(t, c) \/ SaveWrite(t, c) \/ SaveRename(t, c) \/ SaveFails(t, c)
                 \/ GiveBack(t, c) \/ RemoveFile(t, c) \/ RemoveEnds(t, c)
                 \/ CreateAfterExpired(t, c) \/ CreateBody(t, c) \/ CreateFails(t, c)
       \/ Restart
       \/ StartFails
       \/ Tick

Spec == Init /\ [][Next]_vars

(* Reads change nothing but the cursor, which matters to other reads only, *)
(* and delay writers: they are left out where they are not the question.   *)
Read ==
    /\ running
    /\ \E r \in Readers :
         \/ \E e \in Published : \E from \in DOMAIN heap[e].index : ReadSeek(r, e, from)
         \/ \E g \in reading[r] : ReadExact(r, g)

SpecWithReads == Init /\ [][Next \/ Read]_vars

-----------------------------------------------------------------------------
(* The state has its type. *)
TypeOK ==
    /\ running \in BOOLEAN
    /\ streams \in [Names -> Option(Entries)] /\ allocated \subseteq Entries
    /\ heap \in [Entries -> StreamEntry]
    /\ disk \in [Names -> Option(Directory)]
    /\ log \in [Files -> Seq(Record)]
    /\ total_bytes \in Nat
    /\ call \in [Threads -> Option(Call)]
    /\ notified \subseteq Entries /\ durable \in [Entries -> SUBSET StreamMeta]
    /\ overwritten \cup crossed \subseteq Entries /\ overlapped \subseteq Names

(* The messages a stream has, in the order a reader gets them. *)
Contents(e) == [i \in DOMAIN heap[e].index |-> log[heap[e].file][heap[e].index[i]]]

(* The index stays sound: a failed write may leave part of a record in the *)
(* log, a failed removal or creation a whole log, and appends go on after  *)
(* them, but what a reader is given are whole records, each once and in    *)
(* order (the error paths of append_records and StreamEntry::new).  It     *)
(* cannot hold once an entry that still has the log open, of a stream      *)
(* deleted before, has written to it, since file_len is then out of date.  *)
IndexSound ==
    \A e \in Published \ crossed :
        /\ \A i \in DOMAIN heap[e].index :
             /\ heap[e].index[i] \in DOMAIN log[heap[e].file]
             /\ log[heap[e].file][heap[e].index[i]].whole
        /\ \A i, j \in DOMAIN heap[e].index : i < j => heap[e].index[i] < heap[e].index[j]

(* A restart, at whatever point the process stopped.  It fails only if two *)
(* calls saved under one name at the same time.  If it succeeds, a stream  *)
(* whose metadata files no call of an older stream has touched is there    *)
(* with the metadata of its last successful save, or of one that was begun *)
(* and not acknowledged since; and each of its messages is the message of  *)
(* its place in the log, unless a torn record is before it                 *)
(* (write_metadata_for, load_existing_streams and rebuild_index).          *)
RestartKeeps ==
    [][restarts' # restarts =>
         /\ running' \/ overlapped # {}
         /\ running' => \A n \in Names : \A e \in streams[n] \ overwritten : ~ Expired(e) =>
              \E e2 \in streams'[n] :
                 /\ MetaOf(heap'[e2]) \in durable[e]
                 /\ \A i \in DOMAIN heap[e].index :
                      LET p == heap[e].index[i]
                      IN  (\A q \in 1 .. p : log[heap[e].file][q].whole) =>
                             /\ p \in DOMAIN heap'[e2].index
                             /\ Contents(e2)'[p] = Contents(e)[i]]_vars

(* What the README says of the file store, and write_metadata_for of its   *)
(* rename: what is there persists, and metadata is replaced atomically, so *)
(* that the process can be started again.                                  *)
RestartSucceeds == [][restarts' # restarts => running']_vars

(* What the specification of closure says: a stream whose closure was      *)
(* saved, and acknowledged, is not reopened.                               *)
ClosedAcrossRestart ==
    [][restarts' # restarts =>
         \A n \in Names : \A e \in streams[n] : (\A m \in durable[e] : m.closed) =>
            \A e2 \in streams'[n] : heap'[e2].closed]_vars

(* What the specification of reads says: the body of a response is what    *)
(* was written at the offsets that were asked for.                         *)
ReadsWhatWasAsked == \A a \in response : a.got = a.wanted
=============================================================================
