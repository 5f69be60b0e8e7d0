# Verification of the durable streams server

TLA+ models of the server in `src/src/`, the TLC configurations that check them
on small instances, and proofs that TLAPS checks. Every definition that models
code is tied to its source lines in `PROJECT.json` (`map`), every known risk to
the line where it bites (`hazards`).

    cd tla
    tlc -config MCMemoryStore.cfg MCMemoryStorage     # any run of PROJECT.json
    tlapm MemoryStorageProofs.tla                     # one of the five proof modules

## The system

A stream is an append-only sequence of messages under a name. Clients create
(PUT), append and close (POST), read (GET: catch-up, long-poll, SSE), inspect
(HEAD) and delete (DELETE). Handlers are thin; all state is behind the `Storage`
trait, which three backends implement.

| Part | State | Operations that change it | What is hard |
|---|---|---|---|
| `storage/mod.rs` | none | the shared decision rules | producer epochs and sequence numbers, forgetting after 7 days |
| `storage/memory.rs` | map, entry (messages, tail, closed, producers, last_seq, channel), atomic byte counter | create, append, batch, producer append, close, delete | a call finds its entry, then locks it; the counter is reserved apart from both |
| `storage/file.rs` | the same, a log and `meta.json` per stream | the same, recovery | failing I/O, stops between two writes, metadata by name, one shared file cursor |
| `storage/acid.rs` | redb shards, counter, notifier table by name | the same, recovery | counter and notifiers outside the transaction |
| `handlers/get.rs` | a receiver, an offset | none in the store | subscribe, read and wait are separate; reads are by name; timeout against wake-up |
| `handlers/post.rs` | none | one or two storage calls | other requests between the two |
| `handlers/put.rs`, `delete.rs`, `head.rs` | none | one storage call | - |
| `protocol/*` | the cursor counter | parsing and formatting | boundaries of offsets, cursors and integers |
| `config.rs`, `router.rs`, `main.rs`, middleware | configuration | startup | - |

What must hold: a reader that resumes where it stopped misses and repeats
nothing; a batch appears at once or not at all; a closed stream is final; a
producer's retry is applied once; limits hold; a waiting reader is woken; an
acknowledged write survives a restart.

## Modules

| Module | Models |
|---|---|
| `StreamRules` | pure rules of `storage/mod.rs` and the order of offsets |
| `StreamStore` | the `Storage` trait as one atomic step per call: the abstract specification |
| `MemoryStorage` | `memory.rs`, each call split where it takes or drops a lock or touches the counter |
| `MemoryStorageInv` | its inductive invariant `IInv` |
| `MemoryTypeProofs` | types, `TypeCorrect` |
| `MemoryEntryProofs` | what a step does to one entry |
| `MemoryOwnershipProofs` | what a step does to the calls and the map |
| `MemoryProducerProofs` | lemmas on the memory of producers |
| `MemoryStorageProofs` | that `IInv` is inductive, and the theorems that follow |
| `MemoryRefinesStore` | the mapping under which `MemoryStorage` implements `StreamStore` |
| `GetHandler` | `get.rs` and the client that follows the stream, on top of `StreamStore` |
| `PostHandler` | `post.rs`, on top of `StreamStore` |
| `FileStorage` | `file.rs`: log, metadata, index, failing I/O, restart |
| `MC*` | constants for TLC |

Conventions. An `Option` is a set with at most one element. A *batch* is the
increasing sequence of the end positions of its messages, which keeps their
number and sizes and drops their bytes. An *entry* is one incarnation of a
stream (the `Arc<RwLock<StreamEntry>>` of the code): deleting and creating a
name leads to another entry, and a call may still hold the old one. A call is a
record with a *stage*; locks are read off the stages. Operators introduced as
"a mistaken variant" are no part of the models: each is a plausible bug, and
substituting it for the definition after it makes the property it belongs to fail.

**MemoryStorage.** `Lookup` is `get_stream`; from there `AppendReserve` or
`ProducerReserve` (checks under the entry's lock, then the atomic reservation),
and `CommitMessages` or `RollbackReservation`; the rejections are separate
actions. A creation keeps the map's write lock through `CreateAbsent` or
`CreateOverExpired`, `CreateReserve` and the commit. `accepted`, `shown` and
`freed` are history variables: what producers were told, which offsets were
returned, what removal gave back.

**GetHandler, PostHandler.** Each handler step is at most one storage call;
between steps any other request may happen (`OtherRequest` is any step of
`StreamStore`). This carries over to the in-memory store as far as
`ImplementsStore` holds, which TLC checks on a small instance; for the file and
ACID stores it is an assumption so far. A receiver is the number of unread
signals, capped just above the channel's capacity. A `Position` is an offset
with what its owner is owed: a client that asked from the start, or came with an
offset of a deleted stream (`strayed`), is owed an incarnation from its first
message, one that asked for `now` what follows the tail of the read that
resolved it. Every response arrives, and a connection ends at the idle deadline,
at closure or with the stream: a connection lost between the data and the
control event of SSE, after which messages are sent again, is not modelled.

**FileStorage.** Messages have one byte, so that a record is a position of the
log. A directory is reached by name, a file also through open handles. A write
that fails leaves any prefix of its records, the last perhaps torn.

- `write_metadata_for` is three steps. `SaveOpen` empties `meta.json.tmp`,
  `SaveWrite` writes through the handle, `SaveRename` replaces `meta.json` with
  whatever the temporary file is by then and ends the call; `SaveFails` is an
  error at any of them. The path is shared by all entries a name has had, whose
  locks differ: `link` follows the file a call has open when another call
  renames or removes it, a write over what is not empty may leave bytes that do
  not parse, and a rename fails if another took the file.
- A removal (`delete`, or a create that meets an expired stream) is `Forget`,
  with the entry's lock dropped at its end, `GiveBack` for the counter, one
  `RemoveFile` per file and `RemoveEnds`, which fails without any fault if a
  call on the old entry has put a file there meanwhile.
- `Restart` may happen at any step and rebuilds everything from `disk` and
  `log`; where a torn record is followed by others, what `rebuild_index` makes
  of them is one arbitrary message or nothing. If a `meta.json` does not parse,
  `StartFails`: the process is down, and nothing happens any more.
- `durable`, `overwritten`, `overlapped` and `crossed` are history variables:
  the metadata a restart may find (the last acknowledged, and what was begun
  since), the entries whose metadata files a call of an older entry touched, the
  names with two saves at once, the entries to whose log another has written.
- Reads are added by `SpecWithReads`: they change nothing but the cursor, which
  only other reads see, and at most delay a writer.

A stop is one of the process: what `write(2)` accepted is kept. I/O that fails
during a start (which then fails) and content types are left out.

## Runs

Passing:

| Run | Checks | States |
|---|---|---|
| `memory_producers` | `IInv`, `ExactlyOnce`, `NoGap` | 282 thousand |
| `memory_store` | `TypeOK`, `ResumeExact`, `Accounting`, `LimitsHold`, `ClosedIsFinal`, `ImplementsStore` | 43 thousand |
| `get_readers` | `TypeOK`, `InOrderOnce`, `DeliveredCompletely`, `ClosedMeansEnd`, `SseDelivers` (liveness) | 650 thousand |
| `post_producer` | `ProducerClosesAtOffset` | 46 thousand |
| `file_recovery` | `TypeOK`, `IndexSound`, `RestartKeeps` | 522 thousand |

Runs that exhibit a disagreement between the code and what the repository says
of it (quoted under `findings`):

| Run | Property violated | What happens |
|---|---|---|
| `memory_counter` | `CounterEqualsStreams` | an append that found its stream before a delete leaves its bytes in the counter |
| `memory_notify` | `NotifiesSubscribers` | a producer's close-only request wakes nobody |
| `get_timeout` | `LongPollComplete` | a timeout that races an append answers 204 with the offset after the message |
| `post_close` | `CloseOnlyAtOffset` | a close-only POST answers an offset that is not the final one |
| `file_start` | `RestartSucceeds` | a save for a deleted stream and one for its successor share `meta.json.tmp`: an empty `meta.json` is installed, and the store does not start |
| `file_closed` | `ClosedAcrossRestart` | metadata of a deleted stream overwrites that of its successor, whose closure had been acknowledged |
| `file_readers` | `ReadsWhatWasAsked` | two readers share a file cursor |

Four passing properties delimit those disagreements, and say what they except.

- `Accounting` is the counter with the leaked bytes included: in the instance
  checked, nothing else leaks.
- `DeliveredCompletely` excepts clients whose long-poll ran out (`get_timeout`)
  and those that came to an incarnation with an offset of an earlier one, which
  may be behind messages they never saw; the protocol gives such an offset no
  meaning. `ClosedMeansEnd` is about the end only: a client whose long-poll ran
  out may have been sent past messages before it is told Stream-Closed.
- `IndexSound` excepts entries to whose log an entry of a deleted stream has
  written since (`crossed`): `file_len` is then out of date. A log left by a
  failed removal or creation and taken over by the next create is covered.
- `RestartKeeps` excepts a start after two saves overlapped under one name
  (`file_start`), streams whose metadata files a call of an older stream touched
  (`file_closed`), and messages behind a torn record that a failed append left
  and later appends followed: `rebuild_index` cuts the log there, and they are
  lost. Remains that are whole records only shift the offsets, and a change
  whose save was not acknowledged is there or not, never in part.

`ResumeExact` is about the offsets the store has returned, not about others a
client may make up.

A difference no run exhibits: `specs/03-read-modes.md:130` and its example at
146-157 omit `Stream-Closed` from a catch-up read of a closed stream that starts
before the tail; `build_data_response` sends it with every read of a closed
stream, since every read reaches the tail, and `test_read_closed_stream_at_tail`
expects as much. `GetHandler` follows the code.

Deadlock is not checked: the bounds on entries, messages, time and restarts end
every behaviour.

### Bounds

| Run | Instance |
|---|---|
| `memory_producers`, `memory_notify` | one name, one entry, two threads, one producer with two epochs, sequence numbers up to 2 and a gap; time passes both the producer TTL (2) and the stream's (3) |
| `memory_store`, `memory_counter` | two names, two entries, two threads; limits of 4 and 3 bytes, so that each is hit and rolled back; a stream that expires |
| `get_*` | one name, two entries, one reader, at most two messages in an entry; the channel holds one signal instead of 16, so that lag happens |
| `post_*` | one name, two entries, two writers besides the other requests |
| `file_*` | one name, two entries, two logs, two threads, three writes, a stream that expires; one restart, after which calls come one at a time, and in `file_recovery` one fault; `file_readers` has two readers, no restart and no fault |

Two entries under one name are one deletion and re-creation, the only way two
incarnations meet; two threads let one call be overtaken by another at each of
its steps. What these bounds do not reach: a third incarnation, two independent
faults, a second restart (after which a log cut by the first is read again),
overlapping calls after a restart, and two producers on one stream. The theorems
have no such bounds. Symmetry is used for threads, entries and writers in runs of
safety properties only.

### Fairness

Only `GetHandler` has any: weak fairness of the first read and of the handling of a
pending signal by an open SSE connection. The runtime polls a task whose receiver is ready.
Nothing is assumed of clients, writers, timers or the end of a connection, so
progress never rests on the idle deadline.

## Proofs

The five proof modules prove the following for every set of names, entries,
threads, producers and requests and every limit. The assumptions are in
`MemoryStorage`: `RequestsAssumption` (what the callers of the trait guarantee of
a request), `CreatesAssumption` (a creation has a TTL or an expiry, not both)
and `BoundsAssumption` (limits are numbers, the TTL is positive, there is a
content type).

| Theorem | States |
|---|---|
| `TypeCorrect` | `Spec => []TypeOK` |
| `Inductive` | `Spec => []IInv` |
| `ResumeIsExact` | `Spec => []ResumeExact` |
| `AcceptsOnce` | `Spec => []ExactlyOnce` |
| `AcceptsInOrder` | `Spec => []NoGap` |
| `ClosureIsFinal` | `Spec => ClosedIsFinal` |

None of the four safety properties is inductive: that a commit does no harm
depends on what its call checked several steps before, and that the check still
holds depends on who may have changed the entry since. `IInv` says so:

- `Ownership`: an entry being created is known to its creator alone, and at most
  one call is past the checks of an entry and not yet committed;
- `Numbering`: messages are numbered from zero without a gap, the tail has the
  next number, and every offset that was returned is the position of the
  message that came next, or still the tail;
- `Remembered`: a producer's state is its latest acceptance, unless that is
  older than the TTL;
- `Checked`: for a call between reservation and commit, the entry is still open
  and its producer check still answers Accept.

One lemma per conjunct shows that every action keeps it (`OwnershipStep`,
`NumberingStep`, `HistoryStep`, `CheckedStep`); `SearchExact` turns numbered
offsets into the exactness of the read.

Only model-checked: the refinement `ImplementsStore`, `Accounting` and
`LimitsHold` (sums over sets), everything about `GetHandler`, `PostHandler` and
`FileStorage`, and liveness, which is out of the prover's reach.

## Not modelled

The ACID store (next), the cursor, the text formats (JSON mode, SSE frames,
headers, the encoding of offsets), configuration, routing and startup. Power
loss, where unsynced writes disappear. The content type a GET takes from an
earlier `head`.

## Plan

Done: the rules, the in-memory store with proofs and refinement, GET and POST
over the abstract store, the file store with faults and restarts.

1. `AcidStorage`: transactions as atomic steps, the counter reserved before and
   released after them, the notifier table; `AcidRefinesStore`; a run for the
   race of `drop_notifier` with a new subscriber.
2. `FileRefinesStore` for the fault-free file store; runs for a producer retry
   across a restart and for batches cut by a stop.
3. `Cursor` and `OffsetCodec`: the compare-and-swap loop, packing, encoding and
   parsing against reference definitions, with their boundaries.
4. GET with content types and re-creation, conditional reads across
   incarnations; the 409 path of POST.
5. Proofs: the refinement of `StreamStore` step by step; `IndexSound` with
   `FileStorage`'s lock invariant; `InOrderOnce`, `DeliveredCompletely` and
   `ClosedMeansEnd` for `GetHandler`; `ProducerClosesAtOffset`; the counter as a
   sum, for one entry at a time.
