----------------------------- MODULE GetHandler -----------------------------
(***************************************************************************)
(* Readers: the catch-up, long-poll and SSE modes of GET                   *)
(* (src/src/handlers/get.rs), with the client that follows the stream.     *)
(*                                                                         *)
(* A client asks from the offset the last response gave it, the first time *)
(* from a sentinel.  `session` is the handler that serves it: it subscribes*)
(* to the entry's broadcast channel, reads, and waits.  Every read is by   *)
(* name, so after a deletion it may be served from another entry.          *)
(*                                                                         *)
(* A receiver of the channel is the number of signals it has not consumed: *)
(* beyond the capacity the oldest are lost and the next recv says so, and *)
(* one signal lost is treated like many.                                   *)
(***************************************************************************)
EXTENDS StreamStore

CONSTANTS
    Readers,
    Modes,                  \* the values of `live` they use, "catch-up" for none
    NOTIFY_CHANNEL_CAPACITY,
    SseIdleClose,           \* whether the reconnect interval is above zero
    MaxMessages             \* the bound on the messages of one entry

VARIABLES
    client,         \* reader -> what its client has and knows
    session,        \* reader -> Option(the handler serving it)
    pending         \* reader -> signals in its receiver

vars == <<storeVars, client, session, pending>>

ETag == [start : [read_seq : Int, byte_offset : Nat], end : Offset, closed : BOOLEAN]

(* Where to read from: an offset, and what a reader that has it is owed of *)
(* the incarnation it came from: the messages after the first `base`.      *)
Position == [offset : [read_seq : Int, byte_offset : Nat],  \* Stream-Next-Offset, or a sentinel
             entry : Option(Entries),                       \* the entry it came from
             base : Nat,                                    \* where the reader joined that entry
             strayed : BOOLEAN]                             \* it did so with the offset of another

Client == [at     : Position,
           got    : Seq([entry : Entries, index : Nat]),    \* the messages it received
           etag   : Option(ETag),                           \* of an empty range it was given
           timed_out : BOOLEAN,                             \* a long-poll of its ran out
           done   : BOOLEAN]                                \* it was told Stream-Closed

Session == [mode : {"long-poll", "sse"}, name : Names, entry : Entries,
            stage : {"subscribed", "waiting"},
            from : Position, if_none_match : Option(ETag)]

Init ==
    /\ StoreInit
    /\ client \in [Readers ->
         {[at |-> [offset |-> o, entry |-> {}, base |-> 0, strayed |-> FALSE], got |-> <<>>,
           etag |-> {}, timed_out |-> FALSE, done |-> FALSE] : o \in {StartOffset, NowOffset}}]
    /\ session = [r \in Readers |-> {}]
    /\ pending = [r \in Readers |-> 0]

-----------------------------------------------------------------------------
(* at_tail is always true: a read goes to the tail. *)
generate_etag(start, rr) == [start |-> start, end |-> rr.next_offset, closed |-> rr.closed]

(* The tail that the read rr, made from `from`, returned.  A reader joins  *)
(* an incarnation at its tail if it asked for now, and otherwise at its    *)
(* start: also with an offset of another incarnation, which may be behind  *)
(* messages of this one.                                                   *)
TailOf(from, rr) ==
    [offset  |-> rr.next_offset,
     entry   |-> {rr.entry},
     base    |-> IF from.entry = {rr.entry} THEN from.base
                 ELSE IF from.offset = NowOffset THEN rr.count ELSE 0,
     strayed |-> IF from.entry = {rr.entry} THEN from.strayed ELSE from.entry # {}]

(* The client once it has a response to a read from `from` that carries    *)
(* the offset and closure of rr and the last n messages of its entry.      *)
Told(c, from, rr, n) ==
    [c EXCEPT !.at   = TailOf(from, rr),
              !.got  = @ \o [i \in 1 .. n |-> [entry |-> rr.entry, index |-> rr.count - n + i]],
              !.done = rr.closed]

(* build_data_response, and one SSE data and control pair. *)
WithData(c, from, rr) == Told(c, from, rr, rr.count - rr.skipped)

(* build_204_response: the offset and the closure, and no message. *)
WithoutData(c, from, rr) == Told(c, from, rr, 0)

(* The client keeps the ETag of the range it would ask for next: another   *)
(* one can match nothing.                                                  *)
Tagged(c, tag) == [c EXCEPT !.etag = IF tag.start = tag.end THEN {tag} ELSE {}]

Answer(r, c) ==
    /\ client' = [client EXCEPT ![r] = c]
    /\ session' = [session EXCEPT ![r] = {}]
    /\ pending' = [pending EXCEPT ![r] = 0]

Wait(r, s, from) ==
    session' = [session EXCEPT ![r] = {[s EXCEPT !.stage = "waiting", !.from = from]}]

(* A mistaken variant: the skip of a lagged receiver is applied to all. *)
RecvSkips(p) == p - NOTIFY_CHANNEL_CAPACITY - 1

(* recv: a receiver that lagged behind is moved to the oldest signal kept. *)
Recv(p) == IF p > NOTIFY_CHANNEL_CAPACITY THEN NOTIFY_CHANNEL_CAPACITY ELSE p - 1

(* The channel is closed once the entry is dropped from the store, which   *)
(* is not before it is out of sight; signals sent earlier come first.      *)
ChannelClosed(r, s) == pending[r] = 0 /\ visible[s.name] # {s.entry}

-----------------------------------------------------------------------------
(* read_catch_up: one read; a matching ETag is answered 304, which tells   *)
(* the client nothing new.                                                 *)
ReadCatchUp(r, n) ==
    /\ session[r] = {} /\ ~ client[r].done
    /\ \E rr \in read(n, client[r].at.offset) :
         LET tag == generate_etag(client[r].at.offset, rr)
         IN  \E if_none_match \in {{}, client[r].etag} :
               IF if_none_match = {tag} THEN Answer(r, client[r])
               ELSE Answer(r, Tagged(WithData(client[r], client[r].at, rr), tag))
    /\ quiet

(* The live modes subscribe first.  A name that is not visible is a 404.   *)
Subscribe(r, mode, n) ==
    /\ session[r] = {} /\ ~ client[r].done
    /\ \E e \in visible[n], if_none_match \in {{}, client[r].etag} :
         session' = [session EXCEPT ![r] =
            {[mode |-> mode, name |-> n, stage |-> "subscribed", entry |-> e,
              from |-> client[r].at, if_none_match |-> if_none_match]}]
    /\ pending' = [pending EXCEPT ![r] = 0]
    /\ UNCHANGED client /\ quiet

(* read_long_poll up to its select: 304, data at once, a closed stream at  *)
(* its tail at once, or wait from the concrete tail.                       *)
LongPollRead(r, s) ==
    /\ s.stage = "subscribed"
    /\ \/ read(s.name, s.from.offset) = {} /\ Answer(r, client[r])
       \/ \E rr \in read(s.name, s.from.offset) :
            LET tag == generate_etag(s.from.offset, rr)
            IN  IF s.if_none_match = {tag} THEN Answer(r, client[r])
                ELSE IF rr.skipped < rr.count
                  THEN Answer(r, Tagged(WithData(client[r], s.from, rr), tag))
                ELSE IF rr.closed THEN Answer(r, WithoutData(client[r], s.from, rr))
                ELSE Wait(r, s, TailOf(s.from, rr)) /\ UNCHANGED <<client, pending>>
    /\ quiet

(* A mistaken variant: a wake-up without data is taken for the closure. *)
WakeMeansClosed(r, s) ==
    /\ s.stage = "waiting"
    /\ pending[r] > 0 \/ ChannelClosed(r, s)
    /\ \/ read(s.name, s.from.offset) = {} /\ Answer(r, client[r])
       \/ \E rr \in read(s.name, s.from.offset) :
            IF rr.skipped = rr.count
            THEN Answer(r, [WithoutData(client[r], s.from, rr) EXCEPT !.done = TRUE])
            ELSE Answer(r, Tagged(WithData(client[r], s.from, rr), generate_etag(s.from.offset, rr)))
    /\ quiet

(* handle_long_poll_wake: whatever recv returned, read again from the tail *)
(* the wait began at.                                                      *)
LongPollWake(r, s) ==
    /\ s.stage = "waiting"
    /\ pending[r] > 0 \/ ChannelClosed(r, s)
    /\ \/ read(s.name, s.from.offset) = {} /\ Answer(r, client[r])
       \/ \E rr \in read(s.name, s.from.offset) :
            IF rr.skipped = rr.count THEN Answer(r, WithoutData(client[r], s.from, rr))
            ELSE Answer(r, Tagged(WithData(client[r], s.from, rr), generate_etag(s.from.offset, rr)))
    /\ quiet

(* The timeout branch reads again too, and answers 204 with the offset of  *)
(* that read and none of its messages.                                     *)
LongPollTimeout(r, s) ==
    /\ s.stage = "waiting"
    /\ \/ read(s.name, s.from.offset) = {} /\ Answer(r, client[r])
       \/ \E rr \in read(s.name, s.from.offset) :
            Answer(r, [WithoutData(client[r], s.from, rr) EXCEPT !.timed_out = TRUE])
    /\ quiet

-----------------------------------------------------------------------------
(* A mistaken variant: the loop goes on from where it was. *)
EmitFromOldTail(r, s, rr, p) ==
    IF rr.closed THEN Answer(r, WithData(client[r], s.from, rr))
    ELSE /\ client' = [client EXCEPT ![r] = WithData(@, s.from, rr)]
         /\ Wait(r, s, s.from)
         /\ pending' = [pending EXCEPT ![r] = p]

(* One round of the SSE stream: data and control are emitted, and the      *)
(* connection ends if that was a closed stream's tail.                     *)
SseEmit(r, s, rr, p) ==
    IF rr.closed THEN Answer(r, WithData(client[r], s.from, rr))
    ELSE /\ client' = [client EXCEPT ![r] = WithData(@, s.from, rr)]
         /\ Wait(r, s, TailOf(s.from, rr))
         /\ pending' = [pending EXCEPT ![r] = p]

SseRead(r, s) ==
    /\ s.stage = "subscribed"
    /\ \/ read(s.name, s.from.offset) = {} /\ Answer(r, client[r])
       \/ \E rr \in read(s.name, s.from.offset) : SseEmit(r, s, rr, pending[r])
    /\ quiet

(* Ok and Lagged alike lead to another read; a read that fails ends it. *)
SseRecv(r, s) ==
    /\ s.stage = "waiting" /\ pending[r] > 0
    /\ \/ read(s.name, s.from.offset) = {} /\ Answer(r, client[r])
       \/ \E rr \in read(s.name, s.from.offset) : SseEmit(r, s, rr, Recv(pending[r]))
    /\ quiet

(* Closed leads to a last read, and the end. *)
SseChannelClosed(r, s) ==
    /\ s.stage = "waiting" /\ ChannelClosed(r, s)
    /\ \/ read(s.name, s.from.offset) = {} /\ Answer(r, client[r])
       \/ \E rr \in read(s.name, s.from.offset) : Answer(r, WithData(client[r], s.from, rr))
    /\ quiet

(* The idle deadline; the client reconnects from its last control event.   *)
SseIdle(r, s) ==
    /\ SseIdleClose
    /\ s.stage = "waiting"
    /\ Answer(r, client[r])
    /\ quiet

ReadStep(r) ==
    \/ "catch-up" \in Modes /\ \E n \in Names : ReadCatchUp(r, n)
    \/ \E mode \in Modes \ {"catch-up"}, n \in Names : Subscribe(r, mode, n)
    \/ \E s \in session[r] :
         /\ s.mode = "long-poll"
         /\ LongPollRead(r, s) \/ LongPollWake(r, s) \/ LongPollTimeout(r, s)
    \/ \E s \in session[r] :
         /\ s.mode = "sse"
         /\ SseRead(r, s) \/ SseRecv(r, s) \/ SseChannelClosed(r, s) \/ SseIdle(r, s)

(* What a step of the store does to the receivers of the entries it fired; *)
(* how far a receiver has lagged makes no difference.                      *)
Signal ==
    pending' = [r \in Readers |->
        IF \E s \in session[r] : s.entry \in fired' /\ pending[r] <= NOTIFY_CHANNEL_CAPACITY
        THEN pending[r] + 1 ELSE pending[r]]

(* Everyone else: any storage call, by any handler. *)
OtherRequest ==
    /\ StoreCall
    /\ \A e \in Entries : Len(log'[e].messages) <= MaxMessages
    /\ Signal /\ UNCHANGED <<client, session>>

Next ==
    \/ \E r \in Readers : ReadStep(r)
    \/ OtherRequest

(* The runtime polls the task of an open SSE connection when its receiver  *)
(* is ready.  Clients and writers need not do anything, and no timer is    *)
(* needed for progress.                                                    *)
Fairness == \A r \in Readers :
    WF_vars(\E s \in session[r] : s.mode = "sse" /\ (SseRead(r, s) \/ SseRecv(r, s)))

Spec == Init /\ [][Next]_vars /\ Fairness

-----------------------------------------------------------------------------
(* The state has its type. *)
TypeOK ==
    /\ visible \in [Names -> Option(Entries)]
    /\ log \in [Entries -> Log]
    /\ used \subseteq Entries /\ fired \subseteq Entries
    /\ client \in [Readers -> Client]
    /\ session \in [Readers -> Option(Session)]
    /\ pending \in [Readers -> 0 .. NOTIFY_CHANNEL_CAPACITY + 1]

Received(r, e) == {i \in DOMAIN client[r].got : client[r].got[i].entry = e}

(* In order, once: whatever the modes, the waits, the wake-ups and the     *)
(* reconnects, the messages a client receives of one incarnation of a      *)
(* stream come in the order of the log and none comes twice (get.rs: the   *)
(* offset returned with a body is the offset the body ends at).            *)
InOrderOnce ==
    \A r \in Readers, e \in Entries : \A i, j \in Received(r, e) :
        i < j => client[r].got[i].index < client[r].got[j].index

NothingSkipped(r) ==
    \A e \in client[r].at.entry :
        {client[r].got[i].index : i \in Received(r, e)}
            = (client[r].at.base + 1) .. client[r].at.offset.read_seq

(* A client has every message of an incarnation up to the offset it will   *)
(* continue from: all of them, or all since the tail it asked for with     *)
(* now, in whatever mode it asks.  Two things are excepted: a long-poll of *)
(* its ran out, or it came to this incarnation with an offset of a stream  *)
(* deleted before (read_catch_up, handle_long_poll_wake,                   *)
(* build_sse_byte_stream: body and offset come from one read).             *)
DeliveredCompletely ==
    \A r \in Readers : ~ client[r].timed_out /\ ~ client[r].at.strayed => NothingSkipped(r)

(* What the specification of long-poll says: data that arrives during the  *)
(* wait is returned, and 204 means that there was none.                    *)
LongPollComplete == \A r \in Readers : ~ client[r].at.strayed => NothingSkipped(r)

(* A client that is told Stream-Closed is at the end of a closed stream:   *)
(* it will never miss a message by not asking again (get.rs: closed and    *)
(* at_tail come from the snapshot that gave the offset).                   *)
ClosedMeansEnd ==
    \A r \in Readers : client[r].done =>
        \A e \in client[r].at.entry :
            log[e].closed /\ client[r].at.offset = log[e].tail

SseBehind(r) == \E s \in session[r] :
    /\ s.mode = "sse" /\ s.stage = "waiting" /\ visible[s.name] = {s.entry}
    /\ s.from.offset.read_seq < Len(log[s.entry].messages)

(* An SSE connection that waits does not sleep through a message: signals  *)
(* sent between its subscription and its read, or lost to lag, do not keep *)
(* it from delivering all that the stream holds (build_sse_byte_stream).   *)
SseDelivers == \A r \in Readers : SseBehind(r) ~> ~ SseBehind(r)
=============================================================================
