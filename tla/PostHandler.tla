---------------------------- MODULE PostHandler ----------------------------
(***************************************************************************)
(* Writers: POST (src/src/handlers/post.rs), with and without a producer.  *)
(* A request without a producer that appends and closes makes two storage  *)
(* calls, one that only closes asks for the tail first, and a refusal on a *)
(* closed stream asks for the tail afterwards: other requests come between.*)
(* Requests that are malformed never reach the store and are left out, and *)
(* so are refusals by the producer rules, which change nothing.            *)
(***************************************************************************)
EXTENDS StreamStore

CONSTANTS
    Writers,
    MaxMessages     \* the bound on the messages of one entry

VARIABLES
    post            \* writer -> Option(the request in progress, or its response)

vars == <<storeVars, post>>

(* A request in progress is between its storage calls: "closing" holds the *)
(* offset it will answer with, "conflict" was refused.  "answered" and     *)
(* "refused" are the response.  Each carries the name, the kind of request *)
(* ("data", "close-only", "producer"), the offset and the entry that it    *)
(* was taken from, and Stream-Closed.                                      *)
Init == StoreInit /\ post = [w \in Writers |-> {}]

Idle(w) == \A p \in post[w] : p.stage \in {"answered", "refused"}

(* The tail of e once b is appended, which both storage calls return. *)
TailAfter(e, b) == {Advance(b, log[e].tail)}

PostBecomes(w, n, stage, kind, entry, next_offset, closed) ==
    post' = [post EXCEPT ![w] =
        {[name |-> n, stage |-> stage, kind |-> kind, entry |-> entry,
          next_offset |-> next_offset, closed |-> closed]}]

(* A 404, or another error without an offset. *)
PostFails(w) == post' = [post EXCEPT ![w] = {}] /\ quiet

-----------------------------------------------------------------------------
(* handle_non_producer_append with messages: batch_append, then, for a     *)
(* request that closes as well, close_stream as a call of its own.         *)
PostData(w, n, b, should_close) ==
    /\ Idle(w) /\ b # <<>>
    /\ \E e \in visible[n] :
         \/ /\ log[e].closed
            /\ PostBecomes(w, n, "conflict", "data", {}, {}, FALSE)
            /\ quiet
         \/ /\ append(e, b, FALSE)
            /\ PostBecomes(w, n, IF should_close THEN "closing" ELSE "answered", "data",
                           {e}, TailAfter(e, b), FALSE)

(* ... and without: the tail is asked for, then the stream is closed. *)
PostCloseOnly(w, n) ==
    /\ Idle(w)
    /\ \E e \in visible[n] : PostBecomes(w, n, "closing", "close-only", {e}, {log[e].tail}, FALSE)
    /\ quiet

PostClose(w, p) ==
    /\ p.stage = "closing"
    /\ \/ visible[p.name] = {} /\ PostFails(w)
       \/ \E e \in visible[p.name] :
            /\ close_stream(e)
            /\ PostBecomes(w, p.name, "answered", p.kind, p.entry, p.next_offset, TRUE)

(* A mistaken variant: the producer path closes in a call of its own too. *)
ProducerInTwoCalls(w, n, b, should_close) ==
    /\ Idle(w)
    /\ \E e \in visible[n] :
         /\ append(e, b, FALSE)
         /\ PostBecomes(w, n, IF should_close THEN "closing" ELSE "answered", "producer",
                        {e}, TailAfter(e, b), FALSE)

(* handle_producer_append: one call appends and closes, or finds that the  *)
(* request is a duplicate and says where the stream is now.                *)
PostProducer(w, n, b, should_close) ==
    /\ Idle(w) /\ (b # <<>> \/ should_close)
    /\ \E e \in visible[n] :
         \/ /\ log[e].closed
            /\ PostBecomes(w, n, "conflict", "producer", {}, {}, FALSE)
            /\ quiet
         \/ /\ append(e, b, should_close)
            /\ PostBecomes(w, n, "answered", "producer", {e}, TailAfter(e, b), should_close)
         \/ /\ PostBecomes(w, n, "answered", "producer", {e}, {log[e].tail}, log[e].closed)
            /\ quiet

(* stream_closed_response and its copy for producers: 409 with the tail.   *)
PostConflict(w, p) ==
    /\ p.stage = "conflict"
    /\ \/ visible[p.name] = {} /\ PostFails(w)
       \/ \E e \in visible[p.name] :
            PostBecomes(w, p.name, "refused", p.kind, {e}, {log[e].tail}, TRUE) /\ quiet

PostStep(w) ==
    \/ \E n \in Names, b \in Batches, c \in BOOLEAN : PostData(w, n, b, c)
    \/ \E n \in Names : PostCloseOnly(w, n)
    \/ \E n \in Names, b \in Batches, c \in BOOLEAN : PostProducer(w, n, b, c)
    \/ \E p \in post[w] : PostClose(w, p) \/ PostConflict(w, p)

(* Everyone else: any storage call, by any handler. *)
OtherRequest ==
    /\ StoreCall
    /\ UNCHANGED post

Next ==
    /\ \/ \E w \in Writers : PostStep(w)
       \/ OtherRequest
    /\ \A e \in Entries : Len(log'[e].messages) <= MaxMessages

Spec == Init /\ [][Next]_vars

-----------------------------------------------------------------------------
FinalOffset(kind) ==
    \A w \in Writers : \A p \in post[w] :
        p.stage = "answered" /\ p.kind = kind /\ p.closed =>
            \A e \in p.entry : p.next_offset = {log[e].tail}

(* A producer's request that is answered Stream-Closed carries the final   *)
(* offset of the stream, whatever other writers do meanwhile: append and   *)
(* closure are one storage call (handle_producer_append).                  *)
ProducerClosesAtOffset == FinalOffset("producer")

(* What the specification of closure says of a POST that only closes: its  *)
(* answer carries the final offset of the stream.                          *)
CloseOnlyAtOffset == FinalOffset("close-only")
=============================================================================
