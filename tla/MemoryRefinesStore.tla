------------------------- MODULE MemoryRefinesStore -------------------------
(***************************************************************************)
(* InMemoryStorage implements the Storage trait: its calls, which take     *)
(* several steps and interleave, look to everyone like the atomic calls of *)
(* StreamStore.  A call takes effect when commit_messages writes the entry *)
(* (and, for a creation, the map); an expired stream is one that is not    *)
(* visible, whether or not the map still holds it.                         *)
(***************************************************************************)
EXTENDS MemoryStorageInv

Published == {e \in allocated :
                 \A t \in Threads : \A c \in call[t] : Private(c) => c.entry # e}

Store == INSTANCE StreamStore WITH
    Batches <- {r.msgs : r \in Requests} \cup {cr.msgs : cr \in Creates},
    visible <- [n \in Names |-> {e \in streams[n] : ~ Expired(e)}],
    log     <- [e \in Entries |-> [messages |-> heap[e].messages,
                                   tail     |-> heap[e].tail,
                                   closed   |-> heap[e].closed]],
    used    <- Published,
    fired   <- notified

(* Every behaviour of the in-memory store is one of the atomic store: a    *)
(* batch appears at once with its closure and its notification, a created  *)
(* stream appears with its body, and nothing changes on an error.          *)
ImplementsStore == Store!StoreSpec
=============================================================================
