---------------------------- MODULE StreamStore ----------------------------
(***************************************************************************)
(* What the Storage trait (src/src/storage/mod.rs) promises its callers,   *)
(* with every call one atomic step.  An entry is one incarnation of a      *)
(* stream: deleting a name and creating it again leads to another entry.   *)
(* A name is visible while its stream exists and has not expired.  A call  *)
(* that returns an error or a duplicate changes nothing and is no step.    *)
(*                                                                         *)
(* A writer that found an entry before it vanished may still append to it: *)
(* the entry is then out of sight, and nobody reads what was appended.     *)
(***************************************************************************)
EXTENDS StreamRules

CONSTANTS
    Names,          \* stream names
    Entries,        \* incarnations of streams
    Batches         \* the batches of messages callers append

VARIABLES
    visible,        \* name -> Option(entry)
    log,            \* entry -> its messages, tail and closure
    used,           \* the entries created so far
    fired           \* the entries whose subscribers the last step notified

storeVars == <<visible, log, used, fired>>

Log == [messages : Seq(Offset), tail : Offset, closed : BOOLEAN]

NewLog == [messages |-> <<>>, tail |-> [read_seq |-> 0, byte_offset |-> 0], closed |-> FALSE]

Extended(l, b, should_close) ==
    [messages |-> l.messages \o Place(b, l.tail),
     tail     |-> Advance(b, l.tail),
     closed   |-> l.closed \/ should_close]

StoreInit ==
    /\ visible = [n \in Names |-> {}]
    /\ log = [e \in Entries |-> NewLog]
    /\ used = {}
    /\ fired = {}

(* A mistaken variant: some way to append forgets to notify. *)
FireSometimes(e, b) == fired' \in {{}, {e}}

(* Subscribers hear of every message; of a bare closure by a producer only *)
(* some backends tell them.                                                *)
Fire(e, b) == fired' \in IF b = <<>> THEN {{}, {e}} ELSE {{e}}

(* A stream appears with its body and closure already in it, unless its    *)
(* expiry has passed by the time it is created.                            *)
create_stream_with_data(n, e, b, should_close) ==
    /\ visible[n] = {} /\ e \notin used
    /\ used' = used \cup {e}
    /\ log' = [log EXCEPT ![e] = Extended(NewLog, b, should_close)]
    /\ \E v \in {{}, {e}} : visible' = [visible EXCEPT ![n] = v]
    /\ Fire(e, b)

(* batch_append, and append_with_producer for an accepted request. *)
append(e, b, should_close) ==
    /\ e \in used /\ ~ log[e].closed
    /\ b # <<>> \/ should_close
    /\ log' = [log EXCEPT ![e] = Extended(@, b, should_close)]
    /\ Fire(e, b)
    /\ UNCHANGED <<visible, used>>

close_stream(e) ==
    /\ e \in used
    /\ log' = [log EXCEPT ![e].closed = TRUE]
    /\ fired' = {e}
    /\ UNCHANGED <<visible, used>>

(* Deletion of one name, or the expiry of any number of them. *)
vanish(S) ==
    /\ \E n \in S : visible[n] # {}
    /\ visible' = [n \in Names |-> IF n \in S THEN {} ELSE visible[n]]
    /\ fired' = {}
    /\ UNCHANGED <<log, used>>

(* A step of some caller that changes nothing in the store. *)
quiet == fired' = {} /\ UNCHANGED <<visible, log, used>>

StoreCall ==
    \/ \E n \in Names, e \in Entries, b \in Batches, c \in BOOLEAN :
         create_stream_with_data(n, e, b, c)
    \/ \E e \in Entries, b \in Batches, c \in BOOLEAN : append(e, b, c)
    \/ \E e \in Entries : close_stream(e)
    \/ \E S \in SUBSET Names : vanish(S)

StoreNext == StoreCall \/ quiet

StoreSpec == StoreInit /\ [][StoreNext]_storeVars

-----------------------------------------------------------------------------
(* A read by name: nothing if the name is not visible, or the entry it was *)
(* served from, how many messages the offset skips, and the snapshot.      *)
(* The sentinels are -1, before every message, and now, at the tail.       *)

StartOffset == [read_seq |-> -1, byte_offset |-> 0]
NowOffset == [read_seq |-> -2, byte_offset |-> 0]

read(n, from) ==
    {[entry |-> e,
      skipped |-> Len(log[e].messages) -
                    IF from = NowOffset THEN 0 ELSE Len(ReadFrom(log[e].messages, from)),
      count |-> Len(log[e].messages),
      next_offset |-> log[e].tail,
      closed |-> log[e].closed] : e \in visible[n]}
=============================================================================
