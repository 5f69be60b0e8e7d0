-------------------------- MODULE MCMemoryStorage --------------------------
(***************************************************************************)
(* Instances of MemoryStorage for TLC.  Each configuration picks the calls *)
(* that make its question interesting.                                     *)
(***************************************************************************)
EXTENDS MemoryRefinesStore, TLC

CONSTANTS n1, n2, p1, ct

Req(op, name, msgs, seq, producer, close) ==
    [op |-> op, name |-> name, msgs |-> msgs, content_type |-> ct, seq |-> seq,
     producer |-> producer, should_close |-> close]

Prod(epoch, seq) == {[id |-> p1, epoch |-> epoch, seq |-> seq]}

Cr(name, msgs, ttl, close) ==
    [name |-> name, msgs |-> msgs, content_type |-> ct, ttl_seconds |-> ttl,
     expires_at |-> {}, should_close |-> close]

-----------------------------------------------------------------------------
(* Producers: retries, two epochs, a gap, a close with the last append. *)
ProducerRequests ==
    {Req("producer", n1, b, {}, Prod(e, s), FALSE) : b \in {<<1>>}, e \in 0 .. 1, s \in 0 .. 1}
    \cup {Req("producer", n1, <<>>, {}, Prod(0, 1), TRUE),
          Req("producer", n1, <<1, 2>>, {}, Prod(0, 2), TRUE)}

ProducerCreates == {Cr(n1, <<>>, {3}, FALSE)}

(* `append` is part of the trait, though no handler calls it. *)
TraitRequests == ProducerRequests \cup {Req("append", n1, <<2>>, {}, {}, FALSE)}

(* The calls the handlers make, on a stream and on one that expires. *)
HandlerRequests ==
    {Req("batch", n1, <<1>>, {}, {}, FALSE), Req("batch", n1, <<1, 3>>, {1}, {}, FALSE),
     Req("close", n1, <<>>, {}, {}, FALSE), Req("close", n2, <<>>, {}, {}, FALSE),
     Req("producer", n2, <<1>>, {}, Prod(0, 0), TRUE)}

HandlerCreates == {Cr(n1, <<>>, {}, FALSE), Cr(n1, <<1>>, {}, TRUE),
                   Cr(n2, <<2>>, {1}, FALSE), Cr(n2, <<4>>, {}, FALSE)}

ThreadSymmetry == Permutations(Threads) \cup Permutations(Entries)
=============================================================================
