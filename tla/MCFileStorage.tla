--------------------------- MODULE MCFileStorage ---------------------------
(***************************************************************************)
(* Instances of FileStorage for TLC: one name, whose stream is deleted and *)
(* created again, and whose process is restarted.                          *)
(***************************************************************************)
EXTENDS FileStorage, TLC

CONSTANTS n1, p1

Req(op, count, seq, producer, close) ==
    [op |-> op, name |-> n1, count |-> count, seq |-> seq, producer |-> producer,
     should_close |-> close, expires_at |-> {}]

Prod(seq) == {[id |-> p1, epoch |-> 0, seq |-> seq]}

AllRequests ==
    {Req("batch", 2, {}, {}, FALSE), Req("producer", 1, {1}, Prod(0), FALSE),
     Req("close", 0, {}, {}, FALSE)}

AllCreates ==
    {[Req("create", 1, {}, {}, FALSE) EXCEPT !.expires_at = {1}]}

ThreadSymmetry == Permutations(Threads) \cup Permutations(Entries)
=============================================================================
