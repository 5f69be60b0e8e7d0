----------------------- MODULE MemoryProducerProofs ------------------------
(***************************************************************************)
(* What an entry remembers of a producer: lemmas on sequences of           *)
(* acceptances, apart from the steps that extend them.                     *)
(***************************************************************************)
EXTENDS MemoryStorageInv, TLAPS

-----------------------------------------------------------------------------
(* The memory of a producer, as facts about sequences of acceptances. *)

(* Time passing does not change what is remembered. *)
LEMMA RememberLater ==
    ASSUME NEW A \in Seq(Acceptance), NEW state, NEW id,
           NEW t1 \in Nat, NEW t2 \in Nat, t1 <= t2, RememberedIn(A, state, id, t1)
    PROVE  RememberedIn(A, state, id, t2)
<1>1. CASE state = {} /\ \A k \in 1 .. Len(A) : A[k].id # id
  BY <1>1 DEF RememberedIn
<1>2. ASSUME NEW k \in 1 .. Len(A), Latest(A, id, k),
             \/ state = {[epoch |-> A[k].epoch, last_seq |-> A[k].seq, updated_at |-> A[k].at]}
             \/ state = {} /\ t1 >= A[k].at + PRODUCER_STATE_TTL_SECS
      PROVE  RememberedIn(A, state, id, t2)
  <2>0. A[k] \in Acceptance
    OBVIOUS
  <2>1. A[k].at \in Nat /\ PRODUCER_STATE_TTL_SECS \in Nat
    BY <2>0, BoundsAssumption DEF Acceptance
  <2>2. state = {} =>
          state = {} /\ \/ state = {[epoch |-> A[k].epoch, last_seq |-> A[k].seq,
                                    updated_at |-> A[k].at]}
                        \/ t2 >= A[k].at + PRODUCER_STATE_TTL_SECS
    BY <1>2, <2>1
  <2> QED
    BY <1>2, <2>2 DEF RememberedIn
<1> QED
  BY <1>1, <1>2 DEF RememberedIn

(* Dropping a stale state at time t is remembered as such. *)
LEMMA RememberClean ==
    ASSUME NEW A \in Seq(Acceptance), NEW state, NEW id,
           NEW t \in Nat, RememberedIn(A, state, id, t)
    PROVE  RememberedIn(A, {s \in state : s.updated_at > t - PRODUCER_STATE_TTL_SECS}, id, t)
<1> DEFINE kept == {s \in state : s.updated_at > t - PRODUCER_STATE_TTL_SECS}
<1>1. CASE state = {}
  <2>1. kept = state
    BY <1>1
  <2> QED
    BY <2>1, Zenon
<1>2. ASSUME NEW k \in 1 .. Len(A), Latest(A, id, k),
             state = {[epoch |-> A[k].epoch, last_seq |-> A[k].seq, updated_at |-> A[k].at]}
      PROVE  RememberedIn(A, kept, id, t)
  <2>0. A[k] \in Acceptance
    OBVIOUS
  <2>1. A[k].at \in Nat /\ PRODUCER_STATE_TTL_SECS \in Nat
    BY <2>0, BoundsAssumption DEF Acceptance
  <2>2. CASE A[k].at > t - PRODUCER_STATE_TTL_SECS
    <3>1. kept = state
      BY <1>2, <2>2
    <3> QED
      BY <3>1, Zenon
  <2>3. CASE ~ (A[k].at > t - PRODUCER_STATE_TTL_SECS)
    <3>1. kept = {} /\ t >= A[k].at + PRODUCER_STATE_TTL_SECS
      BY <1>2, <2>1, <2>3
    <3> QED
      BY <1>2, <3>1 DEF RememberedIn
  <2> QED
    BY <2>2, <2>3
<1> QED
  BY <1>1, <1>2 DEF RememberedIn

(* Appending an acceptance: the last of its producer, no change for others. *)
LEMMA AppendAcceptance ==
    ASSUME NEW A \in Seq(Acceptance), NEW r \in Acceptance
    PROVE  /\ Append(A, r) \in Seq(Acceptance)
           /\ Len(Append(A, r)) = Len(A) + 1 /\ Len(A) \in Nat
           /\ Append(A, r)[Len(A) + 1] = r
           /\ \A k \in 1 .. Len(A) : Append(A, r)[k] = A[k]
OBVIOUS

(* Once a request is accepted, its numbers are what is remembered of its   *)
(* producer, and what was remembered of every other one still is.          *)
LEMMA RememberAppend ==
    ASSUME NEW A \in Seq(Acceptance), NEW r \in Acceptance, NEW id, NEW t \in Nat
    PROVE  /\ RememberedIn(Append(A, r),
                           {[epoch |-> r.epoch, last_seq |-> r.seq, updated_at |-> r.at]}, r.id, t)
           /\ \A state : r.id # id /\ RememberedIn(A, state, id, t)
                         => RememberedIn(Append(A, r), state, id, t)
<1> DEFINE B == Append(A, r)
<1>1. /\ Len(B) = Len(A) + 1 /\ Len(A) \in Nat
      /\ B[Len(A) + 1] = r
      /\ \A k \in 1 .. Len(A) : B[k] = A[k]
  BY AppendAcceptance
<1> HIDE DEF B
<1>2. Latest(B, r.id, Len(A) + 1) /\ Len(A) + 1 \in 1 .. Len(B)
  BY <1>1 DEF Latest
<1>3. RememberedIn(B, {[epoch |-> r.epoch, last_seq |-> r.seq, updated_at |-> r.at]}, r.id, t)
  BY <1>1, <1>2 DEF RememberedIn
<1>4. ASSUME NEW state, r.id # id, RememberedIn(A, state, id, t)
      PROVE  RememberedIn(B, state, id, t)
  <2>1. CASE state = {} /\ \A k \in 1 .. Len(A) : A[k].id # id
    BY <1>1, <1>4, <2>1 DEF RememberedIn
  <2>2. ASSUME NEW k \in 1 .. Len(A), Latest(A, id, k)
        PROVE  k \in 1 .. Len(B) /\ Latest(B, id, k) /\ B[k] = A[k]
    BY <1>1, <1>4, <2>2 DEF Latest
  <2> QED
    BY <1>4, <2>1, <2>2 DEF RememberedIn
<1> QED
  BY <1>3, <1>4 DEF B

(* Nothing accepted, nothing remembered. *)
LEMMA EmptyHistory ==
    /\ OnceIn(<<>>) /\ NoGapIn(<<>>)
    /\ \A id, time : RememberedIn(<<>>, {}, id, time)
BY DEF OnceIn, NoGapIn, RememberedIn

(* What check_producer's acceptance means for the state it was given. *)
LEMMA AcceptMeans ==
    ASSUME NEW p \in Producer, NEW state, check_producer(state, p, FALSE) = "Accept"
    PROVE  /\ state = {} => p.seq = 0
           /\ \A s \in state : s \in ProducerState =>
                \/ p.epoch > s.epoch /\ p.seq = 0
                \/ p.epoch = s.epoch /\ p.seq = s.last_seq + 1
<1>1. /\ ~ \E s \in state : p.epoch < s.epoch
      /\ ~ \E s \in state : p.epoch = s.epoch /\ p.seq <= s.last_seq
      /\ ~ \E s \in state : p.epoch > s.epoch /\ p.seq # 0
      /\ ~ \E s \in state : p.epoch = s.epoch /\ p.seq > s.last_seq + 1
      /\ state = {} => p.seq = 0
  BY DEF check_producer, Duplicate, Gap
<1>2. ASSUME NEW s \in state, s \in ProducerState
      PROVE  \/ p.epoch > s.epoch /\ p.seq = 0
             \/ p.epoch = s.epoch /\ p.seq = s.last_seq + 1
  <2>1. /\ p.epoch \in Nat /\ p.seq \in Nat
        /\ s.epoch \in Nat /\ s.last_seq \in Nat
    BY <1>2 DEF Producer, ProducerState
  <2> QED
    BY <1>1, <2>1
<1> QED
  BY <1>1, <1>2

(* A silence seen in a sequence is seen in any longer one. *)
LEMMA ForgottenLonger ==
    ASSUME NEW A, NEW B, NEW i \in Nat, NEW j \in Nat, NEW n \in Nat, j <= n,
           \A k \in i .. j : B[k] = A[k], B[n].id = A[j].id, i <= j, Forgotten(A, i, j)
    PROVE  Forgotten(B, i, n)
<1>1. PICK k, m \in i .. j :
        /\ k < m
        /\ A[k].id = A[j].id /\ A[m].id = A[j].id
        /\ \A l \in (k + 1) .. (m - 1) : A[l].id # A[j].id
        /\ A[m].at >= A[k].at + PRODUCER_STATE_TTL_SECS
  BY DEF Forgotten
<1>2. /\ k \in i .. n /\ m \in i .. n
      /\ B[k] = A[k] /\ B[m] = A[m]
      /\ \A l \in (k + 1) .. (m - 1) : B[l] = A[l]
  OBVIOUS
<1> QED
  BY <1>1, <1>2 DEF Forgotten

(* Later is an order: what is later than a later request is later. *)
LEMMA LaterTransitive ==
    ASSUME NEW a \in Acceptance, NEW b \in Acceptance, NEW c \in Acceptance,
           Later(a, b), Later(b, c)
    PROVE  Later(a, c)
<1>1. /\ a.epoch \in Nat /\ a.seq \in Nat /\ b.epoch \in Nat /\ b.seq \in Nat
      /\ c.epoch \in Nat /\ c.seq \in Nat
  BY DEF Acceptance
<1> QED
  BY <1>1 DEF Later

(* Accepting a request keeps the order of what was accepted. *)
LEMMA OnceAppend ==
    ASSUME NEW A \in Seq(Acceptance), NEW p \in Producer, NEW state, NEW time \in Nat,
           RememberedIn(A, state, p.id, time), check_producer(state, p, FALSE) = "Accept",
           OnceIn(A)
    PROVE  OnceIn(Append(A, [id |-> p.id, epoch |-> p.epoch, seq |-> p.seq, at |-> time]))
<1> DEFINE r == [id |-> p.id, epoch |-> p.epoch, seq |-> p.seq, at |-> time]
           B == Append(A, r)
           n == Len(A)
<1>1. r \in Acceptance
  BY DEF Producer, Acceptance
<1>2. /\ Len(B) = n + 1 /\ n \in Nat
      /\ B[n + 1] = r
      /\ \A k \in 1 .. n : B[k] = A[k] /\ A[k] \in Acceptance
  BY <1>1, AppendAcceptance
<1>3. r.id = p.id /\ r.epoch = p.epoch /\ r.seq = p.seq /\ r.at = time
  OBVIOUS
<1> HIDE DEF B, r
<1>4. SUFFICES ASSUME NEW i \in 1 .. Len(B), NEW j \in 1 .. Len(B), i < j, B[i].id = B[j].id
               PROVE  Later(B[j], B[i]) \/ Forgotten(B, i, j)
  BY Zenon DEF OnceIn, B, r
<1>5. CASE j <= n
  <2>1. i \in 1 .. n /\ j \in 1 .. n /\ B[i] = A[i] /\ B[j] = A[j]
    BY <1>2, <1>4, <1>5
  <2>2. Later(A[j], A[i]) \/ Forgotten(A, i, j)
    BY <1>4, <2>1 DEF OnceIn
  <2>3. Forgotten(A, i, j) => Forgotten(B, i, j)
    <3>1. \A k \in i .. j : B[k] = A[k]
      BY <1>2, <2>1
    <3> QED
      BY <1>4, <2>1, <3>1, ForgottenLonger
  <2> QED
    BY <2>1, <2>2, <2>3
<1>6. CASE j = n + 1
  <2>1. i \in 1 .. n /\ B[i] = A[i] /\ A[i].id = p.id /\ B[j] = r
    BY <1>2, <1>3, <1>4, <1>6
  <2>2. PICK k \in 1 .. n :
          /\ Latest(A, p.id, k)
          /\ \/ state = {[epoch |-> A[k].epoch, last_seq |-> A[k].seq, updated_at |-> A[k].at]}
             \/ state = {} /\ time >= A[k].at + PRODUCER_STATE_TTL_SECS
    BY <2>1 DEF RememberedIn
  <2>3. /\ A[k].id = p.id /\ i <= k /\ B[k] = A[k]
        /\ \A l \in (k + 1) .. n : B[l].id # p.id
    BY <1>2, <2>1, <2>2 DEF Latest
  <2>4. CASE state = {} /\ time >= A[k].at + PRODUCER_STATE_TTL_SECS
    <3>1. /\ k \in i .. j /\ j \in i .. j /\ k < j
          /\ (k + 1) .. (j - 1) = (k + 1) .. n
      BY <1>2, <1>4, <1>6, <2>2, <2>3
    <3>2. /\ B[k].id = B[j].id /\ B[j].at >= B[k].at + PRODUCER_STATE_TTL_SECS
          /\ \A l \in (k + 1) .. (j - 1) : B[l].id # B[j].id
      BY <1>3, <2>1, <2>3, <2>4, <3>1, Zenon
    <3> QED
      BY <3>1, <3>2, Zenon DEF Forgotten
  <2>5. CASE state = {[epoch |-> A[k].epoch, last_seq |-> A[k].seq, updated_at |-> A[k].at]}
    <3> DEFINE s == [epoch |-> A[k].epoch, last_seq |-> A[k].seq, updated_at |-> A[k].at]
    <3>1. A[k] \in Acceptance /\ A[i] \in Acceptance
      BY <1>2, <2>1
    <3>2. s \in ProducerState /\ s.epoch = A[k].epoch /\ s.last_seq = A[k].seq
      BY <3>1, Zenon DEF Acceptance, ProducerState
    <3>3. \/ p.epoch > A[k].epoch /\ p.seq = 0
          \/ p.epoch = A[k].epoch /\ p.seq = A[k].seq + 1
      BY <2>5, <3>2, AcceptMeans, Zenon
    <3>4. Later(r, A[k])
      <4>1. A[k].epoch \in Nat /\ A[k].seq \in Nat /\ p.epoch \in Nat /\ p.seq \in Nat
        BY <3>1, Zenon DEF Acceptance, Producer
      <4> QED
        BY <1>3, <3>3, <4>1 DEF Later
    <3>5. CASE i = k
      BY <2>1, <2>3, <3>4, <3>5
    <3>6. CASE i < k
      <4>1. Later(A[k], A[i]) \/ Forgotten(A, i, k)
        BY <2>1, <2>3, <3>6 DEF OnceIn
      <4>2. CASE Later(A[k], A[i])
        <5>1. Later(r, A[i])
          BY <1>1, <3>1, <3>4, <4>2, LaterTransitive
        <5> QED
          BY <2>1, <5>1
      <4>3. CASE Forgotten(A, i, k)
        <5>1. /\ \A l \in i .. k : B[l] = A[l]
              /\ k <= j /\ i \in Nat /\ k \in Nat /\ j \in Nat
              /\ B[j].id = A[k].id
          BY <1>2, <1>3, <1>6, <2>1, <2>3
        <5> QED
          BY <2>3, <4>3, <5>1, ForgottenLonger, Zenon
      <4> QED
        BY <4>1, <4>2, <4>3
    <3> QED
      BY <2>1, <2>3, <3>5, <3>6
  <2> QED
    BY <2>2, <2>4, <2>5
<1> QED
  BY <1>2, <1>5, <1>6

(* Accepting a request leaves no gap. *)
LEMMA NoGapAppend ==
    ASSUME NEW A \in Seq(Acceptance), NEW p \in Producer, NEW state, NEW time \in Nat,
           RememberedIn(A, state, p.id, time), check_producer(state, p, FALSE) = "Accept",
           NoGapIn(A)
    PROVE  NoGapIn(Append(A, [id |-> p.id, epoch |-> p.epoch, seq |-> p.seq, at |-> time]))
<1> DEFINE r == [id |-> p.id, epoch |-> p.epoch, seq |-> p.seq, at |-> time]
           B == Append(A, r)
           n == Len(A)
<1>1. r \in Acceptance
  BY DEF Producer, Acceptance
<1>2. /\ Len(B) = n + 1 /\ n \in Nat
      /\ B[n + 1] = r
      /\ \A k \in 1 .. n : B[k] = A[k] /\ A[k] \in Acceptance
  BY <1>1, AppendAcceptance
<1>3. r.id = p.id /\ r.epoch = p.epoch /\ r.seq = p.seq
  OBVIOUS
<1> HIDE DEF B, r
<1>4. SUFFICES ASSUME NEW j \in 1 .. Len(B)
               PROVE  \/ B[j].seq = 0
                      \/ \E i \in 1 .. (j - 1) :
                           /\ B[i].id = B[j].id /\ B[i].epoch = B[j].epoch
                           /\ B[i].seq = B[j].seq - 1
  BY Zenon DEF NoGapIn, B, r
<1>5. CASE j <= n
  <2>1. j \in 1 .. n /\ \A i \in 1 .. j : B[i] = A[i]
    BY <1>2, <1>5
  <2>2. \A i \in 1 .. (j - 1) : B[i] = A[i] /\ B[j] = A[j]
    BY <2>1
  <2>3. \/ A[j].seq = 0
        \/ \E i \in 1 .. (j - 1) : /\ A[i].id = A[j].id /\ A[i].epoch = A[j].epoch
                                   /\ A[i].seq = A[j].seq - 1
    BY <2>1, Zenon DEF NoGapIn
  <2>4. B[j] = A[j]
    BY <2>1
  <2> QED
    BY <2>2, <2>3, <2>4
<1>6. CASE j = n + 1
  <2>1. CASE state = {}
    BY <1>2, <1>3, <1>6, <2>1, AcceptMeans, Zenon
  <2>2. ASSUME NEW k \in 1 .. n, Latest(A, p.id, k),
               state = {[epoch |-> A[k].epoch, last_seq |-> A[k].seq, updated_at |-> A[k].at]}
        PROVE  \/ B[j].seq = 0
               \/ /\ B[k].id = B[j].id /\ B[k].epoch = B[j].epoch
                  /\ B[k].seq = B[j].seq - 1
    <3> DEFINE s == [epoch |-> A[k].epoch, last_seq |-> A[k].seq, updated_at |-> A[k].at]
    <3>1. A[k] \in Acceptance /\ B[k] = A[k] /\ A[k].id = p.id
      BY <1>2, <2>2 DEF Latest
    <3>2. s \in ProducerState /\ s.epoch = A[k].epoch /\ s.last_seq = A[k].seq
      BY <3>1 DEF Acceptance, ProducerState
    <3>3. \/ p.epoch > A[k].epoch /\ p.seq = 0
          \/ p.epoch = A[k].epoch /\ p.seq = A[k].seq + 1
      BY <2>2, <3>2, AcceptMeans, Zenon
    <3>4. A[k].seq \in Nat /\ B[j] = r
      BY <1>2, <1>6, <3>1 DEF Acceptance
    <3>5. p.seq = A[k].seq + 1 => A[k].seq = p.seq - 1
      BY <3>4
    <3> QED
      BY <1>3, <3>1, <3>3, <3>4, <3>5
  <2>3. \A k \in 1 .. n : k \in 1 .. (j - 1)
    BY <1>2, <1>6
  <2> QED
    BY <2>1, <2>2, <2>3 DEF RememberedIn
<1> QED
  BY <1>2, <1>5, <1>6
=============================================================================
