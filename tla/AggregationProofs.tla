--------------------------- MODULE AggregationProofs ---------------------------
(***************************************************************************)
(* Proofs about Aggregation, for every number of buckets and events, every  *)
(* clock bound, shard length and batch size and any number of failures.     *)
(***************************************************************************)
EXTENDS Aggregation, FiniteSetTheorems, WellFoundedInduction, TLAPS

-----------------------------------------------------------------------------
(* Least and greatest numbers, instants and days                            *)

\* A set of natural numbers that is not empty has a least element.
LEMMA LeastNumber ==
  ASSUME NEW S, S \subseteq Nat, S # {}
  PROVE  \E n \in S : \A m \in S : n <= m
<1>. DEFINE R == {ss \in Nat \X Nat : ss[1] < ss[2]}
<1>1. IsWellFoundedOn(R, Nat)
  BY NatLessThanWellFounded DEF OpToRel
<1>2. PICK n \in S : \A m \in S : <<m, n>> \notin R
  <2>. HIDE DEF R
  <2>. QED BY <1>1, WFMin
<1>3. \A m \in S : ~ (m < n)
  BY <1>2
<1>. QED BY <1>3

\* A bounded one has a greatest.
LEMMA GreatestNumber ==
  ASSUME NEW k \in Int, NEW S, S \subseteq Int, \A n \in S : n <= k, S # {}
  PROVE  \E n \in S : \A m \in S : m <= n
<1>. DEFINE D == {k - n : n \in S}
<1>1. D \subseteq Nat /\ D # {}
  <2>1. \A n \in S : k - n \in Nat
    OBVIOUS
  <2>. QED BY <2>1
<1>2. PICK c \in D : \A e \in D : c <= e
  <2>. HIDE DEF D
  <2>. QED BY <1>1, LeastNumber
<1>3. PICK n \in S : c = k - n
  OBVIOUS
<1>4. \A m \in S : k - n <= k - m
  BY <1>2, <1>3
<1>. QED BY <1>4

\* Latest is the greatest of a set of instants.
LEMMA LatestIs ==
  ASSUME NEW S, S \subseteq Times \cup {NoTime}, S # {}
  PROVE  Latest(S) \in S /\ \A u \in S : u <= Latest(S)
<1>1. MaxTime \in Nat
  BY AggregationAssumption
<1>2. Times \cup {NoTime} \subseteq Int /\ \A n \in Times \cup {NoTime} : n <= MaxTime
  BY <1>1 DEF Times, NoTime
<1>3. S \subseteq Int /\ \A n \in S : n <= MaxTime
  BY <1>2
<1>4. MaxTime \in Int
  BY <1>1
<1>5. \E n \in S : \A m \in S : m <= n
  BY <1>3, <1>4, GreatestNumber
<1>. QED BY <1>5 DEF Latest

\* The day of an instant, and the order of days.
LEMMA DayIs ==
  /\ \A t \in Times : Day(t) \in Days
  /\ \A s, t \in Times : s <= t => Day(s) <= Day(t)
<1>1. MaxTime \in Nat /\ DayLength \in Nat /\ DayLength > 0
  BY AggregationAssumption
<1>2. ASSUME NEW s \in Nat, NEW t \in Nat, s <= t
      PROVE  s \div DayLength \in Nat /\ s \div DayLength <= t \div DayLength
  BY <1>1, <1>2
<1>. QED BY <1>1, <1>2 DEF Day, Days, Times

-----------------------------------------------------------------------------
(* Positions of the chunk journal                                           *)

Indexes ==
  [events : SUBSET Events, cursor : [Days -> Nat], current : [Buckets -> Id],
   pending : [Buckets -> [dirty : BOOLEAN, at : Times \cup {NoTime}]],
   built : Versions \cup {NoVersion}]

Places == {p \in Days \X Nat : p[2] \in 1 .. Len(shards[p[1]])}

\* The positions of a bucket behind the cursors of a projection.
LEMMA BehindIs ==
  ASSUME shards \in [Days -> Seq(Revision)], NEW ix \in Indexes, NEW b
  PROVE  Behind(ix, b) = {p \in Places : /\ ix.cursor[p[1]] < p[2]
                                         /\ Revisions(p).id.bucket = b}
<1>1. \A d \in Days : ix.cursor[d] \in Nat /\ Len(shards[d]) \in Nat
  BY DEF Indexes
<1>2. ASSUME NEW p \in Behind(ix, b)
      PROVE  p \in Places /\ ix.cursor[p[1]] < p[2] /\ Revisions(p).id.bucket = b
  <2>1. PICK d \in Days : p \in {d} \X (ix.cursor[d] + 1 .. Len(shards[d]))
    BY <1>2 DEF Behind
  <2>2. Revisions(p).id.bucket = b
    BY <1>2 DEF Behind
  <2>. QED BY <1>1, <2>1, <2>2 DEF Places
<1>3. ASSUME NEW p \in Places, ix.cursor[p[1]] < p[2], Revisions(p).id.bucket = b
      PROVE  p \in Behind(ix, b)
  <2>1. p[1] \in Days /\ p \in {p[1]} \X (ix.cursor[p[1]] + 1 .. Len(shards[p[1]]))
    BY <1>1, <1>3 DEF Places
  <2>. QED BY <1>3, <2>1 DEF Behind
<1>. QED BY <1>2, <1>3

\* The order of positions is total and strict.
LEMMA BeforeIsOrder ==
  ASSUME \A d \in Days : Len(shards[d]) \in Nat
  PROVE  /\ \A p \in Places : ~ Before(p, p)
         /\ \A p, q \in Places : p # q => Before(p, q) \/ Before(q, p)
         /\ \A p, q \in Places : ~ (Before(p, q) /\ Before(q, p))
         /\ \A p, q, r \in Places : Before(p, q) /\ Before(q, r) => Before(p, r)
<1>1. \A p \in Places : p[1] \in Int /\ p[2] \in Int /\ p = <<p[1], p[2]>>
  BY DEF Places, Days
<1>2. \A p, q \in Places : p # q => p[1] # q[1] \/ p[2] # q[2]
  BY <1>1
<1>. QED BY <1>1, <1>2 DEF Before

\* A set of positions that is not empty has a last and a first one.
LEMMA LastIs ==
  ASSUME shards \in [Days -> Seq(Revision)], NEW S, S \subseteq Places, S # {}
  PROVE  LastOf(S) \in S /\ \A q \in S \ {LastOf(S)} : Before(q, LastOf(S))
<1>1. MaxTime \in Nat /\ DayLength \in Nat /\ DayLength > 0
  BY AggregationAssumption
<1>2. \A p \in S : /\ p[1] \in Days /\ p[2] \in Nat /\ p = <<p[1], p[2]>>
                   /\ p[2] <= Len(shards[p[1]])
  BY DEF Places
<1>3. PICK d \in {p[1] : p \in S} : \A e \in {p[1] : p \in S} : e <= d
  <2>1. Day(MaxTime) \in Int /\ Days \subseteq Int /\ \A n \in Days : n <= Day(MaxTime)
    BY <1>1, DayIs DEF Days, Times
  <2>. DEFINE D == {p[1] : p \in S}
  <2>2. D \subseteq Days /\ D # {}
    BY <1>2
  <2>. HIDE DEF D
  <2>3. \E d \in D : \A e \in D : e <= d
    BY <2>1, <2>2, GreatestNumber
  <2>. QED BY <2>3 DEF D
<1>4. PICK i \in {p[2] : p \in {x \in S : x[1] = d}} :
        \A j \in {p[2] : p \in {x \in S : x[1] = d}} : j <= i
  <2>. DEFINE I == {p[2] : p \in {x \in S : x[1] = d}}
  <2>1. d \in Days /\ Len(shards[d]) \in Int
    BY <1>2
  <2>2. I \subseteq Int /\ I # {} /\ \A n \in I : n <= Len(shards[d])
    BY <1>2
  <2>. HIDE DEF I
  <2>3. \E i \in I : \A j \in I : j <= i
    BY <2>1, <2>2, GreatestNumber
  <2>. QED BY <2>3 DEF I
<1>5. PICK p \in S : p[1] = d /\ p[2] = i
  BY <1>4
<1>6. ASSUME NEW q \in S \ {p}
      PROVE  Before(q, p)
  <2>1. q[1] <= d /\ (q[1] = d => q[2] <= i)
    BY <1>3, <1>4
  <2>2. q[1] # p[1] \/ q[2] # p[2]
    BY <1>2
  <2>3. q[1] \in Int /\ q[2] \in Int /\ d \in Int /\ i \in Int
    BY <1>2, <1>5 DEF Days
  <2>. QED BY <1>5, <2>1, <2>2, <2>3 DEF Before
<1>. QED BY <1>6 DEF LastOf

LEMMA FirstIs ==
  ASSUME shards \in [Days -> Seq(Revision)], NEW S, S \subseteq Places, S # {}
  PROVE  \E p \in S : \A q \in S \ {p} : Before(p, q)
<1>2. \A p \in S : p[1] \in Nat /\ p[2] \in Nat /\ p = <<p[1], p[2]>>
  BY DEF Places, Days
<1>3. PICK d \in {p[1] : p \in S} : \A e \in {p[1] : p \in S} : d <= e
  <2>. DEFINE D == {p[1] : p \in S}
  <2>1. D \subseteq Nat /\ D # {}
    BY <1>2
  <2>. HIDE DEF D
  <2>2. \E d \in D : \A e \in D : d <= e
    BY <2>1, LeastNumber
  <2>. QED BY <2>2 DEF D
<1>4. PICK i \in {p[2] : p \in {x \in S : x[1] = d}} :
        \A j \in {p[2] : p \in {x \in S : x[1] = d}} : i <= j
  <2>. DEFINE I == {p[2] : p \in {x \in S : x[1] = d}}
  <2>1. I \subseteq Nat /\ I # {}
    BY <1>2
  <2>. HIDE DEF I
  <2>2. \E i \in I : \A j \in I : i <= j
    BY <2>1, LeastNumber
  <2>. QED BY <2>2 DEF I
<1>5. PICK p \in S : p[1] = d /\ p[2] = i
  BY <1>4
<1>6. ASSUME NEW q \in S \ {p}
      PROVE  Before(p, q)
  <2>1. d <= q[1] /\ (q[1] = d => i <= q[2])
    BY <1>3, <1>4
  <2>2. q[1] # p[1] \/ q[2] # p[2]
    BY <1>2
  <2>3. q[1] \in Int /\ q[2] \in Int /\ d \in Int /\ i \in Int
    BY <1>2, <1>5
  <2>. QED BY <1>5, <2>1, <2>2, <2>3 DEF Before
<1>. QED BY <1>6
-----------------------------------------------------------------------------
(* The projection and its replay                                            *)

Journaled(b) == {e \in logged : b \in In[e]}

\* Every revision is in the shard of its date and covers journaled events of its bucket.
Filed ==
  \A p \in Places :
    /\ Revisions(p).id.bucket \in Buckets
    /\ Revisions(p).id.at \in Times /\ p[1] = Day(Revisions(p).id.at)
    /\ Revisions(p).id.version \in Versions
    /\ Revisions(p).id.input \subseteq Journaled(Revisions(p).id.bucket)

HasReason(r) ==
  /\ r.prior.input \subseteq r.id.input
  /\ r.prior.input # r.id.input \/ r.prior.version # r.id.version

Reasoned == \A p \in Places : HasReason(Revisions(p))

\* The body of StaleIsPending, for any projection.
Noticed(ix, b) ==
  \/ ix.pending[b].dirty
  \/ /\ ix.current[b].input = Members(ix, b)
     /\ ix.built # NoVersion /\ ix.current[b] # None => ix.current[b].version = ix.built

\* What is behind the cursors has the version the projection was prepared for.
Waiting(ix) ==
  ix.built # NoVersion =>
    \A p \in Places : ix.cursor[p[1]] < p[2] => Revisions(p).id.version = ix.built

Sound(ix) ==
  /\ ix \in Indexes
  /\ ix.events \subseteq logged
  /\ \A d \in Days : ix.cursor[d] <= Len(shards[d])
  /\ \A b \in Buckets : ix.current[b].input \subseteq Members(ix, b)
  /\ \A b \in Buckets : Noticed(ix, b)
  /\ Waiting(ix)

AllProjected(ix) == \A d \in Days : ix.cursor[d] = Len(shards[d])

JournalOK ==
  shards \in [Days -> Seq(Revision)] /\ logged \subseteq Events /\ Filed /\ Reasoned

LEMMA IdFields ==
  /\ None \in Id
  /\ None.input = {} /\ None.version = NoVersion /\ None.bucket = 0 /\ None.at = NoTime
BY DEF None, Id

LEMMA RevisionTyped ==
  ASSUME shards \in [Days -> Seq(Revision)], NEW p \in Places
  PROVE  /\ Revisions(p) \in Revision /\ Revisions(p).id \in Id /\ Revisions(p).prior \in Id
         /\ p[1] \in Days /\ p[2] \in 1 .. Len(shards[p[1]])
<1>1. p[1] \in Days /\ p[2] \in 1 .. Len(shards[p[1]]) /\ shards[p[1]] \in Seq(Revision)
  BY DEF Places
<1>2. Revisions(p) \in Revision
  BY <1>1 DEF Revisions
<1>. QED BY <1>1, <1>2 DEF Revision

\* A record with the fields of a projection, changed in two of them.
LEMMA IndexExcept ==
  ASSUME NEW A, NEW B, NEW C, NEW D, NEW E, NEW v, NEW m,
         NEW ix \in [events : A, cursor : B, current : C, pending : D, built : E],
         NEW new, new = [ix EXCEPT !.events = v, !.pending = m]
  PROVE  new = [events |-> v, cursor |-> ix.cursor, current |-> ix.current,
                pending |-> m, built |-> ix.built]
OBVIOUS

\* Indexing events keeps the shape of a projection.
LEMMA IndexEventsIs ==
  ASSUME NEW ix \in Indexes, NEW S, S \subseteq Events
  PROVE  /\ IndexEvents(ix, S) \in Indexes
         /\ IndexEvents(ix, S).events = ix.events \cup S
         /\ IndexEvents(ix, S).cursor = ix.cursor
         /\ IndexEvents(ix, S).current = ix.current
         /\ IndexEvents(ix, S).built = ix.built
         /\ \A b \in Buckets : IndexEvents(ix, S).pending[b] = MarkAfter(ix, S, b)
<1>. DEFINE P == [b \in Buckets |-> MarkAfter(ix, S, b)]
<1>1. IndexEvents(ix, S) = [ix EXCEPT !.events = ix.events \cup S, !.pending = P]
  BY DEF IndexEvents
<1>2. IndexEvents(ix, S) = [events |-> ix.events \cup S, cursor |-> ix.cursor,
                            current |-> ix.current, pending |-> P, built |-> ix.built]
  <2>. DEFINE V == ix.events \cup S
  <2>. HIDE DEF V, P
  <2>1. IndexEvents(ix, S) = [ix EXCEPT !.events = V, !.pending = P]
    BY <1>1 DEF V
  <2>. QED BY <2>1, IndexExcept DEF V, Indexes
<1>3. P \in [Buckets -> [dirty : BOOLEAN, at : Times \cup {NoTime}]]
  <2>1. ASSUME NEW b \in Buckets
        PROVE  MarkAfter(ix, S, b) \in [dirty : BOOLEAN, at : Times \cup {NoTime}]
    <3>1. ix.pending[b] \in [dirty : BOOLEAN, at : Times \cup {NoTime}]
      BY DEF Indexes
    <3>2. [dirty |-> TRUE, at |-> NoTime] \in [dirty : BOOLEAN, at : Times \cup {NoTime}]
      OBVIOUS
    <3>. QED BY <3>1, <3>2 DEF MarkAfter
  <2>. QED BY <2>1
<1>4. \A b \in Buckets : P[b] = MarkAfter(ix, S, b)
  OBVIOUS
<1>. HIDE DEF P
<1>5. IndexEvents(ix, S) \in Indexes
  BY <1>2, <1>3 DEF Indexes
<1>. QED BY <1>2, <1>4, <1>5

\* The fields of a replayed projection.
LEMMA ReplayIs ==
  ASSUME shards \in [Days -> Seq(Revision)], logged \subseteq Events,
         NEW ix \in Indexes, ix.events \subseteq logged
  PROVE  /\ Replay(ix).ix \in Indexes
         /\ Replay(ix).ix.events = logged
         /\ \A d \in Days : Replay(ix).ix.cursor[d] = Len(shards[d])
         /\ \A b \in Buckets :
              Replay(ix).ix.current[b] = CurrentAfter(ix, b, Behind(ix, b))
         /\ Replay(ix).ix.built = ix.built
         /\ \A b \in Buckets :
              Replay(ix).ix.pending[b]
                = IF \E p \in Behind(ix, b) : Revisions(p).id.input = Journaled(b)
                  THEN Unmarked ELSE IndexEvents(ix, logged).pending[b]
<1>. DEFINE indexed == IndexEvents(ix, logged)
            C == [d \in Days |-> Len(shards[d])]
            U == [b \in Buckets |-> CurrentAfter(ix, b, Behind(ix, b))]
            P == [b \in Buckets |-> IF \E p \in Behind(ix, b) : Covers(indexed, Revisions(p))
                                    THEN Unmarked ELSE indexed.pending[b]]
<1>1. /\ indexed \in Indexes /\ indexed.events = logged
      /\ indexed.built = ix.built
  <2>1. ix.events \cup logged = logged
    OBVIOUS
  <2>. QED BY <2>1, IndexEventsIs
<1>2. Replay(ix).ix = [indexed EXCEPT !.cursor = C, !.current = U, !.pending = P]
  BY DEF Replay
<1>3. C \in [Days -> Nat]
  OBVIOUS
<1>4. U \in [Buckets -> Id]
  <2>1. ASSUME NEW b \in Buckets
        PROVE  CurrentAfter(ix, b, Behind(ix, b)) \in Id
    <3>1. Behind(ix, b) \subseteq Places
      BY BehindIs
    <3>2. ix.current[b] \in Id
      BY DEF Indexes
    <3>3. Behind(ix, b) # {} => LastOf(Behind(ix, b)) \in Places
      BY <3>1, LastIs
    <3>. QED BY <3>2, <3>3, RevisionTyped DEF CurrentAfter
  <2>. QED BY <2>1
<1>5. P \in [Buckets -> [dirty : BOOLEAN, at : Times \cup {NoTime}]]
  <2>1. Unmarked \in [dirty : BOOLEAN, at : Times \cup {NoTime}]
    BY DEF Unmarked
  <2>2. \A b \in Buckets : indexed.pending[b] \in [dirty : BOOLEAN, at : Times \cup {NoTime}]
    <3>. HIDE DEF indexed
    <3>. QED BY <1>1 DEF Indexes
  <2>. HIDE DEF indexed
  <2>. QED BY <2>1, <2>2
<1>6. ASSUME NEW b \in Buckets
      PROVE  P[b] = IF \E p \in Behind(ix, b) : Revisions(p).id.input = Journaled(b)
                    THEN Unmarked ELSE indexed.pending[b]
  <2>1. ASSUME NEW p \in Behind(ix, b)
        PROVE  Covers(indexed, Revisions(p)) <=> Revisions(p).id.input = Journaled(b)
    <3>1. Revisions(p).id.bucket = b
      BY BehindIs
    <3>. QED BY <1>1, <3>1 DEF Covers, Members, Journaled
  <2>. HIDE DEF indexed
  <2>. QED BY <2>1
<1>7. /\ \A d \in Days : C[d] = Len(shards[d])
      /\ \A b \in Buckets : U[b] = CurrentAfter(ix, b, Behind(ix, b))
  OBVIOUS
<1>. HIDE DEF C, U, P, indexed
<1>8. Replay(ix).ix = [events |-> logged, cursor |-> C, current |-> U, pending |-> P,
                       built |-> ix.built]
  BY <1>1, <1>2 DEF Indexes
<1>9. ix.built \in Versions \cup {NoVersion}
  BY DEF Indexes
<1>10. Replay(ix).ix \in Indexes
  BY <1>3, <1>4, <1>5, <1>8, <1>9 DEF Indexes
<1>. QED BY <1>6, <1>7, <1>8, <1>10 DEF indexed

\* A replay that is accepted chains the inputs: once a revision covers everything
\* that is journaled, so do those after it.
LEMMA CoverageStays ==
  ASSUME JournalOK, NEW ix \in Indexes, Replay(ix).ok, NEW b \in Buckets,
         NEW p \in Behind(ix, b), Revisions(p).id.input = Journaled(b)
  PROVE  \A q \in Behind(ix, b) : Before(p, q) => Revisions(q).id.input = Journaled(b)
<1>. DEFINE Worse == {q \in Behind(ix, b) : Before(p, q) /\ Revisions(q).id.input # Journaled(b)}
<1>0. shards \in [Days -> Seq(Revision)] /\ Filed /\ Reasoned
  BY DEF JournalOK
<1>1. Behind(ix, b) \subseteq Places /\ \A q \in Behind(ix, b) : Revisions(q).id.bucket = b
  BY <1>0, BehindIs
<1>2. \A d \in Days : Len(shards[d]) \in Nat
  BY <1>0
<1>3. SUFFICES ASSUME Worse # {} PROVE FALSE
  OBVIOUS
<1>4. PICK q \in Worse : \A x \in Worse \ {q} : Before(q, x)
  <2>1. Worse \subseteq Places
    BY <1>1
  <2>. HIDE DEF Worse
  <2>. QED BY <1>0, <1>3, <2>1, FirstIs
<1>. DEFINE S == {x \in Behind(ix, b) : Before(x, q)}
            l == LastOf(S)
<1>5. q \in Behind(ix, b) /\ Before(p, q) /\ Revisions(q).id.input # Journaled(b)
  BY <1>4
<1>6. l \in S /\ \A x \in S \ {l} : Before(x, l)
  <2>1. p \in S /\ S \subseteq Places
    BY <1>1, <1>5
  <2>. HIDE DEF S
  <2>. QED BY <1>0, <2>1, LastIs
<1>7. Revisions(q).prior = Revisions(l).id
  <2>1. Revisions(q).prior = CurrentAfter(ix, b, S)
    BY <1>5 DEF Replay, Follows
  <2>. QED BY <1>6, <2>1 DEF CurrentAfter
<1>8. Revisions(l).id.input = Journaled(b)
  <2>1. CASE l = p
    BY <2>1
  <2>2. CASE l # p
    <3>1. Before(p, l) /\ Before(l, q)
      BY <1>5, <1>6, <2>2
    <3>2. ~ Before(q, l) /\ l # q
      BY <1>1, <1>2, <1>5, <1>6, <3>1, BeforeIsOrder
    <3>3. l \notin Worse
      BY <1>4, <3>2
    <3>. QED BY <1>6, <3>1, <3>3
  <2>. QED BY <2>1, <2>2
<1>9. /\ Revisions(q).prior.input \subseteq Revisions(q).id.input
      /\ Revisions(q).id.input \subseteq Journaled(b)
  BY <1>0, <1>1, <1>5 DEF Filed, Reasoned, HasReason
<1>. QED BY <1>5, <1>7, <1>8, <1>9

\* A sound projection is sound after a replay, and has projected everything.
LEMMA ReplayIsSound ==
  ASSUME JournalOK, NEW ix, Sound(ix), Replay(ix).ok
  PROVE  Sound(Replay(ix).ix) /\ AllProjected(Replay(ix).ix)
<1>. DEFINE R == Replay(ix).ix
<1>0. shards \in [Days -> Seq(Revision)] /\ logged \subseteq Events /\ Filed /\ Reasoned
  BY DEF JournalOK
<1>1. ix \in Indexes /\ ix.events \subseteq logged
  BY DEF Sound
<1>2. /\ R \in Indexes
      /\ R.events = logged
      /\ \A d \in Days : R.cursor[d] = Len(shards[d])
      /\ \A b \in Buckets : R.current[b] = CurrentAfter(ix, b, Behind(ix, b))
      /\ R.built = ix.built
      /\ \A b \in Buckets :
           R.pending[b] = IF \E p \in Behind(ix, b) : Revisions(p).id.input = Journaled(b)
                          THEN Unmarked ELSE IndexEvents(ix, logged).pending[b]
  BY <1>0, <1>1, ReplayIs
<1>. HIDE DEF R
<1>3. \A b \in Buckets : Members(R, b) = Journaled(b)
  BY <1>2 DEF Members, Journaled
<1>4. Waiting(R)
  <2>1. \A p \in Places : ~ (R.cursor[p[1]] < p[2])
    BY <1>0, <1>2, RevisionTyped
  <2>. QED BY <2>1 DEF Waiting
<1>5. ASSUME NEW b \in Buckets
      PROVE  R.current[b].input \subseteq Journaled(b) /\ Noticed(R, b)
  <2>. DEFINE B == Behind(ix, b)
  <2>1. B \subseteq Places /\ \A p \in B : Revisions(p).id.bucket = b /\ ix.cursor[p[1]] < p[2]
    BY <1>0, <1>1, BehindIs
  <2>2. ix.current[b].input \subseteq Members(ix, b) /\ Noticed(ix, b) /\ Waiting(ix)
    BY DEF Sound
  <2>3. Members(ix, b) \subseteq Journaled(b)
    BY <1>1 DEF Members, Journaled
  <2>4. B # {} => /\ LastOf(B) \in B /\ \A q \in B \ {LastOf(B)} : Before(q, LastOf(B))
                  /\ R.current[b] = Revisions(LastOf(B)).id
    <3>. HIDE DEF B
    <3>. QED BY <1>0, <1>2, <2>1, LastIs DEF CurrentAfter, B
  <2>5. B = {} => R.current[b] = ix.current[b]
    BY <1>2 DEF CurrentAfter
  <2>6. R.current[b].input \subseteq Journaled(b)
    BY <1>0, <2>1, <2>2, <2>3, <2>4, <2>5 DEF Filed
  <2>7. R.built # NoVersion /\ B # {} => R.current[b].version = R.built
    BY <1>2, <2>1, <2>2, <2>4 DEF Waiting
  <2>8. CASE \E p \in B : Revisions(p).id.input = Journaled(b)
    <3>1. PICK p \in B : Revisions(p).id.input = Journaled(b)
      BY <2>8
    <3>2. \A q \in B : Before(p, q) => Revisions(q).id.input = Journaled(b)
      BY <1>1, <3>1, CoverageStays
    <3>3. R.current[b].input = Journaled(b)
      BY <2>4, <3>1, <3>2
    <3>. QED BY <1>3, <2>6, <2>7, <3>1, <3>3 DEF Noticed
  <2>9. CASE ~ \E p \in B : Revisions(p).id.input = Journaled(b)
    <3>1. R.pending[b] = IndexEvents(ix, logged).pending[b]
      BY <1>2, <2>9
    <3>2. R.pending[b] = MarkAfter(ix, logged, b)
      BY <1>0, <1>1, <3>1, IndexEventsIs
    <3>3. SUFFICES ASSUME ~ R.pending[b].dirty PROVE Noticed(R, b)
      BY <2>6 DEF Noticed
    <3>4. ~ ix.pending[b].dirty /\ \A e \in logged \ ix.events : b \notin In[e]
      BY <3>2, <3>3 DEF MarkAfter
    <3>5. Members(ix, b) = Journaled(b) /\ ix.current[b].input = Journaled(b)
      BY <1>1, <2>2, <3>4 DEF Members, Journaled, Noticed
    <3>6. B = {}
      <4>1. SUFFICES ASSUME B # {} PROVE FALSE
        OBVIOUS
      <4>2. PICK p \in B : \A q \in B \ {p} : Before(p, q)
        <5>. HIDE DEF B
        <5>. QED BY <1>0, <2>1, <4>1, FirstIs
      <4>3. {q \in B : Before(q, p)} = {}
        <5>1. \A d \in Days : Len(shards[d]) \in Nat
          BY <1>0
        <5>. HIDE DEF B
        <5>. QED BY <2>1, <4>2, <5>1, BeforeIsOrder
      <4>4. Revisions(p).prior = ix.current[b]
        BY <4>2, <4>3 DEF Replay, Follows, CurrentAfter
      <4>5. Journaled(b) \subseteq Revisions(p).id.input /\ Revisions(p).id.input \subseteq Journaled(b)
        BY <1>0, <2>1, <3>5, <4>2, <4>4 DEF Filed, Reasoned, HasReason
      <4>6. Revisions(p).id.input = Journaled(b)
        BY <4>5
      <4>. QED BY <2>9, <4>2, <4>6
    <3>. QED BY <1>2, <1>3, <2>2, <2>5, <3>4, <3>5, <3>6 DEF Noticed
  <2>. QED BY <2>6, <2>8, <2>9
<1>. QED BY <1>0, <1>2, <1>3, <1>4, <1>5 DEF Sound, AllProjected, R

\* An empty projection is sound.
LEMMA EmptyIsSound ==
  ASSUME JournalOK
  PROVE  Sound(EmptyIndex)
<1>0. shards \in [Days -> Seq(Revision)]
  BY DEF JournalOK
<1>1. EmptyIndex \in Indexes
  BY IdFields DEF EmptyIndex, Indexes, Unmarked
<1>2. \A b \in Buckets : Members(EmptyIndex, b) = {} /\ EmptyIndex.current[b] = None
  BY DEF EmptyIndex, Members
<1>3. \A d \in Days : EmptyIndex.cursor[d] = 0 /\ Len(shards[d]) \in Nat
  BY <1>0 DEF EmptyIndex
<1>4. EmptyIndex.built = NoVersion /\ EmptyIndex.events = {}
  BY DEF EmptyIndex
<1>5. Waiting(EmptyIndex)
  BY <1>4 DEF Waiting
<1>6. \A b \in Buckets : Noticed(EmptyIndex, b)
  BY <1>2, <1>4, IdFields DEF Noticed
<1>7. \A b \in Buckets : EmptyIndex.current[b].input \subseteq Members(EmptyIndex, b)
  BY <1>2, IdFields
<1>. QED BY <1>1, <1>3, <1>4, <1>5, <1>6, <1>7 DEF Sound

\* So is the projection that recovery ends with.
LEMMA RecoveredIsSound ==
  ASSUME JournalOK, Sound(index), Recovered.ok
  PROVE  Sound(Recovered.ix) /\ AllProjected(Recovered.ix)
<1>1. CASE Replay(index).ok
  BY <1>1, ReplayIsSound DEF Recovered
<1>2. CASE ~ Replay(index).ok
  BY <1>2, EmptyIsSound, ReplayIsSound DEF Recovered
<1>. QED BY <1>1, <1>2
-----------------------------------------------------------------------------
(* The inductive invariant                                                  *)

Plain ==
  /\ now \in Times /\ peak \in now .. MaxTime
  /\ version \in Versions
  /\ recorded \in [Events -> Times \cup {NoTime}]
  /\ open \subseteq Events
  /\ pc \in {"down", "up", "index", "begin", "chunks", "project"}
  /\ call \in [at : Times \cup {NoTime}, event : SUBSET Events,
               startup : BOOLEAN, covered : BOOLEAN]
  /\ batch \subseteq Buckets /\ lagging \in BOOLEAN /\ faults \in Nat
  /\ pc \in {"index", "begin", "chunks", "project"} => call.at # NoTime
  /\ \A e \in open \cup logged : recorded[e] \in Times
  /\ call.event \subseteq logged

\* The projection a finalize_due works with is of the version that runs; before that
\* it either is or has nothing to project.
PreparedFor ==
  /\ pc \in {"chunks", "project"} => index.built = version
  /\ pc \in {"up", "index", "begin"} => index.built = version \/ AllProjected(index)

\* The revision to be projected is in the journal.
Placed ==
  pc = "project" =>
    \A b \in Buckets : Turn("project", b) =>
      ~ Stands(b) /\ \E p \in Places : Revisions(p) = Chunk(b)

\* What is due and not in the batch of a startup that ends with it has to wait.
Finishing ==
  /\ call.startup => pc \in {"begin", "chunks", "project"}
  /\ call.startup /\ call.covered /\ pc \in {"chunks", "project"} =>
       \A b \in Buckets \ batch :
         index.pending[b].dirty /\ Due[b] <= call.at => call.at < GeneratedAt(b)

AggregationInv ==
  Plain /\ JournalOK /\ Sound(index) /\ PreparedFor /\ Placed /\ Finishing

LEMMA InitInv == Init => AggregationInv
<1>. SUFFICES ASSUME Init PROVE AggregationInv
  OBVIOUS
<1>1. MaxTime \in Nat /\ First \in Versions
  BY AggregationAssumption
<1>2. NoCall \in [at : Times \cup {NoTime}, event : SUBSET Events,
                  startup : BOOLEAN, covered : BOOLEAN]
  BY DEF NoCall
<1>3. Plain
  <2>1. now \in Times /\ peak \in now .. MaxTime /\ version \in Versions
    BY <1>1 DEF Init, Times
  <2>2. recorded \in [Events -> Times \cup {NoTime}] /\ open = {} /\ logged = {}
    BY DEF Init
  <2>3. /\ pc = "down" /\ batch = {} /\ lagging \in BOOLEAN /\ faults \in Nat
        /\ call = NoCall /\ call.event = {}
    BY DEF Init, NoCall
  <2>. QED BY <1>2, <2>1, <2>2, <2>3 DEF Plain
<1>4. shards \in [Days -> Seq(Revision)] /\ \A d \in Days : shards[d] = <<>>
  BY DEF Init
<1>5. Places = {}
  BY <1>4 DEF Places
<1>6. JournalOK
  BY <1>4, <1>5 DEF JournalOK, Filed, Reasoned, Init
<1>7. Sound(index)
  BY <1>6, EmptyIsSound DEF Init
<1>. QED
  BY <1>3, <1>6, <1>7 DEF AggregationInv, PreparedFor, Placed, Finishing, Init, NoCall

-----------------------------------------------------------------------------
(* Revisions and their instants                                             *)

LEMMA GeneratedAtIs ==
  ASSUME Plain, JournalOK, Sound(index), NEW b \in Buckets, ~ Stands(b)
  PROVE  GeneratedAt(b) \in Times
<1>. DEFINE S == {Due[b]} \cup {recorded[e] : e \in Members(index, b)}
                 \cup (IF index.current[b].input = Members(index, b)
                       THEN {index.pending[b].at} ELSE {})
<1>1. Due[b] \in Times /\ Due[b] > NoTime
  BY AggregationAssumption DEF Times, NoTime
<1>2. \A e \in Members(index, b) : recorded[e] \in Times
  BY DEF Members, Plain, Sound
<1>3. index.pending[b].at \in Times \cup {NoTime}
  BY DEF Sound, Indexes
<1>4. S \subseteq Times \cup {NoTime} /\ Due[b] \in S
  <2>1. CASE index.current[b].input = Members(index, b)
    BY <1>1, <1>2, <1>3, <2>1
  <2>2. CASE index.current[b].input # Members(index, b)
    BY <1>1, <1>2, <2>2
  <2>. QED BY <2>1, <2>2
<1>5. GeneratedAt(b) = Latest(S)
  BY DEF GeneratedAt
<1>. HIDE DEF S
<1>6. Latest(S) \in S /\ Due[b] <= Latest(S)
  BY <1>4, LatestIs
<1>7. Latest(S) # NoTime
  BY <1>1, <1>4, <1>6 DEF NoTime, Times
<1>. QED BY <1>4, <1>5, <1>6, <1>7

\* The revision that build_chunk returns can be filed.
LEMMA ChunkIs ==
  ASSUME Plain, JournalOK, Sound(index), NEW b \in Buckets, ~ Stands(b)
  PROVE  /\ Chunk(b) \in Revision /\ HasReason(Chunk(b))
         /\ Chunk(b).id.bucket = b /\ Chunk(b).id.at \in Times
         /\ Day(Chunk(b).id.at) \in Days
         /\ Chunk(b).id.version = version
         /\ Chunk(b).id.input = Members(index, b)
         /\ Members(index, b) \subseteq Journaled(b)
         /\ Chunk(b).prior = index.current[b]
<1>1. GeneratedAt(b) \in Times
  BY GeneratedAtIs
<1>2. /\ Chunk(b).id = [bucket |-> b, input |-> Members(index, b), version |-> version,
                        at |-> GeneratedAt(b)]
      /\ Chunk(b).prior = index.current[b]
      /\ Chunk(b) = [id |-> Chunk(b).id, prior |-> Chunk(b).prior]
  BY DEF Chunk
<1>3. Members(index, b) \subseteq Journaled(b)
  BY DEF Sound, Members, Journaled
<1>4. Chunk(b).id \in Id
  BY <1>1, <1>2, <1>3 DEF Id, Plain, Journaled, JournalOK
<1>5. index.current[b] \in Id /\ index.current[b].input \subseteq Members(index, b)
  BY DEF Sound, Indexes
<1>6. Chunk(b) \in Revision
  BY <1>2, <1>4, <1>5 DEF Revision
<1>7. HasReason(Chunk(b))
  <2>1. CASE index.current[b] = None
    <3>1. version # NoVersion
      BY AggregationAssumption DEF Plain
    <3>. QED BY <1>2, <1>5, <2>1, <3>1, IdFields DEF HasReason
  <2>2. CASE index.current[b] # None
    BY <1>2, <1>5, <2>2 DEF HasReason, Stands
  <2>. QED BY <2>1, <2>2
<1>8. Day(GeneratedAt(b)) \in Days
  BY <1>1, DayIs
<1>. QED BY <1>1, <1>2, <1>3, <1>6, <1>7, <1>8
-----------------------------------------------------------------------------
(* The variables have their types                                           *)

LEMMA NoCallIs ==
  /\ NoCall \in [at : Times \cup {NoTime}, event : SUBSET Events,
                 startup : BOOLEAN, covered : BOOLEAN]
  /\ NoCall.event = {} /\ ~ NoCall.startup
BY DEF NoCall

LEMMA PlainStep ==
  ASSUME AggregationInv, [Next]_vars
  PROVE  Plain'
<1>0. Plain /\ JournalOK /\ Sound(index)
  BY DEF AggregationInv
<1>1. MaxTime \in Nat
  BY AggregationAssumption
<1>. USE NoCallIs DEF Plain
<1>. USE DEF clock, journal, engine
<1>2. CASE UNCHANGED vars
  BY <1>0, <1>2 DEF vars
<1>3. CASE Start
  <2>1. call' \in [at : Times \cup {NoTime}, event : SUBSET Events,
                   startup : BOOLEAN, covered : BOOLEAN]
        /\ call'.at = now /\ call'.event = {}
    BY <1>0, <1>3 DEF Start, NoCall
  <2>2. now # NoTime
    BY <1>0 DEF Times, NoTime
  <2>. QED BY <1>0, <1>3, <2>1, <2>2 DEF Start
<1>4. ASSUME NEW e \in Events, Record(e) PROVE Plain'
  <2>1. PICK t \in {now, peak} : recorded' = [recorded EXCEPT ![e] = t]
    BY <1>4 DEF Record
  <2>2. t \in Times
    BY <1>0, <1>1, <2>1 DEF Times
  <2>3. /\ recorded' \in [Events -> Times \cup {NoTime}]
        /\ \A x \in Events : recorded'[x] = IF x = e THEN t ELSE recorded[x]
    BY <1>0, <2>1, <2>2
  <2>4. \A x \in open' \cup logged' : recorded'[x] \in Times
    <3>1. open' = open \cup {e} /\ logged' = logged /\ logged \subseteq Events
      BY <1>0, <1>4 DEF Record, JournalOK
    <3>. QED BY <1>0, <2>2, <2>3, <3>1
  <2>. QED BY <1>0, <1>4, <2>3, <2>4 DEF Record
<1>5. ASSUME NEW e \in Events, Admitted(e), Log(e),
             UNCHANGED <<clock, version, recorded, open, batch, faults>>, lagging' \in BOOLEAN
      PROVE  Plain'
  <2>1. e \in open /\ recorded[e] \in Times /\ now \in Int
    BY <1>0, <1>5 DEF Admitted, Times
  <2>2. IngestTime(e) \in Times
    BY <1>0, <2>1 DEF IngestTime, Later
  <2>3. NoTime \notin Times
    BY <1>1 DEF Times, NoTime
  <2>4. /\ call' \in [at : Times \cup {NoTime}, event : SUBSET Events,
                      startup : BOOLEAN, covered : BOOLEAN]
        /\ call'.event = {e} /\ pc' = "index" /\ logged' = logged \cup {e} /\ call'.at = IngestTime(e)
    BY <1>5, <2>2 DEF Log, NoCall
  <2>. QED BY <1>0, <1>5, <2>1, <2>2, <2>3, <2>4
<1>6. ASSUME NEW e \in Events, Ingest(e) PROVE Plain'
  BY <1>5, <1>6 DEF Ingest
<1>7. ASSUME NEW e \in Events, Retain(e) PROVE Plain'
  BY <1>0, <1>5, <1>7 DEF Retain
<1>8. CASE IndexEvent
  BY <1>0, <1>8 DEF IndexEvent
<1>9. CASE IndexEventFails
  <2>1. /\ pc' = "up" /\ call' = NoCall /\ batch' = {} /\ open' \subseteq open
        /\ lagging' \in BOOLEAN
    BY <1>9 DEF IndexEventFails, Return
  <2>2. faults' \in Nat
    BY <1>0, <1>9 DEF IndexEventFails, Fault
  <2>. QED BY <1>0, <1>9, <2>1, <2>2 DEF IndexEventFails
<1>10. CASE Begin
  <2>1. batch' \subseteq Buckets
    BY <1>10 DEF Begin, DueBuckets
  <2>2. \E c \in BOOLEAN : call' = [call EXCEPT !.covered = c]
    <3>1. (Cardinality(DueBuckets(Prepared)) <= BatchSize) \in BOOLEAN
      OBVIOUS
    <3>. QED BY <1>10, <3>1 DEF Begin
  <2>3. /\ call' \in [at : Times \cup {NoTime}, event : SUBSET Events,
                      startup : BOOLEAN, covered : BOOLEAN]
        /\ call'.at = call.at /\ call'.event = call.event
    BY <1>0, <2>2
  <2>. QED BY <1>0, <1>10, <2>1, <2>3 DEF Begin
<1>11. ASSUME NEW b \in Buckets, Skip(b) PROVE Plain'
  BY <1>0, <1>11 DEF Skip, Turn
<1>12. ASSUME NEW b \in Buckets, AlreadyCurrent(b) PROVE Plain'
  BY <1>0, <1>12 DEF AlreadyCurrent, Turn
<1>13. ASSUME NEW b \in Buckets, AppendChunk(b) PROVE Plain'
  BY <1>0, <1>13 DEF AppendChunk, Turn
<1>14. ASSUME NEW b \in Buckets, ProjectChunk(b) PROVE Plain'
  BY <1>0, <1>14 DEF ProjectChunk, Turn
<1>15. ASSUME Fails, UNCHANGED <<clock, version, recorded, journal>>, faults' \in Nat
       PROVE  Plain'
  <2>1. /\ pc' \in {"up", "down"} /\ call' = NoCall /\ batch' = {}
        /\ open' \subseteq open /\ lagging' \in BOOLEAN
    BY <1>15 DEF Fails, Return
  <2>. QED BY <1>0, <1>15, <2>1
<1>16. CASE AppendRejected
  BY <1>0, <1>15, <1>16 DEF AppendRejected
<1>17. CASE ProjectRejected
  <2>1. faults' \in Nat
    BY <1>0, <1>17 DEF ProjectRejected, Fault
  <2>. QED BY <1>15, <1>17, <2>1 DEF ProjectRejected
<1>18. CASE EndBatch
  <2>1. \/ pc' = "begin" /\ UNCHANGED <<call, batch, open>>
        \/ pc' = "up" /\ call' = NoCall /\ batch' = {} /\ open' \subseteq open
    BY <1>18 DEF EndBatch, Return
  <2>. QED BY <1>0, <1>18, <2>1 DEF EndBatch
<1>19. CASE Tick
  <2>1. now' \in Times /\ peak' \in now' .. MaxTime
    BY <1>0, <1>1, <1>19 DEF Tick, Times, Later
  <2>. QED BY <1>0, <1>19, <2>1 DEF Tick
<1>20. CASE Rollback
  <2>1. now' \in Times /\ peak' \in now' .. MaxTime
    BY <1>0, <1>1, <1>20 DEF Rollback, Times
  <2>. QED BY <1>0, <1>20, <2>1 DEF Rollback, Fault
<1>21. ASSUME Quit, faults' \in Nat PROVE Plain'
  <2>1. recorded' \in [Events -> Times \cup {NoTime}]
    BY <1>0, <1>21 DEF Quit
  <2>2. \A e \in open' \cup logged' : recorded'[e] \in Times
    <3>1. open' = open \cap Gaps /\ logged' = logged /\ logged \subseteq Events
      BY <1>0, <1>21 DEF Quit, JournalOK
    <3>2. \A e \in open' \cup logged' : recorded'[e] = recorded[e]
      BY <1>0, <1>21, <3>1 DEF Quit
    <3>. QED BY <1>0, <3>1, <3>2
  <2>. QED BY <1>0, <1>21, <2>1, <2>2 DEF Quit
<1>22. CASE Close
  BY <1>0, <1>21, <1>22 DEF Close
<1>23. CASE Crash
  BY <1>0, <1>21, <1>23 DEF Crash, Fault
<1>24. CASE Upgrade
  BY <1>0, <1>24 DEF Upgrade, Fault
<1>25. CASE LoseIndex
  BY <1>0, <1>25 DEF LoseIndex, Fault
<1>. QED
  BY <1>2, <1>3, <1>4, <1>6, <1>7, <1>8, <1>9, <1>10, <1>11, <1>12, <1>13, <1>14, <1>16,
     <1>17, <1>18, <1>19, <1>20, <1>22, <1>23, <1>24, <1>25 DEF Next, Step
-----------------------------------------------------------------------------
(* The journals                                                             *)

\* The journal of events may grow.
LEMMA JournalGrows ==
  ASSUME JournalOK, shards' = shards, logged \subseteq logged', logged' \subseteq Events
  PROVE  JournalOK' /\ Places' = Places /\ \A p : Revisions(p)' = Revisions(p)
<1>1. Places' = Places /\ \A p : Revisions(p)' = Revisions(p)
  BY DEF Places, Revisions
<1>2. \A b : Journaled(b) \subseteq Journaled(b)'
  BY DEF Journaled
<1>3. Filed'
  BY <1>1, <1>2 DEF JournalOK, Filed
<1>4. Reasoned'
  BY <1>1 DEF JournalOK, Reasoned, HasReason
<1>. QED BY <1>1, <1>3, <1>4 DEF JournalOK

\* The positions after a revision was appended to the shard of day d.
LEMMA AppendIs ==
  ASSUME shards \in [Days -> Seq(Revision)], NEW d \in Days, NEW r \in Revision,
         NEW n, n = Len(shards[d]) + 1,
         shards' = [shards EXCEPT ![d] = Append(@, r)]
  PROVE  /\ shards' \in [Days -> Seq(Revision)]
         /\ Places' = Places \cup {<<d, n>>}
         /\ \A p \in Places : Revisions(p)' = Revisions(p)
         /\ Revisions(<<d, n>>)' = r
         /\ \A x \in Days : Len(shards'[x]) = IF x = d THEN Len(shards[d]) + 1 ELSE Len(shards[x])
<1>1. /\ shards[d] \in Seq(Revision) /\ Len(shards[d]) \in Nat
      /\ Append(shards[d], r) \in Seq(Revision)
      /\ Len(Append(shards[d], r)) = Len(shards[d]) + 1
      /\ \A i \in 1 .. Len(shards[d]) : Append(shards[d], r)[i] = shards[d][i]
      /\ Append(shards[d], r)[Len(shards[d]) + 1] = r
  OBVIOUS
<1>2. \A x \in Days : shards'[x] = IF x = d THEN Append(shards[d], r) ELSE shards[x]
  OBVIOUS
<1>3. shards' \in [Days -> Seq(Revision)]
  BY <1>1
<1>4. \A x \in Days : Len(shards'[x]) = IF x = d THEN Len(shards[d]) + 1 ELSE Len(shards[x])
  BY <1>1, <1>2
<1>5. \A p \in Places : p \in Places' /\ Revisions(p)' = Revisions(p)
  <2>. TAKE p \in Places
  <2>1. p \in Days \X Nat /\ p[1] \in Days /\ p[2] \in 1 .. Len(shards[p[1]])
    BY DEF Places
  <2>2. CASE p[1] = d
    BY <1>1, <1>2, <1>4, <2>1, <2>2 DEF Places, Revisions
  <2>3. CASE p[1] # d
    BY <1>2, <1>4, <2>1, <2>3 DEF Places, Revisions
  <2>. QED BY <2>2, <2>3
<1>6. /\ <<d, n>> \in Places'
      /\ Revisions(<<d, n>>)' = r
  <2>1. n \in Nat /\ n \in 1 .. Len(shards'[d]) /\ shards'[d][n] = r
    BY <1>1, <1>2, <1>4
  <2>2. <<d, n>> \in Days \X Nat /\ <<d, n>>[1] = d /\ <<d, n>>[2] = n
    BY <2>1
  <2>. QED BY <2>1, <2>2 DEF Places, Revisions
<1>7. ASSUME NEW p \in Places', p \notin Places
      PROVE  p = <<d, n>>
  <2>1. /\ p \in Days \X Nat /\ p[1] \in Days /\ p[2] \in Nat /\ p = <<p[1], p[2]>>
        /\ p[2] \in 1 .. Len(shards'[p[1]])
    BY DEF Places
  <2>2. p[2] \notin 1 .. Len(shards[p[1]])
    BY <1>7, <2>1 DEF Places
  <2>3. p[1] = d /\ p[2] = Len(shards[d]) + 1
    BY <1>1, <1>4, <2>1, <2>2
  <2>. QED BY <2>1, <2>3
<1>. QED BY <1>3, <1>4, <1>5, <1>6, <1>7

\* An append of the revision of a bucket keeps the journals in order.
LEMMA AppendKeepsJournal ==
  ASSUME Plain, JournalOK, Sound(index), NEW b \in Buckets, AppendChunk(b)
  PROVE  JournalOK'
<1>0. ~ Stands(b) /\ logged' = logged
  BY DEF AppendChunk
<1>. PICK r \in {Chunk(b)} : r = Chunk(b)
  OBVIOUS
<1>. PICK d \in {Day(r.id.at)} : d = Day(r.id.at)
  OBVIOUS
<1>1. /\ r \in Revision /\ HasReason(r)
      /\ r.id.bucket = b /\ r.id.at \in Times /\ d \in Days
      /\ r.id.version = version /\ r.id.input \subseteq Journaled(b)
  BY <1>0, ChunkIs
<1>2. CASE shards' = shards
  BY <1>0, <1>2, JournalGrows DEF JournalOK
<1>3. CASE shards' = [shards EXCEPT ![d] = Append(@, r)]
  <2>. PICK n \in {Len(shards[d]) + 1} : n = Len(shards[d]) + 1
    OBVIOUS
  <2>1. shards \in [Days -> Seq(Revision)] /\ Filed /\ Reasoned /\ logged \subseteq Events
    BY DEF JournalOK
  <2>2. /\ shards' \in [Days -> Seq(Revision)]
        /\ Places' = Places \cup {<<d, n>>}
        /\ \A p \in Places : Revisions(p)' = Revisions(p)
        /\ Revisions(<<d, n>>)' = r
    BY <1>1, <1>3, <2>1, AppendIs
  <2>3. \A x : Journaled(x)' = Journaled(x)
    BY <1>0 DEF Journaled
  <2>4. <<d, n>>[1] = d
    OBVIOUS
  <2>5. Filed'
    <3>. SUFFICES ASSUME NEW p \in Places'
         PROVE  /\ Revisions(p)'.id.bucket \in Buckets
                /\ Revisions(p)'.id.at \in Times /\ p[1] = Day(Revisions(p)'.id.at)
                /\ Revisions(p)'.id.version \in Versions
                /\ Revisions(p)'.id.input \subseteq Journaled(Revisions(p)'.id.bucket)
      BY <2>3 DEF Filed
    <3>1. CASE p \in Places
      BY <2>1, <2>2, <3>1 DEF Filed
    <3>2. CASE p = <<d, n>>
      <4>1. Revisions(p)' = r /\ p[1] = d
        BY <2>2, <2>4, <3>2
      <4>. QED BY <1>1, <4>1 DEF Plain
    <3>. QED BY <2>2, <3>1, <3>2
  <2>6. Reasoned'
    <3>. SUFFICES ASSUME NEW p \in Places' PROVE HasReason(Revisions(p)')
      BY DEF Reasoned, HasReason
    <3>1. CASE p \in Places
      BY <2>1, <2>2, <3>1 DEF Reasoned
    <3>2. CASE p = <<d, n>>
      BY <1>1, <2>2, <3>2
    <3>. QED BY <2>2, <3>1, <3>2
  <2>. QED BY <1>0, <2>1, <2>2, <2>5, <2>6 DEF JournalOK
<1>. QED BY <1>2, <1>3 DEF AppendChunk

LEMMA JournalStep ==
  ASSUME AggregationInv, [Next]_vars
  PROVE  JournalOK'
<1>0. Plain /\ JournalOK /\ Sound(index) /\ logged \subseteq Events
  BY DEF AggregationInv, JournalOK
<1>1. ASSUME UNCHANGED journal PROVE JournalOK'
  BY <1>0, <1>1, JournalGrows DEF journal
<1>2. ASSUME NEW e \in Events, Log(e), shards' = shards PROVE JournalOK'
  BY <1>0, <1>2, JournalGrows DEF Log
<1>3. ASSUME NEW e \in Events, Ingest(e) \/ Retain(e) PROVE JournalOK'
  BY <1>2, <1>3 DEF Ingest, Retain, journal
<1>4. ASSUME NEW b \in Buckets, AppendChunk(b) PROVE JournalOK'
  BY <1>0, <1>4, AppendKeepsJournal
<1>. QED
  BY <1>1, <1>3, <1>4
     DEF Next, Step, vars, Start, Record, IndexEvent, IndexEventFails, Begin, Skip,
         AlreadyCurrent, ProjectChunk, AppendRejected, ProjectRejected, EndBatch, Tick,
         Rollback, Close, Crash, Quit, Upgrade, LoseIndex
-----------------------------------------------------------------------------
(* The projection stays sound                                               *)

\* A sound projection that becomes the index while the event journal may grow.
LEMMA SoundAfter ==
  ASSUME JournalOK, shards' = shards, logged \subseteq logged', logged' \subseteq Events,
         NEW c, Sound(c), index' = c
  PROVE  Sound(index)'
<1>1. Places' = Places /\ \A p : Revisions(p)' = Revisions(p)
  BY JournalGrows
<1>2. c \in Indexes /\ c.events \subseteq logged
      /\ (\A d \in Days : c.cursor[d] <= Len(shards[d]))
      /\ (\A b \in Buckets : c.current[b].input \subseteq Members(c, b))
      /\ (\A b \in Buckets : Noticed(c, b)) /\ Waiting(c)
  BY DEF Sound
<1>3. Waiting(index)'
  BY <1>1, <1>2 DEF Waiting
<1>4. \A b \in Buckets : Members(index, b)' = Members(c, b)
  BY DEF Members
<1>5. \A b \in Buckets : Noticed(index, b)'
  BY <1>2, <1>4 DEF Noticed
<1>6. (\A b \in Buckets : index.current[b].input \subseteq Members(index, b))'
  BY <1>2, <1>4
<1>7. (\A d \in Days : index.cursor[d] <= Len(shards[d]))' /\ (index \in Indexes)'
      /\ (index.events \subseteq logged)'
  BY <1>2 DEF Indexes
<1>. QED BY <1>3, <1>5, <1>6, <1>7 DEF Sound

LEMMA IndexEventsSound ==
  ASSUME JournalOK, Sound(index), NEW S, S \subseteq logged
  PROVE  /\ Sound(IndexEvents(index, S))
         /\ IndexEvents(index, S).cursor = index.cursor
         /\ IndexEvents(index, S).built = index.built
<1>. PICK new \in {IndexEvents(index, S)} : new = IndexEvents(index, S)
  OBVIOUS
<1>1. /\ index \in Indexes /\ index.events \subseteq logged /\ S \subseteq Events
      /\ (\A d \in Days : index.cursor[d] <= Len(shards[d]))
      /\ (\A b \in Buckets : index.current[b].input \subseteq Members(index, b))
      /\ (\A b \in Buckets : Noticed(index, b)) /\ Waiting(index)
  BY DEF Sound, JournalOK
<1>2. /\ new \in Indexes /\ new.events = index.events \cup S /\ new.cursor = index.cursor
      /\ new.current = index.current /\ new.built = index.built
      /\ \A b \in Buckets : new.pending[b] = MarkAfter(index, S, b)
  BY <1>1, IndexEventsIs
<1>3. ASSUME NEW b \in Buckets
      PROVE  new.current[b].input \subseteq Members(new, b) /\ Noticed(new, b)
  <2>1. Members(index, b) \subseteq Members(new, b)
    BY <1>2 DEF Members
  <2>2. CASE \A e \in S \ index.events : b \notin In[e]
    <3>1. Members(index, b) = Members(new, b)
      BY <1>2, <2>2 DEF Members
    <3>2. new.pending[b] = index.pending[b]
      BY <1>2, <2>2 DEF MarkAfter
    <3>. QED BY <1>1, <1>2, <3>1, <3>2 DEF Noticed
  <2>3. CASE ~ \A e \in S \ index.events : b \notin In[e]
    <3>1. new.pending[b].dirty
      BY <1>2, <2>3 DEF MarkAfter
    <3>. QED BY <1>1, <1>2, <2>1, <3>1 DEF Noticed
  <2>. QED BY <2>2, <2>3
<1>4. Waiting(new)
  BY <1>1, <1>2 DEF Waiting
<1>. QED BY <1>1, <1>2, <1>3, <1>4 DEF Sound

\* prepare_aggregation_build marks what is of another version.
LEMMA PreparedSound ==
  ASSUME Plain, JournalOK, Sound(index), index.built = version \/ AllProjected(index)
  PROVE  /\ Sound(Prepared) /\ Prepared.built = version
         /\ Prepared.cursor = index.cursor /\ Prepared.current = index.current
<1>1. CASE index.built = version
  BY <1>1 DEF Prepared
<1>2. CASE index.built # version
  <2>. DEFINE mark(b) == IF index.current[b] = None \/ index.current[b].version = version
                         THEN index.pending[b] ELSE [dirty |-> TRUE, at |-> call.at]
              P == [b \in Buckets |-> mark(b)]
  <2>. PICK new \in {Prepared} : new = Prepared
    OBVIOUS
  <2>1. /\ index \in Indexes /\ index.events \subseteq logged
        /\ (\A d \in Days : index.cursor[d] <= Len(shards[d]))
        /\ (\A b \in Buckets : index.current[b].input \subseteq Members(index, b))
        /\ (\A b \in Buckets : Noticed(index, b)) /\ AllProjected(index)
    BY <1>2 DEF Sound
  <2>2. new = [index EXCEPT !.built = version, !.pending = P]
    BY <1>2 DEF Prepared
  <2>3. P \in [Buckets -> [dirty : BOOLEAN, at : Times \cup {NoTime}]]
    <3>1. ASSUME NEW b \in Buckets
          PROVE  mark(b) \in [dirty : BOOLEAN, at : Times \cup {NoTime}]
      <4>1. index.pending[b] \in [dirty : BOOLEAN, at : Times \cup {NoTime}]
        BY <2>1 DEF Indexes
      <4>2. [dirty |-> TRUE, at |-> call.at] \in [dirty : BOOLEAN, at : Times \cup {NoTime}]
        BY DEF Plain
      <4>. QED BY <4>1, <4>2
    <3>. QED BY <3>1
  <2>4. \A b \in Buckets : P[b] = mark(b)
    OBVIOUS
  <2>. HIDE DEF P
  <2>5. new = [events |-> index.events, cursor |-> index.cursor, current |-> index.current,
               pending |-> P, built |-> version]
    BY <2>1, <2>2 DEF Indexes
  <2>6. new \in Indexes
    BY <2>1, <2>3, <2>5 DEF Indexes, Plain
  <2>7. ASSUME NEW b \in Buckets
        PROVE  new.current[b].input \subseteq Members(new, b) /\ Noticed(new, b)
    <3>1. Members(new, b) = Members(index, b)
      BY <2>5 DEF Members
    <3>2. CASE index.current[b] = None \/ index.current[b].version = version
      BY <2>1, <2>4, <2>5, <3>1, <3>2 DEF Noticed
    <3>3. CASE ~ (index.current[b] = None \/ index.current[b].version = version)
      BY <2>1, <2>4, <2>5, <3>1, <3>3 DEF Noticed
    <3>. QED BY <3>2, <3>3
  <2>8. Waiting(new)
    <3>1. \A p \in Places : ~ (new.cursor[p[1]] < p[2])
      BY <2>1, <2>5, RevisionTyped DEF AllProjected, JournalOK
    <3>. QED BY <3>1 DEF Waiting
  <2>. QED BY <2>1, <2>5, <2>6, <2>7, <2>8 DEF Sound
<1>. QED BY <1>1, <1>2

\* A mark goes when the current revision covers the bucket and has the version.
LEMMA CleanSound ==
  ASSUME JournalOK, NEW ix, NEW b \in Buckets,
         ix \in Indexes, ix.events \subseteq logged,
         \A d \in Days : ix.cursor[d] <= Len(shards[d]),
         \A x \in Buckets : ix.current[x].input \subseteq Members(ix, x),
         \A x \in Buckets \ {b} : Noticed(ix, x), Waiting(ix),
         ix.current[b].input = Members(ix, b),
         ix.built # NoVersion => ix.current[b].version = ix.built
  PROVE  Sound(Clean(ix, b))
<1>. PICK new \in {Clean(ix, b)} : new = Clean(ix, b)
  OBVIOUS
<1>. PICK P \in {[ix.pending EXCEPT ![b] = Unmarked]} : P = [ix.pending EXCEPT ![b] = Unmarked]
  OBVIOUS
<1>1. new = [ix EXCEPT !.pending = P]
  BY DEF Clean, Indexes
<1>2. ix.pending \in [Buckets -> [dirty : BOOLEAN, at : Times \cup {NoTime}]]
  BY DEF Indexes
<1>3. Unmarked \in [dirty : BOOLEAN, at : Times \cup {NoTime}] /\ ~ Unmarked.dirty
  BY DEF Unmarked
<1>4. /\ P \in [Buckets -> [dirty : BOOLEAN, at : Times \cup {NoTime}]]
      /\ \A x \in Buckets : P[x] = IF x = b THEN Unmarked ELSE ix.pending[x]
  BY <1>2, <1>3
<1>5. new = [events |-> ix.events, cursor |-> ix.cursor, current |-> ix.current,
             pending |-> P, built |-> ix.built]
  BY <1>1 DEF Indexes
<1>6. new \in Indexes
  BY <1>4, <1>5 DEF Indexes
<1>7. \A x \in Buckets : Members(new, x) = Members(ix, x)
  BY <1>5 DEF Members
<1>8. \A x \in Buckets : Noticed(new, x)
  BY <1>3, <1>4, <1>5, <1>7 DEF Noticed
<1>9. Waiting(new)
  BY <1>5 DEF Waiting
<1>. QED BY <1>5, <1>6, <1>7, <1>8, <1>9 DEF Sound

\* Projecting the revision of a bucket at the cursor of its shard.
LEMMA ChunkSound ==
  ASSUME Plain, JournalOK, Sound(index), index.built = version,
         NEW b \in Buckets, ~ Stands(b), NEW p \in Places, Revisions(p) = Chunk(b),
         index.cursor[p[1]] = p[2] - 1
  PROVE  Sound(IndexChunk(index, Chunk(b)))
<1>. PICK r \in {Chunk(b)} : r = Chunk(b)
  OBVIOUS
<1>1. /\ r \in Revision /\ r.id.bucket = b /\ Day(r.id.at) \in Days
      /\ r.id.version = version /\ r.id.input = Members(index, b)
  BY ChunkIs
<1>2. p[1] = Day(r.id.at) /\ p[1] \in Days /\ p[2] \in 1 .. Len(shards[p[1]])
  BY RevisionTyped DEF JournalOK, Filed
<1>. DEFINE d == Day(r.id.at)
<1>3. /\ index \in Indexes /\ index.events \subseteq logged
      /\ (\A x \in Days : index.cursor[x] <= Len(shards[x]))
      /\ (\A x \in Buckets : index.current[x].input \subseteq Members(index, x))
      /\ (\A x \in Buckets : Noticed(index, x)) /\ Waiting(index)
  BY DEF Sound
<1>. PICK C \in {[index.cursor EXCEPT ![d] = @ + 1]} : C = [index.cursor EXCEPT ![d] = @ + 1]
  OBVIOUS
<1>. PICK U \in {[index.current EXCEPT ![b] = r.id]} : U = [index.current EXCEPT ![b] = r.id]
  OBVIOUS
<1>. PICK mid \in {[index EXCEPT !.current[b] = r.id, !.cursor[d] = @ + 1]} :
          mid = [index EXCEPT !.current[b] = r.id, !.cursor[d] = @ + 1]
  OBVIOUS
<1>4. index.cursor \in [Days -> Nat] /\ index.current \in [Buckets -> Id]
  BY <1>3 DEF Indexes
<1>5. C \in [Days -> Nat] /\ \A x \in Days : C[x] = IF x = d THEN index.cursor[d] + 1 ELSE index.cursor[x]
  BY <1>1, <1>4
<1>6. U \in [Buckets -> Id] /\ \A x \in Buckets : U[x] = IF x = b THEN r.id ELSE index.current[x]
  BY <1>1, <1>4 DEF Revision
<1>7. mid = [index EXCEPT !.current = U, !.cursor = C]
  BY <1>3 DEF Indexes
<1>8. mid = [events |-> index.events, cursor |-> C, current |-> U,
             pending |-> index.pending, built |-> index.built]
  BY <1>3, <1>7 DEF Indexes
<1>9. mid \in Indexes
  BY <1>3, <1>5, <1>6, <1>8 DEF Indexes
<1>10. \A x \in Buckets : Members(mid, x) = Members(index, x)
  BY <1>8 DEF Members
<1>11. \A x \in Buckets : mid.current[x].input \subseteq Members(mid, x)
  BY <1>1, <1>3, <1>6, <1>8, <1>10
<1>12. \A x \in Buckets \ {b} : Noticed(mid, x)
  BY <1>3, <1>6, <1>8, <1>10 DEF Noticed
<1>13. Waiting(mid)
  <2>1. ASSUME NEW q \in Places, mid.cursor[q[1]] < q[2]
        PROVE  index.cursor[q[1]] < q[2]
    <3>1. q[1] \in Days /\ q[2] \in Nat
      BY DEF Places
    <3>2. index.cursor[q[1]] \in Nat /\ index.cursor[d] \in Nat
      BY <1>1, <1>4, <3>1
    <3>. QED BY <1>5, <1>8, <2>1, <3>1, <3>2
  <2>. QED BY <1>3, <1>8, <2>1 DEF Waiting
<1>14. \A x \in Days : mid.cursor[x] <= Len(shards[x])
  <2>1. index.cursor[d] + 1 <= Len(shards[d])
    BY <1>2, <1>4
  <2>. QED BY <1>3, <1>5, <1>8, <2>1
<1>15. mid.current[b] = r.id /\ mid.built = version
  BY <1>6, <1>8
<1>16. IndexChunk(index, r) = Clean(mid, b)
  BY <1>1 DEF IndexChunk, Covers
<1>17. Sound(Clean(mid, b))
  BY <1>1, <1>3, <1>8, <1>9, <1>10, <1>11, <1>12, <1>13, <1>14, <1>15, CleanSound
<1>. QED BY <1>16, <1>17

\* An append leaves the projection where it is.
LEMMA AppendSound ==
  ASSUME Plain, JournalOK, Sound(index), index.built = version,
         NEW b \in Buckets, AppendChunk(b)
  PROVE  Sound(index)'
<1>0. ~ Stands(b) /\ logged' = logged /\ index' = index
  BY DEF AppendChunk
<1>. PICK r \in {Chunk(b)} : r = Chunk(b)
  OBVIOUS
<1>. PICK d \in {Day(r.id.at)} : d = Day(r.id.at)
  OBVIOUS
<1>1. r \in Revision /\ d \in Days /\ r.id.version = version
  BY <1>0, ChunkIs
<1>2. CASE shards' = shards
  <2>. PICK c \in {index} : c = index
    OBVIOUS
  <2>. QED BY <1>0, <1>2, SoundAfter DEF JournalOK
<1>3. CASE shards' = [shards EXCEPT ![d] = Append(@, r)]
  <2>. PICK n \in {Len(shards[d]) + 1} : n = Len(shards[d]) + 1
    OBVIOUS
  <2>1. shards \in [Days -> Seq(Revision)]
    BY DEF JournalOK
  <2>2. /\ Places' = Places \cup {<<d, n>>}
        /\ \A p \in Places : Revisions(p)' = Revisions(p)
        /\ Revisions(<<d, n>>)' = r
        /\ \A x \in Days : Len(shards'[x]) = IF x = d THEN Len(shards[d]) + 1 ELSE Len(shards[x])
    BY <1>1, <1>3, <2>1, AppendIs
  <2>3. /\ index \in Indexes /\ index.events \subseteq logged
        /\ (\A x \in Days : index.cursor[x] <= Len(shards[x]))
        /\ (\A x \in Buckets : index.current[x].input \subseteq Members(index, x))
        /\ (\A x \in Buckets : Noticed(index, x)) /\ Waiting(index)
    BY DEF Sound
  <2>4. Waiting(index)'
    BY <1>0, <1>1, <2>2, <2>3 DEF Waiting
  <2>5. (\A x \in Days : index.cursor[x] <= Len(shards[x]))'
    <3>1. \A x \in Days : index.cursor[x] \in Nat /\ Len(shards[x]) \in Nat
      BY <2>1, <2>3 DEF Indexes
    <3>. QED BY <1>0, <2>2, <2>3, <3>1
  <2>6. \A x \in Buckets : Noticed(index, x)'
    BY <1>0, <2>3 DEF Noticed, Members
  <2>7. (\A x \in Buckets : index.current[x].input \subseteq Members(index, x))'
    BY <1>0, <2>3 DEF Members
  <2>8. (index \in Indexes)' /\ (index.events \subseteq logged)'
    BY <1>0, <2>3 DEF Indexes
  <2>. QED BY <2>4, <2>5, <2>6, <2>7, <2>8 DEF Sound
<1>. QED BY <1>2, <1>3 DEF AppendChunk
\* A revision of the journal is found at its place.
LEMMA PlaceIs ==
  ASSUME shards \in [Days -> Seq(Revision)], Filed, NEW r, \E p \in Places : Revisions(p) = r
  PROVE  \E p \in Places : Revisions(p) = r /\ p[1] = Day(r.id.at) /\ p[2] = Place(r)
<1>1. PICK p \in Places : Revisions(p) = r
  OBVIOUS
<1>2. p[1] = Day(r.id.at) /\ p[1] \in Days /\ p[2] \in 1 .. Len(shards[p[1]])
  BY <1>1, RevisionTyped DEF Filed
<1>. DEFINE d == Day(r.id.at)
<1>3. shards[d][p[2]] = r
  BY <1>1, <1>2 DEF Revisions
<1>4. Place(r) \in 1 .. Len(shards[d]) /\ shards[d][Place(r)] = r
  BY <1>2, <1>3 DEF Place
<1>. PICK q \in {<<d, Place(r)>>} : q = <<d, Place(r)>>
  OBVIOUS
<1>5. q[1] = d /\ q[2] = Place(r) /\ q \in Days \X Nat
  BY <1>2, <1>4
<1>6. q \in Places
  BY <1>4, <1>5 DEF Places
<1>. QED BY <1>4, <1>5, <1>6 DEF Revisions

LEMMA SoundStep ==
  ASSUME AggregationInv, [Next]_vars
  PROVE  Sound(index)'
<1>0. /\ Plain /\ JournalOK /\ Sound(index) /\ PreparedFor /\ Placed
      /\ logged \subseteq Events
  BY DEF AggregationInv, JournalOK
<1>1. ASSUME NEW c, Sound(c), index' = c, shards' = shards, logged' = logged
      PROVE  Sound(index)'
  BY <1>0, <1>1, SoundAfter
<1>2. ASSUME UNCHANGED <<journal, index>> PROVE Sound(index)'
  <2>. PICK c \in {index} : c = index
    OBVIOUS
  <2>. QED BY <1>0, <1>1, <1>2 DEF journal
<1>3. CASE Start
  <2>. PICK c \in {Recovered.ix} : c = Recovered.ix
    OBVIOUS
  <2>1. Sound(c)
    BY <1>0, <1>3, RecoveredIsSound DEF Start
  <2>. QED BY <1>1, <1>3, <2>1 DEF Start, journal
<1>4. ASSUME NEW e \in Events, Log(e), NEW c, Sound(c), index' = c, shards' = shards
      PROVE  Sound(index)'
  <2>1. logged \subseteq logged' /\ logged' \subseteq Events
    BY <1>0, <1>4 DEF Log
  <2>. QED BY <1>0, <1>4, <2>1, SoundAfter
<1>5. ASSUME NEW e \in Events, Ingest(e) PROVE Sound(index)'
  <2>1. Log(e) /\ shards' = shards
    BY <1>5 DEF Ingest
  <2>2. CASE Recovered.ok /\ index' = Recovered.ix
    <3>. PICK c \in {Recovered.ix} : c = Recovered.ix
      OBVIOUS
    <3>1. Sound(c)
      BY <1>0, <2>2, RecoveredIsSound
    <3>. QED BY <1>4, <2>1, <2>2, <3>1
  <2>3. CASE index' = index
    <3>. PICK c \in {index} : c = index
      OBVIOUS
    <3>. QED BY <1>0, <1>4, <2>1, <2>3
  <2>. QED BY <1>5, <2>2, <2>3 DEF Ingest
<1>6. ASSUME NEW e \in Events, Retain(e) PROVE Sound(index)'
  <2>. PICK c \in {index} : c = index
    OBVIOUS
  <2>. QED BY <1>0, <1>4, <1>6 DEF Retain
<1>7. CASE IndexEvent
  <2>. PICK c \in {IndexEvents(index, call.event)} : c = IndexEvents(index, call.event)
    OBVIOUS
  <2>1. Sound(c)
    BY <1>0, IndexEventsSound DEF Plain
  <2>. QED BY <1>1, <1>7, <2>1 DEF IndexEvent, journal
<1>8. CASE Begin
  <2>. PICK c \in {Prepared} : c = Prepared
    OBVIOUS
  <2>1. Sound(c)
    BY <1>0, <1>8, PreparedSound DEF Begin, PreparedFor
  <2>. QED BY <1>1, <1>8, <2>1 DEF Begin, journal
<1>9. ASSUME NEW b \in Buckets, AlreadyCurrent(b) PROVE Sound(index)'
  <2>. PICK c \in {Clean(index, b)} : c = Clean(index, b)
    OBVIOUS
  <2>1. index.built = version
    BY <1>0, <1>9 DEF AlreadyCurrent, Turn, PreparedFor
  <2>2. index.current[b].input = Members(index, b) /\ index.current[b].version = version
    BY <1>9 DEF AlreadyCurrent, Stands
  <2>3. Sound(c)
    BY <1>0, <2>1, <2>2, CleanSound DEF Sound
  <2>. QED BY <1>1, <1>9, <2>3 DEF AlreadyCurrent, journal
<1>10. ASSUME NEW b \in Buckets, AppendChunk(b) PROVE Sound(index)'
  <2>1. index.built = version
    BY <1>0, <1>10 DEF AppendChunk, Turn, PreparedFor
  <2>. QED BY <1>0, <1>10, <2>1, AppendSound
<1>11. ASSUME NEW b \in Buckets, ProjectChunk(b) PROVE Sound(index)'
  <2>. PICK c \in {IndexChunk(index, Chunk(b))} : c = IndexChunk(index, Chunk(b))
    OBVIOUS
  <2>1. pc = "project" /\ Turn("project", b) /\ index.built = version
    BY <1>0, <1>11 DEF ProjectChunk, Turn, PreparedFor
  <2>2. ~ Stands(b) /\ \E p \in Places : Revisions(p) = Chunk(b)
    BY <1>0, <2>1 DEF Placed
  <2>3. PICK p \in Places : /\ Revisions(p) = Chunk(b)
                            /\ p[1] = Day(Chunk(b).id.at) /\ p[2] = Place(Chunk(b))
    BY <1>0, <2>2, PlaceIs DEF JournalOK
  <2>4. index.cursor[p[1]] = p[2] - 1
    BY <1>11, <2>3 DEF ProjectChunk
  <2>5. Sound(c)
    BY <1>0, <2>1, <2>2, <2>3, <2>4, ChunkSound
  <2>. QED BY <1>1, <1>11, <2>5 DEF ProjectChunk, journal
<1>12. CASE LoseIndex
  <2>. PICK c \in {EmptyIndex} : c = EmptyIndex
    OBVIOUS
  <2>1. Sound(c)
    BY <1>0, EmptyIsSound
  <2>. QED BY <1>1, <1>12, <2>1 DEF LoseIndex, journal
<1>. QED
  BY <1>2, <1>3, <1>5, <1>6, <1>7, <1>8, <1>9, <1>10, <1>11, <1>12
     DEF Next, Step, vars, Record, IndexEventFails, Skip, AppendRejected, ProjectRejected,
         EndBatch, Tick, Rollback, Close, Crash, Quit, Upgrade
-----------------------------------------------------------------------------
(* The steps of finalize_due                                                *)

\* What a revision and its instant depend on.
LEMMA ChunkSame ==
  ASSUME NEW b, version' = version, recorded' = recorded,
         index'.events = index.events, index'.current[b] = index.current[b],
         index'.pending[b] = index.pending[b]
  PROVE  /\ GeneratedAt(b)' = GeneratedAt(b) /\ Chunk(b)' = Chunk(b)
         /\ (Stands(b))' <=> Stands(b)
<1>1. Members(index, b)' = Members(index, b)
  BY DEF Members
<1>2. (Stands(b))' <=> Stands(b)
  BY <1>1 DEF Stands
<1>3. GeneratedAt(b)' = GeneratedAt(b)
  BY <1>1, <1>2 DEF GeneratedAt
<1>. QED BY <1>1, <1>2, <1>3 DEF Chunk

\* Clean takes one mark.
LEMMA CleanIs ==
  ASSUME NEW ix \in Indexes, NEW b \in Buckets
  PROVE  /\ Clean(ix, b).events = ix.events /\ Clean(ix, b).cursor = ix.cursor
         /\ Clean(ix, b).current = ix.current /\ Clean(ix, b).built = ix.built
         /\ ~ Clean(ix, b).pending[b].dirty /\ Clean(ix, b).pending[b].at = NoTime
         /\ \A x \in Buckets \ {b} : Clean(ix, b).pending[x] = ix.pending[x]
BY DEF Clean, Unmarked, Indexes

\* Projecting a revision changes its bucket and the cursor of its shard only.
LEMMA IndexChunkIs ==
  ASSUME Plain, JournalOK, Sound(index), NEW b \in Buckets, ~ Stands(b)
  PROVE  LET new == IndexChunk(index, Chunk(b))
         IN /\ new.events = index.events /\ new.built = index.built
            /\ new.current = [index.current EXCEPT ![b] = Chunk(b).id]
            /\ new.cursor = [index.cursor EXCEPT ![Day(Chunk(b).id.at)] = @ + 1]
            /\ ~ new.pending[b].dirty /\ new.pending[b].at = NoTime
            /\ \A x \in Buckets \ {b} : new.pending[x] = index.pending[x]
<1>. PICK r \in {Chunk(b)} : r = Chunk(b)
  OBVIOUS
<1>. PICK d \in {Day(r.id.at)} : d = Day(r.id.at)
  OBVIOUS
<1>1. /\ r \in Revision /\ r.id.bucket = b /\ d \in Days /\ r.id \in Id
      /\ r.id.input = Members(index, b)
  BY ChunkIs DEF Revision
<1>2. index \in Indexes
  BY DEF Sound
<1>. PICK C \in {[index.cursor EXCEPT ![d] = @ + 1]} : C = [index.cursor EXCEPT ![d] = @ + 1]
  OBVIOUS
<1>. PICK U \in {[index.current EXCEPT ![b] = r.id]} : U = [index.current EXCEPT ![b] = r.id]
  OBVIOUS
<1>. PICK mid \in {[index EXCEPT !.current[b] = r.id, !.cursor[d] = @ + 1]} :
          mid = [index EXCEPT !.current[b] = r.id, !.cursor[d] = @ + 1]
  OBVIOUS
<1>3. C \in [Days -> Nat] /\ U \in [Buckets -> Id]
  BY <1>1, <1>2 DEF Indexes
<1>4. mid = [index EXCEPT !.current = U, !.cursor = C]
  BY <1>2 DEF Indexes
<1>5. mid = [events |-> index.events, cursor |-> C, current |-> U,
             pending |-> index.pending, built |-> index.built]
  BY <1>2, <1>4 DEF Indexes
<1>6. mid \in Indexes
  BY <1>2, <1>3, <1>5 DEF Indexes
<1>. PICK new \in {Clean(mid, b)} : new = Clean(mid, b)
  OBVIOUS
<1>7. new = IndexChunk(index, r)
  BY <1>1 DEF IndexChunk, Covers
<1>8. /\ new.events = mid.events /\ new.built = mid.built
      /\ new.current = mid.current /\ new.cursor = mid.cursor
      /\ ~ new.pending[b].dirty /\ new.pending[b].at = NoTime
      /\ \A x \in Buckets \ {b} : new.pending[x] = mid.pending[x]
  <2>1. /\ Clean(mid, b).events = mid.events /\ Clean(mid, b).cursor = mid.cursor
        /\ Clean(mid, b).current = mid.current /\ Clean(mid, b).built = mid.built
        /\ ~ Clean(mid, b).pending[b].dirty /\ Clean(mid, b).pending[b].at = NoTime
        /\ \A x \in Buckets \ {b} : Clean(mid, b).pending[x] = mid.pending[x]
    BY <1>6, CleanIs, Zenon
  <2>. QED BY <2>1
<1>9. /\ mid.events = index.events /\ mid.built = index.built
      /\ mid.current = U /\ mid.cursor = C /\ mid.pending = index.pending
  BY <1>5
<1>. QED BY <1>7, <1>8, <1>9

LEMMA InJournalIs ==
  ASSUME shards \in [Days -> Seq(Revision)]
  PROVE  \A r : r \in InJournal <=> \E p \in Places : Revisions(p) = r
<1>1. ASSUME NEW r \in InJournal PROVE \E p \in Places : Revisions(p) = r
  <2>0. PICK d \in Days : r \in {shards[d][i] : i \in 1 .. Len(shards[d])}
    BY <1>1 DEF InJournal
  <2>1. PICK i \in 1 .. Len(shards[d]) : r = shards[d][i]
    BY <2>0
  <2>. PICK p \in {<<d, i>>} : p = <<d, i>>
    OBVIOUS
  <2>2. p \in Places /\ Revisions(p) = r
    BY <2>1 DEF Places, Revisions
  <2>. QED BY <2>2
<1>2. ASSUME NEW p \in Places PROVE Revisions(p) \in InJournal
  BY RevisionTyped DEF InJournal, Revisions
<1>. QED BY <1>1, <1>2

LEMMA PreparedStep ==
  ASSUME AggregationInv, [Next]_vars
  PROVE  PreparedFor'
<1>0. /\ Plain /\ JournalOK /\ Sound(index) /\ PreparedFor /\ Placed
  BY DEF AggregationInv
<1>. USE DEF PreparedFor
<1>1. ASSUME shards' = shards, index'.cursor = index.cursor, index'.built = index.built,
             version' = version,
             \/ pc' = "down" \/ pc' = pc
             \/ pc \in {"up", "index"} /\ pc' \in {"up", "index", "begin"}
             \/ pc \in {"chunks", "project"}
      PROVE  PreparedFor'
  <2>1. (AllProjected(index))' <=> AllProjected(index)
    BY <1>1 DEF AllProjected
  <2>. QED BY <1>0, <1>1, <2>1 DEF Plain
<1>2. ASSUME Recovered.ok, index' = Recovered.ix, shards' = shards,
             pc' \in {"up", "index", "begin"}
      PROVE  PreparedFor'
  <2>1. AllProjected(Recovered.ix)
    BY <1>0, <1>2, RecoveredIsSound
  <2>2. (AllProjected(index))'
    BY <1>2, <2>1 DEF AllProjected
  <2>. QED BY <1>2, <2>2
<1>3. CASE Start
  BY <1>2, <1>3 DEF Start, journal
<1>4. ASSUME NEW e \in Events, Ingest(e) PROVE PreparedFor'
  <2>1. pc = "up" /\ pc' = "index" /\ shards' = shards /\ version' = version
    BY <1>4 DEF Ingest, Log, Admitted
  <2>. QED BY <1>1, <1>2, <1>4, <2>1 DEF Ingest
<1>5. CASE IndexEvent
  <2>1. /\ index'.cursor = index.cursor /\ index'.built = index.built
    BY <1>0, <1>5, IndexEventsSound DEF IndexEvent, Plain
  <2>. QED BY <1>1, <1>5, <2>1 DEF IndexEvent, journal
<1>6. CASE Begin
  <2>1. Prepared.built = version
    BY <1>0, <1>6, PreparedSound DEF Begin
  <2>. QED BY <1>6, <2>1 DEF Begin
<1>7. ASSUME NEW b \in Buckets, AlreadyCurrent(b) PROVE PreparedFor'
  <2>1. index'.cursor = index.cursor /\ index'.built = index.built
    BY <1>0, <1>7, CleanIs DEF AlreadyCurrent, Sound
  <2>. QED BY <1>1, <1>7, <2>1 DEF AlreadyCurrent, Turn, journal
<1>8. ASSUME NEW b \in Buckets, AppendChunk(b) PROVE PreparedFor'
  BY <1>0, <1>8 DEF AppendChunk, Turn
<1>9. ASSUME NEW b \in Buckets, ProjectChunk(b) PROVE PreparedFor'
  <2>1. pc = "project" /\ Turn("project", b) /\ index' = IndexChunk(index, Chunk(b))
        /\ pc' = "chunks" /\ version' = version
    BY <1>9 DEF ProjectChunk, Turn
  <2>2. index'.built = index.built
    BY <1>0, <2>1, IndexChunkIs DEF Placed
  <2>. QED BY <1>0, <2>1, <2>2
<1>. QED
  BY <1>1, <1>3, <1>4, <1>5, <1>6, <1>7, <1>8, <1>9
     DEF Next, Step, vars, journal, engine, Record, Retain, Log, Admitted, IndexEventFails,
         Return, Skip, Turn, AppendRejected, ProjectRejected, Fails, EndBatch, Tick, Rollback,
         Close, Crash, Quit, Upgrade, LoseIndex

LEMMA PlacedStep ==
  ASSUME AggregationInv, [Next]_vars
  PROVE  Placed'
<1>0. /\ Plain /\ JournalOK /\ Sound(index) /\ Placed /\ shards \in [Days -> Seq(Revision)]
  BY DEF AggregationInv, JournalOK
<1>1. ASSUME pc' # "project" PROVE Placed'
  BY <1>1 DEF Placed
<1>2. ASSUME UNCHANGED <<pc, batch, version, recorded, index, shards>> PROVE Placed'
  <2>. SUFFICES ASSUME NEW b \in Buckets, pc = "project", Turn("project", b)'
       PROVE  (~ Stands(b) /\ \E p \in Places : Revisions(p) = Chunk(b))'
    BY <1>2 DEF Placed
  <2>1. Turn("project", b)
    BY <1>2 DEF Turn
  <2>2. PICK p \in Places : Revisions(p) = Chunk(b)
    BY <1>0, <2>1 DEF Placed
  <2>3. p \in Places' /\ Revisions(p)' = Revisions(p)
    BY <1>2 DEF Places, Revisions
  <2>4. Chunk(b)' = Chunk(b) /\ ((Stands(b))' <=> Stands(b))
    BY <1>2, ChunkSame
  <2>. QED BY <1>0, <2>1, <2>2, <2>3, <2>4 DEF Placed
<1>3. ASSUME NEW b \in Buckets, AppendChunk(b) PROVE Placed'
  <2>1. /\ ~ Stands(b) /\ UNCHANGED <<batch, version, recorded, index>>
        /\ b \in batch /\ \A c \in batch : b <= c
    BY <1>3 DEF AppendChunk, Turn
  <2>2. SUFFICES ASSUME NEW x \in Buckets, Turn("project", x)'
       PROVE  (~ Stands(x) /\ \E p \in Places : Revisions(p) = Chunk(x))'
    BY DEF Placed
  <2>3. x = b
    BY <2>1, <2>2 DEF Turn, Buckets
  <2>4. Chunk(b)' = Chunk(b) /\ ((Stands(b))' <=> Stands(b))
    BY <2>1, ChunkSame
  <2>. PICK r \in {Chunk(b)} : r = Chunk(b)
    OBVIOUS
  <2>5. \E p \in Places' : Revisions(p)' = r
    <3>1. CASE r \in InJournal
      <4>1. shards' = shards
        BY <1>3, <3>1 DEF AppendChunk
      <4>2. PICK p \in Places : Revisions(p) = r
        BY <1>0, <3>1, InJournalIs
      <4>. QED BY <4>1, <4>2 DEF Places, Revisions
    <3>2. CASE r \notin InJournal
      <4>. PICK d \in {Day(r.id.at)} : d = Day(r.id.at)
        OBVIOUS
      <4>. PICK n \in {Len(shards[d]) + 1} : n = Len(shards[d]) + 1
        OBVIOUS
      <4>1. shards' = [shards EXCEPT ![d] = Append(@, r)]
        BY <1>3, <3>2 DEF AppendChunk
      <4>2. r \in Revision /\ d \in Days
        BY <1>0, <2>1, ChunkIs
      <4>. QED BY <1>0, <4>1, <4>2, AppendIs
    <3>. QED BY <3>1, <3>2
  <2>. QED BY <2>1, <2>3, <2>4, <2>5
<1>. QED
  BY <1>1, <1>2, <1>3
     DEF Next, Step, vars, journal, engine, Start, Record, Ingest, Retain, Log, IndexEvent,
         IndexEventFails, Return, Begin, Skip, Turn, AlreadyCurrent, ProjectChunk,
         AppendRejected, ProjectRejected, Fails, EndBatch, Tick, Rollback, Close, Crash, Quit,
         Upgrade, LoseIndex
LEMMA FinishingStep ==
  ASSUME AggregationInv, [Next]_vars
  PROVE  Finishing'
<1>0. /\ Plain /\ JournalOK /\ Sound(index) /\ PreparedFor /\ Placed /\ Finishing
  BY DEF AggregationInv
<1>1. ASSUME ~ call'.startup PROVE Finishing'
  BY <1>1 DEF Finishing
<1>2. ASSUME ~ call.startup, call' = call PROVE Finishing'
  BY <1>1, <1>2
<1>3. ASSUME pc' = "begin" PROVE Finishing'
  BY <1>3 DEF Finishing
<1>4. ASSUME UNCHANGED <<pc, call, batch, recorded, version, index>> PROVE Finishing'
  <2>1. \A b : GeneratedAt(b)' = GeneratedAt(b)
    BY <1>4, ChunkSame
  <2>. QED BY <1>0, <1>4, <2>1 DEF Finishing
<1>5. CASE Begin
  <2>. PICK due \in {DueBuckets(Prepared)} : due = DueBuckets(Prepared)
    OBVIOUS
  <2>1. /\ batch' = {b \in due : Cardinality({c \in due : c < b}) < BatchSize}
        /\ call'.covered = (Cardinality(due) <= BatchSize)
        /\ call'.at = call.at /\ index' = Prepared /\ pc' = "chunks"
    BY <1>0, <1>5 DEF Begin, Plain
  <2>2. due \subseteq Buckets /\ IsFiniteSet(due)
    <3>1. due \subseteq Buckets
      BY DEF DueBuckets
    <3>2. N \in Nat
      BY AggregationAssumption
    <3>3. IsFiniteSet(Buckets)
      BY <3>2, FS_Interval DEF Buckets
    <3>. QED BY <3>1, <3>3, FS_Subset
  <2>3. ASSUME Cardinality(due) <= BatchSize, NEW b \in due PROVE b \in batch'
    <3>. PICK before \in {{c \in due : c < b}} : before = {c \in due : c < b}
      OBVIOUS
    <3>1. before \subseteq due \ {b}
      BY <2>2 DEF Buckets
    <3>2. IsFiniteSet(due \ {b}) /\ Cardinality(due \ {b}) = Cardinality(due) - 1
      BY <2>2, FS_RemoveElement
    <3>3. Cardinality(before) <= Cardinality(due \ {b}) /\ IsFiniteSet(before)
      BY <3>1, <3>2, FS_Subset
    <3>4. Cardinality(due) \in Nat /\ Cardinality(before) \in Nat
      BY <2>2, <3>3, FS_CardinalityType
    <3>5. Cardinality(before) < BatchSize
      BY <2>3, <3>2, <3>3, <3>4, AggregationAssumption
    <3>. QED BY <2>1, <3>5
  <2>4. ASSUME call'.covered, NEW b \in Buckets \ batch'
        PROVE  ~ (index'.pending[b].dirty /\ Due[b] <= call'.at)
    <3>1. b \notin due
      BY <2>1, <2>3, <2>4
    <3>. QED BY <2>1, <3>1 DEF DueBuckets
  <2>. QED BY <2>1, <2>4 DEF Finishing
<1>6. ASSUME NEW b \in Buckets, Skip(b) PROVE Finishing'
  <2>1. /\ UNCHANGED <<pc, call, recorded, version, index>> /\ batch' = batch \ {b}
        /\ call.at < GeneratedAt(b)
    BY <1>6 DEF Skip, engine
  <2>2. \A x : GeneratedAt(x)' = GeneratedAt(x)
    BY <2>1, ChunkSame
  <2>. QED BY <1>0, <2>1, <2>2 DEF Finishing
<1>7. ASSUME NEW b \in Buckets, pc \in {"chunks", "project"}, pc' = "chunks",
             UNCHANGED <<call, recorded, version>>, batch' = batch \ {b},
             index'.events = index.events, ~ index'.pending[b].dirty,
             \A x \in Buckets \ {b} : /\ index'.current[x] = index.current[x]
                                      /\ index'.pending[x] = index.pending[x]
      PROVE  Finishing'
  <2>1. \A x \in Buckets \ {b} : GeneratedAt(x)' = GeneratedAt(x)
    BY <1>7, ChunkSame
  <2>. QED BY <1>0, <1>7, <2>1 DEF Finishing
<1>8. ASSUME NEW b \in Buckets, AlreadyCurrent(b) PROVE Finishing'
  <2>1. index \in Indexes /\ index' = Clean(index, b)
    BY <1>0, <1>8 DEF Sound, AlreadyCurrent
  <2>. QED BY <1>7, <1>8, <2>1, CleanIs DEF AlreadyCurrent, Turn
<1>9. ASSUME NEW b \in Buckets, ProjectChunk(b) PROVE Finishing'
  <2>1. pc = "project" /\ Turn("project", b) /\ index' = IndexChunk(index, Chunk(b))
    BY <1>9 DEF ProjectChunk, Turn
  <2>. PICK i \in {Chunk(b).id} : i = Chunk(b).id
    OBVIOUS
  <2>2. /\ index'.events = index.events /\ index'.current = [index.current EXCEPT ![b] = i]
        /\ ~ index'.pending[b].dirty
        /\ \A x \in Buckets \ {b} : index'.pending[x] = index.pending[x]
    BY <1>0, <2>1, IndexChunkIs DEF Placed
  <2>3. \A x \in Buckets \ {b} : index'.current[x] = index.current[x]
    BY <1>0, <2>2 DEF Sound, Indexes
  <2>. QED BY <1>7, <1>9, <2>1, <2>2, <2>3 DEF ProjectChunk
<1>10. ASSUME NEW b \in Buckets, AppendChunk(b) PROVE Finishing'
  <2>1. /\ pc = "chunks" /\ pc' = "project"
        /\ UNCHANGED <<call, batch, recorded, version, index>>
    BY <1>10 DEF AppendChunk, Turn
  <2>2. \A x : GeneratedAt(x)' = GeneratedAt(x)
    BY <2>1, ChunkSame
  <2>. QED BY <1>0, <2>1, <2>2 DEF Finishing
<1>11. ASSUME NEW e \in Events, Ingest(e) \/ Retain(e) PROVE Finishing'
  <2>1. ~ call'.startup
    BY <1>11 DEF Ingest, Retain, Log, NoCall
  <2>. QED BY <1>1, <2>1
<1>12. ASSUME call' = NoCall PROVE Finishing'
  BY <1>1, <1>12, NoCallIs
<1>13. ASSUME pc \notin {"begin", "chunks", "project"} PROVE ~ call.startup
  BY <1>0, <1>13 DEF Finishing
<1>14. ASSUME NEW e \in Events, Record(e) PROVE Finishing'
  BY <1>2, <1>13, <1>14 DEF Record, engine
<1>15. CASE Upgrade \/ LoseIndex
  BY <1>2, <1>13, <1>15 DEF Upgrade, LoseIndex, engine
<1>16. CASE EndBatch
  BY <1>3, <1>12, <1>16 DEF EndBatch, Return
<1>. QED
  BY <1>3, <1>4, <1>5, <1>6, <1>8, <1>9, <1>10, <1>11, <1>12, <1>14, <1>15, <1>16
     DEF Next, Step, vars, engine, Start, IndexEvent, IndexEventFails, Return,
         AppendRejected, ProjectRejected, Fails, Tick, Rollback, Close, Crash, Quit

-----------------------------------------------------------------------------
(* The theorems                                                             *)

LEMMA InvStep == AggregationInv /\ [Next]_vars => AggregationInv'
BY PlainStep, JournalStep, SoundStep, PreparedStep, PlacedStep, FinishingStep
   DEF AggregationInv

LEMMA InvHolds == Spec => []AggregationInv
BY InitInv, InvStep, PTL DEF Spec

\* Every variable keeps its type: in particular no cursor runs ahead of its shard, and
\* every chunk has an instant that the clock can reach (chunker.rs, projection.rs).
THEOREM TypeCorrect == Spec => []TypeOK
<1>1. AggregationInv => TypeOK
  <2>. SUFFICES ASSUME AggregationInv PROVE TypeOK
    OBVIOUS
  <2>1. Plain /\ JournalOK /\ Sound(index)
    BY DEF AggregationInv
  <2>2. /\ index.events \subseteq logged /\ index.cursor \in [Days -> Nat]
        /\ \A d \in Days : index.cursor[d] <= Len(shards[d])
        /\ index.current \in [Buckets -> Id]
        /\ index.pending \in [Buckets -> [dirty : BOOLEAN, at : Times \cup {NoTime}]]
        /\ index.built \in Versions \cup {NoVersion}
    BY <2>1 DEF Sound, Indexes
  <2>3. logged \subseteq Events /\ shards \in [Days -> Seq(Revision)]
    BY <2>1 DEF JournalOK
  <2>. QED BY <2>1, <2>2, <2>3 DEF TypeOK, Plain
<1>. QED BY <1>1, InvHolds, PTL

\* A bucket whose current revision is out of date is always marked, through every
\* crash, failed write, upgrade, lost index and clock correction, and no revision is
\* ever written without new evidence or another version (reconcile.rs, chunker.rs,
\* recovery.rs).
THEOREM StaleIsRevised == Spec => []RevisedWhenStale
<1>1. AggregationInv => RevisedWhenStale
  <2>. SUFFICES ASSUME AggregationInv PROVE RevisedWhenStale
    OBVIOUS
  <2>1. JournalOK /\ Sound(index)
    BY DEF AggregationInv
  <2>2. StaleIsPending
    BY <2>1 DEF Sound, Noticed, StaleIsPending
  <2>3. RevisionsHaveReason
    <3>. SUFFICES ASSUME NEW r \in InJournal PROVE HasReason(r)
      BY DEF RevisionsHaveReason, HasReason
    <3>1. PICK p \in Places : Revisions(p) = r
      BY <2>1, InJournalIs DEF JournalOK
    <3>. QED BY <2>1, <3>1 DEF JournalOK, Reasoned
  <2>. QED BY <2>2, <2>3 DEF RevisedWhenStale
<1>. QED BY <1>1, InvHolds, PTL

\* A startup that returns leaves nothing pending that it could have finalized, however
\* many batches that took (reconcile.rs).
THEOREM StartupFinishes == Spec => StartupDrains
<1>1. AggregationInv /\ [Next]_vars =>
        [call.startup /\ pc' = "up" =>
           \A b \in Buckets : Due[b] <= call.at /\ GeneratedAt(b) <= call.at
                                => ~ index.pending[b].dirty]_vars
  <2>. SUFFICES ASSUME AggregationInv, [Next]_vars, vars' # vars,
                       call.startup, pc' = "up",
                       NEW b \in Buckets, Due[b] <= call.at, GeneratedAt(b) <= call.at,
                       index.pending[b].dirty
                PROVE  FALSE
    OBVIOUS
  <2>1. Finishing /\ Plain /\ Sound(index)
    BY DEF AggregationInv
  <2>2. pc \in {"begin", "chunks", "project"}
    BY <2>1 DEF Finishing
  <2>3. EndBatch
    BY <2>2 DEF Next, Step, vars, engine, Start, Record, Ingest, Retain, Log, Admitted, IndexEvent,
         IndexEventFails, Begin, Skip, Turn, AlreadyCurrent, AppendChunk, ProjectChunk,
         AppendRejected, ProjectRejected, Fails, Tick, Rollback, Close, Crash, Quit, Upgrade, LoseIndex
  <2>4. pc = "chunks" /\ batch = {} /\ call.covered
    BY <2>3 DEF EndBatch, Drains
  <2>5. call.at < GeneratedAt(b)
    BY <2>1, <2>4 DEF Finishing
  <2>6. call.at \in Int /\ GeneratedAt(b) \in Int
    <3>1. Times \cup {NoTime} \subseteq Int
      BY DEF Times, NoTime
    <3>2. CASE Stands(b)
      <4>1. GeneratedAt(b) = index.current[b].at
        BY <3>2 DEF GeneratedAt
      <4>2. index.current[b].at \in Times \cup {NoTime}
        BY <2>1 DEF Sound, Indexes, Id
      <4>. QED BY <2>1, <3>1, <4>1, <4>2 DEF Plain
    <3>3. CASE ~ Stands(b)
      <4>1. GeneratedAt(b) \in Times
        BY <2>1, <3>3, GeneratedAtIs DEF AggregationInv
      <4>. QED BY <2>1, <3>1, <4>1 DEF Plain
    <3>. QED BY <3>2, <3>3
  <2>. QED BY <2>5, <2>6
<1>. QED BY <1>1, InvHolds, PTL DEF Spec, StartupDrains
-----------------------------------------------------------------------------
(* The revisions of a bucket as a chain                                     *)

Of(b) == {p \in Places : Revisions(p).id.bucket = b}

\* The current revision after those at S.
IdAt(S) == IF S = {} THEN None ELSE Revisions(LastOf(S)).id

\* Every revision of a bucket follows the one before it, the projection has a first
\* part of the chain, and shows its end.
Chain ==
  \A b \in Buckets :
    /\ \A p \in Of(b) : Revisions(p).prior = IdAt({q \in Of(b) : Before(q, p)})
    /\ \A p \in Of(b) \ Behind(index, b), q \in Behind(index, b) : Before(p, q)
    /\ index.current[b] = IdAt(Of(b) \ Behind(index, b))

\* Later revisions of a bucket have all the evidence of earlier ones.
Growing ==
  \A b \in Buckets : \A p, q \in Of(b) :
    Before(p, q) => Revisions(p).id.input \subseteq Revisions(q).id.input

\* The instant of a revision is that of its bucket or of one of its events.
Dated ==
  \A p \in Places :
    \/ Revisions(p).id.at = Due[Revisions(p).id.bucket]
    \/ \E e \in Revisions(p).id.input : Revisions(p).id.at = recorded[e]

\* There is one version, so no mark keeps an instant.
OneVersion ==
  /\ version = First /\ index.built \in {First, NoVersion}
  /\ \A p \in Places : Revisions(p).id.version = First
  /\ \A b \in Buckets : index.pending[b].at = NoTime

\* Only the last revision of a shard is ever about to be projected.
AtEnd(b) ==
  \E p \in Places :
    /\ Revisions(p) = Chunk(b) /\ p[2] = Len(shards[p[1]])
    /\ index.cursor[p[1]] = p[2] - 1
    /\ \A d \in Days \ {p[1]} : index.cursor[d] = Len(shards[d])

\* An engine that does not lag has projected everything.
KeptUp ==
  /\ pc \in {"index", "begin", "chunks"} => AllProjected(index)
  /\ pc = "up" /\ ~ lagging => AllProjected(index)
  /\ pc = "project" => \A b \in Buckets : Turn("project", b) => AtEnd(b)

\* Without failing writes it never lags.
Caught ==
  "busy" \notin Faults =>
    /\ ~ lagging
    /\ \A e, f \in call.event : e = f
    /\ pc \in {"up", "begin", "chunks", "project"} => logged \subseteq index.events
    /\ pc = "index" => logged \subseteq index.events \cup call.event

ChainInv == Chain /\ Growing /\ Dated /\ OneVersion /\ KeptUp /\ Caught

\* What is needed: one version, and no image may meet a lagging projection.
Steady == "upgrade" \notin Faults /\ ("busy" \notin Faults \/ \A e \in Events : Kind[e] # "image")

LEMMA OfIs ==
  ASSUME shards \in [Days -> Seq(Revision)], NEW ix \in Indexes, NEW b
  PROVE  /\ Of(b) \subseteq Places
         /\ Behind(ix, b) = {p \in Of(b) : ix.cursor[p[1]] < p[2]}
         /\ Behind(EmptyIndex, b) = Of(b)
<1>1. EmptyIndex \in Indexes /\ \A d \in Days : EmptyIndex.cursor[d] = 0
  BY IdFields DEF EmptyIndex, Indexes, Unmarked
<1>2. \A p \in Places : p[1] \in Days /\ 0 < p[2]
  BY DEF Places
<1>3. Behind(EmptyIndex, b) = Of(b)
  BY <1>1, <1>2, BehindIs DEF Of
<1>4. Behind(ix, b) = {p \in Of(b) : ix.cursor[p[1]] < p[2]}
  BY BehindIs DEF Of
<1>. QED BY <1>3, <1>4 DEF Of

\* The last of a set is the only one that all others come before.
LEMMA LastUnique ==
  ASSUME shards \in [Days -> Seq(Revision)], NEW S, S \subseteq Places,
         NEW p \in S, \A q \in S \ {p} : Before(q, p)
  PROVE  LastOf(S) = p
<1>1. LastOf(S) \in S /\ \A q \in S \ {LastOf(S)} : Before(q, LastOf(S))
  BY LastIs
<1>2. \A d \in Days : Len(shards[d]) \in Nat
  OBVIOUS
<1>3. LastOf(S) # p => Before(p, LastOf(S)) /\ Before(LastOf(S), p)
  BY <1>1
<1>. QED BY <1>1, <1>2, <1>3, BeforeIsOrder

\* What comes last of two parts, the second after the first.
LEMMA LastOfUnion ==
  ASSUME shards \in [Days -> Seq(Revision)], NEW S, NEW T, S \subseteq Places,
         T \subseteq Places, T # {}, \A p \in S, q \in T : Before(p, q)
  PROVE  LastOf(S \cup T) = LastOf(T)
<1>1. LastOf(T) \in T /\ \A q \in T \ {LastOf(T)} : Before(q, LastOf(T))
  BY LastIs
<1>. PICK l \in {LastOf(T)} : l = LastOf(T)
  OBVIOUS
<1>. PICK U \in {S \cup T} : U = S \cup T
  OBVIOUS
<1>2. l \in U /\ U \subseteq Places /\ \A q \in U \ {l} : Before(q, l)
  BY <1>1
<1>. QED BY <1>2, LastUnique

\* The current revision after all behind the cursors is the end of the chain.
LEMMA ReplayEnds ==
  ASSUME JournalOK, Sound(index), Chain, NEW b \in Buckets
  PROVE  /\ CurrentAfter(index, b, Behind(index, b)) = IdAt(Of(b))
         /\ \A p \in Behind(index, b) : Follows(index, b, p)
<1>. PICK B \in {Behind(index, b)} : B = Behind(index, b)
  OBVIOUS
<1>. PICK D \in {Of(b) \ B} : D = Of(b) \ B
  OBVIOUS
<1>0. shards \in [Days -> Seq(Revision)] /\ \A d \in Days : Len(shards[d]) \in Nat
  BY DEF JournalOK
<1>1. Of(b) \subseteq Places /\ B \subseteq Of(b) /\ Of(b) = D \cup B
  BY <1>0, OfIs DEF Sound
<1>2. /\ \A p \in Of(b) : Revisions(p).prior = IdAt({q \in Of(b) : Before(q, p)})
      /\ \A p \in D, q \in B : Before(p, q)
      /\ index.current[b] = IdAt(D)
  BY DEF Chain
<1>3. ASSUME NEW S, S \subseteq B
      PROVE  CurrentAfter(index, b, S) = IdAt(D \cup S)
  <2>1. CASE S = {}
    <3>1. D \cup S = D
      BY <2>1
    <3>. QED BY <1>2, <2>1, <3>1 DEF CurrentAfter
  <2>2. CASE S # {}
    <3>1. LastOf(D \cup S) = LastOf(S)
      BY <1>0, <1>1, <1>2, <1>3, <2>2, LastOfUnion
    <3>. QED BY <2>2, <3>1 DEF CurrentAfter, IdAt
  <2>. QED BY <2>1, <2>2
<1>4. CurrentAfter(index, b, B) = IdAt(Of(b))
  BY <1>1, <1>3
<1>5. ASSUME NEW p \in B
      PROVE  Revisions(p).prior = CurrentAfter(index, b, {q \in B : Before(q, p)})
  <2>. PICK S \in {{q \in B : Before(q, p)}} : S = {q \in B : Before(q, p)}
    OBVIOUS
  <2>1. {q \in Of(b) : Before(q, p)} = D \cup S
    BY <1>1, <1>2
  <2>2. Revisions(p).prior = IdAt(D \cup S)
    BY <1>1, <1>2, <2>1
  <2>3. S \subseteq B
    OBVIOUS
  <2>. QED BY <1>3, <2>2, <2>3
<1>. QED BY <1>4, <1>5 DEF Follows

\* So the journals replay into the index and into an empty one, to the same end.
LEMMA ReplaysAgree ==
  ASSUME JournalOK, Sound(index), Chain
  PROVE  /\ RebuildAgrees /\ Recovered = Replay(index)
         /\ \A b \in Buckets : Recovered.ix.current[b] = IdAt(Of(b))
<1>0. shards \in [Days -> Seq(Revision)] /\ logged \subseteq Events
  BY DEF JournalOK
<1>1. index \in Indexes /\ index.events \subseteq logged
  BY DEF Sound
<1>2. Replay(index).ok
  BY ReplayEnds DEF Replay
<1>3. EmptyIndex \in Indexes /\ EmptyIndex.events \subseteq logged
      /\ \A b \in Buckets : EmptyIndex.current[b] = None
  BY IdFields DEF EmptyIndex, Indexes, Unmarked
<1>4. \A b \in Buckets : Behind(EmptyIndex, b) = Of(b)
  BY <1>0, <1>1, OfIs
<1>5. \A b \in Buckets : \A S : CurrentAfter(EmptyIndex, b, S) = IdAt(S)
  BY <1>3 DEF CurrentAfter, IdAt
<1>6. Replay(EmptyIndex).ok
  <2>1. ASSUME NEW b \in Buckets, NEW p \in Behind(EmptyIndex, b)
        PROVE  Follows(EmptyIndex, b, p)
    <3>. PICK S \in {{q \in Of(b) : Before(q, p)}} : S = {q \in Of(b) : Before(q, p)}
      OBVIOUS
    <3>1. Revisions(p).prior = IdAt(S)
      BY <1>4, <2>1 DEF Chain
    <3>2. {q \in Behind(EmptyIndex, b) : Before(q, p)} = S
      BY <1>4
    <3>. QED BY <1>5, <3>1, <3>2 DEF Follows
  <2>. QED BY <2>1 DEF Replay
<1>7. /\ Replay(index).ix \in Indexes /\ Replay(index).ix.events = logged
      /\ \A b \in Buckets : Replay(index).ix.current[b] = IdAt(Of(b))
  BY <1>0, <1>1, ReplayIs, ReplayEnds
<1>8. /\ Replay(EmptyIndex).ix \in Indexes /\ Replay(EmptyIndex).ix.events = logged
      /\ \A b \in Buckets : Replay(EmptyIndex).ix.current[b] = IdAt(Of(b))
  BY <1>0, <1>3, <1>4, <1>5, ReplayIs
<1>9. Replay(index).ix.current = Replay(EmptyIndex).ix.current
  <2>1. /\ Replay(index).ix.current \in [Buckets -> Id]
        /\ Replay(EmptyIndex).ix.current \in [Buckets -> Id]
    BY <1>7, <1>8 DEF Indexes
  <2>. QED BY <1>7, <1>8, <2>1
<1>. QED BY <1>2, <1>6, <1>7, <1>8, <1>9 DEF RebuildAgrees, Recovered
-----------------------------------------------------------------------------
(* Steps keep the chain                                                     *)

\* The chain speaks of the journal and of what the projection has of it.
LEMMA ChainSame ==
  ASSUME JournalOK, Sound(index), Chain, Growing, shards' = shards,
         index'.cursor = index.cursor, index'.current = index.current
  PROVE  Chain' /\ Growing'
<1>1. Places' = Places /\ \A p : Revisions(p)' = Revisions(p)
  BY DEF Places, Revisions
<1>2. \A b : Of(b)' = Of(b) /\ Behind(index, b)' = Behind(index, b)
  BY <1>1 DEF Of, Behind
<1>3. \A S : IdAt(S)' = IdAt(S)
  BY <1>1 DEF IdAt
<1>4. Chain'
  <2>. SUFFICES ASSUME NEW b \in Buckets
       PROVE  /\ \A p \in Of(b) : Revisions(p)'.prior = IdAt({q \in Of(b) : Before(q, p)})
              /\ \A p \in Of(b) \ Behind(index, b), q \in Behind(index, b) : Before(p, q)
              /\ index'.current[b] = IdAt(Of(b) \ Behind(index, b))
    BY <1>1, <1>2, <1>3 DEF Chain, Before
  <2>. QED BY <1>1 DEF Chain
<1>5. Growing'
  BY <1>1, <1>2 DEF Growing, Before
<1>. QED BY <1>4, <1>5

\* A projection that has projected everything shows the end of every chain.
LEMMA ChainProjected ==
  ASSUME JournalOK, Sound(index), Sound(index)', Chain, Growing, shards' = shards,
         (AllProjected(index))', \A b \in Buckets : index'.current[b] = IdAt(Of(b))
  PROVE  Chain' /\ Growing'
<1>0. shards \in [Days -> Seq(Revision)] /\ index \in Indexes /\ index' \in Indexes
      /\ Places' = Places
  BY DEF JournalOK, Sound, Indexes, Places
<1>1. \A p : Revisions(p)' = Revisions(p)
  BY DEF Revisions
<1>2. \A b : Of(b)' = Of(b)
  BY <1>0, <1>1 DEF Of
<1>3. \A S : IdAt(S)' = IdAt(S)
  BY <1>1 DEF IdAt
<1>4. \A b \in Buckets : Behind(index, b)' = {}
  <2>. TAKE b \in Buckets
  <2>1. Behind(index, b)' = {p \in Places : index'.cursor[p[1]] < p[2]
                                            /\ Revisions(p).id.bucket = b}
    <3>. PICK c \in {index'} : c = index'
      OBVIOUS
    <3>1. Behind(c, b) = {p \in Places : c.cursor[p[1]] < p[2] /\ Revisions(p).id.bucket = b}
      BY <1>0, BehindIs
    <3>2. Behind(index, b)' = Behind(c, b)
      BY DEF Behind, Revisions
    <3>. QED BY <3>1, <3>2
  <2>2. \A p \in Places : ~ (index'.cursor[p[1]] < p[2])
    BY <1>0, RevisionTyped DEF AllProjected
  <2>. QED BY <2>1, <2>2
<1>5. Chain'
  <2>. SUFFICES ASSUME NEW b \in Buckets
       PROVE  /\ \A p \in Of(b) : Revisions(p).prior = IdAt({q \in Of(b) : Before(q, p)})
              /\ index'.current[b] = IdAt(Of(b) \ {})
    BY <1>1, <1>2, <1>3, <1>4 DEF Chain, Before
  <2>1. Of(b) \ {} = Of(b)
    OBVIOUS
  <2>. QED BY <2>1 DEF Chain
<1>6. Growing'
  BY <1>1, <1>2 DEF Growing, Before
<1>. QED BY <1>5, <1>6

LEMMA ChainRecovered ==
  ASSUME JournalOK, Sound(index), Sound(index)', Chain, Growing,
         shards' = shards, index' = Recovered.ix
  PROVE  Chain' /\ Growing' /\ (AllProjected(index))'
<1>1. /\ \A b \in Buckets : Recovered.ix.current[b] = IdAt(Of(b))
      /\ Recovered = Replay(index) /\ Replay(index).ok
  <2>1. RebuildAgrees
    BY ReplaysAgree
  <2>. QED BY <2>1, ReplaysAgree DEF RebuildAgrees
<1>2. AllProjected(Recovered.ix)
  BY <1>1, RecoveredIsSound
<1>3. (AllProjected(index))'
  BY <1>2 DEF AllProjected
<1>. QED BY <1>1, <1>3, ChainProjected

\* With everything projected, a bucket whose revision does not stand has no revision
\* with the evidence it has now.
LEMMA NotYet ==
  ASSUME Plain, JournalOK, Sound(index), Chain, Growing, OneVersion, AllProjected(index),
         NEW b \in Buckets, ~ Stands(b), NEW p \in Of(b)
  PROVE  /\ Of(b) # {} /\ index.current[b] = Revisions(LastOf(Of(b))).id
         /\ \A q \in Of(b) : Revisions(q).id.input \subseteq index.current[b].input
         /\ Revisions(p).id.input # Members(index, b)
<1>0. shards \in [Days -> Seq(Revision)] /\ index \in Indexes /\ Filed
  BY DEF JournalOK, Sound
<1>1. Of(b) \subseteq Places /\ Behind(index, b) = {}
  <2>1. Behind(index, b) = {q \in Places : index.cursor[q[1]] < q[2]
                                            /\ Revisions(q).id.bucket = b}
    BY <1>0, BehindIs
  <2>2. \A q \in Places : ~ (index.cursor[q[1]] < q[2])
    BY <1>0, RevisionTyped DEF AllProjected
  <2>. QED BY <2>1, <2>2 DEF Of
<1>2. Of(b) \ Behind(index, b) = Of(b)
  BY <1>1
<1>3. index.current[b] = Revisions(LastOf(Of(b))).id
  BY <1>2 DEF Chain, IdAt
<1>4. LastOf(Of(b)) \in Of(b) /\ \A q \in Of(b) \ {LastOf(Of(b))} : Before(q, LastOf(Of(b)))
  BY <1>0, <1>1, LastIs
<1>5. \A q \in Of(b) : Revisions(q).id.input \subseteq index.current[b].input
  BY <1>3, <1>4 DEF Growing
<1>6. Revisions(p).id.input # Members(index, b)
  <2>1. SUFFICES ASSUME Revisions(p).id.input = Members(index, b) PROVE FALSE
    OBVIOUS
  <2>2. index.current[b].input = Members(index, b)
    BY <1>5, <2>1 DEF Sound
  <2>3. index.current[b].version = version
    BY <1>1, <1>3, <1>4 DEF OneVersion
  <2>4. index.current[b] # None
    BY <2>3, IdFields, AggregationAssumption DEF OneVersion
  <2>. QED BY <2>2, <2>3, <2>4 DEF Stands
<1>. QED BY <1>3, <1>5, <1>6

\* The instant of a new revision is not before those of its bucket.
LEMMA NotBefore ==
  ASSUME Plain, JournalOK, Sound(index), Chain, Growing, OneVersion, Dated, AllProjected(index),
         NEW b \in Buckets, ~ Stands(b), NEW p \in Of(b)
  PROVE  Revisions(p).id.at <= GeneratedAt(b) /\ p[1] <= Day(GeneratedAt(b))
<1>. DEFINE S == {Due[b]} \cup {recorded[e] : e \in Members(index, b)}
                 \cup (IF index.current[b].input = Members(index, b)
                       THEN {index.pending[b].at} ELSE {})
<1>0. /\ p \in Places /\ Revisions(p).id.bucket = b /\ p[1] = Day(Revisions(p).id.at)
      /\ Revisions(p).id.at \in Times
  BY DEF Of, JournalOK, Filed
<1>1. Due[b] \in Times /\ Due[b] \in S
  BY AggregationAssumption
<1>2. \A e \in Members(index, b) : recorded[e] \in Times
  BY DEF Members, Plain, Sound
<1>3. index.pending[b].at \in Times \cup {NoTime}
  BY DEF Sound, Indexes
<1>4. S \subseteq Times \cup {NoTime}
  <2>1. CASE index.current[b].input = Members(index, b)
    BY <1>1, <1>2, <1>3, <2>1
  <2>2. CASE index.current[b].input # Members(index, b)
    BY <1>1, <1>2, <2>2
  <2>. QED BY <2>1, <2>2
<1>5. GeneratedAt(b) = Latest(S)
  BY DEF GeneratedAt
<1>6. Revisions(p).id.input \subseteq Members(index, b)
  BY NotYet DEF Sound
<1>7. Revisions(p).id.at \in S
  BY <1>0, <1>6 DEF Dated
<1>. HIDE DEF S
<1>8. Revisions(p).id.at <= GeneratedAt(b)
  BY <1>4, <1>5, <1>7, LatestIs
<1>9. GeneratedAt(b) \in Times
  BY GeneratedAtIs
<1>. QED BY <1>0, <1>8, <1>9, DayIs
\* The new revision is the last of its bucket, and of its shard.
LEMMA ChainAppend ==
  ASSUME Plain, JournalOK, Sound(index), Chain, Growing, OneVersion, Dated, AllProjected(index),
         NEW b \in Buckets, AppendChunk(b)
  PROVE  Chain' /\ Growing' /\ Dated' /\ OneVersion' /\ AtEnd(b)'
<1>0. /\ ~ Stands(b) /\ UNCHANGED <<index, version, recorded, logged, batch>>
      /\ shards \in [Days -> Seq(Revision)] /\ index \in Indexes /\ Filed
      /\ \A d \in Days : Len(shards[d]) \in Nat /\ index.cursor[d] = Len(shards[d])
  BY DEF AppendChunk, JournalOK, Sound, AllProjected
<1>. PICK r \in {Chunk(b)} : r = Chunk(b)
  OBVIOUS
<1>. PICK d \in {Day(r.id.at)} : d = Day(r.id.at)
  OBVIOUS
<1>. PICK n \in {Len(shards[d]) + 1} : n = Len(shards[d]) + 1
  OBVIOUS
<1>. PICK np \in {<<d, n>>} : np = <<d, n>>
  OBVIOUS
<1>1. /\ r \in Revision /\ d \in Days /\ r.id.version = version /\ r.id.bucket = b
      /\ r.id.input = Members(index, b) /\ r.prior = index.current[b]
      /\ r.id.at = GeneratedAt(b) /\ np[1] = d /\ np[2] = n
  BY <1>0, ChunkIs DEF Chunk
<1>2. r \notin InJournal
  <2>1. SUFFICES ASSUME NEW p \in Places, Revisions(p) = r PROVE FALSE
    BY <1>0, InJournalIs
  <2>2. p \in Of(b)
    BY <1>1, <2>1 DEF Of
  <2>. QED BY <1>0, <1>1, <2>1, <2>2, NotYet
<1>3. shards' = [shards EXCEPT ![d] = Append(@, r)]
  BY <1>2 DEF AppendChunk
<1>4. /\ Places' = Places \cup {np}
      /\ \A p \in Places : Revisions(p)' = Revisions(p)
      /\ Revisions(np)' = r
      /\ \A x \in Days : Len(shards'[x]) = IF x = d THEN n ELSE Len(shards[x])
      /\ shards' \in [Days -> Seq(Revision)]
  BY <1>0, <1>1, <1>3, AppendIs
<1>17. np \notin Places
  BY <1>0, <1>1 DEF Places
<1>5. \A p \in Of(b) : Before(p, np)
  <2>. TAKE p \in Of(b)
  <2>1. p[1] <= d
    BY <1>0, <1>1, NotBefore
  <2>2. p \in Places /\ p[1] \in Days /\ p[2] \in 1 .. Len(shards[p[1]])
    BY DEF Of, Places
  <2>3. p[1] \in Int /\ d \in Int /\ p[2] \in Int /\ n \in Int
    BY <1>0, <1>1, <2>2 DEF Days
  <2>4. p[1] = d => p[2] < n
    BY <1>0, <1>1, <2>2, <2>3
  <2>. QED BY <1>1, <2>1, <2>3, <2>4 DEF Before
<1>6. Of(b)' = Of(b) \cup {np} /\ \A x \in Buckets \ {b} : Of(x)' = Of(x)
  <2>1. \A x : Of(x)' = {p \in Places' : Revisions(p)'.id.bucket = x}
    BY DEF Of
  <2>2. ASSUME NEW x PROVE Of(x)' = {p \in Places : Revisions(p).id.bucket = x}
                                      \cup {p \in {np} : r.id.bucket = x}
    BY <1>4, <2>1
  <2>3. \A x : Of(x) = {p \in Places : Revisions(p).id.bucket = x}
    BY DEF Of
  <2>4. {p \in {np} : r.id.bucket = b} = {np}
    BY <1>1
  <2>5. \A x \in Buckets \ {b} : {p \in {np} : r.id.bucket = x} = {}
    BY <1>1
  <2>. HIDE DEF Of
  <2>. QED BY <2>2, <2>3, <2>4, <2>5
<1>7. Behind(index, b)' = {np} /\ \A x \in Buckets \ {b} : Behind(index, x)' = {}
  <2>. PICK U \in {UNION {{y} \X (index.cursor[y] + 1 .. Len(shards'[y])) : y \in Days}} :
            U = UNION {{y} \X (index.cursor[y] + 1 .. Len(shards'[y])) : y \in Days}
    OBVIOUS
  <2>1. \A x : Behind(index, x)' = {p \in U : Revisions(p)'.id.bucket = x}
    BY <1>0 DEF Behind
  <2>2. np \in U
    <3>1. np \in {d} \X (index.cursor[d] + 1 .. Len(shards'[d]))
      BY <1>0, <1>1, <1>4
    <3>. QED BY <1>1, <3>1
  <2>3. ASSUME NEW p \in U PROVE p = np
    <3>1. PICK y \in Days : p \in {y} \X (index.cursor[y] + 1 .. Len(shards'[y]))
      OBVIOUS
    <3>2. y = d
      BY <1>0, <1>4, <3>1
    <3>. QED BY <1>0, <1>1, <1>4, <3>1, <3>2
  <2>4. U = {np} /\ Revisions(np)'.id.bucket = b
    BY <1>1, <1>4, <2>2, <2>3
  <2>5. ASSUME NEW x PROVE Behind(index, x)' = {p \in {np} : b = x}
    BY <2>1, <2>4
  <2>. QED BY <2>5
<1>8. \A S \in SUBSET Places : IdAt(S)' = IdAt(S)
  BY <1>0, <1>4, LastIs DEF IdAt
<1>9. ASSUME NEW x \in Buckets
      PROVE  /\ \A p \in Of(x) : Revisions(p).prior = IdAt({q \in Of(x) : Before(q, p)})
             /\ index.current[x] = IdAt(Of(x)) /\ Of(x) \subseteq Places
  <2>1. Behind(index, x) = {p \in Places : index.cursor[p[1]] < p[2]
                                            /\ Revisions(p).id.bucket = x}
    BY <1>0, BehindIs
  <2>2. \A p \in Places : ~ (index.cursor[p[1]] < p[2])
    BY <1>0, RevisionTyped
  <2>3. Of(x) \ Behind(index, x) = Of(x)
    BY <2>1, <2>2
  <2>. QED BY <2>3 DEF Chain, Of
<1>10. \A p \in Of(b) : ~ Before(np, p)
  BY <1>1, <1>5, <1>9 DEF Before, Places, Days
<1>11. ~ Before(np, np)
  BY <1>1, <1>0 DEF Before, Days
<1>12. Chain'
  <2>. SUFFICES ASSUME NEW x \in Buckets
       PROVE  /\ \A p \in Of(x)' : Revisions(p)'.prior = IdAt({q \in Of(x) : Before(q, p)})'
              /\ \A p \in Of(x)' \ Behind(index, x)', q \in Behind(index, x)' : Before(p, q)
              /\ index'.current[x] = IdAt(Of(x) \ Behind(index, x))'
    BY DEF Chain, Before
  <2>1. CASE x # b
    <3>1. Of(x)' = Of(x) /\ Behind(index, x)' = {}
      BY <1>6, <1>7, <2>1
    <3>2. ASSUME NEW p \in Of(x)
          PROVE  Revisions(p)'.prior = IdAt({q \in Of(x) : Before(q, p)})'
      <4>. PICK S \in {{q \in Of(x) : Before(q, p)}} : S = {q \in Of(x) : Before(q, p)}
        OBVIOUS
      <4>1. S \in SUBSET Places /\ Revisions(p)' = Revisions(p) /\ Revisions(p).prior = IdAt(S)
        BY <1>4, <1>9
      <4>2. S = {q \in Of(x) : Before(q, p)}'
        BY <3>1 DEF Before
      <4>3. IdAt(S)' = IdAt(S)
        BY <1>8, <4>1
      <4>4. IdAt({q \in Of(x) : Before(q, p)})' = IdAt(S)'
        BY <4>2 DEF IdAt
      <4>. QED BY <4>1, <4>3, <4>4
    <3>3. index'.current[x] = IdAt(Of(x) \ Behind(index, x))'
      <4>. PICK S \in {Of(x)} : S = Of(x)
        OBVIOUS
      <4>1. S = (Of(x) \ Behind(index, x))'
        BY <3>1
      <4>2. IdAt(Of(x) \ Behind(index, x))' = IdAt(S)'
        BY <4>1 DEF IdAt
      <4>. QED BY <1>0, <1>8, <1>9, <4>2
    <3>. QED BY <3>1, <3>2, <3>3
  <2>2. CASE x = b
    <3>1. Of(b)' = Of(b) \cup {np} /\ Behind(index, b)' = {np} /\ np \notin Of(b)
      BY <1>17, <1>6, <1>7, <1>9
    <3>2. ASSUME NEW p \in Of(b) \cup {np}
          PROVE  Revisions(p)'.prior = IdAt({q \in Of(b) : Before(q, p)})'
      <4>. PICK S \in {{q \in Of(b) : Before(q, p)}} : S = {q \in Of(b) : Before(q, p)}
        OBVIOUS
      <4>1. S = {q \in Of(b) : Before(q, p)}'
        BY <1>10, <1>11, <3>1 DEF Before
      <4>2. IdAt({q \in Of(b) : Before(q, p)})' = IdAt(S)'
        BY <4>1 DEF IdAt
      <4>3. S \in SUBSET Places
        BY <1>9
      <4>4. Revisions(p)'.prior = IdAt(S)
        <5>1. CASE p \in Of(b)
          BY <1>4, <1>9, <5>1
        <5>2. CASE p = np
          <6>1. S = Of(b)
            BY <1>5, <5>2
          <6>. QED BY <1>1, <1>4, <1>9, <5>2, <6>1
        <5>. QED BY <5>1, <5>2
      <4>. QED BY <1>8, <4>2, <4>3, <4>4
    <3>3. index'.current[b] = IdAt(Of(b) \ Behind(index, b))'
      <4>. PICK S \in {Of(b)} : S = Of(b)
        OBVIOUS
      <4>1. S = (Of(b) \ Behind(index, b))'
        BY <3>1
      <4>2. IdAt(Of(b) \ Behind(index, b))' = IdAt(S)'
        BY <4>1 DEF IdAt
      <4>. QED BY <1>0, <1>8, <1>9, <4>2
    <3>4. \A p \in Of(b)' \ Behind(index, b)', q \in Behind(index, b)' : Before(p, q)
      BY <1>5, <3>1
    <3>. QED BY <2>2, <3>1, <3>2, <3>3, <3>4
  <2>. QED BY <2>1, <2>2
<1>13. Growing'
  <2>. SUFFICES ASSUME NEW x \in Buckets, NEW p \in Of(x)', NEW q \in Of(x)', Before(p, q)
       PROVE  Revisions(p)'.id.input \subseteq Revisions(q)'.id.input
    BY DEF Growing, Before
  <2>1. CASE p \in Of(x) /\ q \in Of(x)
    BY <1>4, <1>9, <2>1 DEF Growing
  <2>2. CASE x = b /\ q = np
    <3>1. p \in Of(b)
      BY <1>6, <1>11, <2>2
    <3>2. Revisions(p).id.input \subseteq index.current[b].input
      BY <1>0, <3>1, NotYet
    <3>3. index.current[b].input \subseteq Members(index, b)
      BY DEF Sound
    <3>4. Revisions(p)' = Revisions(p)
      BY <1>4, <1>9, <3>1
    <3>5. Revisions(q)'.id.input = Members(index, b)
      BY <1>1, <1>4, <2>2
    <3>. QED BY <3>2, <3>3, <3>4, <3>5
  <2>3. CASE x = b /\ p = np /\ q \in Of(b)
    BY <1>10, <2>3
  <2>. QED BY <1>6, <2>1, <2>2, <2>3
<1>14. Dated'
  <2>. SUFFICES ASSUME NEW p \in Places'
       PROVE  \/ Revisions(p)'.id.at = Due[Revisions(p)'.id.bucket]
              \/ \E e \in Revisions(p)'.id.input : Revisions(p)'.id.at = recorded[e]
    BY <1>0 DEF Dated
  <2>1. CASE p \in Places
    BY <1>4, <2>1 DEF Dated
  <2>2. CASE p = np
    <3>1. \/ GeneratedAt(b) = Due[b]
          \/ \E e \in Members(index, b) : GeneratedAt(b) = recorded[e]
      <4>. DEFINE S == {Due[b]} \cup {recorded[e] : e \in Members(index, b)}
                       \cup (IF index.current[b].input = Members(index, b)
                             THEN {index.pending[b].at} ELSE {})
      <4>1. Due[b] \in Times
        BY AggregationAssumption
      <4>2. \A e \in Members(index, b) : recorded[e] \in Times
        BY DEF Members, Plain, Sound
      <4>3. index.pending[b].at = NoTime
        BY DEF OneVersion
      <4>4. S \subseteq Times \cup {NoTime} /\ Due[b] \in S
        <5>1. CASE index.current[b].input = Members(index, b)
          BY <4>1, <4>2, <4>3, <5>1
        <5>2. CASE index.current[b].input # Members(index, b)
          BY <4>1, <4>2, <5>2
        <5>. QED BY <5>1, <5>2
      <4>5. \A t \in S : t = NoTime \/ t = Due[b] \/ \E e \in Members(index, b) : t = recorded[e]
        BY <4>3
      <4>6. GeneratedAt(b) = Latest(S)
        BY <1>0 DEF GeneratedAt
      <4>. HIDE DEF S
      <4>7. GeneratedAt(b) \in S
        BY <4>4, <4>6, LatestIs
      <4>8. GeneratedAt(b) # NoTime
        <5>1. NoTime \notin Times
          BY AggregationAssumption DEF NoTime, Times
        <5>. QED BY <1>0, <5>1, GeneratedAtIs
      <4>. QED BY <4>5, <4>7, <4>8
    <3>2. Revisions(p)' = r
      BY <1>4, <2>2
    <3>. QED BY <1>1, <3>1, <3>2
  <2>. QED BY <1>4, <2>1, <2>2
<1>15. OneVersion'
  BY <1>0, <1>1, <1>4 DEF OneVersion
<1>16. AtEnd(b)'
  <2>1. Chunk(b)' = r
    BY <1>0, ChunkSame
  <2>2. /\ Revisions(np)' = Chunk(b)' /\ np[2] = Len(shards'[np[1]])
        /\ index'.cursor[np[1]] = np[2] - 1
        /\ \A x \in Days \ {np[1]} : index'.cursor[x] = Len(shards'[x])
    BY <1>0, <1>1, <1>4, <2>1
  <2>. QED BY <1>4, <2>2 DEF AtEnd
<1>. QED BY <1>12, <1>13, <1>14, <1>15, <1>16

\* Projecting it brings the projection to the end.
LEMMA ChainProject ==
  ASSUME Plain, JournalOK, Sound(index), Sound(index)', Chain, Growing,
         NEW b \in Buckets, ~ Stands(b), AtEnd(b), shards' = shards,
         index' = IndexChunk(index, Chunk(b))
  PROVE  Chain' /\ Growing' /\ (AllProjected(index))'
<1>0. shards \in [Days -> Seq(Revision)] /\ index \in Indexes /\ Filed
      /\ \A d \in Days : Len(shards[d]) \in Nat /\ index.cursor[d] \in Nat
  BY DEF JournalOK, Sound, Indexes
<1>. PICK r \in {Chunk(b)} : r = Chunk(b)
  OBVIOUS
<1>. PICK d \in {Day(r.id.at)} : d = Day(r.id.at)
  OBVIOUS
<1>1. PICK p \in Places : /\ Revisions(p) = r /\ p[2] = Len(shards[p[1]])
                          /\ index.cursor[p[1]] = p[2] - 1
                          /\ \A x \in Days \ {p[1]} : index.cursor[x] = Len(shards[x])
  BY DEF AtEnd
<1>2. /\ r.id.bucket = b /\ d \in Days /\ p[1] = d
  BY <1>0, <1>1, ChunkIs DEF Filed
<1>3. /\ index'.current = [index.current EXCEPT ![b] = r.id]
      /\ index'.cursor = [index.cursor EXCEPT ![d] = @ + 1]
  BY IndexChunkIs
<1>4. (AllProjected(index))'
  BY <1>0, <1>1, <1>2, <1>3 DEF AllProjected, Indexes
<1>5. \A q \in Places : index.cursor[q[1]] < q[2] => q = p
  <2>. SUFFICES ASSUME NEW q \in Places, index.cursor[q[1]] < q[2] PROVE q = p
    OBVIOUS
  <2>1. q[1] \in Days /\ q[2] \in 1 .. Len(shards[q[1]]) /\ q = <<q[1], q[2]>> /\ p = <<p[1], p[2]>>
    BY DEF Places
  <2>2. q[1] = p[1]
    BY <1>0, <1>1, <2>1
  <2>3. q[2] = p[2]
    BY <1>0, <1>1, <2>1, <2>2
  <2>. QED BY <2>1, <2>2, <2>3
<1>6. ASSUME NEW x \in Buckets
      PROVE  index'.current[x] = IdAt(Of(x))
  <2>1. Behind(index, x) = {q \in Of(x) : index.cursor[q[1]] < q[2]} /\ Of(x) \subseteq Places
    BY <1>0, OfIs
  <2>2. CASE x = b
    <3>1. p \in Of(b)
      BY <1>1, <1>2 DEF Of
    <3>2. Behind(index, b) = {p}
      BY <1>0, <1>1, <1>2, <1>5, <2>1, <2>2, <3>1
    <3>3. \A q \in Of(b) \ {p} : Before(q, p)
      BY <3>2 DEF Chain
    <3>4. LastOf(Of(b)) = p
      BY <1>0, <2>1, <2>2, <3>1, <3>3, LastUnique
    <3>5. IdAt(Of(b)) = r.id
      BY <1>1, <3>1, <3>4 DEF IdAt
    <3>. QED BY <1>0, <1>3, <2>2, <3>5 DEF Indexes
  <2>3. CASE x # b
    <3>1. p \notin Of(x)
      BY <1>1, <1>2, <2>3 DEF Of
    <3>2. Of(x) \ Behind(index, x) = Of(x)
      BY <1>5, <2>1, <3>1
    <3>3. index.current[x] = IdAt(Of(x))
      BY <3>2 DEF Chain
    <3>. QED BY <1>0, <1>3, <2>3, <3>3 DEF Indexes
  <2>. QED BY <2>2, <2>3
<1>. QED BY <1>4, <1>6, ChainProjected
LEMMA InitChain == Init => ChainInv
<1>. SUFFICES ASSUME Init PROVE ChainInv
  OBVIOUS
<1>1. AggregationInv
  BY InitInv
<1>2. shards \in [Days -> Seq(Revision)] /\ index \in Indexes /\ index = EmptyIndex
  BY <1>1 DEF AggregationInv, JournalOK, Sound, Init
<1>3. Places = {}
  BY DEF Init, Places
<1>4. \A b : Of(b) = {} /\ Behind(index, b) = {}
  BY <1>2, <1>3, OfIs DEF Of
<1>5. Chain
  <2>1. \A b \in Buckets : index.current[b] = None
    BY <1>2 DEF EmptyIndex
  <2>. QED BY <1>4, <2>1 DEF Chain, IdAt
<1>6. Growing /\ Dated
  BY <1>3, <1>4 DEF Growing, Dated
<1>7. OneVersion
  <2>1. \A b \in Buckets : index.pending[b].at = NoTime
    BY <1>2 DEF EmptyIndex, Unmarked
  <2>2. index.built = NoVersion /\ version = First
    BY <1>2 DEF EmptyIndex, Init
  <2>. QED BY <1>3, <2>1, <2>2 DEF OneVersion
<1>8. KeptUp /\ Caught
  BY NoCallIs DEF KeptUp, Caught, Init
<1>. QED BY <1>5, <1>6, <1>7, <1>8 DEF ChainInv

\* The instants of journaled events do not change.
LEMMA RecordedStays ==
  ASSUME AggregationInv, [Next]_vars
  PROVE  \A e \in logged : recorded'[e] = recorded[e]
<1>0. Plain /\ logged \subseteq Events
  BY DEF AggregationInv, JournalOK
<1>1. ASSUME NEW e \in Events, Record(e) PROVE \A x \in logged : recorded'[x] = recorded[x]
  <2>1. e \notin logged
    <3>1. NoTime \notin Times
      BY AggregationAssumption DEF NoTime, Times
    <3>. QED BY <1>0, <1>1, <3>1 DEF Record, Plain
  <2>2. PICK t : recorded' = [recorded EXCEPT ![e] = t]
    BY <1>1 DEF Record
  <2>. QED BY <1>0, <2>1, <2>2 DEF Plain
<1>2. ASSUME Quit PROVE \A x \in logged : recorded'[x] = recorded[x]
  BY <1>0, <1>2 DEF Quit
<1>3. ASSUME recorded' = recorded PROVE \A x \in logged : recorded'[x] = recorded[x]
  BY <1>3
<1>. QED
  BY <1>1, <1>2, <1>3
     DEF Next, Step, vars, Start, Ingest, Retain, IndexEvent, IndexEventFails, Begin, Skip,
         AlreadyCurrent, AppendChunk, ProjectChunk, AppendRejected, ProjectRejected, EndBatch,
         Tick, Rollback, Close, Crash, Upgrade, LoseIndex

LEMMA DatedSame ==
  ASSUME JournalOK, Dated, shards' = shards, \A e \in logged : recorded'[e] = recorded[e]
  PROVE  Dated'
<1>1. Places' = Places /\ \A p : Revisions(p)' = Revisions(p)
  BY DEF Places, Revisions
<1>2. \A p \in Places : Revisions(p).id.input \subseteq logged
  BY DEF JournalOK, Filed, Journaled
<1>. QED BY <1>1, <1>2 DEF Dated

\* What a step that appends nothing does to the versions and the marks.
LEMMA OneVersionSame ==
  ASSUME OneVersion, shards' = shards, version' = version,
         index'.built \in {First, NoVersion}, \A b \in Buckets : index'.pending[b].at = NoTime
  PROVE  OneVersion'
<1>1. Places' = Places /\ \A p : Revisions(p)' = Revisions(p)
  BY DEF Places, Revisions
<1>. QED BY <1>1 DEF OneVersion

LEMMA OneVersionStep ==
  ASSUME Steady, AggregationInv, Chain, Growing, Dated, OneVersion, KeptUp, [Next]_vars
  PROVE  OneVersion'
<1>0. /\ Plain /\ JournalOK /\ Sound(index) /\ PreparedFor /\ Placed /\ index \in Indexes
      /\ \A b \in Buckets : index.pending[b].at = NoTime
      /\ index.built \in {First, NoVersion} /\ version = First
  BY DEF AggregationInv, Sound, OneVersion
<1>. USE OneVersionSame
<1>1. ASSUME UNCHANGED <<shards, version, index>> PROVE OneVersion'
  BY <1>0, <1>1
<1>2. ASSUME index' = Recovered.ix, shards' = shards, version' = version PROVE OneVersion'
  <2>1. Recovered = Replay(index) /\ logged \subseteq Events /\ index.events \subseteq logged
        /\ shards \in [Days -> Seq(Revision)]
    BY <1>0, ReplaysAgree DEF Sound, JournalOK
  <2>2. /\ Recovered.ix.built = index.built
        /\ \A b \in Buckets :
              \/ Recovered.ix.pending[b] = Unmarked
              \/ Recovered.ix.pending[b] = IndexEvents(index, logged).pending[b]
    BY <1>0, <2>1, ReplayIs
  <2>3. \A b \in Buckets : IndexEvents(index, logged).pending[b].at = NoTime
    BY <1>0, <2>1, IndexEventsIs DEF MarkAfter
  <2>4. \A b \in Buckets : Recovered.ix.pending[b].at = NoTime
    BY <2>2, <2>3 DEF Unmarked
  <2>. QED BY <1>0, <1>2, <2>2, <2>4
<1>3. CASE Start
  BY <1>2, <1>3 DEF Start, journal
<1>4. ASSUME NEW e \in Events, Ingest(e) PROVE OneVersion'
  BY <1>1, <1>2, <1>4 DEF Ingest
<1>5. CASE IndexEvent
  <2>1. call.event \subseteq Events
    BY <1>0 DEF Plain
  <2>. PICK S \in {call.event} : S = call.event
    OBVIOUS
  <2>2. /\ index'.built = index.built
        /\ \A b \in Buckets : index'.pending[b] = MarkAfter(index, S, b)
    BY <1>0, <1>5, <2>1, IndexEventsIs DEF IndexEvent
  <2>3. \A b \in Buckets : MarkAfter(index, S, b).at = NoTime
    BY <1>0 DEF MarkAfter
  <2>. QED BY <1>0, <1>5, <2>2, <2>3 DEF IndexEvent, journal
<1>6. CASE Begin
  <2>1. \A b \in Buckets : Prepared.pending[b].at = NoTime
    <3>1. CASE index.built = version
      BY <1>0, <3>1 DEF Prepared
    <3>2. CASE index.built # version
      <4>. SUFFICES ASSUME NEW b \in Buckets PROVE Prepared.pending[b].at = NoTime
        OBVIOUS
      <4>1. index.current[b] = None \/ index.current[b].version = version
        <5>1. index.current[b] = IdAt(Of(b) \ Behind(index, b)) /\ Of(b) \subseteq Places
          BY DEF Chain, Of
        <5>2. Of(b) \ Behind(index, b) # {} =>
                LastOf(Of(b) \ Behind(index, b)) \in Places
          BY <1>0, <5>1, LastIs DEF JournalOK
        <5>. QED BY <1>0, <5>1, <5>2 DEF IdAt, OneVersion
      <4>2. Prepared.pending[b] = index.pending[b]
        BY <1>0, <3>2, <4>1 DEF Prepared, Indexes
      <4>. QED BY <1>0, <4>2
    <3>. QED BY <3>1, <3>2
  <2>2. Prepared.built = version
    BY <1>0, <1>6, PreparedSound DEF PreparedFor, Begin
  <2>. QED BY <1>0, <1>6, <2>1, <2>2 DEF Begin, journal
<1>7. ASSUME NEW b \in Buckets, AlreadyCurrent(b) PROVE OneVersion'
  <2>1. index' = Clean(index, b) /\ shards' = shards /\ version' = version
    BY <1>7 DEF AlreadyCurrent, journal
  <2>2. \A x \in Buckets : index'.pending[x].at = NoTime
    BY <1>0, <2>1 DEF Clean, Unmarked, Indexes
  <2>. QED BY <1>0, <2>1, <2>2, CleanIs
<1>8. ASSUME NEW b \in Buckets, AppendChunk(b) PROVE OneVersion'
  <2>1. AllProjected(index)
    BY <1>8 DEF AppendChunk, Turn, KeptUp
  <2>. QED BY <1>0, <1>8, <2>1, ChainAppend
<1>9. ASSUME NEW b \in Buckets, ProjectChunk(b) PROVE OneVersion'
  <2>1. /\ Turn("project", b) /\ index' = IndexChunk(index, Chunk(b))
        /\ shards' = shards /\ version' = version
    BY <1>9 DEF ProjectChunk, journal
  <2>2. ~ Stands(b)
    BY <1>0, <2>1 DEF Placed, Turn
  <2>3. /\ index'.built = index.built /\ index'.pending[b].at = NoTime
        /\ \A x \in Buckets \ {b} : index'.pending[x] = index.pending[x]
    BY <1>0, <2>1, <2>2, IndexChunkIs
  <2>. QED BY <1>0, <2>1, <2>3
<1>10. CASE LoseIndex
  <2>1. \A b \in Buckets : index'.pending[b].at = NoTime
    BY <1>10 DEF LoseIndex, EmptyIndex, Unmarked
  <2>2. index'.built = NoVersion
    BY <1>10 DEF LoseIndex, EmptyIndex
  <2>. QED BY <1>0, <1>10, <2>1, <2>2 DEF LoseIndex, journal
<1>11. ~ Upgrade
  BY DEF Upgrade, Fault, Steady
<1>. QED
  BY <1>1, <1>3, <1>4, <1>5, <1>6, <1>7, <1>8, <1>9, <1>10, <1>11
     DEF Next, Step, vars, journal, Record, Retain, Log, IndexEventFails, Skip, AppendRejected,
         ProjectRejected, EndBatch, Tick, Rollback, Close, Crash, Quit

\* A new projection has nothing of any chain.
LEMMA ChainEmpty ==
  ASSUME JournalOK, Chain, Growing, shards' = shards, index' = EmptyIndex
  PROVE  Chain' /\ Growing'
<1>0. /\ shards \in [Days -> Seq(Revision)] /\ EmptyIndex \in Indexes
      /\ \A b \in Buckets : EmptyIndex.current[b] = None
  BY IdFields DEF JournalOK, EmptyIndex, Indexes, Unmarked
<1>1. Places' = Places /\ \A p : Revisions(p)' = Revisions(p)
  BY DEF Places, Revisions
<1>2. \A b : Of(b)' = Of(b)
  BY <1>1 DEF Of
<1>3. \A S : IdAt(S)' = IdAt(S)
  BY <1>1 DEF IdAt
<1>4. \A b \in Buckets : Behind(index, b)' = Of(b)
  <2>. TAKE b \in Buckets
  <2>1. Behind(index, b)' = Behind(EmptyIndex, b)
    BY DEF Behind, Revisions
  <2>. QED BY <1>0, <2>1, OfIs
<1>5. Chain'
  <2>. SUFFICES ASSUME NEW b \in Buckets
       PROVE  /\ \A p \in Of(b) : Revisions(p).prior = IdAt({q \in Of(b) : Before(q, p)})
              /\ index'.current[b] = IdAt({})
    BY <1>1, <1>2, <1>3, <1>4 DEF Chain, Before
  <2>. QED BY <1>0 DEF Chain, IdAt
<1>6. Growing'
  BY <1>1, <1>2 DEF Growing, Before
<1>. QED BY <1>5, <1>6

LEMMA ChainStep ==
  ASSUME Steady, AggregationInv, ChainInv, [Next]_vars
  PROVE  Chain' /\ Growing'
<1>0. /\ Plain /\ JournalOK /\ Sound(index) /\ PreparedFor /\ Placed /\ index \in Indexes
      /\ Chain /\ Growing /\ Dated /\ OneVersion /\ KeptUp
      /\ logged \subseteq Events
  BY DEF AggregationInv, Sound, ChainInv, JournalOK
<1>1. Sound(index)'
  BY SoundStep
<1>2. ASSUME UNCHANGED <<shards, index>> PROVE Chain' /\ Growing'
  BY <1>0, <1>2, ChainSame
<1>3. CASE Start
  BY <1>0, <1>1, <1>3, ChainRecovered DEF Start, journal
<1>4. ASSUME NEW e \in Events, Ingest(e) PROVE Chain' /\ Growing'
  BY <1>0, <1>1, <1>2, <1>4, ChainRecovered DEF Ingest
<1>5. CASE IndexEvent
  <2>1. call.event \subseteq Events
    BY <1>0 DEF Plain
  <2>. PICK S \in {call.event} : S = call.event
    OBVIOUS
  <2>2. index'.cursor = index.cursor /\ index'.current = index.current
    BY <1>0, <1>5, <2>1, IndexEventsIs DEF IndexEvent
  <2>. QED BY <1>0, <1>5, <2>2, ChainSame DEF IndexEvent, journal
<1>6. CASE Begin
  <2>1. Prepared.cursor = index.cursor /\ Prepared.current = index.current
    BY <1>0 DEF Prepared, Indexes
  <2>. QED BY <1>0, <1>6, <2>1, ChainSame DEF Begin, journal
<1>7. ASSUME NEW b \in Buckets, AlreadyCurrent(b) PROVE Chain' /\ Growing'
  <2>1. index' = Clean(index, b) /\ shards' = shards
    BY <1>7 DEF AlreadyCurrent, journal
  <2>2. index'.cursor = index.cursor /\ index'.current = index.current
    BY <1>0, <2>1, CleanIs
  <2>. QED BY <1>0, <2>1, <2>2, ChainSame
<1>8. ASSUME NEW b \in Buckets, AppendChunk(b) PROVE Chain' /\ Growing'
  <2>1. AllProjected(index)
    BY <1>0, <1>8 DEF AppendChunk, Turn, KeptUp
  <2>. QED BY <1>0, <1>8, <2>1, ChainAppend
<1>9. ASSUME NEW b \in Buckets, ProjectChunk(b) PROVE Chain' /\ Growing'
  <2>1. Turn("project", b) /\ index' = IndexChunk(index, Chunk(b)) /\ shards' = shards
    BY <1>9 DEF ProjectChunk, journal
  <2>2. ~ Stands(b) /\ AtEnd(b)
    BY <1>0, <2>1 DEF Placed, Turn, KeptUp
  <2>. QED BY <1>0, <1>1, <2>1, <2>2, ChainProject
<1>10. CASE LoseIndex
  BY <1>0, <1>10, ChainEmpty DEF LoseIndex, journal
<1>. QED
  BY <1>2, <1>3, <1>4, <1>5, <1>6, <1>7, <1>8, <1>9, <1>10
     DEF Next, Step, vars, journal, Record, Retain, Log, IndexEventFails, Skip, AppendRejected,
         ProjectRejected, EndBatch, Tick, Rollback, Close, Crash, Quit, Upgrade

LEMMA DatedStep ==
  ASSUME AggregationInv, ChainInv, [Next]_vars
  PROVE  Dated'
<1>0. /\ Plain /\ JournalOK /\ Sound(index)
      /\ Chain /\ Growing /\ Dated /\ OneVersion /\ KeptUp
  BY DEF AggregationInv, ChainInv
<1>1. ASSUME shards' = shards PROVE Dated'
  BY <1>0, <1>1, RecordedStays, DatedSame
<1>2. ASSUME NEW b \in Buckets, AppendChunk(b) PROVE Dated'
  <2>1. AllProjected(index)
    BY <1>0, <1>2 DEF AppendChunk, Turn, KeptUp
  <2>. QED BY <1>0, <1>2, <2>1, ChainAppend
<1>. QED
  BY <1>1, <1>2
     DEF Next, Step, vars, journal, Start, Ingest, IndexEvent, Begin, AlreadyCurrent,
         ProjectChunk, LoseIndex, Record, Retain, Log, IndexEventFails, Skip, AppendRejected,
         ProjectRejected, EndBatch, Tick, Rollback, Close, Crash, Quit, Upgrade

LEMMA KeptUpStep ==
  ASSUME Steady, AggregationInv, ChainInv, [Next]_vars
  PROVE  KeptUp'
<1>0. /\ Plain /\ JournalOK /\ Sound(index) /\ Placed /\ index \in Indexes
      /\ Chain /\ Growing /\ Dated /\ OneVersion /\ KeptUp /\ Caught
      /\ logged \subseteq Events
  BY DEF AggregationInv, Sound, ChainInv, JournalOK
<1>1. Sound(index)'
  BY SoundStep
<1>2. ASSUME pc' = "down" PROVE KeptUp'
  BY <1>2 DEF KeptUp
<1>3. ASSUME (AllProjected(index))', pc' # "project" PROVE KeptUp'
  BY <1>3 DEF KeptUp
<1>4. ASSUME AllProjected(index), shards' = shards, index'.cursor = index.cursor
      PROVE  (AllProjected(index))'
  BY <1>4 DEF AllProjected
<1>5. ASSUME UNCHANGED <<pc, batch, version, recorded, index, shards>>, lagging' = lagging
      PROVE  KeptUp'
  <2>1. pc = "project" => \A b \in Buckets : Turn("project", b)' => AtEnd(b)'
    <3>. SUFFICES ASSUME NEW b \in Buckets, pc = "project", Turn("project", b)' PROVE AtEnd(b)'
      OBVIOUS
    <3>1. Turn("project", b)
      BY <1>5 DEF Turn
    <3>2. AtEnd(b)
      BY <1>0, <3>1 DEF KeptUp, Turn
    <3>3. Places' = Places /\ \A p : Revisions(p)' = Revisions(p)
      BY <1>5 DEF Places, Revisions
    <3>4. Chunk(b)' = Chunk(b)
      BY <1>5, ChunkSame
    <3>. QED BY <1>5, <3>2, <3>3, <3>4 DEF AtEnd
  <2>2. (AllProjected(index))' <=> AllProjected(index)
    BY <1>5 DEF AllProjected
  <2>3. pc' = pc /\ lagging' = lagging
    BY <1>5
  <2>. QED BY <1>0, <2>1, <2>2, <2>3 DEF KeptUp
<1>6. CASE Start
  <2>1. (AllProjected(index))'
    BY <1>0, <1>1, <1>6, ChainRecovered DEF Start, journal
  <2>. QED BY <1>3, <1>6, <2>1 DEF Start
<1>7. ASSUME NEW e \in Events, Ingest(e) PROVE KeptUp'
  <2>0. pc = "up" /\ pc' = "index" /\ shards' = shards
    BY <1>7 DEF Ingest, Admitted, Log
  <2>1. CASE lagging
    <3>1. (AllProjected(index))'
      BY <1>0, <1>1, <1>7, <2>1, ChainRecovered DEF Ingest, RecoversFirst
    <3>. QED BY <1>3, <2>0, <3>1
  <2>2. CASE ~ lagging
    <3>1. AllProjected(index)
      BY <1>0, <2>0, <2>2 DEF KeptUp
    <3>2. index' = index
      BY <1>7, <2>2 DEF Ingest, RecoversFirst
    <3>. QED BY <1>3, <1>4, <2>0, <3>1, <3>2
  <2>. QED BY <2>1, <2>2
<1>8. ASSUME NEW e \in Events, Retain(e) PROVE KeptUp'
  <2>0. pc = "up" /\ pc' = "index" /\ shards' = shards /\ index' = index /\ Kind[e] = "image"
    BY <1>8 DEF Retain, Admitted, Log
  <2>1. ~ lagging
    BY <1>0, <2>0 DEF Steady, Caught
  <2>2. AllProjected(index)
    BY <1>0, <2>0, <2>1 DEF KeptUp
  <2>. QED BY <1>3, <1>4, <2>0, <2>2
<1>9. CASE IndexEvent
  <2>1. call.event \subseteq Events /\ AllProjected(index)
    BY <1>0, <1>9 DEF Plain, KeptUp, IndexEvent
  <2>. PICK S \in {call.event} : S = call.event
    OBVIOUS
  <2>2. index'.cursor = index.cursor
    BY <1>0, <1>9, <2>1, IndexEventsIs DEF IndexEvent
  <2>. QED BY <1>3, <1>4, <1>9, <2>1, <2>2 DEF IndexEvent, journal
<1>10. CASE IndexEventFails
  <2>1. AllProjected(index) /\ pc' = "up" /\ shards' = shards /\ index' = index
    BY <1>0, <1>10 DEF KeptUp, IndexEventFails, Return, journal
  <2>. QED BY <1>3, <1>4, <2>1
<1>11. CASE Begin
  <2>1. Prepared.cursor = index.cursor
    BY <1>0 DEF Prepared, Indexes
  <2>2. AllProjected(index) /\ pc' = "chunks" /\ shards' = shards /\ index' = Prepared
    BY <1>0, <1>11 DEF KeptUp, Begin, journal
  <2>. QED BY <1>3, <1>4, <2>1, <2>2
<1>12. ASSUME NEW b \in Buckets, Skip(b) PROVE KeptUp'
  <2>1. AllProjected(index) /\ pc' = "chunks" /\ shards' = shards /\ index' = index
    BY <1>0, <1>12 DEF KeptUp, Skip, Turn, journal
  <2>. QED BY <1>3, <1>4, <2>1
<1>13. ASSUME NEW b \in Buckets, AlreadyCurrent(b) PROVE KeptUp'
  <2>1. AllProjected(index) /\ pc' = "chunks" /\ shards' = shards /\ index' = Clean(index, b)
    BY <1>0, <1>13 DEF KeptUp, AlreadyCurrent, Turn, journal
  <2>2. index'.cursor = index.cursor
    BY <1>0, <2>1, CleanIs
  <2>. QED BY <1>3, <1>4, <2>1, <2>2
<1>14. ASSUME NEW b \in Buckets, AppendChunk(b) PROVE KeptUp'
  <2>1. AllProjected(index) /\ Turn("chunks", b) /\ pc' = "project" /\ batch' = batch
    BY <1>0, <1>14 DEF AppendChunk, Turn, KeptUp
  <2>2. AtEnd(b)'
    BY <1>0, <1>14, <2>1, ChainAppend
  <2>3. \A x \in Buckets : Turn("project", x)' => x = b
    <3>1. \A x \in Buckets : x \in Int
      BY AggregationAssumption DEF Buckets
    <3>. QED BY <2>1, <3>1 DEF Turn
  <2>. QED BY <2>1, <2>2, <2>3 DEF KeptUp
<1>15. ASSUME NEW b \in Buckets, ProjectChunk(b) PROVE KeptUp'
  <2>1. /\ Turn("project", b) /\ index' = IndexChunk(index, Chunk(b)) /\ shards' = shards
        /\ pc' = "chunks"
    BY <1>15 DEF ProjectChunk, journal
  <2>2. ~ Stands(b) /\ AtEnd(b)
    BY <1>0, <2>1 DEF Placed, Turn, KeptUp
  <2>3. (AllProjected(index))'
    BY <1>0, <1>1, <2>1, <2>2, ChainProject
  <2>. QED BY <1>3, <2>1, <2>3
<1>16. CASE AppendRejected
  <2>1. AllProjected(index) /\ pc' \in {"down", "up"} /\ shards' = shards /\ index' = index
    BY <1>0, <1>16 DEF KeptUp, AppendRejected, Turn, Fails, Return, journal
  <2>. QED BY <1>3, <1>4, <2>1
<1>17. CASE ProjectRejected
  BY <1>17 DEF KeptUp, ProjectRejected, Fails, Return
<1>18. CASE EndBatch
  <2>1. AllProjected(index) /\ pc' \in {"begin", "up"} /\ shards' = shards /\ index' = index
    BY <1>0, <1>18 DEF KeptUp, EndBatch, Return, journal
  <2>. QED BY <1>3, <1>4, <2>1
<1>19. CASE Tick \/ Rollback \/ UNCHANGED vars
  BY <1>5, <1>19 DEF Tick, Rollback, vars, engine, journal
<1>20. ASSUME NEW e \in Events, Record(e) PROVE KeptUp'
  <2>1. pc = "up" /\ UNCHANGED <<pc, index, shards, lagging>>
    BY <1>20 DEF Record, engine, journal
  <2>2. (AllProjected(index))' <=> AllProjected(index)
    BY <2>1 DEF AllProjected
  <2>. QED BY <1>0, <2>1, <2>2 DEF KeptUp
<1>21. CASE Close \/ Crash \/ Upgrade \/ LoseIndex
  BY <1>2, <1>21 DEF Close, Crash, Quit, Upgrade, LoseIndex, engine
<1>. QED
  BY <1>6, <1>7, <1>8, <1>9, <1>10, <1>11, <1>12, <1>13, <1>14, <1>15, <1>16, <1>17, <1>18,
     <1>19, <1>20, <1>21 DEF Next, Step

\* The journal holds nothing else under the ID of a new revision.
LEMMA NeverRejected ==
  ASSUME Plain, JournalOK, Sound(index), Chain, Growing, OneVersion, KeptUp
  PROVE  ~ AppendRejected
<1>. SUFFICES ASSUME AppendRejected PROVE FALSE
  OBVIOUS
<1>1. PICK b \in Buckets : /\ Turn("chunks", b) /\ ~ Stands(b)
                           /\ \E s \in InJournal : s.id = Chunk(b).id /\ s # Chunk(b)
  BY DEF AppendRejected
<1>2. PICK s \in InJournal : s.id = Chunk(b).id
  BY <1>1
<1>3. shards \in [Days -> Seq(Revision)] /\ AllProjected(index)
  BY <1>1 DEF JournalOK, KeptUp, Turn
<1>4. PICK p \in Places : Revisions(p) = s
  BY <1>3, InJournalIs
<1>5. Chunk(b).id.bucket = b /\ Chunk(b).id.input = Members(index, b)
  BY <1>1, ChunkIs
<1>6. p \in Of(b)
  BY <1>2, <1>4, <1>5 DEF Of
<1>. QED BY <1>1, <1>2, <1>3, <1>4, <1>5, <1>6, NotYet

LEMMA CaughtStep ==
  ASSUME AggregationInv, ChainInv, [Next]_vars
  PROVE  Caught'
<1>. SUFFICES ASSUME "busy" \notin Faults
     PROVE  /\ ~ lagging'
            /\ \A e, f \in call'.event : e = f
            /\ pc' \in {"up", "begin", "chunks", "project"} => logged' \subseteq index'.events
            /\ pc' = "index" => logged' \subseteq index'.events \cup call'.event
  BY DEF Caught
<1>. DEFINE Goal ==
            /\ ~ lagging'
            /\ \A e, f \in call'.event : e = f
            /\ pc' \in {"up", "begin", "chunks", "project"} => logged' \subseteq index'.events
            /\ pc' = "index" => logged' \subseteq index'.events \cup call'.event
<1>0. /\ Plain /\ JournalOK /\ Sound(index) /\ Placed /\ index \in Indexes
      /\ Chain /\ Growing /\ OneVersion /\ KeptUp
      /\ logged \subseteq Events /\ call.event \subseteq Events
      /\ shards \in [Days -> Seq(Revision)] /\ index.events \subseteq logged
  BY DEF AggregationInv, Sound, ChainInv, JournalOK, Plain
<1>1. /\ ~ lagging
      /\ \A e, f \in call.event : e = f
      /\ pc \in {"up", "begin", "chunks", "project"} => logged \subseteq index.events
      /\ pc = "index" => logged \subseteq index.events \cup call.event
  BY DEF ChainInv, Caught
<1>2. ~ Fault("busy")
  BY DEF Fault
<1>3. ASSUME logged' = logged, index'.events = index.events, call' = call \/ call'.event = {},
             lagging' = lagging, pc \in {"up", "begin", "chunks", "project"},
             pc' \in {"up", "begin", "chunks", "project"}
      PROVE  Goal
  BY <1>1, <1>3
<1>4. ASSUME Start PROVE Goal
  <2>1. Recovered = Replay(index)
    BY <1>0, ReplaysAgree
  <2>2. Recovered.ix.events = logged
    BY <1>0, <2>1, ReplayIs
  <2>3. pc' = "begin" /\ call'.event = {} /\ lagging' = lagging /\ index' = Recovered.ix
        /\ logged' = logged
    BY <1>4 DEF Start, NoCall, journal
  <2>. QED BY <1>1, <2>2, <2>3
<1>5. ASSUME NEW e \in Events, Ingest(e) \/ Retain(e) PROVE Goal
  <2>1. /\ pc = "up" /\ pc' = "index" /\ logged' = logged \cup {e}
        /\ index' = index /\ call'.event = {e} /\ ~ lagging'
    <3>1. Log(e) /\ pc = "up" /\ index' = index /\ ~ lagging'
      BY <1>1, <1>5 DEF Ingest, Retain, Admitted, RecoversFirst
    <3>. PICK t \in {IngestTime(e)} : t = IngestTime(e)
      OBVIOUS
    <3>2. [NoCall EXCEPT !.at = t, !.event = {e}].event = {e}
      BY DEF NoCall
    <3>. QED BY <3>1, <3>2 DEF Log
  <2>. QED BY <1>1, <2>1
<1>6. ASSUME IndexEvent PROVE Goal
  <2>. PICK S \in {call.event} : S = call.event
    OBVIOUS
  <2>1. index'.events = index.events \cup S
    BY <1>0, <1>6, IndexEventsIs DEF IndexEvent
  <2>2. pc = "index" /\ pc' = "begin" /\ logged' = logged /\ call' = call /\ lagging' = lagging
    BY <1>6 DEF IndexEvent, journal
  <2>. QED BY <1>1, <2>1, <2>2
<1>7. ~ IndexEventFails
  <2>. SUFFICES ASSUME pc = "index", NEW e \in call.event, ~ AtCursor(e) PROVE FALSE
    BY <1>2 DEF IndexEventFails
  <2>1. PICK f \in logged \ (index.events \cup {e}) : TRUE
    BY DEF AtCursor
  <2>. QED BY <1>1, <2>1
<1>8. ASSUME Begin PROVE Goal
  <2>1. Prepared.events = index.events
    BY <1>0 DEF Prepared, Indexes
  <2>2. /\ pc = "begin" /\ pc' = "chunks" /\ logged' = logged /\ index' = Prepared
        /\ lagging' = lagging /\ call' = [call EXCEPT !.covered = call'.covered]
    BY <1>8 DEF Begin, journal
  <2>3. call'.event = call.event
    BY <1>0, <2>2 DEF Plain
  <2>. QED BY <1>1, <2>1, <2>2, <2>3
<1>9. ASSUME NEW b \in Buckets, Skip(b) PROVE Goal
  BY <1>3, <1>9 DEF Skip, Turn, journal
<1>10. ASSUME NEW b \in Buckets, AlreadyCurrent(b) PROVE Goal
  <2>1. /\ pc = "chunks" /\ pc' = "chunks" /\ logged' = logged /\ index' = Clean(index, b)
        /\ UNCHANGED <<call, lagging>>
    BY <1>10 DEF AlreadyCurrent, Turn, journal
  <2>2. index'.events = index.events
    BY <1>0, <2>1, CleanIs
  <2>. QED BY <1>3, <2>1, <2>2
<1>11. ASSUME NEW b \in Buckets, AppendChunk(b) PROVE Goal
  <2>1. pc = "chunks" /\ pc' = "project" /\ UNCHANGED <<logged, index, call, lagging>>
    BY <1>11 DEF AppendChunk, Turn
  <2>. QED BY <1>3, <2>1
<1>12. ASSUME NEW b \in Buckets, ProjectChunk(b) PROVE Goal
  <2>1. /\ Turn("project", b) /\ index' = IndexChunk(index, Chunk(b))
        /\ pc = "project" /\ pc' = "chunks" /\ UNCHANGED <<logged, call, lagging>>
    BY <1>12 DEF ProjectChunk, Turn, journal
  <2>2. ~ Stands(b)
    BY <1>0, <2>1 DEF Placed
  <2>3. index'.events = index.events
    BY <1>0, <2>1, <2>2, IndexChunkIs
  <2>. QED BY <1>3, <2>1, <2>3
<1>13. ~ AppendRejected
  BY <1>0, NeverRejected
<1>14. ~ ProjectRejected
  <2>. SUFFICES ASSUME NEW b \in Buckets, Turn("project", b),
                       index.cursor[Day(Chunk(b).id.at)] < Place(Chunk(b)) - 1
       PROVE  FALSE
    BY <1>2 DEF ProjectRejected
  <2>. PICK r \in {Chunk(b)} : r = Chunk(b)
    OBVIOUS
  <2>1. PICK p \in Places : /\ Revisions(p) = r /\ p[2] = Len(shards[p[1]])
                            /\ index.cursor[p[1]] = p[2] - 1
    BY <1>0 DEF KeptUp, AtEnd, Turn
  <2>2. PICK q \in Places : Revisions(q) = r /\ q[1] = Day(r.id.at) /\ q[2] = Place(r)
    BY <1>0, <2>1, PlaceIs DEF JournalOK
  <2>3. p[1] = Day(r.id.at)
    BY <1>0, <2>1 DEF JournalOK, Filed
  <2>4. q[2] \in 1 .. Len(shards[q[1]]) /\ Len(shards[p[1]]) \in Nat /\ index.cursor[p[1]] \in Nat
    BY <1>0 DEF Places, Indexes
  <2>. QED BY <2>1, <2>2, <2>3, <2>4
<1>15. ASSUME EndBatch PROVE Goal
  <2>1. /\ pc = "chunks" /\ pc' \in {"up", "begin"} /\ UNCHANGED <<logged, index, lagging>>
        /\ call' = call \/ call'.event = {}
    BY <1>15 DEF EndBatch, Return, NoCall, journal
  <2>. QED BY <1>3, <2>1
<1>16. ASSUME UNCHANGED <<logged, index, engine>> PROVE Goal
  BY <1>1, <1>16 DEF engine
<1>17. ASSUME Quit PROVE Goal
  BY <1>17, NoCallIs DEF Quit
<1>18. ASSUME LoseIndex PROVE Goal
  BY <1>1, <1>18 DEF LoseIndex, engine
<1>19. ASSUME Tick \/ Rollback \/ Upgrade \/ UNCHANGED vars \/ \E e \in Events : Record(e)
       PROVE  Goal
  BY <1>16, <1>19 DEF vars, journal, Record, Tick, Rollback, Upgrade
<1>20. ASSUME Close \/ Crash PROVE Goal
  BY <1>17, <1>20 DEF Close, Crash
<1>. HIDE DEF Goal
<1>21. Goal
  BY <1>4, <1>5, <1>6, <1>7, <1>8, <1>9, <1>10, <1>11, <1>12, <1>13, <1>14, <1>15, <1>18,
     <1>19, <1>20 DEF Next, Step
<1>. QED BY <1>21 DEF Goal

LEMMA ChainHolds ==
  ASSUME Steady
  PROVE  Spec => [](AggregationInv /\ ChainInv)
<1>1. Init => AggregationInv /\ ChainInv
  BY InitInv, InitChain
<1>2. AggregationInv /\ ChainInv /\ [Next]_vars => (AggregationInv /\ ChainInv)'
  <2>. SUFFICES ASSUME AggregationInv, ChainInv, [Next]_vars PROVE (AggregationInv /\ ChainInv)'
    OBVIOUS
  <2>1. AggregationInv'
    BY InvStep
  <2>2. Chain' /\ Growing'
    BY ChainStep
  <2>3. Dated'
    BY DatedStep
  <2>4. OneVersion'
    BY OneVersionStep DEF ChainInv
  <2>5. KeptUp'
    BY KeptUpStep
  <2>6. Caught'
    BY CaughtStep
  <2>. QED BY <2>1, <2>2, <2>3, <2>4, <2>5, <2>6 DEF ChainInv
<1>. QED BY <1>1, <1>2, PTL DEF Spec

\* Without upgrades, and where either no write fails or no image comes in, the journals
\* can be replayed at any moment into a new projection and into the one there is, with
\* the same result: project_canonical (recovery.rs) accepts in the order of the shards
\* what finalize_due (reconcile.rs) projected in the order of time.
THEOREM RebuildAlwaysAgrees ==
  ASSUME Steady
  PROVE  Spec => []RebuildAgrees
<1>1. AggregationInv /\ ChainInv => RebuildAgrees
  BY ReplaysAgree DEF AggregationInv, ChainInv
<1>. QED BY <1>1, ChainHolds, PTL
===============================================================================
