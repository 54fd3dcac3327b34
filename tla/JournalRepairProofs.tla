--------------------------- MODULE JournalRepairProofs ---------------------------
(* Proofs about JournalRepair, for every set of records, dates and device IDs and any *)
(* number of damaged lines, deaths and repeated calls: the type invariant, and that    *)
(* whatever a repair cuts off is kept and accounted for.                                *)
EXTENDS JournalRepair, FiniteSetTheorems, TLAPS

(* A shard is a sequence of lines with damages up to n. *)
Lines(b, n) ==
  /\ b \in Seq({b[i] : i \in DOMAIN b})
  /\ \A i \in DOMAIN b : b[i] = [of |-> b[i].of, damage |-> b[i].damage] /\ b[i].damage \in 0 .. n

Damaged(b, n) == Lines(b, n) /\ ~ Sound(b)

Filed ==
  /\ files = [s \in DOMAIN files |-> files[s]]
  /\ \A s \in DOMAIN files : s.date \in Dates /\ Lines(files[s], damages)

Archived == \A o \in archive : o.shard.date \in Dates /\ Damaged(o.bytes, damages)

(* There is one receipt for an original, and it names one that is archived. *)
Promised ==
  /\ \A q \in receipts :
       /\ q = Receipt(q, q.completed) /\ q.completed \in BOOLEAN
       /\ Sealed(q) \in archive
  /\ \A p, q \in receipts : p.shard = q.shard => p.bytes = q.bytes

Lost == losses \subseteq {Loss(o.bytes, d) : o \in archive, d \in Devices}

Indexed ==
  /\ app = [open |-> app.open, active |-> app.active, stale |-> app.stale]
  /\ app.open \in BOOLEAN /\ app.stale \in BOOLEAN
  /\ app.active = [d \in DOMAIN app.active |-> app.active[d]]
  /\ \A d \in DOMAIN app.active : d \in Dates /\ app.active[d].date = d

(* How far the running repair has come. *)
Working ==
  /\ job = [shard |-> job.shard, bytes |-> job.bytes, device |-> job.device]
  /\ job.device \in Devices /\ job.shard.date \in Dates /\ Damaged(job.bytes, damages)
  /\ step \in {"seal", "promise"} => Found(job.shard) = {} /\ job.shard \in DOMAIN files
  /\ step = "promise" => Sealed(job) \in archive
  /\ step \in {"succeed", "unlink", "record", "scan", "complete"} =>
       Receipt(job, FALSE) \in receipts
  /\ step = "unlink" =>
       Successor(job) \in DOMAIN files /\ files[Successor(job)] = Survivors(job)
  /\ step \in {"scan", "complete"} /\ family = "chunks" =>
       \E l \in losses : l.of.lost = job.bytes

Progress ==
  /\ step \in {"idle", "seal", "promise", "succeed", "unlink", "record", "scan", "complete"}
  /\ step = "idle" => job = NoJob
  /\ step # "idle" => Working

Counted ==
  /\ family \in {"events", "chunks"} /\ marker \in Named \cup {NoShard}
  /\ acked \subseteq Records /\ damages \in 0 .. MaxDamages /\ faults \in 0 .. MaxFaults

RepairInv ==
  /\ Counted /\ Filed /\ Archived /\ Promised /\ Lost /\ Indexed /\ Progress
  /\ NothingDiscarded /\ SuccessorHonest

-----------------------------------------------------------------------------
(* Lines                                                                     *)

LEMMA LinesHas ==
  ASSUME NEW b, NEW n, Lines(b, n)
  PROVE  /\ Len(b) \in Nat /\ DOMAIN b = 1 .. Len(b)
         /\ b = [i \in 1 .. Len(b) |-> b[i]]
         /\ \A i \in DOMAIN b : i \in Nat /\ b[i].damage \in 0 .. n
BY DEF Lines

LEMMA LineHas ==
  ASSUME NEW r
  PROVE  Line(r) = [of |-> r, damage |-> 0] /\ Line(r).of = r /\ Line(r).damage = 0
BY DEF Line

LEMMA NoLines == \A n : Lines(<<>>, n)
<1>1. <<>> \in Seq({}) /\ DOMAIN <<>> = {}
  OBVIOUS
<1>2. {<<>>[i] : i \in DOMAIN <<>>} = {}
  BY <1>1
<1> QED  BY <1>1, <1>2 DEF Lines

LEMMA OlderLines ==
  ASSUME NEW b, NEW n \in Nat, NEW m \in Nat, n <= m, Lines(b, n)
  PROVE  Lines(b, m)
BY DEF Lines

\* What is a sequence of lines when its elements are.
LEMMA AreLines ==
  ASSUME NEW k \in Nat, NEW b, NEW n, b = [i \in 1 .. k |-> b[i]],
         \A i \in 1 .. k : b[i] = [of |-> b[i].of, damage |-> b[i].damage]
                             /\ b[i].damage \in 0 .. n
  PROVE  Lines(b, n) /\ Len(b) = k
<1> DEFINE S == {b[i] : i \in 1 .. k}
<1>1. \A i \in 1 .. k : b[i] \in S
  OBVIOUS
<1>2. b \in [1 .. k -> S]
  <2> HIDE DEF S
  <2> QED BY <1>1
<1>3. b \in Seq(S) /\ DOMAIN b = 1 .. k
  <2> HIDE DEF S
  <2> QED BY <1>2
<1> QED  BY <1>3 DEF Lines

LEMMA Appended ==
  ASSUME NEW b, NEW n \in Nat, NEW r, Lines(b, n)
  PROVE  LET c == b \o <<Line(r)>>
         IN /\ Lines(c, n) /\ DOMAIN c = 1 .. Len(b) + 1
            /\ \A i \in DOMAIN b : i \in DOMAIN c /\ c[i] = b[i]
            /\ c[Len(b) + 1] = Line(r)
<1> DEFINE S == {b[i] : i \in DOMAIN b} \cup {Line(r)}
           c == b \o <<Line(r)>>
           k == Len(b) + 1
<1>1. b \in Seq(S) /\ Line(r) \in S
  <2>1. {b[i] : i \in DOMAIN b} \subseteq S
    OBVIOUS
  <2>2. b \in Seq({b[i] : i \in DOMAIN b})
    BY DEF Lines
  <2> QED BY <2>1, <2>2
<1>2. /\ c \in Seq(S) /\ Len(b) \in Nat /\ Len(c) = k
      /\ DOMAIN b = 1 .. Len(b) /\ DOMAIN c = 1 .. k
      /\ \A i \in DOMAIN b : c[i] = b[i]
      /\ c[k] = Line(r)
  <2> HIDE DEF S
  <2> QED BY <1>1
<1> HIDE DEF c
<1>3. c = [i \in 1 .. k |-> c[i]] /\ k \in Nat
  <2> HIDE DEF S, k
  <2>1. c = [i \in 1 .. Len(c) |-> c[i]] /\ Len(c) \in Nat
    BY <1>2
  <2> QED BY <1>2, <2>1
<1>4. \A i \in 1 .. k :
        c[i] = [of |-> c[i].of, damage |-> c[i].damage] /\ c[i].damage \in 0 .. n
  <2> TAKE i \in 1 .. k
  <2>1. CASE i \in DOMAIN b
    BY <1>2, <2>1 DEF Lines
  <2>2. CASE i = k
    BY <1>2, <2>2, LineHas
  <2> QED BY <1>2, <2>1, <2>2
<1>5. Lines(c, n)
  <2> HIDE DEF k
  <2> QED BY <1>3, <1>4, AreLines
<1>6. \A i \in DOMAIN b : i \in DOMAIN c
  BY <1>2
<1> QED  BY <1>2, <1>5, <1>6 DEF c

\* A line that goes bad keeps the record it was written for.
LEMMA GoneBad ==
  ASSUME NEW b, NEW n \in Nat, NEW m \in Nat, n <= m, Lines(b, n), NEW i \in DOMAIN b,
         NEW c, c = [b EXCEPT ![i].damage = m]
  PROVE  Lines(c, m) /\ DOMAIN c = DOMAIN b /\ \A k \in DOMAIN b : c[k].of = b[k].of
<1>1. /\ Len(b) \in Nat /\ DOMAIN b = 1 .. Len(b) /\ b = [k \in 1 .. Len(b) |-> b[k]]
      /\ \A k \in DOMAIN b : b[k].damage \in 0 .. n
  BY LinesHas
<1>2. \A k \in DOMAIN b : b[k] = [of |-> b[k].of, damage |-> b[k].damage]
  BY DEF Lines
<1>3. DOMAIN c = 1 .. Len(b) /\ c = [k \in 1 .. Len(b) |-> c[k]]
  BY <1>1
<1>4. \A k \in DOMAIN b : k # i => c[k] = b[k]
  BY <1>1
<1>5. c[i] = [of |-> b[i].of, damage |-> m]
  <2>1. c[i] = [b[i] EXCEPT !.damage = m]
    BY <1>1
  <2>2. b[i] = [of |-> b[i].of, damage |-> b[i].damage]
    BY <1>2
  <2> QED BY <2>1, <2>2
<1>6. c[i].of = b[i].of /\ c[i].damage = m
  BY <1>5
<1>7. \A k \in 1 .. Len(b) :
        c[k] = [of |-> c[k].of, damage |-> c[k].damage] /\ c[k].damage \in 0 .. m
  <2> TAKE k \in 1 .. Len(b)
  <2>1. CASE k = i
    BY <1>5, <1>6, <2>1
  <2>2. CASE k # i
    <3>1. b[k].damage \in 0 .. m
      BY <1>1
    <3> QED BY <1>1, <1>2, <1>4, <2>2, <3>1
  <2> QED BY <2>1, <2>2
<1>8. Lines(c, m)
  <2>1. PICK k \in Nat : k = Len(b)
    BY <1>1
  <2>2. /\ c = [h \in 1 .. k |-> c[h]]
        /\ \A h \in 1 .. k :
             c[h] = [of |-> c[h].of, damage |-> c[h].damage] /\ c[h].damage \in 0 .. m
    BY <1>3, <1>7, <2>1
  <2>3. Lines(c, m) /\ Len(c) = k
    BY ONLY <2>2, AreLines, k \in Nat, m \in Nat
  <2> QED BY <2>3
<1> QED  BY <1>1, <1>3, <1>4, <1>6, <1>8

-----------------------------------------------------------------------------
(* What had verified                                                         *)

LEMMA LeastIndex ==
  ASSUME NEW k \in Nat, NEW I \in SUBSET (1 .. k), I # {}
  PROVE  Min(I) \in I /\ \A j \in I : Min(I) <= j
<1> DEFINE R == StrictSubsetOrdering(1 .. k)
           U == {1 .. x : x \in I}
<1>1. IsFiniteSet(1 .. k) /\ IsWellFoundedOn(R, FiniteSubsetsOf(1 .. k))
  BY FS_Interval, FS_StrictSubsetOrderingWellFounded
<1>2. U \subseteq FiniteSubsetsOf(1 .. k) /\ U # {}
  <2>1. \A x \in I : 1 .. x \in SUBSET (1 .. k) /\ IsFiniteSet(1 .. x)
    BY FS_Interval
  <2> QED BY <2>1 DEF FiniteSubsetsOf
<1>3. PICK m \in U : \A n \in U : ~ (<<n, m>> \in R)
  <2> HIDE DEF R, U
  <2> QED BY <1>1, <1>2, WFMin
<1>4. PICK x \in I : m = 1 .. x
  BY <1>3
<1>5. ASSUME NEW y \in I, y < x PROVE FALSE
  <2>1. 1 .. y \subseteq 1 .. x /\ x \in 1 .. x /\ x \notin 1 .. y
    BY <1>5
  <2>2. <<1 .. y, 1 .. x>> \in R
    <3>1. 1 .. y \in SUBSET (1 .. k) /\ 1 .. x \in SUBSET (1 .. k)
      OBVIOUS
    <3> QED BY <2>1, <3>1 DEF StrictSubsetOrdering
  <2> QED BY <1>3, <1>4, <2>2
<1>6. \A y \in I : x <= y
  <2> TAKE y \in I
  <2>1. ~ (y < x)
    BY <1>5
  <2> QED BY <2>1
<1> QED  BY <1>6 DEF Min

\* The lines in front of the first one that does not verify.
LEMMA PrefixHas ==
  ASSUME NEW b, NEW n, Damaged(b, n)
  PROVE  /\ Prefix(b) \in Nat /\ Prefix(b) < Len(b)
         /\ \A i \in 1 .. Prefix(b) : i \in DOMAIN b /\ b[i].damage = 0
         /\ b[Prefix(b) + 1].damage # 0
<1> DEFINE I == {i \in 1 .. Len(b) : b[i].damage # 0}
<1>1. Len(b) \in Nat /\ DOMAIN b = 1 .. Len(b)
  BY LinesHas DEF Damaged
<1>2. I \in SUBSET (1 .. Len(b)) /\ I # {}
  BY <1>1 DEF Damaged, Sound
<1>3. Prefix(b) = Min(I) - 1
  <2>1. Prefix(b) = (IF I # {} THEN Min(I) ELSE 0) - 1
    BY DEF Prefix, SelectInSeq
  <2> QED BY <1>2, <2>1
<1>4. Min(I) \in I /\ \A j \in I : Min(I) <= j
  <2> HIDE DEF I
  <2> QED BY <1>1, <1>2, LeastIndex
<1>5. PICK m \in 1 .. Len(b) : m = Min(I) /\ b[m].damage # 0
  BY <1>4
<1>6. \A i \in 1 .. Len(b) : i < m => b[i].damage = 0
  BY <1>4, <1>5
<1> HIDE DEF I
<1> QED  BY <1>1, <1>3, <1>5, <1>6

Verified(b) == {i \in DOMAIN b : \A h \in 1 .. i : b[h].damage = 0}

LEMMA VerifiedHas ==
  ASSUME NEW b, NEW n, Damaged(b, n)
  PROVE  Verified(b) = 1 .. Prefix(b) /\ Cardinality(Verified(b)) = Prefix(b)
<1>1. PICK p \in Nat :
        /\ p = Prefix(b) /\ p < Len(b) /\ b[p + 1].damage # 0
        /\ \A i \in 1 .. p : i \in DOMAIN b /\ b[i].damage = 0
  BY PrefixHas
<1>2. Len(b) \in Nat /\ DOMAIN b = 1 .. Len(b)
  BY LinesHas DEF Damaged
<1>3. ASSUME NEW i \in 1 .. p PROVE i \in Verified(b)
  <2>1. i \in DOMAIN b /\ \A h \in 1 .. i : h \in 1 .. p
    BY <1>1
  <2> QED BY <1>1, <2>1 DEF Verified
<1>4. ASSUME NEW i \in Verified(b) PROVE i \in 1 .. p
  <2>1. i \in 1 .. Len(b) /\ \A h \in 1 .. i : b[h].damage = 0
    BY <1>2 DEF Verified
  <2>2. p + 1 \notin 1 .. i
    BY <1>1, <2>1
  <2> QED BY <2>1, <2>2
<1>5. Verified(b) = 1 .. p
  BY <1>3, <1>4
<1>6. Cardinality(1 .. p) = p
  BY FS_Interval
<1> QED  BY <1>1, <1>5, <1>6

\* The lines that a successor has to begin with.
Begins(q, bytes, f) ==
  LET next == Cardinality(Verified(q.bytes)) + 1
  IN /\ Verified(q.bytes) \subseteq DOMAIN bytes
     /\ \A i \in Verified(q.bytes) : bytes[i].of = q.bytes[i].of
     /\ f = "events" =>
          next \in DOMAIN bytes /\ \E d \in Devices : bytes[next].of = Loss(q.bytes, d).of

HonestIn(q, fs, sealed, f) ==
  \/ Successor(q) \in DOMAIN fs /\ Begins(q, fs[Successor(q)], f)
  \/ \E o \in sealed : o.shard = Successor(q) /\ Begins(q, o.bytes, f)

LEMMA HonestIs ==
  ASSUME NEW q
  PROVE  /\ Honest(q) <=> HonestIn(q, files, archive, family)
         /\ Honest(q)' <=> HonestIn(q, files', archive', family')
<1>1. Honest(q) <=> HonestIn(q, files, archive, family)
  BY DEF Honest, HonestIn, Begins, Verified
<1>2. Honest(q)' <=> HonestIn(q, files', archive', family')
  BY DEF Honest, HonestIn, Begins, Verified
<1> QED  BY <1>1, <1>2

LEMMA SurvivorsBegin ==
  ASSUME NEW j, NEW n \in Nat, Damaged(j.bytes, n), j.device \in Devices,
         family \in {"events", "chunks"}
  PROVE  Lines(Survivors(j), n) /\ Sound(Survivors(j)) /\ Begins(j, Survivors(j), family)
<1>1. PICK p \in Nat :
        /\ p = Prefix(j.bytes) /\ p < Len(j.bytes)
        /\ \A i \in 1 .. p : i \in DOMAIN j.bytes /\ j.bytes[i].damage = 0
  BY PrefixHas
<1>2. Verified(j.bytes) = 1 .. p /\ Cardinality(Verified(j.bytes)) = p
  BY <1>1, VerifiedHas
<1>3. PICK S : S = {j.bytes[i] : i \in DOMAIN j.bytes}
  OBVIOUS
<1>4. PICK v : v = SubSeq(j.bytes, 1, p)
  OBVIOUS
<1>5. /\ v \in Seq(S) /\ Len(v) = p /\ DOMAIN v = 1 .. p
      /\ \A i \in 1 .. p : v[i] = j.bytes[i]
  <2>1. j.bytes \in Seq(S) /\ Len(j.bytes) \in Nat
    BY <1>3 DEF Damaged, Lines
  <2> QED BY <1>1, <1>4, <2>1
<1>6. Lines(v, n)
  <2>1. v = [i \in 1 .. p |-> v[i]]
    BY <1>5
  <2>2. \A i \in 1 .. p :
          v[i] = [of |-> v[i].of, damage |-> v[i].damage] /\ v[i].damage \in 0 .. n
    BY <1>1, <1>5 DEF Damaged, Lines
  <2> QED BY <2>1, <2>2, AreLines
<1>7. \A i \in 1 .. p : v[i].damage = 0
  BY <1>1, <1>5
<1>8. CASE family = "events"
  <2>1. PICK r : r = [lost |-> j.bytes, device |-> j.device]
    OBVIOUS
  <2>2. Survivors(j) = v \o <<Line(r)>>
    BY <1>1, <1>4, <1>8, <2>1 DEF Survivors, Loss
  <2>3. PICK c : c = v \o <<Line(r)>>
    OBVIOUS
  <2>4. /\ Lines(c, n) /\ DOMAIN c = 1 .. p + 1 /\ c[p + 1] = Line(r)
        /\ \A i \in DOMAIN v : i \in DOMAIN c /\ c[i] = v[i]
    BY <1>5, <1>6, <2>3, Appended
  <2>5. Sound(c)
    <3>1. \A i \in 1 .. p + 1 : i \in 1 .. p \/ i = p + 1
      OBVIOUS
    <3> QED BY <1>5, <1>7, <2>4, <3>1, LineHas DEF Sound
  <2>6. \A i \in 1 .. p : i \in DOMAIN c /\ c[i].of = j.bytes[i].of
    BY <1>5, <2>4
  <2>7. p + 1 \in DOMAIN c /\ c[p + 1].of = Loss(j.bytes, j.device).of
    BY <2>1, <2>4 DEF Loss
  <2>8. Begins(j, c, family)
    BY <1>2, <2>6, <2>7 DEF Begins
  <2> QED BY <2>2, <2>3, <2>4, <2>5, <2>8
<1>9. CASE family = "chunks"
  <2>1. Survivors(j) = v
    <3>1. Survivors(j) = v \o <<>>
      BY <1>1, <1>4, <1>9 DEF Survivors
    <3> QED BY <1>5, <3>1
  <2>2. Sound(v)
    BY <1>5, <1>7 DEF Sound
  <2>3. Begins(j, v, family)
    BY <1>2, <1>5, <1>9 DEF Begins
  <2> QED BY <1>6, <2>1, <2>2, <2>3
<1> QED  BY <1>8, <1>9

-----------------------------------------------------------------------------
(* What steps keep                                                           *)

\* No line goes, whatever happens to it.
Keeps ==
  \A s \in DOMAIN files :
    /\ s \in DOMAIN files' /\ DOMAIN files[s] \subseteq DOMAIN files'[s]
    /\ \A i \in DOMAIN files[s] : files'[s][i].of = files[s][i].of

LEMMA SameKeeps == files' = files => Keeps
BY DEF Keeps

LEMMA BeginsGrow ==
  ASSUME NEW q, NEW b, NEW c, NEW f, Begins(q, b, f), DOMAIN b \subseteq DOMAIN c,
         \A i \in DOMAIN b : c[i].of = b[i].of
  PROVE  Begins(q, c, f)
<1> DEFINE next == Cardinality(Verified(q.bytes)) + 1
<1>1. /\ Verified(q.bytes) \subseteq DOMAIN b
      /\ \A i \in Verified(q.bytes) : b[i].of = q.bytes[i].of
      /\ f = "events" =>
           next \in DOMAIN b /\ \E d \in Devices : b[next].of = Loss(q.bytes, d).of
  BY DEF Begins
<1> HIDE DEF next
<1>2. f = "events" =>
        next \in DOMAIN c /\ \E d \in Devices : c[next].of = Loss(q.bytes, d).of
  BY <1>1
<1>3. /\ Verified(q.bytes) \subseteq DOMAIN c
      /\ \A i \in Verified(q.bytes) : c[i].of = q.bytes[i].of
  BY <1>1
<1> QED  BY <1>2, <1>3 DEF Begins, next

LEMMA StillHonest ==
  ASSUME NEW q, Honest(q), Keeps, archive \subseteq archive', family' = family
  PROVE  Honest(q)'
<1>1. CASE /\ Successor(q) \in DOMAIN files
           /\ Begins(q, files[Successor(q)], family)
  <2>1. PICK s \in DOMAIN files : s = Successor(q)
    BY <1>1
  <2>2. s \in DOMAIN files' /\ Begins(q, files'[s], family)
    BY <1>1, <2>1, BeginsGrow DEF Keeps
  <2> QED BY <2>1, <2>2, HonestIs DEF HonestIn
<1>2. CASE \E o \in archive : o.shard = Successor(q) /\ Begins(q, o.bytes, family)
  BY <1>2, HonestIs DEF HonestIn
<1> QED  BY <1>1, <1>2, HonestIs DEF HonestIn

LEMMA HistoryKept ==
  ASSUME NothingDiscarded, Keeps, archive \subseteq archive', family' = family,
         \A r \in acked' \ acked :
           \E s \in DOMAIN files' : \E i \in DOMAIN files'[s] : files'[s][i].of = r,
         \A q \in receipts' :
           /\ family = "chunks" /\ q.completed => \E l \in losses' : l.of.lost = q.bytes
           /\ q.shard \notin DOMAIN files => Honest(q)
  PROVE  NothingDiscarded' /\ SuccessorHonest'
<1>1. NothingDiscarded'
  <2> SUFFICES ASSUME NEW r \in acked'
               PROVE  \/ \E s \in DOMAIN files' : \E i \in DOMAIN files'[s] : files'[s][i].of = r
                      \/ \E o \in archive' : \E i \in DOMAIN o.bytes : o.bytes[i].of = r
    BY DEF NothingDiscarded
  <2>1. CASE \E s \in DOMAIN files : \E i \in DOMAIN files[s] : files[s][i].of = r
    BY <2>1 DEF Keeps
  <2>2. CASE \E o \in archive : \E i \in DOMAIN o.bytes : o.bytes[i].of = r
    BY <2>2
  <2> QED BY <2>1, <2>2 DEF NothingDiscarded
<1>2. ASSUME NEW q \in receipts', q.shard \notin DOMAIN files' PROVE Honest(q)'
  <2>1. q.shard \notin DOMAIN files
    BY <1>2 DEF Keeps
  <2> QED BY <2>1, StillHonest
<1>3. SuccessorHonest'
  BY <1>2 DEF SuccessorHonest
<1> QED  BY <1>1, <1>3

\* The receipts stay as they are.
LEMMA HistoryStays ==
  ASSUME NothingDiscarded, SuccessorHonest, Keeps, archive \subseteq archive', acked' = acked,
         family' = family, losses \subseteq losses', receipts' = receipts
  PROVE  NothingDiscarded' /\ SuccessorHonest'
BY HistoryKept DEF SuccessorHonest

LEMMA WorkingHas ==
  ASSUME RepairInv, step # "idle"
  PROVE  /\ Working /\ job.device \in Devices /\ job.shard.date \in Dates
         /\ Damaged(job.bytes, damages) /\ job # NoJob /\ damages \in Nat
         /\ family \in {"events", "chunks"} /\ Successor(job).date \in Dates
         /\ Sealed(job) = [shard |-> job.shard, bytes |-> job.bytes]
<1>1. Working
  BY DEF RepairInv, Progress
<1>2. job.device \in Devices /\ job.shard.date \in Dates /\ Damaged(job.bytes, damages)
  BY <1>1 DEF Working
<1>3. job # NoJob
  BY <1>2, RepairAssumption DEF NoJob
<1>4. damages \in Nat /\ family \in {"events", "chunks"}
  BY RepairAssumption DEF RepairInv, Counted
<1> QED  BY <1>1, <1>2, <1>3, <1>4 DEF Successor, Sealed

LEMMA FilesKept == RepairInv /\ UNCHANGED <<files, damages>> => Filed'
BY DEF RepairInv, Filed

LEMMA ArchiveKept == RepairInv /\ UNCHANGED <<archive, damages>> => Archived'
BY DEF RepairInv, Archived

LEMMA ReceiptsKept == RepairInv /\ UNCHANGED receipts /\ archive \subseteq archive' => Promised'
BY DEF RepairInv, Promised, Sealed

LEMMA LossesKept == RepairInv /\ UNCHANGED losses /\ archive \subseteq archive' => Lost'
BY DEF RepairInv, Lost

LEMMA IndexKept == RepairInv /\ UNCHANGED app => Indexed'
BY DEF RepairInv, Indexed

\* The end of a repair, early or not.
LEMMA EndedIdle ==
  ASSUME Ended("idle")
  PROVE  Progress'
BY DEF Ended, Progress

-----------------------------------------------------------------------------
(* The repair                                                                *)

LEMMA BeginKeeps ==
  ASSUME RepairInv, NEW s \in Named, NEW device \in Devices, Begin(s, device)
  PROVE  RepairInv'
<1>1. /\ UNCHANGED <<family, files, archive, receipts, losses, app, acked, damages, faults>>
      /\ marker' = s /\ step = "idle"
  BY DEF Begin, Announce
<1>2. Counted'
  BY <1>1 DEF RepairInv, Counted, Named
<1>3. Filed' /\ Archived' /\ Promised' /\ Lost' /\ Indexed'
  BY <1>1, FilesKept, ArchiveKept, ReceiptsKept, LossesKept, IndexKept
<1>4. NothingDiscarded' /\ SuccessorHonest'
  BY <1>1, HistoryStays, SameKeeps DEF RepairInv
<1>5. Progress'
  <2>1. ASSUME NEW q \in Found(s), step' = "succeed",
               job' = [shard |-> s, bytes |-> q.bytes, device |-> device], ~ q.completed
        PROVE  Progress'
    <3>1. q \in receipts /\ q.shard = s /\ Sealed(q) \in archive
          /\ q = Receipt(q, q.completed) /\ q.completed = FALSE
      BY <2>1 DEF RepairInv, Promised, Found
    <3>2. s.date \in Dates /\ Damaged(q.bytes, damages)
      BY <3>1 DEF RepairInv, Archived, Sealed
    <3>3. job'.shard = s /\ job'.bytes = q.bytes /\ job'.device = device
      BY <2>1
    <3>4. Receipt(job, FALSE)' \in receipts
      <4>1. Receipt(job, FALSE)' = [shard |-> s, bytes |-> q.bytes, completed |-> FALSE]
        BY <3>3 DEF Receipt
      <4>2. q = [shard |-> s, bytes |-> q.bytes, completed |-> FALSE]
        BY <3>1 DEF Receipt
      <4> QED BY <3>1, <4>1, <4>2
    <3>5. Working'
      BY <1>1, <2>1, <3>2, <3>3, <3>4 DEF Working, Damaged, Lines
    <3> QED BY <2>1, <3>5 DEF Progress
  <2>2. ASSUME Found(s) = {}, s \in Corrupt, step' = "seal",
               job' = [shard |-> s, bytes |-> files[s], device |-> device]
        PROVE  Progress'
    <3>1. s \in DOMAIN files /\ s.date \in Dates /\ Damaged(files[s], damages)
      BY <2>2 DEF RepairInv, Filed, Corrupt, Damaged
    <3>2. job'.shard = s /\ job'.bytes = files[s] /\ job'.device = device
      BY <2>2
    <3>3. Found(s)' = {}
      BY <1>1, <2>2 DEF Found
    <3>4. Working'
      BY <1>1, <2>2, <3>1, <3>2, <3>3 DEF Working, Damaged, Lines
    <3> QED BY <2>2, <3>4 DEF Progress
  <2>3. CASE UNCHANGED <<step, job>>
    BY <1>1, <2>3 DEF RepairInv, Progress
  <2> QED BY <2>1, <2>2, <2>3 DEF Begin
<1> QED  BY <1>2, <1>3, <1>4, <1>5 DEF RepairInv

LEMMA SealKeeps == RepairInv /\ Seal => RepairInv'
<1> SUFFICES ASSUME RepairInv, Seal PROVE RepairInv'
  OBVIOUS
<1>1. /\ UNCHANGED <<family, files, marker, receipts, losses, app, acked, damages, faults>>
      /\ archive' = archive \cup {Sealed(job)} /\ step = "seal" /\ step' = "promise"
      /\ job' = job
  BY DEF Seal, Ended
<1>2. Working /\ Damaged(job.bytes, damages) /\ job.shard.date \in Dates
  BY <1>1, WorkingHas
<1>3. Archived'
  BY <1>1, <1>2 DEF RepairInv, Archived, Sealed
<1>4. Progress'
  BY <1>1, <1>2 DEF Progress, Working, Found, Sealed
<1>5. Counted'
  BY <1>1 DEF RepairInv, Counted, Named
<1>6. Filed' /\ Promised' /\ Lost' /\ Indexed'
  BY <1>1, FilesKept, ReceiptsKept, LossesKept, IndexKept
<1>7. NothingDiscarded' /\ SuccessorHonest'
  BY <1>1, HistoryStays, SameKeeps DEF RepairInv
<1> QED  BY <1>3, <1>4, <1>5, <1>6, <1>7 DEF RepairInv

LEMMA PromiseKeeps == RepairInv /\ Promise => RepairInv'
<1> SUFFICES ASSUME RepairInv, Promise PROVE RepairInv'
  OBVIOUS
<1>1. /\ UNCHANGED <<family, files, marker, archive, losses, app, acked, damages, faults>>
      /\ receipts' = receipts \cup {Receipt(job, FALSE)}
      /\ step = "promise" /\ step' = "succeed" /\ job' = job
  BY DEF Promise, Ended
<1>2. Working
  BY <1>1, WorkingHas
<1>3. PICK q : q = Receipt(job, FALSE)
  <2> DEFINE q == Receipt(job, FALSE)
  <2> HIDE DEF q
  <2>1. q = q
    OBVIOUS
  <2> QED BY <2>1, Zenon DEF q
<1>4. /\ q.shard = job.shard /\ q.bytes = job.bytes /\ q.completed = FALSE
      /\ q = Receipt(q, q.completed) /\ Sealed(q) \in archive
      /\ q.shard \in DOMAIN files /\ \A p \in receipts : p.shard # q.shard
  BY <1>1, <1>2, <1>3 DEF Receipt, Sealed, Working, Found
<1>5. Promised'
  <2>1. receipts' = receipts \cup {q}
    BY <1>1, <1>3
  <2>2. \A p \in receipts \cup {q} :
          p = Receipt(p, p.completed) /\ p.completed \in BOOLEAN /\ Sealed(p) \in archive
    BY <1>4 DEF RepairInv, Promised
  <2>3. \A p, r \in receipts \cup {q} : p.shard = r.shard => p.bytes = r.bytes
    BY <1>4 DEF RepairInv, Promised
  <2> QED BY <1>1, <2>1, <2>2, <2>3 DEF Promised
<1>6. Progress'
  BY <1>1, <1>2 DEF Progress, Working, Receipt
<1>7. Counted'
  BY <1>1 DEF RepairInv, Counted, Named
<1>8. Filed' /\ Archived' /\ Lost' /\ Indexed'
  BY <1>1, FilesKept, ArchiveKept, LossesKept, IndexKept
<1>9. NothingDiscarded' /\ SuccessorHonest'
  <2>1. \A p \in receipts' :
          /\ family = "chunks" /\ p.completed => \E l \in losses' : l.of.lost = p.bytes
          /\ p.shard \notin DOMAIN files => Honest(p)
    <3> TAKE p \in receipts'
    <3>1. p \in receipts \/ p = q
      BY <1>1, <1>3
    <3> QED BY <1>1, <1>4, <3>1 DEF RepairInv, SuccessorHonest
  <2> QED BY <1>1, <2>1, HistoryKept, SameKeeps DEF RepairInv
<1> QED  BY <1>5, <1>6, <1>7, <1>8, <1>9 DEF RepairInv

LEMMA SucceedKeeps == RepairInv /\ Succeed => RepairInv'
<1> SUFFICES ASSUME RepairInv, Succeed PROVE RepairInv'
  OBVIOUS
<1>1. /\ UNCHANGED <<family, marker, archive, receipts, losses, app, acked, damages, faults>>
      /\ step = "succeed"
  BY DEF Succeed
<1>2. /\ Working /\ Damaged(job.bytes, damages) /\ damages \in Nat
      /\ Successor(job).date \in Dates
      /\ Lines(Survivors(job), damages)
  BY <1>1, WorkingHas, SurvivorsBegin
<1>3. PICK n, v : n = Successor(job) /\ v = Survivors(job)
  OBVIOUS
<1>4. Archived' /\ Promised' /\ Lost' /\ Indexed'
  BY <1>1, ArchiveKept, ReceiptsKept, LossesKept, IndexKept
<1>5. CASE n \in DOMAIN files /\ files[n] # v
  <2>1. files' = files /\ Ended("idle")
    BY <1>3, <1>5 DEF Succeed
  <2>2. Counted' /\ Filed'
    BY <1>1, <2>1, FilesKept DEF RepairInv, Counted, Named
  <2>3. NothingDiscarded' /\ SuccessorHonest'
    BY <1>1, <2>1, HistoryStays, SameKeeps DEF RepairInv
  <2> QED BY <1>4, <2>1, <2>2, <2>3, EndedIdle DEF RepairInv
<1>6. CASE ~ (n \in DOMAIN files /\ files[n] # v)
  <2>1. /\ step' = "unlink" /\ job' = job
        /\ \/ files' = files /\ n \in DOMAIN files /\ files[n] = v
           \/ files' = With(n, v) /\ n \notin DOMAIN files
    BY <1>3, <1>6 DEF Succeed, Ended
  <2>2. files' = [s \in DOMAIN files \cup {n} |-> IF s = n THEN v ELSE files[s]]
    BY <2>1 DEF With, RepairInv, Filed
  <2>3. Filed'
    BY <1>1, <1>2, <1>3, <2>2 DEF RepairInv, Filed
  <2>4. Counted'
    BY <1>1, <2>2 DEF RepairInv, Counted, Named
  <2>5. Keeps
    BY <2>1, <2>2 DEF Keeps
  <2>6. NothingDiscarded' /\ SuccessorHonest'
    BY <1>1, <2>5, HistoryStays DEF RepairInv
  <2>7. Progress'
    <3>1. Successor(job)' = n /\ Survivors(job)' = v
      BY <1>1, <1>3, <2>1 DEF Successor, Survivors
    <3>2. n \in DOMAIN files' /\ files'[n] = v
      BY <2>2
    <3>3. Receipt(job, FALSE)' \in receipts'
      BY <1>1, <1>2, <2>1 DEF Working, Receipt
    <3>4. Working'
      BY <1>1, <1>2, <2>1, <3>1, <3>2, <3>3 DEF Working
    <3> QED BY <2>1, <3>4 DEF Progress
  <2> QED BY <1>4, <2>3, <2>4, <2>6, <2>7 DEF RepairInv
<1> QED  BY <1>5, <1>6

\* The receipt without an end that a repair has, with what that says of the original.
LEMMA JobPromised ==
  ASSUME RepairInv, step \in {"succeed", "unlink", "record", "scan", "complete"}
  PROVE  /\ [shard |-> job.shard, bytes |-> job.bytes, completed |-> FALSE] \in receipts
         /\ Sealed(job) \in archive
         /\ \A q \in receipts : q.shard = job.shard => q.bytes = job.bytes
<1>1. PICK q \in receipts : q = [shard |-> job.shard, bytes |-> job.bytes, completed |-> FALSE]
  BY WorkingHas DEF Working, Receipt
<1>2. Sealed(q) = Sealed(job) /\ q.shard = job.shard /\ q.bytes = job.bytes
  BY <1>1 DEF Sealed
<1> QED  BY <1>1, <1>2 DEF RepairInv, Promised

\* What goes with the damaged original, when its successor is there and the archive has it.
LEMMA UnlinkedHistory ==
  ASSUME RepairInv, step = "unlink", job.shard \in DOMAIN files, files[job.shard] = job.bytes,
         files' = Without(job.shard),
         UNCHANGED <<family, archive, receipts, losses, acked>>
  PROVE  NothingDiscarded' /\ SuccessorHonest'
<1>1. /\ Working /\ Damaged(job.bytes, damages) /\ damages \in Nat
      /\ family \in {"events", "chunks"} /\ job.device \in Devices
      /\ Sealed(job) = [shard |-> job.shard, bytes |-> job.bytes]
  BY WorkingHas
<1>2. Sealed(job) \in archive /\ \A q \in receipts : q.shard = job.shard => q.bytes = job.bytes
  BY JobPromised
<1>3. /\ \A s \in DOMAIN files : s # job.shard => s \in DOMAIN files' /\ files'[s] = files[s]
      /\ DOMAIN files' = DOMAIN files \ {job.shard}
  BY DEF Without
<1>4. NothingDiscarded'
  <2> SUFFICES ASSUME NEW r \in acked
               PROVE  \/ \E s \in DOMAIN files' : \E i \in DOMAIN files'[s] : files'[s][i].of = r
                      \/ \E o \in archive : \E i \in DOMAIN o.bytes : o.bytes[i].of = r
    BY DEF NothingDiscarded
  <2>1. ASSUME NEW s \in DOMAIN files, NEW i \in DOMAIN files[s], files[s][i].of = r
        PROVE  \/ \E t \in DOMAIN files' : \E k \in DOMAIN files'[t] : files'[t][k].of = r
               \/ \E o \in archive : \E k \in DOMAIN o.bytes : o.bytes[k].of = r
    <3>1. CASE s # job.shard
      BY <1>3, <2>1, <3>1
    <3>2. CASE s = job.shard
      <4>1. Sealed(job).bytes = files[s]
        BY <1>1, <3>2
      <4> QED BY <1>2, <2>1, <4>1
    <3> QED BY <3>1, <3>2
  <2> QED BY <2>1 DEF RepairInv, NothingDiscarded
<1>5. ASSUME NEW q \in receipts, q.shard \notin DOMAIN files' PROVE Honest(q)'
  <2>1. CASE q.shard = job.shard
    <3>1. PICK n, v : n = Successor(job) /\ v = Survivors(job)
      OBVIOUS
    <3>2. n \in DOMAIN files /\ files[n] = v
      BY <1>1, <3>1 DEF Working
    <3>3. Sound(v) /\ Begins(job, v, family)
      BY <1>1, <3>1, SurvivorsBegin
    <3>4. n # job.shard
      BY <1>1, <3>2, <3>3 DEF Damaged
    <3>5. n \in DOMAIN files' /\ files'[n] = v
      BY <1>3, <3>2, <3>4
    <3>6. Successor(q) = n /\ q.bytes = job.bytes
      BY <1>2, <2>1, <3>1 DEF Successor
    <3>7. Begins(q, v, family)
      <4>1. Loss(q.bytes, job.device) = Loss(job.bytes, job.device)
        BY <3>6
      <4> QED BY <3>3, <3>6 DEF Begins
    <3>8. HonestIn(q, files', archive', family')
      BY <3>5, <3>6, <3>7 DEF HonestIn
    <3> QED BY <3>8, HonestIs
  <2>2. CASE q.shard # job.shard
    <3>1. HonestIn(q, files, archive, family)
      BY <1>3, <1>5, <2>2, HonestIs DEF RepairInv, SuccessorHonest
    <3>2. CASE Successor(q) = job.shard
      <4>1. ASSUME Begins(q, files[Successor(q)], family)
            PROVE  \E o \in archive : o.shard = Successor(q) /\ Begins(q, o.bytes, family)
        <5>1. Sealed(job).shard = Successor(q) /\ Sealed(job).bytes = files[Successor(q)]
          BY <1>1, <3>2
        <5> QED BY <1>2, <4>1, <5>1
      <4>2. HonestIn(q, files', archive', family')
        BY <3>1, <4>1 DEF HonestIn
      <4> QED BY <4>2, HonestIs
    <3>3. CASE Successor(q) # job.shard
      <4>1. HonestIn(q, files', archive', family')
        BY <1>3, <3>1, <3>3 DEF HonestIn
      <4> QED BY <4>1, HonestIs
    <3> QED BY <3>2, <3>3
  <2> QED BY <2>1, <2>2
<1>6. SuccessorHonest'
  BY <1>5 DEF RepairInv, SuccessorHonest
<1> QED  BY <1>4, <1>6

LEMMA UnlinkKeeps == RepairInv /\ Unlink => RepairInv'
<1> SUFFICES ASSUME RepairInv, Unlink PROVE RepairInv'
  OBVIOUS
<1>1. /\ UNCHANGED <<family, marker, archive, receipts, losses, app, acked, damages, faults>>
      /\ step = "unlink"
  BY DEF Unlink
<1>2. Archived' /\ Promised' /\ Lost' /\ Indexed'
  BY <1>1, ArchiveKept, ReceiptsKept, LossesKept, IndexKept
<1>3. CASE files' = files /\ (Ended("idle") \/ Ended("record"))
  <2>1. Counted' /\ Filed'
    BY <1>1, <1>3, FilesKept DEF RepairInv, Counted, Named
  <2>2. NothingDiscarded' /\ SuccessorHonest'
    BY <1>1, <1>3, HistoryStays, SameKeeps DEF RepairInv
  <2>3. Progress'
    <3>1. CASE Ended("idle")
      BY <3>1, EndedIdle
    <3>2. CASE Ended("record")
      <4>1. Working /\ step' = "record" /\ job' = job
        BY <1>1, <3>2, WorkingHas DEF Ended
      <4> QED BY <1>1, <1>3, <4>1 DEF Progress, Working, Receipt
    <3> QED BY <1>3, <3>1, <3>2
  <2> QED BY <1>2, <2>1, <2>2, <2>3 DEF RepairInv
<1>4. CASE /\ job.shard \in DOMAIN files /\ files[job.shard] = job.bytes
           /\ files' = Without(job.shard) /\ Ended("record")
  <2>1. NothingDiscarded' /\ SuccessorHonest'
    BY <1>1, <1>4, UnlinkedHistory
  <2>2. files' = [s \in DOMAIN files \ {job.shard} |-> files[s]]
    BY <1>4 DEF Without
  <2>3. Filed'
    BY <1>1, <2>2 DEF RepairInv, Filed
  <2>4. Counted'
    <3>1. PICK q \in receipts : q.shard = job.shard
      BY <1>1, JobPromised
    <3>2. job.shard \in {p.shard : p \in receipts}
      BY <3>1
    <3>3. Named \subseteq Named'
      BY <1>1, <2>2, <3>2 DEF Named
    <3> QED BY <1>1, <3>3 DEF RepairInv, Counted
  <2>5. Progress'
    <3>1. Working /\ step' = "record" /\ job' = job
      BY <1>1, <1>4, WorkingHas DEF Ended
    <3> QED BY <1>1, <3>1 DEF Progress, Working, Receipt
  <2> QED BY <1>2, <2>1, <2>3, <2>4, <2>5 DEF RepairInv
<1> QED  BY <1>3, <1>4 DEF Unlink

LEMMA ProgressStays ==
  RepairInv /\ UNCHANGED <<family, files, archive, receipts, losses, step, job, damages>>
    => Progress'
<1> SUFFICES ASSUME RepairInv,
                    UNCHANGED <<family, files, archive, receipts, losses, step, job, damages>>
             PROVE  Progress'
  OBVIOUS
<1>1. CASE step = "idle"
  BY <1>1 DEF RepairInv, Progress
<1>2. CASE step # "idle"
  <2>1. Working
    BY <1>2, WorkingHas
  <2>2. Working'
    BY <2>1 DEF Working, Found, Receipt, Sealed, Successor, Survivors, Damaged, Lines
  <2> QED BY <1>2, <2>2 DEF RepairInv, Progress
<1> QED  BY <1>1, <1>2

LEMMA RecordLossKeeps == RepairInv /\ RecordLoss => RepairInv'
<1> SUFFICES ASSUME RepairInv, RecordLoss PROVE RepairInv'
  OBVIOUS
<1>1. /\ UNCHANGED <<family, files, marker, archive, receipts, app, acked, damages, faults>>
      /\ step = "record"
  BY DEF RecordLoss
<1>2. /\ Working /\ job.device \in Devices
      /\ Sealed(job) = [shard |-> job.shard, bytes |-> job.bytes]
      /\ Sealed(job) \in archive
  BY <1>1, WorkingHas, JobPromised
<1>3. PICK loss : loss = Loss(job.bytes, job.device)
  OBVIOUS
<1>4. loss.of.lost = job.bytes
  BY <1>3 DEF Loss, Line
<1>5. loss \in {Loss(o.bytes, d) : o \in archive, d \in Devices}
  <2>1. Sealed(job).bytes = job.bytes
    BY <1>2
  <2> QED BY <1>2, <1>3, <2>1
<1>6. losses' = losses \/ losses' = losses \cup {loss}
  BY <1>3 DEF RecordLoss
<1>7. Lost'
  BY <1>1, <1>5, <1>6 DEF RepairInv, Lost
<1>8. Counted' /\ Filed' /\ Archived' /\ Promised' /\ Indexed'
  BY <1>1, FilesKept, ArchiveKept, ReceiptsKept, IndexKept DEF RepairInv, Counted, Named
<1>9. NothingDiscarded' /\ SuccessorHonest'
  BY <1>1, <1>6, HistoryStays, SameKeeps DEF RepairInv
<1>10. Progress'
  <2>1. CASE Ended("idle")
    BY <2>1, EndedIdle
  <2>2. CASE Ended("scan") /\ (family = "chunks" => losses' = losses \cup {loss})
    <3>1. step' = "scan" /\ job' = job
      BY <2>2 DEF Ended
    <3>2. family = "chunks" => \E l \in losses' : l.of.lost = job.bytes
      BY <1>4, <2>2
    <3>3. Working'
      BY <1>1, <1>2, <3>1, <3>2 DEF Working, Receipt
    <3> QED BY <3>1, <3>3 DEF Progress
  <2> QED BY <1>3, <2>1, <2>2 DEF RecordLoss
<1> QED  BY <1>7, <1>8, <1>9, <1>10 DEF RepairInv

LEMMA RescanKeeps == RepairInv /\ Rescan => RepairInv'
<1> SUFFICES ASSUME RepairInv, Rescan PROVE RepairInv'
  OBVIOUS
<1>1. /\ UNCHANGED <<family, files, archive, receipts, losses, acked, damages, faults>>
      /\ step = "scan"
      /\ \/ marker' = NoShard /\ app' = [app EXCEPT !.stale = app.open] /\ Ended("complete")
         \/ UNCHANGED <<marker, app>> /\ Ended("idle")
  BY DEF Rescan
<1>2. Counted'
  BY <1>1 DEF RepairInv, Counted, Named
<1>3. Filed' /\ Archived' /\ Promised' /\ Lost'
  BY <1>1, FilesKept, ArchiveKept, ReceiptsKept, LossesKept
<1>4. NothingDiscarded' /\ SuccessorHonest'
  BY <1>1, HistoryStays, SameKeeps DEF RepairInv
<1>5. Indexed'
  <2>1. CASE app' = [app EXCEPT !.stale = app.open]
    <3>1. Indexed
      BY DEF RepairInv
    <3>2. app' = [open |-> app.open, active |-> app.active, stale |-> app.open]
      BY <2>1, <3>1 DEF Indexed
    <3> QED BY <3>1, <3>2 DEF Indexed
  <2> QED BY <1>1, <2>1, IndexKept
<1>6. Progress'
  <2>1. CASE Ended("complete")
    <3>1. Working /\ step' = "complete" /\ job' = job
      BY <1>1, <2>1, WorkingHas DEF Ended
    <3> QED BY <1>1, <3>1 DEF Progress, Working, Receipt
  <2> QED BY <1>1, <2>1, EndedIdle
<1> QED  BY <1>2, <1>3, <1>4, <1>5, <1>6 DEF RepairInv

\* Only the shard and the bytes of a receipt say which lines its successor has to have.
LEMMA HonestSame ==
  ASSUME NEW p, NEW q, p.shard = q.shard, p.bytes = q.bytes, Honest(p)
  PROVE  Honest(q)
<1>1. Successor(p) = Successor(q)
  BY DEF Successor
<1>2. Honest(q) <=> HonestIn(q, files, archive, family)
  BY HonestIs
<1>3. HonestIn(p, files, archive, family)
  BY HonestIs
<1>4. \A b : Begins(p, b, family) => Begins(q, b, family)
  BY DEF Begins
<1> QED  BY <1>1, <1>2, <1>3, <1>4 DEF HonestIn

LEMMA CompleteKeeps == RepairInv /\ Complete => RepairInv'
<1> SUFFICES ASSUME RepairInv, Complete PROVE RepairInv'
  OBVIOUS
<1>1. /\ UNCHANGED <<family, files, marker, archive, losses, app, acked, damages, faults>>
      /\ step = "complete" /\ Ended("idle")
  BY DEF Complete
<1>2. PICK p \in receipts : p = [shard |-> job.shard, bytes |-> job.bytes, completed |-> FALSE]
  BY <1>1, JobPromised
<1>3. \E q : q = [shard |-> job.shard, bytes |-> job.bytes, completed |-> TRUE]
  OBVIOUS
<1>4. PICK q : q = [shard |-> job.shard, bytes |-> job.bytes, completed |-> TRUE]
  BY <1>3
<1>5. /\ q.shard = p.shard /\ q.bytes = p.bytes /\ q.completed = TRUE
      /\ p.shard = job.shard /\ p.bytes = job.bytes
      /\ q = Receipt(q, q.completed)
  BY <1>2, <1>4 DEF Receipt
<1>6. Sealed(q) \in archive
  <2>1. Sealed(q) = Sealed(job)
    BY <1>5 DEF Sealed
  <2> QED BY <1>1, <2>1, JobPromised
<1>7. receipts' = (receipts \ {p}) \cup {q}
  BY <1>2, <1>4 DEF Complete, Receipt
<1>8. Promised'
  <2>1. \A r \in receipts' :
          r = Receipt(r, r.completed) /\ r.completed \in BOOLEAN /\ Sealed(r) \in archive
    BY <1>5, <1>6, <1>7 DEF RepairInv, Promised
  <2>2. \A r, t \in receipts' : r.shard = t.shard => r.bytes = t.bytes
    BY <1>5, <1>7 DEF RepairInv, Promised
  <2> QED BY <1>1, <2>1, <2>2 DEF Promised
<1>9. Counted'
  <2>1. {r.shard : r \in receipts} \subseteq {r.shard : r \in receipts'}
    BY <1>5, <1>7
  <2> QED BY <1>1, <2>1 DEF RepairInv, Counted, Named
<1>10. Filed' /\ Archived' /\ Lost' /\ Indexed' /\ Progress'
  BY <1>1, FilesKept, ArchiveKept, LossesKept, IndexKept, EndedIdle
<1>11. NothingDiscarded' /\ SuccessorHonest'
  <2>1. family = "chunks" => \E l \in losses : l.of.lost = q.bytes
    BY <1>1, <1>5, WorkingHas DEF Working
  <2>2. q.shard \notin DOMAIN files => Honest(q)
    BY <1>5, HonestSame DEF RepairInv, SuccessorHonest
  <2>3. \A r \in receipts' :
          /\ family = "chunks" /\ r.completed => \E l \in losses' : l.of.lost = r.bytes
          /\ r.shard \notin DOMAIN files => Honest(r)
    <3> TAKE r \in receipts'
    <3>1. CASE r = q
      BY <1>1, <2>1, <2>2, <3>1
    <3>2. CASE r # q
      BY <1>1, <1>7, <3>2 DEF RepairInv, SuccessorHonest
    <3> QED BY <3>1, <3>2
  <2> QED BY <1>1, <2>3, HistoryKept, SameKeeps DEF RepairInv
<1> QED  BY <1>8, <1>9, <1>10, <1>11 DEF RepairInv

LEMMA DieKeeps == RepairInv /\ Die => RepairInv'
<1> SUFFICES ASSUME RepairInv, Die PROVE RepairInv'
  OBVIOUS
<1>1. /\ UNCHANGED <<family, files, marker, archive, receipts, losses, app, acked, damages>>
      /\ faults < MaxFaults /\ faults' = faults + 1 /\ Ended("idle")
  BY DEF Die
<1>2. Counted'
  BY <1>1, RepairAssumption DEF RepairInv, Counted, Named
<1>3. Filed' /\ Archived' /\ Promised' /\ Lost' /\ Indexed' /\ Progress'
  BY <1>1, FilesKept, ArchiveKept, ReceiptsKept, LossesKept, IndexKept, EndedIdle
<1>4. NothingDiscarded' /\ SuccessorHonest'
  BY <1>1, HistoryStays, SameKeeps DEF RepairInv
<1> QED  BY <1>2, <1>3, <1>4 DEF RepairInv

-----------------------------------------------------------------------------
(* The recorder                                                              *)

LEMMA ScannedHas ==
  ASSUME RepairInv, NEW a, a = Scanned
  PROVE  /\ a = [open |-> a.open, active |-> a.active, stale |-> a.stale]
         /\ a.open \in BOOLEAN /\ a.stale \in BOOLEAN
         /\ a.active = [d \in DOMAIN a.active |-> a.active[d]]
         /\ \A d \in DOMAIN a.active : d \in Dates /\ a.active[d].date = d
<1>1. /\ DOMAIN ActiveShards = {s.date : s \in DOMAIN files}
      /\ ActiveShards = [d \in DOMAIN ActiveShards |-> ActiveShards[d]]
  BY DEF ActiveShards
<1>2. ASSUME NEW d \in DOMAIN ActiveShards
      PROVE  d \in Dates /\ ActiveShards[d].date = d
  <2>1. PICK s \in DOMAIN files : s.date = d
    BY <1>1
  <2>2. ActiveShards[d] = CHOOSE t \in DOMAIN files : t.date = d
    BY <1>1 DEF ActiveShards
  <2>3. ActiveShards[d].date = d
    BY <2>1, <2>2
  <2> QED BY <2>1, <2>3 DEF RepairInv, Filed
<1>3. a.active = ActiveShards /\ a.open = TRUE /\ a.stale = FALSE
  BY DEF Scanned
<1>4. a = [open |-> a.open, active |-> a.active, stale |-> a.stale]
  BY DEF Scanned
<1>5. a.open \in BOOLEAN /\ a.stale \in BOOLEAN
  BY <1>3
<1>6. /\ a.active = [d \in DOMAIN a.active |-> a.active[d]]
      /\ \A d \in DOMAIN a.active : d \in Dates /\ a.active[d].date = d
  BY <1>1, <1>2, <1>3
<1> QED  BY <1>4, <1>5, <1>6

LEMMA RefreshedHas ==
  ASSUME RepairInv, NEW a, a = RefreshedIndex
  PROVE  /\ a = [open |-> a.open, active |-> a.active, stale |-> a.stale]
         /\ a.open \in BOOLEAN /\ a.stale \in BOOLEAN
         /\ a.active = [d \in DOMAIN a.active |-> a.active[d]]
         /\ \A d \in DOMAIN a.active : d \in Dates /\ a.active[d].date = d
<1>1. CASE a = Scanned
  BY <1>1, ScannedHas
<1>2. CASE a = app
  BY <1>2 DEF RepairInv, Indexed
<1> QED  BY <1>1, <1>2 DEF RefreshedIndex

LEMMA StartKeeps == RepairInv /\ Start => RepairInv'
<1> SUFFICES ASSUME RepairInv, Start PROVE RepairInv'
  OBVIOUS
<1>1. /\ UNCHANGED <<family, files, archive, receipts, losses, step, job, acked, damages, faults>>
      /\ app' = Scanned /\ marker' = NoShard
  BY DEF Start
<1>2. Counted'
  BY <1>1 DEF RepairInv, Counted, Named
<1>3. Filed' /\ Archived' /\ Promised' /\ Lost' /\ Progress'
  BY <1>1, FilesKept, ArchiveKept, ReceiptsKept, LossesKept, ProgressStays
<1>4. Indexed'
  <2>1. PICK a : a = Scanned
    OBVIOUS
  <2>2. app' = a
    BY <1>1, <2>1
  <2>3. /\ a = [open |-> a.open, active |-> a.active, stale |-> a.stale]
        /\ a.open \in BOOLEAN /\ a.stale \in BOOLEAN
        /\ a.active = [d \in DOMAIN a.active |-> a.active[d]]
        /\ \A d \in DOMAIN a.active : d \in Dates /\ a.active[d].date = d
    BY <2>1, ScannedHas
  <2> QED BY <2>2, <2>3 DEF Indexed
<1>5. NothingDiscarded' /\ SuccessorHonest'
  BY <1>1, HistoryStays, SameKeeps DEF RepairInv
<1> QED  BY <1>2, <1>3, <1>4, <1>5 DEF RepairInv

LEMMA CloseKeeps == RepairInv /\ Close => RepairInv'
<1> SUFFICES ASSUME RepairInv, Close PROVE RepairInv'
  OBVIOUS
<1>1. /\ UNCHANGED <<family, files, marker, archive, receipts, losses, step, job, acked,
                     damages, faults>>
      /\ app' = Closed
  BY DEF Close
<1>2. Counted'
  BY <1>1 DEF RepairInv, Counted, Named
<1>3. Filed' /\ Archived' /\ Promised' /\ Lost' /\ Progress'
  BY <1>1, FilesKept, ArchiveKept, ReceiptsKept, LossesKept, ProgressStays
<1>4. Indexed'
  <2>1. <<>> = [d \in DOMAIN <<>> |-> <<>>[d]] /\ DOMAIN <<>> = {}
    OBVIOUS
  <2> QED BY <1>1, <2>1 DEF Indexed, Closed
<1>5. NothingDiscarded' /\ SuccessorHonest'
  BY <1>1, HistoryStays, SameKeeps DEF RepairInv
<1> QED  BY <1>2, <1>3, <1>4, <1>5 DEF RepairInv

LEMMA RecordKeeps ==
  ASSUME RepairInv, NEW r \in Records, Record(r)
  PROVE  RepairInv'
<1>1. /\ UNCHANGED <<family, archive, receipts, losses, step, job, damages, faults>>
      /\ step = "idle" /\ marker' = NoShard /\ acked' = acked \cup {r}
  BY DEF Record
<1>2. PICK a : a = RefreshedIndex
  OBVIOUS
<1>3. /\ a = [open |-> a.open, active |-> a.active, stale |-> a.stale]
      /\ a.open \in BOOLEAN /\ a.stale \in BOOLEAN
      /\ a.active = [d \in DOMAIN a.active |-> a.active[d]]
      /\ \A d \in DOMAIN a.active : d \in Dates /\ a.active[d].date = d
  BY <1>2, RefreshedHas
<1>4. PICK s : s = Target(r)
  OBVIOUS
<1>5. s.date = DateOf[r] /\ s.date \in Dates
  <2>1. DateOf[r] \in Dates
    BY DEF Dates
  <2>2. s = IF DateOf[r] \in DOMAIN a.active THEN a.active[DateOf[r]] ELSE Original(DateOf[r])
    BY <1>2, <1>4 DEF Target
  <2> QED BY <1>3, <2>1, <2>2 DEF Original
<1>6. PICK b : b = IF s \in DOMAIN files THEN files[s] ELSE <<>>
  OBVIOUS
<1>7. damages \in Nat
  BY RepairAssumption DEF RepairInv, Counted
<1>8. Lines(b, damages)
  BY <1>6, NoLines DEF RepairInv, Filed
<1>9. PICK c : c = b \o <<Line(r)>>
  OBVIOUS
<1>10. /\ Lines(c, damages) /\ DOMAIN c = 1 .. Len(b) + 1 /\ Len(b) \in Nat
       /\ \A i \in DOMAIN b : i \in DOMAIN c /\ c[i] = b[i]
       /\ c[Len(b) + 1] = Line(r)
  <2>1. Len(b) \in Nat
    BY <1>8, LinesHas
  <2>2. PICK n \in Nat : n = damages
    BY <1>7
  <2>3. /\ Lines(c, n) /\ DOMAIN c = 1 .. Len(b) + 1
        /\ \A i \in DOMAIN b : i \in DOMAIN c /\ c[i] = b[i]
        /\ c[Len(b) + 1] = Line(r)
    BY ONLY <1>8, <1>9, <2>2, n \in Nat, Appended
  <2> QED BY <2>1, <2>2, <2>3
<1>11. /\ files' = With(s, c)
       /\ app' = [a EXCEPT !.active =
                    [d \in DOMAIN @ \cup {s.date} |-> IF d = s.date THEN s ELSE @[d]]]
  BY <1>2, <1>4, <1>6, <1>9 DEF Record
<1>12. files' = [t \in DOMAIN files \cup {s} |-> IF t = s THEN c ELSE files[t]]
  BY <1>11 DEF With
<1>13. Filed'
  BY <1>1, <1>5, <1>10, <1>12 DEF RepairInv, Filed
<1>14. Indexed'
  <2>1. PICK active : active = [d \in DOMAIN a.active \cup {s.date} |->
                                  IF d = s.date THEN s ELSE a.active[d]]
    OBVIOUS
  <2>2. app' = [open |-> a.open, active |-> active, stale |-> a.stale]
    BY <1>3, <1>11, <2>1
  <2>3. /\ active = [d \in DOMAIN active |-> active[d]]
        /\ \A d \in DOMAIN active : d \in Dates /\ active[d].date = d
    BY <1>3, <1>5, <2>1
  <2> QED BY <1>3, <2>2, <2>3 DEF Indexed
<1>15. Counted'
  BY <1>1, <1>12 DEF RepairInv, Counted, Named
<1>16. Archived' /\ Promised' /\ Lost'
  BY <1>1, ArchiveKept, ReceiptsKept, LossesKept
<1>17. Progress'
  BY <1>1 DEF RepairInv, Progress
<1>18. NothingDiscarded' /\ SuccessorHonest'
  <2>1. Keeps
    BY <1>6, <1>10, <1>12 DEF Keeps
  <2>2. \A t \in acked' \ acked :
          \E f \in DOMAIN files' : \E i \in DOMAIN files'[f] : files'[f][i].of = t
    <3>1. s \in DOMAIN files' /\ files'[s] = c
      BY <1>12
    <3>2. Len(b) + 1 \in DOMAIN c /\ c[Len(b) + 1].of = r
      BY <1>10, LineHas
    <3> QED BY <1>1, <3>1, <3>2
  <2> QED BY <1>1, <2>1, <2>2, HistoryKept DEF RepairInv, SuccessorHonest
<1> QED  BY <1>13, <1>14, <1>15, <1>16, <1>17, <1>18 DEF RepairInv

LEMMA DamageKeeps ==
  ASSUME RepairInv, NEW s \in DOMAIN files, NEW i \in DOMAIN files[s], Damage(s, i)
  PROVE  RepairInv'
<1>1. /\ UNCHANGED <<family, marker, archive, receipts, losses, app, step, job, acked, faults>>
      /\ step = "idle" /\ damages < MaxDamages /\ damages' = damages + 1
  BY DEF Damage
<1>2. /\ damages \in Nat /\ damages' \in Nat /\ damages <= damages' /\ damages' \in 0 .. MaxDamages
  BY <1>1, RepairAssumption DEF RepairInv, Counted
<1>3. PICK b : b = files[s]
  OBVIOUS
<1>4. PICK c : c = [b EXCEPT ![i].damage = damages']
  OBVIOUS
<1>5. files' = [files EXCEPT ![s] = c]
  BY <1>3, <1>4 DEF Damage
<1>6. Lines(b, damages)
  BY <1>3 DEF RepairInv, Filed
<1>7. Lines(c, damages') /\ DOMAIN c = DOMAIN b /\ \A k \in DOMAIN b : c[k].of = b[k].of
  <2>1. PICK n \in Nat : n = damages
    BY <1>2
  <2>2. PICK m \in Nat : m = damages'
    BY <1>2
  <2>3. n <= m /\ Lines(b, n) /\ i \in DOMAIN b /\ c = [b EXCEPT ![i].damage = m]
    BY <1>2, <1>3, <1>4, <1>6, <2>1, <2>2
  <2>4. Lines(c, m) /\ DOMAIN c = DOMAIN b /\ \A k \in DOMAIN b : c[k].of = b[k].of
    <3>1. Lines(c, m)
      BY ONLY <2>3, n \in Nat, m \in Nat, GoneBad
    <3>2. DOMAIN c = DOMAIN b
      BY ONLY <2>3, n \in Nat, m \in Nat, GoneBad
    <3>3. \A k \in DOMAIN b : c[k].of = b[k].of
      BY ONLY <2>3, n \in Nat, m \in Nat, GoneBad
    <3> QED BY <3>1, <3>2, <3>3
  <2> QED BY <2>2, <2>4
<1>8. /\ DOMAIN files' = DOMAIN files /\ files'[s] = c
      /\ \A t \in DOMAIN files : t # s => files'[t] = files[t]
      /\ files' = [t \in DOMAIN files' |-> files'[t]]
  BY <1>5 DEF RepairInv, Filed
<1>9. Filed'
  <2>1. ASSUME NEW t \in DOMAIN files PROVE t.date \in Dates /\ Lines(files'[t], damages')
    <3>1. t.date \in Dates /\ Lines(files[t], damages)
      BY DEF RepairInv, Filed
    <3>2. CASE t = s
      BY <1>7, <1>8, <3>1, <3>2
    <3>3. CASE t # s
      BY <1>2, <1>8, <3>1, <3>3, OlderLines
    <3> QED BY <3>2, <3>3
  <2> QED BY <1>8, <2>1 DEF Filed
<1>10. Archived'
  <2>1. ASSUME NEW o \in archive PROVE o.shard.date \in Dates /\ Damaged(o.bytes, damages')
    <3>1. o.shard.date \in Dates /\ Damaged(o.bytes, damages)
      BY DEF RepairInv, Archived
    <3> QED BY <1>2, <3>1, OlderLines DEF Damaged
  <2> QED BY <1>1, <2>1 DEF Archived
<1>11. Promised' /\ Lost' /\ Indexed'
  BY <1>1, ReceiptsKept, LossesKept, IndexKept
<1>12. Counted'
  BY <1>1, <1>2, <1>8 DEF RepairInv, Counted, Named
<1>13. Progress'
  BY <1>1 DEF RepairInv, Progress
<1>14. NothingDiscarded' /\ SuccessorHonest'
  <2>1. Keeps
    BY <1>3, <1>7, <1>8 DEF Keeps
  <2> QED BY <1>1, <2>1, HistoryStays DEF RepairInv
<1> QED  BY <1>9, <1>10, <1>11, <1>12, <1>13, <1>14 DEF RepairInv

-----------------------------------------------------------------------------
(* The theorems                                                              *)

LEMMA InitHas == Init => RepairInv
<1> SUFFICES ASSUME Init PROVE RepairInv
  OBVIOUS
<1>1. /\ files = [s \in {} |-> <<>>] /\ DOMAIN files = {}
      /\ archive = {} /\ receipts = {} /\ losses = {} /\ acked = {}
      /\ step = "idle" /\ job = NoJob /\ app = Closed
  BY DEF Init
<1>2. Counted
  BY RepairAssumption DEF Init, Counted, Named
<1>3. Filed /\ Archived /\ Promised /\ Lost /\ Progress
  BY <1>1 DEF Filed, Archived, Promised, Lost, Progress
<1>4. Indexed
  <2>1. <<>> = [d \in DOMAIN <<>> |-> <<>>[d]] /\ DOMAIN <<>> = {}
    OBVIOUS
  <2> QED BY <1>1, <2>1 DEF Indexed, Closed
<1>5. NothingDiscarded /\ SuccessorHonest
  BY <1>1 DEF NothingDiscarded, SuccessorHonest
<1> QED  BY <1>2, <1>3, <1>4, <1>5 DEF RepairInv

LEMMA StutterKeeps == RepairInv /\ UNCHANGED vars => RepairInv'
<1> SUFFICES ASSUME RepairInv, UNCHANGED vars PROVE RepairInv'
  OBVIOUS
<1>1. UNCHANGED <<family, files, marker, archive, receipts, losses, app, step, job, acked,
                  damages, faults>>
  BY DEF vars
<1>2. Counted'
  BY <1>1 DEF RepairInv, Counted, Named
<1>3. Filed' /\ Archived' /\ Promised' /\ Lost' /\ Indexed' /\ Progress'
  BY <1>1, FilesKept, ArchiveKept, ReceiptsKept, LossesKept, IndexKept, ProgressStays
<1>4. NothingDiscarded' /\ SuccessorHonest'
  BY <1>1, HistoryStays, SameKeeps DEF RepairInv
<1> QED  BY <1>2, <1>3, <1>4 DEF RepairInv

LEMMA NextKeeps == RepairInv /\ [Next]_vars => RepairInv'
<1> SUFFICES ASSUME RepairInv, [Next]_vars PROVE RepairInv'
  OBVIOUS
<1>1. CASE \E s \in Named, d \in Devices : Begin(s, d)
  BY <1>1, BeginKeeps
<1>2. CASE Repair
  BY <1>2, SealKeeps, PromiseKeeps, SucceedKeeps, UnlinkKeeps, RecordLossKeeps, RescanKeeps,
     CompleteKeeps DEF Repair
<1>3. CASE Die \/ Start \/ Close
  BY <1>3, DieKeeps, StartKeeps, CloseKeeps
<1>4. CASE \E r \in Records : Record(r)
  BY <1>4, RecordKeeps
<1>5. CASE \E s \in DOMAIN files : \E i \in DOMAIN files[s] : Damage(s, i)
  BY <1>5, DamageKeeps
<1>6. CASE UNCHANGED vars
  BY <1>6, StutterKeeps
<1> QED  BY <1>1, <1>2, <1>3, <1>4, <1>5, <1>6 DEF Next

LEMMA InvGivesTypeOK == RepairInv => TypeOK
<1> SUFFICES ASSUME RepairInv PROVE TypeOK
  OBVIOUS
<1>1. (step = "idle") <=> (job = NoJob)
  BY WorkingHas DEF RepairInv, Progress
<1>2. \A s \in DOMAIN files :
        s.date \in Dates /\ \A i \in DOMAIN files[s] : files[s][i].damage \in 0 .. damages
  BY DEF RepairInv, Filed, Lines
<1>3. DOMAIN app.active \subseteq Dates /\ app.open \in BOOLEAN /\ app.stale \in BOOLEAN
  BY DEF RepairInv, Indexed
<1>4. \A q \in receipts : Sealed(q) \in archive /\ q.completed \in BOOLEAN
  BY DEF RepairInv, Promised
<1> QED  BY <1>1, <1>2, <1>3, <1>4 DEF TypeOK, RepairInv, Counted, Lost, Progress

\* Through every call of the repair, its death at any point, and whatever the app does in
\* between, every variable keeps its type and a receipt names an original that is archived.
THEOREM TypeCorrect == Spec => []TypeOK
<1> QED  BY InitHas, NextKeeps, InvGivesTypeOK, PTL DEF Spec

LEMMA InvGivesRepairHonest == RepairInv => RepairHonest
BY DEF RepairInv, RepairHonest

\* Whatever a repair cuts off, and wherever it dies, the bytes of every acknowledged record
\* stay in an active shard or in the archive, and the successor of an original that is gone
\* begins with exactly the lines that had verified and the record of the loss.
THEOREM RepairIsHonest == Spec => []RepairHonest
<1> QED  BY InitHas, NextKeeps, InvGivesRepairHonest, PTL DEF Spec
===============================================================================
