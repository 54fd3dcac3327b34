--------------------------- MODULE ScreenshotsProofs ---------------------------
(* Proofs about Screenshots, for every set of images, every lifetime and quota and any  *)
(* number of instants and failures: the files are what the canonical records say, only  *)
(* what the user confirmed is removed, and, as long as no clock correction reaches the   *)
(* day before, the records can always be replayed.                                       *)
EXTENDS Screenshots, FiniteSetTheorems, TLAPS

WriteSteps == {"promote", "settle", "complete"}
ProjectSteps == {"projectWrite", "projectCompletion"}
AskedSteps == {"projectRequest", "unlink", "settleUnlink", "completeDelete", "projectDelete"}
DeleteSteps == {"request"} \cup AskedSteps
Places2 == file \in [Images -> Places] /\ settled \in [Images -> Places]

Typed ==
  /\ now \in Instants /\ at \in Instants \cup {0}
  /\ Places2
  /\ rows \in [Images -> States]
  /\ open \in BOOLEAN /\ step \in Steps /\ image \in Images \cup {NoImage} /\ batch \in Seq(Images)
  /\ preview.cutoff \in Instants \cup {0} /\ preview.candidates \subseteq Images
  /\ confirmed \subseteq Images /\ lost \subseteq Images
  /\ faults \in 0 .. MaxFaults

\* A shard has the records of its day, each of them once.
Filed ==
  /\ journal \in [Days -> Seq(Event)]
  /\ \A d \in Days : \A k \in DOMAIN journal[d] : Day(journal[d][k].recorded) = d
  /\ \A d \in Days : \A k, l \in DOMAIN journal[d] : journal[d][k] = journal[d][l] => k = l
  /\ cursor \in [Days -> Nat] /\ \A d \in Days : cursor[d] <= Len(journal[d])

\* Who the operation is about.
Operating ==
  /\ step = "ready" => image = NoImage /\ at = 0 /\ batch = <<>>
  /\ step = "recover" => image = NoImage /\ at \in Instants /\ batch = <<>>
  /\ step \notin {"ready", "recover"} => image \in Images /\ at \in Instants

\* No record without an observation, and none about what becomes of an image that was not
\* written.
Begun ==
  /\ \A e \in Logged : Has(e.image, "Observed")
  /\ \A e, f \in Logged :
       e.action = "Observed" /\ f.action = "Observed" /\ e.image = f.image => e = f
  /\ \A e \in Logged : e.action \in {"Missing", "DeleteRequested", "DeleteCompleted"}
                         => Has(e.image, "WriteCompleted")

Expired(i, t) ==
  \A o \in Logged : o.action = "Observed" /\ o.image = i => o.recorded + Lifetime <= t

Requested ==
  \A e \in Logged :
    e.action = "DeleteRequested" => e.image \in confirmed /\ Expired(e.image, e.recorded)

\* Where a power loss finds an image's bytes.
Settled ==
  \A i \in Images :
    /\ ~ Has(i, "Observed") => file[i] # "final" /\ settled[i] # "final"
    /\ file[i] # "final" /\ settled[i] = "final" => Has(i, "DeleteRequested")
    /\ file[i] = "final" /\ settled[i] # "final" => ~ HasTerminal(i)

Writing ==
  /\ step = "observe" => ~ Has(image, "Observed")
  /\ step \in WriteSteps =>
       Observation(image) \in Logged /\ \A e \in Of(image) : e.action = "Observed"
  /\ step \in {"settle", "complete"} => file[image] = "final"
  /\ step = "complete" => settled[image] = "final"
  /\ step \in ProjectSteps => Observation(image) \in Logged /\ WriteCompletion(image) \in Logged

Doomed(i) == i \in confirmed /\ Has(i, "WriteCompleted") /\ Expired(i, at)

Deleting ==
  /\ step \in DeleteSteps =>
       Doomed(image) /\ \A k \in DOMAIN batch : Doomed(batch[k])
  /\ step \in AskedSteps => Request(image) \in Logged
  /\ step \in {"settleUnlink", "completeDelete"} => file[image] = "none"
  /\ step = "completeDelete" => settled[image] = "none"
  /\ step = "projectDelete" => DeleteCompletion(image) \in Logged

ScreenshotsInv ==
  /\ Typed /\ Filed /\ Operating /\ Begun /\ Requested /\ Settled /\ Writing /\ Deleting
  /\ FilesAgree

-----------------------------------------------------------------------------
(* Without corrections across days                                           *)

\* The records are in the order in which they were made.
InDayOrder ==
  /\ \A e \in Logged : Day(e.recorded) <= Day(now)
  /\ step # "ready" => Day(at) <= Day(now) /\ \A e \in Logged : Day(e.recorded) <= Day(at)

\* What precedes what among the records of an image.
Precedes(a, b) ==
  \/ a = "Observed" /\ b # "Observed"
  \/ a = "WriteCompleted" /\ b \in {"Missing", "DeleteRequested", "DeleteCompleted"}
  \/ a = "DeleteRequested" /\ b = "DeleteCompleted"

Lifecycle ==
  /\ \A e, f \in Logged : e.image = f.image /\ e.action = f.action => e = f
  /\ \A e, f \in Logged : e.image = f.image /\ Precedes(e.action, f.action) => Earlier(e, f)
  /\ \A i \in Images :
       /\ Has(i, "WriteCompleted") => ~ Has(i, "WriteFailed")
       /\ Has(i, "DeleteRequested") => ~ Has(i, "Missing")
       /\ Has(i, "DeleteCompleted") => Has(i, "DeleteRequested")
  /\ \A e, f \in Logged :
       e.image = f.image /\ e.action = "DeleteRequested" /\ f.action = "DeleteCompleted"
         => e.requested = f.requested

Unasked(i) == ~ Has(i, "DeleteRequested") /\ ~ Has(i, "Missing")

Batched ==
  /\ step = "request" => Unasked(image)
  /\ step \in {"projectRequest", "unlink", "settleUnlink", "completeDelete"} =>
       ~ Has(image, "DeleteCompleted")
  /\ step \in DeleteSteps =>
       /\ \A k \in DOMAIN batch : Unasked(batch[k]) /\ batch[k] # image
       /\ \A k, l \in DOMAIN batch : batch[k] = batch[l] => k = l

Taken(i) == {e \in Of(i) : ~ Behind(e)}

\* A row has the state of the latest record that was projected.
RowsFollow ==
  \A i \in Images :
    \/ Taken(i) = {} /\ rows[i] = "none"
    \/ /\ \E e \in Taken(i) : e.action = "Observed"
       /\ \E e \in Taken(i) :
            rows[i] = StateAfter(e.action) /\ \A f \in Taken(i) \ {e} : Earlier(f, e)

OrderedInv == InDayOrder /\ Lifecycle /\ Batched /\ RowsFollow

-----------------------------------------------------------------------------
(* The journal                                                               *)

LEMMA DayHas == \A t \in Instants : Day(t) \in Days
BY ScreenshotsAssumption DEF Instants, Days, Day

LEMMA EventHas ==
  ASSUME NEW e \in Event
  PROVE  /\ e.action \in Actions /\ e.image \in Images /\ e.recorded \in Instants
         /\ e.requested \in Instants \cup {0} /\ Day(e.recorded) \in Days
         /\ e.recorded \in Nat /\ Day(e.recorded) \in Nat
BY DayHas DEF Event, Days, Instants

LEMMA SameLog ==
  ASSUME journal' = journal
  PROVE  Logged' = Logged /\ \A e : Position(e)' = Position(e)
BY DEF Logged, Position

LEMMA LoggedHas ==
  ASSUME Filed
  PROVE  /\ \A e \in Logged :
              /\ e \in Event /\ Day(e.recorded) \in Days /\ Position(e) \in Nat
              /\ Position(e) \in 1 .. Len(journal[Day(e.recorded)])
              /\ journal[Day(e.recorded)][Position(e)] = e
         /\ \A d \in Days : \A k \in 1 .. Len(journal[d]) :
              /\ journal[d][k] \in Logged /\ Day(journal[d][k].recorded) = d
              /\ Position(journal[d][k]) = k
<1>1. \A d \in Days : journal[d] \in Seq(Event) /\ Len(journal[d]) \in Nat
                      /\ DOMAIN journal[d] = 1 .. Len(journal[d])
  BY DEF Filed
<1>2. ASSUME NEW d \in Days, NEW k \in 1 .. Len(journal[d]), NEW e, e = journal[d][k]
      PROVE  e \in Logged /\ Day(e.recorded) = d /\ Position(e) = k
  <2>1. e \in ToSet(journal[d])
    BY <1>1, <1>2 DEF ToSet
  <2>2. e \in Logged
    BY <2>1 DEF Logged
  <2>3. Day(e.recorded) = d
    BY <1>1, <1>2 DEF Filed
  <2>4. \A l \in DOMAIN journal[d] : journal[d][l] = e => l = k
    BY <1>1, <1>2 DEF Filed
  <2>5. Position(e) = CHOOSE l \in DOMAIN journal[d] : journal[d][l] = e
    BY <2>3 DEF Position
  <2>6. Position(e) = k
    BY <1>1, <1>2, <2>4, <2>5
  <2> QED BY <2>2, <2>3, <2>6
<1>3. ASSUME NEW e \in Logged
      PROVE  /\ e \in Event /\ Day(e.recorded) \in Days /\ Position(e) \in Nat
             /\ Position(e) \in 1 .. Len(journal[Day(e.recorded)])
             /\ journal[Day(e.recorded)][Position(e)] = e
  <2>1. PICK d \in Days : e \in ToSet(journal[d])
    BY DEF Logged
  <2>2. PICK k \in 1 .. Len(journal[d]) : e = journal[d][k]
    BY <1>1, <2>1 DEF ToSet
  <2>3. Day(e.recorded) = d /\ Position(e) = k
    BY <1>2, <2>2
  <2> QED BY <1>1, <2>2, <2>3
<1> QED  BY <1>2, <1>3

\* An append leaves everything where it was and puts the record behind it.
LEMMA Appends ==
  ASSUME Filed, NEW e \in Event, AppendEvent(e), cursor' = cursor
  PROVE  /\ Filed' /\ Logged' = Logged \cup {e}
         /\ \A f \in Logged : Position(f)' = Position(f)
         /\ \A d \in Days : Len(journal[d]) <= Len(journal'[d])
         /\ e \notin Logged => Position(e)' = Len(journal[Day(e.recorded)]) + 1
<1>1. PICK d \in Days : d = Day(e.recorded)
  BY EventHas
<1>2. PICK s : s = journal[d]
  OBVIOUS
<1>3. s \in Seq(Event) /\ Len(s) \in Nat /\ DOMAIN s = 1 .. Len(s) /\ journal \in [Days -> Seq(Event)]
  BY <1>2 DEF Filed
<1>4. journal' = [journal EXCEPT ![d] = IF e \in ToSet(s) THEN s ELSE Append(s, e)]
  BY <1>1, <1>2 DEF AppendEvent
<1>5. CASE e \in ToSet(s)
  <2>1. journal' = journal
    BY <1>2, <1>3, <1>4, <1>5
  <2>2. e \in Logged
    BY <1>2, <1>5 DEF Logged
  <2>3. Filed'
    BY <2>1 DEF Filed
  <2>4. \A c \in Days : Len(journal[c]) <= Len(journal'[c])
    BY <2>1 DEF Filed
  <2> QED BY <2>1, <2>2, <2>3, <2>4, SameLog
<1>6. CASE e \notin ToSet(s)
  <2>1. PICK t : t = Append(s, e)
    OBVIOUS
  <2>2. /\ t \in Seq(Event) /\ Len(t) = Len(s) + 1 /\ DOMAIN t = 1 .. Len(s) + 1
        /\ \A k \in 1 .. Len(s) : t[k] = s[k]
        /\ t[Len(s) + 1] = e
    BY <1>3, <2>1
  <2>3. /\ journal' \in [Days -> Seq(Event)] /\ journal'[d] = t
        /\ \A c \in Days : c # d => journal'[c] = journal[c]
    BY <1>3, <1>4, <1>6, <2>1, <2>2
  <2>4. \A k \in 1 .. Len(s) : s[k] # e
    BY <1>3, <1>6 DEF ToSet
  <2>5. \A c \in Days : \A k \in DOMAIN journal'[c] : Day(journal'[c][k].recorded) = c
    <3> TAKE c \in Days
    <3>1. CASE c = d
      <4> SUFFICES ASSUME NEW k \in 1 .. Len(s) + 1 PROVE Day(t[k].recorded) = d
        BY <2>2, <2>3, <3>1
      <4>1. CASE k = Len(s) + 1
        BY <1>1, <2>2, <4>1
      <4>2. CASE k # Len(s) + 1
        <5>1. k \in DOMAIN s
          BY <1>3, <4>2
        <5>2. Day(s[k].recorded) = d
          BY <1>2, <5>1 DEF Filed
        <5>3. t[k] = s[k]
          BY <1>3, <2>2, <5>1
        <5> QED BY <5>2, <5>3
      <4> QED BY <4>1, <4>2
    <3>2. CASE c # d
      BY <2>3, <3>2 DEF Filed
    <3> QED BY <3>1, <3>2
  <2>6. \A c \in Days : \A k, l \in DOMAIN journal'[c] : journal'[c][k] = journal'[c][l] => k = l
    <3> TAKE c \in Days
    <3>1. CASE c = d
      <4> SUFFICES ASSUME NEW k \in 1 .. Len(s) + 1, NEW l \in 1 .. Len(s) + 1, t[k] = t[l]
                   PROVE  k = l
        BY <2>2, <2>3, <3>1
      <4>1. CASE k # Len(s) + 1 /\ l # Len(s) + 1
        <5>1. k \in DOMAIN s /\ l \in DOMAIN s
          BY <1>3, <4>1
        <5>2. s[k] = s[l] => k = l
          BY <1>2, <5>1 DEF Filed
        <5>3. t[k] = s[k] /\ t[l] = s[l]
          BY <1>3, <2>2, <5>1
        <5> QED BY <5>2, <5>3
      <4>2. CASE k = Len(s) + 1 \/ l = Len(s) + 1
        <5>1. ASSUME k = Len(s) + 1, l # Len(s) + 1 PROVE FALSE
          <6>1. l \in 1 .. Len(s)
            BY <1>3, <5>1
          <6> QED BY <2>2, <2>4, <5>1, <6>1
        <5>2. ASSUME l = Len(s) + 1, k # Len(s) + 1 PROVE FALSE
          <6>1. k \in 1 .. Len(s)
            BY <1>3, <5>2
          <6> QED BY <2>2, <2>4, <5>2, <6>1
        <5> QED BY <4>2, <5>1, <5>2
      <4> QED BY <4>1, <4>2
    <3>2. CASE c # d
      BY <2>3, <3>2 DEF Filed
    <3> QED BY <3>1, <3>2
  <2>7. \A c \in Days : Len(journal[c]) <= Len(journal'[c]) /\ Len(journal[c]) \in Nat
                        /\ Len(journal'[c]) \in Nat
    <3> TAKE c \in Days
    <3>1. CASE c = d
      BY <1>2, <1>3, <2>2, <2>3, <3>1
    <3>2. CASE c # d
      BY <2>3, <3>2 DEF Filed
    <3> QED BY <3>1, <3>2
  <2>8. Filed'
    <3>1. cursor' \in [Days -> Nat] /\ \A c \in Days : cursor'[c] <= Len(journal'[c])
      <4>1. \A c \in Days : cursor[c] \in Nat /\ cursor[c] <= Len(journal[c])
        BY DEF Filed
      <4>2. \A c \in Days : cursor[c] <= Len(journal'[c])
        BY <2>7, <4>1
      <4> QED BY <4>2 DEF Filed
    <3> QED BY <2>3, <2>5, <2>6, <3>1 DEF Filed
  <2>9. ToSet(t) = ToSet(s) \cup {e}
    <3>1. \A k \in 1 .. Len(s) : k \in 1 .. Len(s) + 1 /\ t[k] = s[k]
      BY <1>3, <2>2
    <3>2. \A k \in 1 .. Len(s) + 1 : k \in 1 .. Len(s) \/ k = Len(s) + 1
      BY <1>3
    <3>3. Len(s) + 1 \in 1 .. Len(s) + 1
      BY <1>3
    <3>4. ASSUME NEW x \in ToSet(s) \cup {e} PROVE x \in ToSet(t)
      BY <1>3, <2>2, <3>1, <3>3 DEF ToSet
    <3>5. ASSUME NEW x \in ToSet(t) PROVE x \in ToSet(s) \cup {e}
      <4>1. PICK k \in 1 .. Len(s) + 1 : x = t[k]
        BY <2>2 DEF ToSet
      <4> QED BY <1>3, <2>2, <3>1, <3>2, <4>1 DEF ToSet
    <3> QED BY <3>4, <3>5
  <2>10. Logged' = Logged \cup {e}
    <3>1. ASSUME NEW f \in Logged PROVE f \in Logged'
      <4>1. PICK c \in Days : f \in ToSet(journal[c])
        BY DEF Logged
      <4>2. f \in ToSet(journal'[c])
        BY <1>2, <2>3, <2>9, <4>1
      <4> QED BY <4>2 DEF Logged
    <3>2. e \in Logged'
      BY <2>3, <2>9 DEF Logged
    <3>3. ASSUME NEW f \in Logged' PROVE f \in Logged \cup {e}
      <4>1. PICK c \in Days : f \in ToSet(journal'[c])
        BY DEF Logged
      <4>2. f = e \/ f \in ToSet(journal[c])
        BY <1>2, <2>3, <2>9, <4>1
      <4> QED BY <4>2 DEF Logged
    <3> QED BY <3>1, <3>2, <3>3
  <2>11. ASSUME NEW f, NEW c \in Days, c = Day(f.recorded), NEW k \in 1 .. Len(journal'[c]),
                journal'[c][k] = f
         PROVE  Position(f)' = k
    <3>1. DOMAIN journal'[c] = 1 .. Len(journal'[c])
      BY <2>3
    <3>2. \A l \in DOMAIN journal'[c] : journal'[c][l] = f => l = k
      BY <2>6, <2>11, <3>1
    <3>3. Position(f)' = CHOOSE l \in DOMAIN journal'[c] : journal'[c][l] = f
      BY <2>11 DEF Position
    <3> QED BY <2>11, <3>1, <3>2, <3>3
  <2>12. ASSUME NEW f \in Logged PROVE Position(f)' = Position(f)
    <3>1. PICK c \in Days : c = Day(f.recorded)
      BY LoggedHas
    <3>2. PICK k \in 1 .. Len(journal[c]) : k = Position(f) /\ journal[c][k] = f
      BY <3>1, LoggedHas
    <3>3. k \in 1 .. Len(journal'[c]) /\ journal'[c][k] = f
      <4>1. CASE c = d
        BY <1>2, <1>3, <2>2, <2>3, <3>2, <4>1
      <4>2. CASE c # d
        BY <2>3, <3>2, <4>2
      <4> QED BY <4>1, <4>2
    <3> QED BY <2>11, <3>1, <3>2, <3>3
  <2>13. Position(e)' = Len(journal[Day(e.recorded)]) + 1
    BY <1>1, <1>2, <1>3, <2>2, <2>3, <2>11
  <2> QED BY <2>7, <2>8, <2>10, <2>12, <2>13
<1> QED  BY <1>5, <1>6

-----------------------------------------------------------------------------
(* What a record changes                                                     *)

LEMMA HasGrows ==
  ASSUME NEW e, Logged' = Logged \cup {e}
  PROVE  /\ \A i, a : Has(i, a)' <=> Has(i, a) \/ (e.image = i /\ e.action = a)
         /\ \A i : HasTerminal(i)' <=> HasTerminal(i) \/ (e.image = i /\ e.action \in Terminals)
<1>1. \A i, a : Has(i, a)' <=> Has(i, a) \/ (e.image = i /\ e.action = a)
  BY DEF Has
<1>2. \A i : HasTerminal(i)' <=> HasTerminal(i) \/ (e.image = i /\ e.action \in Terminals)
  BY <1>1 DEF HasTerminal
<1> QED  BY <1>1, <1>2

LEMMA HasSame ==
  ASSUME Logged' = Logged
  PROVE  /\ \A i, a : Has(i, a)' <=> Has(i, a)
         /\ \A i : HasTerminal(i)' <=> HasTerminal(i)
<1>1. \A i, a : Has(i, a)' <=> Has(i, a)
  BY DEF Has
<1> QED  BY <1>1 DEF HasTerminal

\* The records that an operation may make.
Admissible(e) ==
  /\ e.action = "Observed" => ~ Has(e.image, "Observed")
  /\ e.action # "Observed" => Has(e.image, "Observed")
  /\ e.action \in {"Missing", "DeleteRequested", "DeleteCompleted"}
       => Has(e.image, "WriteCompleted")
  /\ e.action = "DeleteRequested" => e.image \in confirmed /\ Expired(e.image, e.recorded)

LEMMA BegunGrows ==
  ASSUME Begun, Requested, UNCHANGED confirmed, NEW e, Logged' = Logged \cup {e}, Admissible(e)
  PROVE  Begun' /\ Requested'
<1>1. /\ \A i, a : Has(i, a) => Has(i, a)'
      /\ \A i, a : e.image = i /\ e.action = a => Has(i, a)'
  BY HasGrows
<1>2. \A f \in Logged' : Has(f.image, "Observed")'
  BY <1>1 DEF Begun, Admissible
<1>3. ASSUME NEW f \in Logged', NEW g \in Logged', f.action = "Observed", g.action = "Observed",
             f.image = g.image
      PROVE  f = g
  <2>1. CASE f \in Logged /\ g \in Logged
    BY <1>3, <2>1 DEF Begun
  <2>2. ASSUME NEW h \in Logged, h.action = "Observed", h.image = e.image, e.action = "Observed"
        PROVE  FALSE
    BY <2>2 DEF Admissible, Has
  <2> QED BY <1>3, <2>1, <2>2
<1>4. \A f \in Logged' : f.action \in {"Missing", "DeleteRequested", "DeleteCompleted"}
                           => Has(f.image, "WriteCompleted")'
  BY <1>1 DEF Begun, Admissible
<1>5. Begun'
  BY <1>2, <1>3, <1>4 DEF Begun
<1>6. ASSUME NEW i, NEW t, Expired(i, t), Has(i, "Observed") PROVE Expired(i, t)'
  <2>1. e.action = "Observed" => e.image # i
    BY <1>6 DEF Admissible
  <2> QED BY <1>6, <2>1 DEF Expired
<1>7. ASSUME NEW f \in Logged', f.action = "DeleteRequested"
      PROVE  f.image \in confirmed /\ Expired(f.image, f.recorded)'
  <2>1. f.image \in confirmed /\ Expired(f.image, f.recorded) /\ Has(f.image, "Observed")
    BY <1>7 DEF Begun, Requested, Admissible
  <2> QED BY <1>6, <2>1
<1>8. Requested'
  BY <1>7 DEF Requested
<1> QED  BY <1>5, <1>8

LEMMA BegunStays ==
  ASSUME Begun, Requested, confirmed \subseteq confirmed', Logged' = Logged
  PROVE  Begun' /\ Requested'
BY HasSame DEF Begun, Requested, Expired

\* What the files and the records say of an image that is not under way.
Stands(i) ==
  /\ ~ Has(i, "Observed") => file[i] # "final" /\ settled[i] # "final"
  /\ file[i] # "final" /\ settled[i] = "final" => Has(i, "DeleteRequested")
  /\ file[i] = "final" /\ settled[i] # "final" => ~ HasTerminal(i)
  /\ i \notin lost /\ Has(i, "WriteCompleted") /\ ~ Has(i, "DeleteRequested")
       => file[i] = "final" /\ settled[i] = "final"
  /\ Has(i, "DeleteCompleted") \/ Has(i, "WriteFailed")
       => file[i] # "final" /\ settled[i] # "final"

LEMMA AllStand ==
  /\ Settled /\ FilesAgree <=> \A i \in Images : Stands(i)
  /\ Settled' /\ FilesAgree' <=> \A i \in Images : Stands(i)'
BY DEF Settled, FilesAgree, RetainedIsStored, DeletedIsGone, Stands

\* Whatever a step leaves of another image's files, or a power loss of an image's.
Left(i) ==
  \/ file'[i] = file[i] /\ settled'[i] \in {settled[i], file[i]}
  \/ file'[i] = settled[i] /\ settled'[i] = settled[i]

LEMMA StillStands ==
  ASSUME Begun, NEW i, Stands(i), Left(i), lost \subseteq lost',
         \A a : Has(i, a)' <=> Has(i, a)
  PROVE  Stands(i)'
<1>1. HasTerminal(i)' <=> HasTerminal(i)
  BY DEF HasTerminal
<1>2. Has(i, "DeleteRequested") => Has(i, "Observed")
  BY DEF Begun, Has
<1>3. CASE file'[i] = file[i] /\ settled'[i] = settled[i]
  BY <1>1, <1>3 DEF Stands
<1>4. CASE file'[i] = file[i] /\ settled'[i] = file[i]
  BY <1>1, <1>2, <1>4 DEF Stands
<1>5. CASE file'[i] = settled[i] /\ settled'[i] = settled[i]
  BY <1>1, <1>2, <1>5 DEF Stands
<1> QED  BY <1>3, <1>4, <1>5 DEF Left

\* A step that is about the files of one image.
LEMMA OthersStand ==
  ASSUME ScreenshotsInv, NEW i \in Images,
         \A j \in Images : j # i => Left(j),
         \A j \in Images : j # i => \A a : Has(j, a)' <=> Has(j, a),
         lost \subseteq lost', Stands(i)'
  PROVE  Settled' /\ FilesAgree'
<1>1. ASSUME NEW j \in Images, j # i PROVE Stands(j)'
  BY <1>1, StillStands, AllStand DEF ScreenshotsInv
<1> QED  BY <1>1, AllStand

LEMMA FilesStay ==
  ASSUME ScreenshotsInv, Logged' = Logged, lost \subseteq lost', \A j \in Images : Left(j)
  PROVE  Settled' /\ FilesAgree'
<1>1. ASSUME NEW j \in Images PROVE Stands(j)'
  BY <1>1, StillStands, AllStand, HasSame DEF ScreenshotsInv
<1> QED  BY <1>1, AllStand

LEMMA MovedSynced ==
  ASSUME ScreenshotsInv, NEW i \in Images, NEW place \in Places, MoveSynced(i, place)
  PROVE  /\ Places2' /\ file'[i] = place /\ settled'[i] = place
         /\ \A j \in Images : j # i => Left(j)
<1>1. file' = [file EXCEPT ![i] = place] /\ Places2
  BY DEF MoveSynced, ScreenshotsInv, Typed
<1>2. settled' = [j \in Images |-> IF j = i THEN place
                                   ELSE IF j \in Neighbours(i) THEN file[j] ELSE settled[j]]
  BY DEF MoveSynced
<1>3. file' \in [Images -> Places] /\ file'[i] = place /\ \A j \in Images : j # i => file'[j] = file[j]
  BY <1>1 DEF Places2
<1>4. settled'[i] = place /\ \A j \in Images : j # i => settled'[j] \in {settled[j], file[j]}
  BY <1>2
<1>5. settled' \in [Images -> Places]
  BY <1>1, <1>2 DEF Places2
<1> QED  BY <1>3, <1>4, <1>5 DEF Places2, Left

LEMMA Moved ==
  ASSUME ScreenshotsInv, NEW i \in Images, NEW place \in Places, Move(i, place)
  PROVE  /\ Places2' /\ file'[i] = place /\ settled'[i] = settled[i]
         /\ \A j \in Images : j # i => Left(j)
<1>1. file' = [file EXCEPT ![i] = place] /\ settled' = settled /\ Places2
  BY DEF Move, ScreenshotsInv, Typed
<1> QED  BY <1>1 DEF Places2, Left

LEMMA DirectorySynced ==
  ASSUME ScreenshotsInv, NEW i \in Images, SyncDirectory(i)
  PROVE  /\ Places2' /\ file' = file /\ settled'[i] = file[i] /\ \A j \in Images : Left(j)
<1>1. file' = file /\ Places2
  BY DEF SyncDirectory, ScreenshotsInv, Typed
<1>2. settled' = [j \in Images |-> IF j \in Neighbours(i) THEN file[j] ELSE settled[j]]
  BY DEF SyncDirectory
<1>3. i \in Neighbours(i)
  BY DEF Neighbours
<1>4. settled'[i] = file[i] /\ \A j \in Images : settled'[j] \in {settled[j], file[j]}
  BY <1>2, <1>3
<1>5. settled' \in [Images -> Places]
  BY <1>1, <1>2 DEF Places2
<1> QED  BY <1>1, <1>4, <1>5 DEF Places2, Left

-----------------------------------------------------------------------------
(* Steps of an operation                                                     *)

LEMMA FiledStays == Filed /\ UNCHANGED <<journal, cursor>> => Filed'
BY DEF Filed

LEMMA NothingHas ==
  ASSUME Begun, NEW i, ~ Has(i, "Observed")
  PROVE  ~ HasTerminal(i) /\ \A a : ~ Has(i, a)
<1>1. \A a : ~ Has(i, a)
  BY DEF Begun, Has
<1> QED  BY <1>1 DEF HasTerminal

LEMMA NewEventHas ==
  ASSUME NEW a \in Actions, NEW i \in Images, NEW t \in Instants, NEW r \in Instants \cup {0},
         NEW e, e = NewEvent(a, i, t, r)
  PROVE  /\ e \in Event /\ e.action = a /\ e.image = i /\ e.recorded = t /\ e.requested = r
BY DEF NewEvent, Event

LEMMA EventsHave ==
  ASSUME ScreenshotsInv, step \notin {"ready", "recover"}
  PROVE  /\ image \in Images /\ at \in Instants
         /\ Observation(image) \in Event /\ Observation(image).action = "Observed"
         /\ Observation(image).image = image
         /\ WriteCompletion(image) \in Event /\ WriteCompletion(image).action = "WriteCompleted"
         /\ WriteCompletion(image).image = image
         /\ Request(image) \in Event /\ Request(image).action = "DeleteRequested"
         /\ Request(image).image = image /\ Request(image).recorded = at
         /\ Request(image).requested = at
         /\ DeleteCompletion(image) \in Event
         /\ DeleteCompletion(image).action = "DeleteCompleted"
         /\ DeleteCompletion(image).image = image /\ DeleteCompletion(image).requested = at
         /\ Observation(image).recorded = at /\ WriteCompletion(image).recorded = at
         /\ DeleteCompletion(image).recorded = at
<1>1. image \in Images /\ at \in Instants
  BY DEF ScreenshotsInv, Operating
<1>2. {"Observed", "WriteCompleted", "DeleteRequested", "DeleteCompleted"} \subseteq Actions
  BY DEF Actions, Terminals, WriteOutcomes
<1> QED  BY <1>1, <1>2, NewEventHas DEF Observation, WriteCompletion, Request, DeleteCompletion

LEMMA EventsStay ==
  ASSUME UNCHANGED <<image, at>>
  PROVE  /\ Observation(image)' = Observation(image)
         /\ WriteCompletion(image)' = WriteCompletion(image)
         /\ Request(image)' = Request(image)
         /\ DeleteCompletion(image)' = DeleteCompletion(image)
BY DEF Observation, WriteCompletion, Request, DeleteCompletion, NewEvent

LEMMA DoneHas ==
  ASSUME Done
  PROVE  /\ Operating' /\ Writing' /\ Deleting'
         /\ step' \in Steps /\ image' \in Images \cup {NoImage} /\ batch' \in Seq(Images)
         /\ at' \in Instants \cup {0}
<1>1. step' = "ready" /\ image' = NoImage /\ at' = 0 /\ batch' = <<>>
  BY DEF Done
<1>2. Operating' /\ Writing' /\ Deleting'
  BY <1>1 DEF Operating, Writing, Deleting, WriteSteps, ProjectSteps, DeleteSteps, AskedSteps
<1> QED  BY <1>1, <1>2 DEF Steps

LEMMA FaultHas ==
  ASSUME Fault, Typed
  PROVE  faults' \in 0 .. MaxFaults
BY ScreenshotsAssumption DEF Fault, Typed

\* A record of an operation.
LEMMA Recording ==
  ASSUME ScreenshotsInv, NEW e \in Event, AppendEvent(e), UNCHANGED <<cursor, confirmed>>,
         Admissible(e)
  PROVE  /\ Filed' /\ Begun' /\ Requested' /\ Logged' = Logged \cup {e}
         /\ \A j : j # e.image => \A a : Has(j, a)' <=> Has(j, a)
         /\ \A j, a : Has(j, a)' <=> Has(j, a) \/ (e.image = j /\ e.action = a)
<1>1. Filed' /\ Logged' = Logged \cup {e}
  BY Appends DEF ScreenshotsInv
<1>2. Begun' /\ Requested'
  BY <1>1, BegunGrows DEF ScreenshotsInv
<1>3. \A j, a : Has(j, a)' <=> Has(j, a) \/ (e.image = j /\ e.action = a)
  BY <1>1, HasGrows
<1> QED  BY <1>1, <1>2, <1>3

LEMMA DoomStays ==
  ASSUME UNCHANGED <<confirmed, at>>, NEW e, e.action # "Observed",
         Logged' = Logged \cup {e} \/ Logged' = Logged, NEW i, Doomed(i)
  PROVE  Doomed(i)'
<1>1. Has(i, "WriteCompleted")'
  BY HasGrows, HasSame DEF Doomed
<1>2. Expired(i, at)'
  BY DEF Doomed, Expired
<1> QED  BY <1>1, <1>2 DEF Doomed

-----------------------------------------------------------------------------
(* Writing an image                                                          *)

LEMMA ProvisionKeeps ==
  ASSUME ScreenshotsInv, NEW i \in Images, Provision(i)
  PROVE  ScreenshotsInv'
<1>1. /\ UNCHANGED <<now, journal, rows, cursor, open, batch, preview, confirmed, lost, faults>>
      /\ ~ Has(i, "Observed") /\ MoveSynced(i, "provisional")
      /\ step' = "observe" /\ image' = i /\ at' = now
  BY DEF Provision, index, ghost
<1>2. Logged' = Logged /\ Filed' /\ Begun' /\ Requested'
  BY <1>1, SameLog, FiledStays, BegunStays DEF ScreenshotsInv
<1>3. /\ Places2' /\ file'[i] = "provisional" /\ settled'[i] = "provisional"
      /\ \A j \in Images : j # i => Left(j)
  BY <1>1, MovedSynced DEF Places
<1>4. Settled' /\ FilesAgree'
  <2>1. Stands(i)'
    BY <1>1, <1>2, <1>3, HasSame, NothingHas DEF ScreenshotsInv, Stands
  <2> QED BY <1>1, <1>2, <1>3, <2>1, HasSame, OthersStand
<1>5. Typed' /\ Operating'
  BY <1>1, <1>3 DEF ScreenshotsInv, Typed, Operating, Steps, Instants
<1>6. Writing'
  BY <1>1, <1>2, HasSame DEF Writing, WriteSteps, ProjectSteps
<1>7. Deleting'
  BY <1>1 DEF Deleting, DeleteSteps, AskedSteps
<1> QED  BY <1>2, <1>4, <1>5, <1>6, <1>7 DEF ScreenshotsInv

LEMMA ObserveKeeps == ScreenshotsInv /\ Observe => ScreenshotsInv'
<1> SUFFICES ASSUME ScreenshotsInv, Observe PROVE ScreenshotsInv'
  OBVIOUS
<1>1. /\ UNCHANGED <<now, file, settled, rows, cursor, open, image, at, batch, preview,
                     confirmed, lost, faults>>
      /\ step = "observe" /\ step' = "promote" /\ AppendEvent(Observation(image))
  BY DEF Observe, Go, disk, index, ghost
<1>2. PICK e \in Event :
        /\ e = Observation(image) /\ e.action = "Observed" /\ e.image = image
        /\ image \in Images /\ at \in Instants
  BY <1>1, EventsHave
<1>3. ~ Has(image, "Observed")
  BY <1>1 DEF ScreenshotsInv, Writing
<1>4. /\ Filed' /\ Begun' /\ Requested' /\ Logged' = Logged \cup {e}
      /\ \A j : j # e.image => \A a : Has(j, a)' <=> Has(j, a)
      /\ \A j, a : Has(j, a)' <=> Has(j, a) \/ (e.image = j /\ e.action = a)
  <2>1. Admissible(e)
    BY <1>2, <1>3 DEF Admissible
  <2> QED BY <1>1, <1>2, <2>1, Recording
<1>5. Settled' /\ FilesAgree'
  <2>1. PICK i \in Images : i = image
    BY <1>2
  <2>2. Stands(i)'
    <3>1. Stands(i) /\ \A a : ~ Has(i, a)
      BY <1>3, <2>1, AllStand, NothingHas DEF ScreenshotsInv
    <3>2. ~ HasTerminal(i)'
      BY <1>2, <1>4, <3>1 DEF HasTerminal, Terminals, WriteOutcomes
    <3> QED BY <1>1, <1>2, <1>4, <2>1, <3>1, <3>2 DEF Stands
  <2>3. \A j \in Images : j # i => Left(j)
    BY <1>1 DEF Left
  <2> QED BY <1>1, <1>2, <1>4, <2>1, <2>2, <2>3, OthersStand
<1>6. Typed' /\ Operating'
  BY <1>1, <1>2 DEF ScreenshotsInv, Typed, Operating, Steps, Places2
<1>7. Writing'
  <2>1. Observation(image)' = e /\ e \in Logged'
    BY <1>1, <1>2, <1>4, EventsStay
  <2>2. ASSUME NEW f \in Logged', f.image = image PROVE f.action = "Observed"
    BY <1>2, <1>3, <1>4, <2>2, NothingHas DEF ScreenshotsInv, Has
  <2> QED BY <1>1, <2>1, <2>2 DEF Writing, WriteSteps, ProjectSteps, Of
<1>8. Deleting'
  BY <1>1 DEF Deleting, DeleteSteps, AskedSteps
<1> QED  BY <1>4, <1>5, <1>6, <1>7, <1>8 DEF ScreenshotsInv

LEMMA ObserveFailsKeeps == ScreenshotsInv /\ ObserveFails => ScreenshotsInv'
<1> SUFFICES ASSUME ScreenshotsInv, ObserveFails PROVE ScreenshotsInv'
  OBVIOUS
<1>1. /\ UNCHANGED <<now, rows, cursor, open, preview, confirmed, lost>>
      /\ step = "observe" /\ Fault /\ Done /\ MoveSynced(image, "none")
      /\ AppendEvent(Observation(image)) \/ UNCHANGED journal
  BY DEF ObserveFails, AppendFails, Finish, index, ghost
<1>2. PICK e \in Event :
        /\ e = Observation(image) /\ e.action = "Observed" /\ e.image = image
        /\ image \in Images /\ at \in Instants
  BY <1>1, EventsHave
<1>3. ~ Has(image, "Observed")
  BY <1>1 DEF ScreenshotsInv, Writing
<1>4. /\ Filed' /\ Begun' /\ Requested'
      /\ \A j : j # e.image => \A a : Has(j, a)' <=> Has(j, a)
      /\ \A j, a : Has(j, a)' => Has(j, a) \/ (e.image = j /\ e.action = a)
  <2>1. CASE AppendEvent(Observation(image))
    <3>1. Admissible(e)
      BY <1>2, <1>3 DEF Admissible
    <3> QED BY <1>1, <1>2, <2>1, <3>1, Recording
  <2>2. CASE UNCHANGED journal
    BY <1>1, <2>2, SameLog, HasSame, FiledStays, BegunStays DEF ScreenshotsInv
  <2> QED BY <1>1, <2>1, <2>2
<1>5. PICK i \in Images : i = image
  BY <1>2
<1>6. /\ Places2' /\ file'[i] = "none" /\ settled'[i] = "none"
      /\ \A j \in Images : j # i => Left(j)
  BY <1>1, <1>5, MovedSynced DEF Places
<1>7. Settled' /\ FilesAgree'
  <2>1. Stands(i)'
    <3>1. \A a : ~ Has(i, a)
      BY <1>3, <1>5, NothingHas DEF ScreenshotsInv
    <3> QED BY <1>2, <1>4, <1>5, <1>6, <3>1 DEF Stands
  <2> QED BY <1>1, <1>2, <1>4, <1>5, <1>6, <2>1, OthersStand
<1>8. Typed'
  BY <1>1, <1>6, DoneHas, FaultHas DEF ScreenshotsInv, Typed
<1> QED  BY <1>1, <1>4, <1>7, <1>8, DoneHas DEF ScreenshotsInv

LEMMA PromoteKeeps == ScreenshotsInv /\ Promote => ScreenshotsInv'
<1> SUFFICES ASSUME ScreenshotsInv, Promote PROVE ScreenshotsInv'
  OBVIOUS
<1>1. /\ UNCHANGED <<now, journal, rows, cursor, open, image, at, batch, preview, confirmed, lost,
                     faults>>
      /\ step = "promote" /\ step' = "settle" /\ Move(image, "final")
  BY DEF Promote, Go, index, ghost
<1>2. PICK i \in Images : i = image
  BY <1>1, EventsHave
<1>3. at \in Instants
  BY <1>1, EventsHave
<1>4. Logged' = Logged /\ Filed' /\ Begun' /\ Requested'
  BY <1>1, SameLog, FiledStays, BegunStays DEF ScreenshotsInv
<1>5. Observation(image) \in Logged /\ \A e \in Of(i) : e.action = "Observed"
  BY <1>1, <1>2 DEF ScreenshotsInv, Writing, WriteSteps
<1>6. /\ Places2' /\ file'[i] = "final" /\ settled'[i] = settled[i]
      /\ \A j \in Images : j # i => Left(j)
  BY <1>1, <1>2, Moved DEF Places
<1>7. Settled' /\ FilesAgree'
  <2>1. \A a : Has(i, a) => a = "Observed"
    BY <1>5 DEF Has, Of
  <2>2. Has(i, "Observed")
    BY <1>1, <1>2, <1>5, EventsHave DEF Has
  <2>3. Stands(i)'
    BY <1>4, <1>6, <2>1, <2>2, HasSame DEF Stands, HasTerminal, Terminals, WriteOutcomes
  <2> QED BY <1>1, <1>4, <1>6, <2>3, HasSame, OthersStand
<1>8. Typed' /\ Operating'
  BY <1>1, <1>2, <1>3, <1>6 DEF ScreenshotsInv, Typed, Operating, Steps
<1>9. Writing'
  BY <1>1, <1>2, <1>4, <1>5, <1>6, EventsStay DEF Writing, WriteSteps, ProjectSteps, Of
<1>10. Deleting'
  BY <1>1 DEF Deleting, DeleteSteps, AskedSteps
<1> QED  BY <1>4, <1>7, <1>8, <1>9, <1>10 DEF ScreenshotsInv

LEMMA SettleKeeps == ScreenshotsInv /\ Settle => ScreenshotsInv'
<1> SUFFICES ASSUME ScreenshotsInv, Settle PROVE ScreenshotsInv'
  OBVIOUS
<1>1. /\ UNCHANGED <<now, journal, rows, cursor, open, image, at, batch, preview, confirmed, lost,
                     faults>>
      /\ step = "settle" /\ step' = "complete" /\ SyncDirectory(image)
  BY DEF Settle, Go, index, ghost
<1>2. image \in Images /\ at \in Instants
  BY <1>1, EventsHave
<1>3. Logged' = Logged /\ Filed' /\ Begun' /\ Requested'
  BY <1>1, SameLog, FiledStays, BegunStays DEF ScreenshotsInv
<1>4. /\ Observation(image) \in Logged /\ \A e \in Of(image) : e.action = "Observed"
      /\ file[image] = "final"
  BY <1>1 DEF ScreenshotsInv, Writing, WriteSteps
<1>5. Places2' /\ file' = file /\ settled'[image] = file[image] /\ \A j \in Images : Left(j)
  BY <1>1, <1>2, DirectorySynced
<1>6. Settled' /\ FilesAgree'
  BY <1>1, <1>3, <1>5, FilesStay
<1>7. Typed' /\ Operating'
  BY <1>1, <1>2, <1>5 DEF ScreenshotsInv, Typed, Operating, Steps
<1>8. Writing'
  BY <1>1, <1>3, <1>4, <1>5, EventsStay DEF Writing, WriteSteps, ProjectSteps, Of
<1>9. Deleting'
  BY <1>1 DEF Deleting, DeleteSteps, AskedSteps
<1> QED  BY <1>3, <1>6, <1>7, <1>8, <1>9 DEF ScreenshotsInv

\* The completion of the write, whether the call goes on or fails behind it.
LEMMA Completing ==
  ASSUME ScreenshotsInv, step = "complete", AppendEvent(WriteCompletion(image)),
         UNCHANGED <<file, settled, cursor, confirmed, lost>>
  PROVE  /\ Filed' /\ Begun' /\ Requested' /\ Settled' /\ FilesAgree'
         /\ Logged' = Logged \cup {WriteCompletion(image)}
<1>1. PICK e \in Event :
        /\ e = WriteCompletion(image) /\ e.action = "WriteCompleted" /\ e.image = image
        /\ image \in Images /\ at \in Instants
  BY EventsHave
<1>2. PICK i \in Images : i = image
  BY <1>1
<1>3. /\ Observation(image) \in Logged /\ \A f \in Of(i) : f.action = "Observed"
      /\ file[i] = "final" /\ settled[i] = "final"
  BY <1>2 DEF ScreenshotsInv, Writing, WriteSteps
<1>4. Has(i, "Observed")
  BY <1>2, <1>3, EventsHave DEF Has
<1>5. /\ Filed' /\ Begun' /\ Requested' /\ Logged' = Logged \cup {e}
      /\ \A j : j # e.image => \A a : Has(j, a)' <=> Has(j, a)
      /\ \A j, a : Has(j, a)' <=> Has(j, a) \/ (e.image = j /\ e.action = a)
  <2>1. Admissible(e)
    BY <1>1, <1>2, <1>4 DEF Admissible
  <2> QED BY <1>1, <2>1, Recording
<1>6. Settled' /\ FilesAgree'
  <2>1. \A a : Has(i, a) => a = "Observed"
    BY <1>3 DEF Has, Of
  <2>2. Stands(i)'
    <3>1. ~ Has(i, "DeleteRequested") /\ ~ Has(i, "DeleteCompleted") /\ ~ Has(i, "WriteFailed")
      BY <2>1
    <3>2. /\ ~ Has(i, "DeleteRequested")' /\ ~ Has(i, "DeleteCompleted")'
          /\ ~ Has(i, "WriteFailed")' /\ Has(i, "Observed")'
      BY <1>1, <1>2, <1>4, <1>5, <3>1
    <3>3. file'[i] = "final" /\ settled'[i] = "final"
      BY <1>3
    <3> QED BY <3>2, <3>3 DEF Stands
  <2>3. \A j \in Images : j # i => Left(j)
    BY DEF Left
  <2> QED BY <1>1, <1>2, <1>5, <2>2, <2>3, OthersStand
<1> QED  BY <1>1, <1>5, <1>6

LEMMA CompleteWriteKeeps == ScreenshotsInv /\ CompleteWrite => ScreenshotsInv'
<1> SUFFICES ASSUME ScreenshotsInv, CompleteWrite PROVE ScreenshotsInv'
  OBVIOUS
<1>1. /\ UNCHANGED <<now, file, settled, rows, cursor, open, image, at, batch, preview, confirmed,
                     lost, faults>>
      /\ step = "complete" /\ step' = "projectWrite" /\ AppendEvent(WriteCompletion(image))
  BY DEF CompleteWrite, Go, disk, index, ghost
<1>2. image \in Images /\ at \in Instants
  BY <1>1, EventsHave
<1>3. /\ Filed' /\ Begun' /\ Requested' /\ Settled' /\ FilesAgree'
      /\ Logged' = Logged \cup {WriteCompletion(image)}
  BY <1>1, Completing
<1>4. Observation(image) \in Logged
  BY <1>1 DEF ScreenshotsInv, Writing, WriteSteps
<1>5. Typed' /\ Operating'
  BY <1>1, <1>2 DEF ScreenshotsInv, Typed, Operating, Steps, Places2
<1>6. Writing'
  BY <1>1, <1>3, <1>4, EventsStay DEF Writing, WriteSteps, ProjectSteps
<1>7. Deleting'
  BY <1>1 DEF Deleting, DeleteSteps, AskedSteps
<1> QED  BY <1>3, <1>5, <1>6, <1>7 DEF ScreenshotsInv

LEMMA CompleteWriteFailsKeeps == ScreenshotsInv /\ CompleteWriteFails => ScreenshotsInv'
<1> SUFFICES ASSUME ScreenshotsInv, CompleteWriteFails PROVE ScreenshotsInv'
  OBVIOUS
<1>1. /\ UNCHANGED <<now, file, settled, rows, cursor, open, preview, confirmed, lost>>
      /\ step = "complete" /\ Fault /\ Done
      /\ AppendEvent(WriteCompletion(image)) \/ UNCHANGED journal
  BY DEF CompleteWriteFails, AppendFails, Finish, disk, index, ghost
<1>2. Filed' /\ Begun' /\ Requested' /\ Settled' /\ FilesAgree'
  <2>1. CASE AppendEvent(WriteCompletion(image))
    BY <1>1, <2>1, Completing
  <2>2. CASE UNCHANGED journal
    <3>1. Logged' = Logged /\ Filed' /\ Begun' /\ Requested'
      BY <1>1, <2>2, SameLog, FiledStays, BegunStays DEF ScreenshotsInv
    <3>2. \A j \in Images : Left(j)
      BY <1>1 DEF Left
    <3> QED BY <1>1, <3>1, <3>2, FilesStay
  <2> QED BY <1>1, <2>1, <2>2
<1>3. Typed'
  BY <1>1, DoneHas, FaultHas DEF ScreenshotsInv, Typed, Places2
<1> QED  BY <1>1, <1>2, <1>3, DoneHas DEF ScreenshotsInv

\* The projector takes a record that is in the journal.
LEMMA Projecting ==
  ASSUME ScreenshotsInv, NEW e \in Logged, Projects(e), Project(e), UNCHANGED journal
  PROVE  Filed' /\ rows' \in [Images -> States]
<1>1. PICK d \in Days : d = Day(e.recorded)
  BY LoggedHas DEF ScreenshotsInv
<1>2. PICK k \in 1 .. Len(journal[d]) : k = Position(e)
  BY <1>1, LoggedHas DEF ScreenshotsInv
<1>3. cursor \in [Days -> Nat] /\ rows \in [Images -> States]
      /\ \A c \in Days : cursor[c] <= Len(journal[c])
  BY DEF ScreenshotsInv, Filed, Typed
<1>4. CASE ~ Behind(e)
  <2>1. rows' = rows /\ cursor' = cursor
    BY <1>4 DEF Project, index
  <2> QED BY <1>3, <2>1, FiledStays DEF ScreenshotsInv
<1>5. CASE Behind(e)
  <2>1. rows' = Projected(rows, e) /\ cursor' = [cursor EXCEPT ![d] = @ + 1] /\ cursor[d] + 1 = k
    BY <1>1, <1>2, <1>5 DEF Project, Projects
  <2>2. e \in Event /\ e.image \in Images /\ e.action \in Actions
    BY LoggedHas, EventHas DEF ScreenshotsInv
  <2>3. StateAfter(e.action) \in States
    BY <2>2 DEF StateAfter, States, Actions, Terminals, WriteOutcomes
  <2>4. rows' \in [Images -> States]
    BY <1>3, <2>1, <2>2, <2>3 DEF Projected
  <2>5. /\ cursor' \in [Days -> Nat] /\ cursor'[d] = k
        /\ \A c \in Days : c # d => cursor'[c] = cursor[c]
    BY <1>3, <2>1
  <2>6. \A c \in Days : cursor'[c] <= Len(journal[c])
    <3>1. \A c \in Days : Len(journal[c]) \in Nat
      BY DEF ScreenshotsInv, Filed
    <3> QED BY <1>2, <1>3, <2>5, <3>1
  <2> QED BY <2>4, <2>5, <2>6 DEF ScreenshotsInv, Filed
<1> QED  BY <1>4, <1>5

LEMMA ProjectWriteKeeps == ScreenshotsInv /\ ProjectWrite => ScreenshotsInv'
<1> SUFFICES ASSUME ScreenshotsInv, ProjectWrite PROVE ScreenshotsInv'
  OBVIOUS
<1>1. /\ UNCHANGED <<now, journal, file, settled, open, image, at, batch, preview, confirmed, lost,
                     faults>>
      /\ step = "projectWrite" /\ step' = "projectCompletion"
      /\ Projects(Observation(image)) /\ Project(Observation(image))
  BY DEF ProjectWrite, Go, disk, ghost
<1>2. image \in Images /\ at \in Instants
  BY <1>1, EventsHave
<1>3. Observation(image) \in Logged /\ WriteCompletion(image) \in Logged
  BY <1>1 DEF ScreenshotsInv, Writing, ProjectSteps
<1>4. Filed' /\ rows' \in [Images -> States]
  BY <1>1, <1>3, Projecting
<1>5. Logged' = Logged /\ Begun' /\ Requested'
  BY <1>1, SameLog, BegunStays DEF ScreenshotsInv
<1>6. Settled' /\ FilesAgree'
  BY <1>1, <1>5, FilesStay DEF Left
<1>7. Typed' /\ Operating'
  BY <1>1, <1>2, <1>4 DEF ScreenshotsInv, Typed, Operating, Steps, Places2
<1>8. Writing'
  BY <1>1, <1>3, <1>5, EventsStay DEF Writing, WriteSteps, ProjectSteps
<1>9. Deleting'
  BY <1>1 DEF Deleting, DeleteSteps, AskedSteps
<1> QED  BY <1>4, <1>5, <1>6, <1>7, <1>8, <1>9 DEF ScreenshotsInv

LEMMA ProjectWriteCompletionKeeps ==
  ScreenshotsInv /\ ProjectWriteCompletion => ScreenshotsInv'
<1> SUFFICES ASSUME ScreenshotsInv, ProjectWriteCompletion PROVE ScreenshotsInv'
  OBVIOUS
<1>1. /\ UNCHANGED <<now, journal, file, settled, open, preview, confirmed, lost, faults>>
      /\ step = "projectCompletion" /\ Done
      /\ Projects(WriteCompletion(image)) /\ Project(WriteCompletion(image))
  BY DEF ProjectWriteCompletion, Finish, disk, ghost
<1>2. WriteCompletion(image) \in Logged
  BY <1>1 DEF ScreenshotsInv, Writing, ProjectSteps
<1>3. Filed' /\ rows' \in [Images -> States]
  BY <1>1, <1>2, Projecting
<1>4. Logged' = Logged /\ Begun' /\ Requested'
  BY <1>1, SameLog, BegunStays DEF ScreenshotsInv
<1>5. Settled' /\ FilesAgree'
  BY <1>1, <1>4, FilesStay DEF Left
<1>6. Typed'
  BY <1>1, <1>3, DoneHas DEF ScreenshotsInv, Typed, Places2
<1> QED  BY <1>1, <1>3, <1>4, <1>5, <1>6, DoneHas DEF ScreenshotsInv

-----------------------------------------------------------------------------
(* The latest of some records                                                *)

LEMMA GreatestIndex ==
  ASSUME NEW k \in Nat, NEW I \in SUBSET (1 .. k), I # {}
  PROVE  \E m \in I : \A j \in I : j <= m
<1> DEFINE R == StrictSubsetOrdering(1 .. k)
           U == {x .. k : x \in I}
<1>1. IsFiniteSet(1 .. k) /\ IsWellFoundedOn(R, FiniteSubsetsOf(1 .. k))
  BY FS_Interval, FS_StrictSubsetOrderingWellFounded
<1>2. U \subseteq FiniteSubsetsOf(1 .. k) /\ U # {}
  <2>1. \A x \in I : x .. k \in SUBSET (1 .. k) /\ IsFiniteSet(x .. k)
    BY FS_Interval
  <2> QED BY <2>1 DEF FiniteSubsetsOf
<1>3. PICK s \in U : \A n \in U : ~ (<<n, s>> \in R)
  <2> HIDE DEF R, U
  <2> QED BY <1>1, <1>2, WFMin
<1>4. PICK m \in I : s = m .. k
  BY <1>3
<1>5. ASSUME NEW y \in I, m < y PROVE FALSE
  <2>1. y .. k \subseteq m .. k /\ m \in m .. k /\ m \notin y .. k
    BY <1>5
  <2>2. <<y .. k, m .. k>> \in R
    <3>1. y .. k \in SUBSET (1 .. k) /\ m .. k \in SUBSET (1 .. k)
      OBVIOUS
    <3> QED BY <2>1, <3>1 DEF StrictSubsetOrdering
  <2> QED BY <1>3, <1>4, <2>2
<1>6. \A y \in I : y <= m
  <2> TAKE y \in I
  <2>1. ~ (m < y)
    BY <1>5
  <2> QED BY <2>1
<1> QED  BY <1>6

LEMMA LatestHas ==
  ASSUME Filed, NEW E \in SUBSET Logged, E # {}
  PROVE  Latest(E) \in E /\ \A f \in E \ {Latest(E)} : Earlier(f, Latest(E))
<1>1. \A e \in E : /\ Day(e.recorded) \in Days /\ Position(e) \in Nat
                   /\ Position(e) \in 1 .. Len(journal[Day(e.recorded)])
                   /\ journal[Day(e.recorded)][Position(e)] = e
  BY LoggedHas
<1>2. PICK m \in Nat : Days = 1 .. m
  <2>1. MaxInstant \in Instants
    BY ScreenshotsAssumption DEF Instants
  <2> QED BY <2>1, DayHas DEF Days
<1>3. PICK d \in Days : /\ \E e \in E : Day(e.recorded) = d
                        /\ \A e \in E : Day(e.recorded) <= d
  <2> DEFINE D == {Day(e.recorded) : e \in E}
  <2>1. D \in SUBSET (1 .. m) /\ D # {}
    BY <1>1, <1>2
  <2>2. PICK d \in D : \A c \in D : c <= d
    <3> HIDE DEF D
    <3> QED BY <2>1, GreatestIndex
  <2> QED BY <1>1, <2>2
<1>4. PICK n \in Nat : n = Len(journal[d])
  BY DEF Filed
<1>5. PICK k \in Nat : /\ \E e \in E : Day(e.recorded) = d /\ Position(e) = k
                       /\ \A e \in E : Day(e.recorded) = d => Position(e) <= k
  <2> DEFINE P == {Position(e) : e \in {x \in E : Day(x.recorded) = d}}
  <2>1. P \in SUBSET (1 .. n) /\ P # {}
    BY <1>1, <1>3, <1>4
  <2>2. PICK k \in P : \A j \in P : j <= k
    <3> HIDE DEF P
    <3> QED BY <2>1, GreatestIndex
  <2> QED BY <1>1, <2>2
<1>6. PICK e \in E : Day(e.recorded) = d /\ Position(e) = k
  BY <1>5
<1>7. ASSUME NEW f \in E \ {e} PROVE Earlier(f, e)
  <2>1. Day(f.recorded) \in Nat /\ Day(f.recorded) <= d /\ d \in Nat /\ Position(f) \in Nat
    BY <1>1, <1>2, <1>3
  <2>2. CASE Day(f.recorded) = d
    <3>1. Position(f) # k
      BY <1>1, <1>6, <1>7, <2>2
    <3> QED BY <1>5, <1>6, <2>1, <2>2, <3>1 DEF Earlier
  <2>3. CASE Day(f.recorded) # d
    BY <1>6, <2>1, <2>3 DEF Earlier
  <2> QED BY <2>2, <2>3
<1> QED  BY <1>7 DEF Latest

\* An image whose last lifecycle record says that it is retained was written.
LEMMA RetainedHas ==
  ASSUME Filed, NEW i, LastState(i) = "retained"
  PROVE  \E e \in Of(i) : /\ e.action = "WriteCompleted"
                          /\ \A f \in Of(i) \ {e} : f.action # "Observed" => Earlier(f, e)
<1> DEFINE E == {e \in Of(i) : e.action # "Observed"}
<1>1. E # {} /\ StateAfter(Latest(E).action) = "retained"
  BY DEF LastState, StateIn
<1>2. E \in SUBSET Logged
  BY DEF Of
<1>3. Latest(E) \in E /\ \A f \in E \ {Latest(E)} : Earlier(f, Latest(E))
  <2> HIDE DEF E
  <2> QED BY <1>1, <1>2, LatestHas
<1>4. PICK e \in E : e = Latest(E)
  BY <1>3
<1>5. e.action \in Actions
  BY <1>2, LoggedHas, EventHas
<1>6. e.action = "WriteCompleted"
  <2>1. StateAfter(e.action) = "retained"
    BY <1>1, <1>4
  <2> QED BY <1>5, <2>1 DEF StateAfter, Actions, Terminals, WriteOutcomes
<1> QED  BY <1>3, <1>4, <1>6

LEMMA EligibleHas ==
  ASSUME ScreenshotsInv, NEW cutoff \in Nat, NEW i \in Eligible(cutoff), cutoff <= now
  PROVE  i \in Images /\ Has(i, "WriteCompleted") /\ Expired(i, now)
<1>1. i \in Images /\ Has(i, "Observed") /\ Expires(i) <= cutoff /\ LastState(i) = "retained"
  BY DEF Eligible, Observed
<1>2. Has(i, "WriteCompleted")
  BY <1>1, RetainedHas DEF ScreenshotsInv, Has, Of
<1>3. Expired(i, now)
  <2>1. PICK o \in Logged : o = Recorded(i, "Observed") /\ o.image = i /\ o.action = "Observed"
    BY <1>1 DEF Recorded, Has
  <2>2. o.recorded + Lifetime <= cutoff
    BY <1>1, <2>1 DEF Expires
  <2>3. \A f \in Logged : f.action = "Observed" /\ f.image = i => f = o
    BY <2>1 DEF ScreenshotsInv, Begun
  <2>4. o.recorded \in Nat /\ now \in Nat /\ Lifetime \in Nat
    BY LoggedHas, EventHas, ScreenshotsAssumption DEF ScreenshotsInv, Typed, Instants
  <2> QED BY <2>2, <2>3, <2>4 DEF Expired
<1> QED  BY <1>1, <1>2, <1>3

-----------------------------------------------------------------------------
(* Retention                                                                 *)

\* What stays as it is with the journal, the files and the operation.
LEMMA Stays ==
  ASSUME ScreenshotsInv, confirmed \subseteq confirmed', lost \subseteq lost',
         UNCHANGED <<journal, cursor, file, settled>>
  PROVE  Logged' = Logged /\ Filed' /\ Begun' /\ Requested' /\ Settled' /\ FilesAgree'
<1>1. Logged' = Logged /\ Filed' /\ Begun' /\ Requested'
  BY SameLog, FiledStays, BegunStays DEF ScreenshotsInv
<1>2. \A j \in Images : Left(j)
  BY DEF Left
<1> QED  BY <1>1, <1>2, FilesStay

LEMMA OperationStays ==
  ASSUME ScreenshotsInv,
         UNCHANGED <<journal, file, settled, step, image, at, batch, confirmed>>
  PROVE  Operating' /\ Writing' /\ Deleting'
<1>1. Logged' = Logged
  BY SameLog
<1>2. \A i : Doomed(i) => Doomed(i)'
  BY <1>1, HasSame DEF Doomed, Expired
<1>3. Operating'
  BY DEF ScreenshotsInv, Operating
<1>4. Writing'
  BY <1>1, HasSame, EventsStay DEF ScreenshotsInv, Writing, Of
<1>5. Deleting'
  BY <1>1, <1>2, EventsStay DEF ScreenshotsInv, Deleting
<1> QED  BY <1>3, <1>4, <1>5

LEMMA PreviewKeeps == ScreenshotsInv /\ Preview => ScreenshotsInv'
<1> SUFFICES ASSUME ScreenshotsInv, Preview PROVE ScreenshotsInv'
  OBVIOUS
<1>1. /\ UNCHANGED <<now, journal, file, settled, rows, cursor, open, step, image, at, batch,
                     confirmed, lost, faults>>
      /\ preview' = [cutoff |-> now, inventory |-> Inventory, candidates |-> Eligible(now)]
  BY DEF Preview, disk, index, call, ghost
<1>2. Filed' /\ Begun' /\ Requested' /\ Settled' /\ FilesAgree'
  BY <1>1, Stays
<1>3. Operating' /\ Writing' /\ Deleting'
  BY <1>1, OperationStays
<1>4. preview'.cutoff = now /\ preview'.candidates = Eligible(now) /\ Eligible(now) \subseteq Images
  BY <1>1 DEF Eligible, Observed
<1>5. Typed'
  BY <1>1, <1>4 DEF ScreenshotsInv, Typed, Places2
<1> QED  BY <1>2, <1>3, <1>5 DEF ScreenshotsInv

\* A batch is the previewed images, each once.
LEMMA BatchHas ==
  ASSUME NEW S \in SUBSET Images, NEW b \in SetToSeqs(S), b # <<>>
  PROVE  /\ Head(b) \in S /\ Tail(b) \in Seq(S)
         /\ \A k \in DOMAIN Tail(b) : Tail(b)[k] # Head(b)
         /\ \A k, l \in DOMAIN Tail(b) : Tail(b)[k] = Tail(b)[l] => k = l
<1>1. PICK n \in Nat : n = Cardinality(S)
  BY FS_Subset, FS_CardinalityType, ScreenshotsAssumption
<1>2. b \in [1 .. n -> S] /\ \A i, j \in 1 .. n : i # j => b[i] # b[j]
  BY <1>1 DEF SetToSeqs
<1>3. b \in Seq(S) /\ Len(b) = n /\ n # 0
  BY <1>2
<1>4. PICK t : t = Tail(b)
  OBVIOUS
<1>5. Head(b) = b[1] /\ 1 \in 1 .. n
  BY <1>3
<1>6. t \in Seq(S) /\ DOMAIN t = 1 .. n - 1 /\ \A k \in 1 .. n - 1 : t[k] = b[k + 1]
  BY <1>3, <1>4
<1>7. \A k \in 1 .. n - 1 : k + 1 \in 1 .. n /\ k + 1 # 1
  BY <1>1
<1> QED  BY <1>2, <1>4, <1>5, <1>6, <1>7

LEMMA ApplyHas ==
  ASSUME ScreenshotsInv, Apply
  PROVE  /\ UNCHANGED <<now, journal, file, settled, rows, cursor, open, lost, faults>>
         /\ preview' = NoPreview /\ at' = now /\ confirmed' = confirmed \cup preview.candidates
         /\ step = "ready" /\ step' = "request"
         /\ preview.cutoff \in Nat /\ preview.cutoff <= now
         /\ preview.candidates = Eligible(preview.cutoff)
         /\ image' \in preview.candidates /\ batch' \in Seq(preview.candidates)
         /\ \A k \in DOMAIN batch' : batch'[k] # image'
         /\ \A k, l \in DOMAIN batch' : batch'[k] = batch'[l] => k = l
<1>1. /\ UNCHANGED <<now, journal, file, settled, rows, cursor, open, lost, faults>>
      /\ preview' = NoPreview /\ at' = now /\ confirmed' = confirmed \cup preview.candidates
      /\ step = "ready" /\ step' = "request"
      /\ preview.cutoff <= now /\ preview.candidates = Eligible(preview.cutoff)
  BY DEF Apply, Idle, CurrentPreview, disk, index
<1>2. PICK S \in SUBSET Images : S = Eligible(preview.cutoff)
  BY DEF Eligible, Observed
<1>3. PICK b \in SetToSeqs(S) : b # <<>> /\ image' = Head(b) /\ batch' = Tail(b)
  BY <1>2 DEF Apply
<1>4. /\ image' \in S /\ batch' \in Seq(S)
      /\ \A k \in DOMAIN batch' : batch'[k] # image'
      /\ \A k, l \in DOMAIN batch' : batch'[k] = batch'[l] => k = l
  BY <1>3, BatchHas
<1>5. preview.cutoff \in Nat
  BY DEF ScreenshotsInv, Typed, Instants
<1> QED  BY <1>1, <1>2, <1>4, <1>5

LEMMA ApplyKeeps == ScreenshotsInv /\ Apply => ScreenshotsInv'
<1> SUFFICES ASSUME ScreenshotsInv, Apply PROVE ScreenshotsInv'
  OBVIOUS
<1>1. /\ UNCHANGED <<now, journal, file, settled, rows, cursor, open, lost, faults>>
      /\ preview' = NoPreview /\ at' = now /\ confirmed' = confirmed \cup preview.candidates
      /\ step = "ready" /\ step' = "request"
      /\ preview.cutoff \in Nat /\ preview.cutoff <= now
      /\ preview.candidates = Eligible(preview.cutoff)
      /\ image' \in preview.candidates /\ batch' \in Seq(preview.candidates)
  BY ApplyHas
<1>2. Logged' = Logged /\ Filed' /\ Begun' /\ Requested' /\ Settled' /\ FilesAgree'
  BY <1>1, Stays
<1>3. \A i \in preview.candidates : i \in Images /\ Doomed(i)'
  <2> TAKE i \in preview.candidates
  <2>1. i \in Images /\ Has(i, "WriteCompleted") /\ Expired(i, now)
    BY <1>1, EligibleHas
  <2> QED BY <1>1, <1>2, <2>1, HasSame DEF Doomed, Expired
<1>4. preview'.cutoff = 0 /\ preview'.candidates = {}
  BY <1>1 DEF NoPreview
<1>5. batch' \in Seq(Images) /\ \A k \in DOMAIN batch' : batch'[k] \in preview.candidates
  <2>1. preview.candidates \subseteq Images
    BY <1>3
  <2> QED BY <1>1, <2>1
<1>6. Typed' /\ Operating'
  BY <1>1, <1>3, <1>4, <1>5 DEF ScreenshotsInv, Typed, Operating, Steps, Places2
<1>7. Writing'
  BY <1>1 DEF Writing, WriteSteps, ProjectSteps
<1>8. Deleting'
  BY <1>1, <1>3, <1>5 DEF Deleting, DeleteSteps, AskedSteps
<1> QED  BY <1>2, <1>6, <1>7, <1>8 DEF ScreenshotsInv

\* The request for an image of the batch, whether the call goes on or fails behind it.
LEMMA Asking ==
  ASSUME ScreenshotsInv, step = "request", AppendEvent(Request(image)),
         UNCHANGED <<file, settled, cursor, confirmed, lost>>
  PROVE  /\ Filed' /\ Begun' /\ Requested' /\ Settled' /\ FilesAgree'
         /\ Logged' = Logged \cup {Request(image)}
<1>1. PICK e \in Event :
        /\ e = Request(image) /\ e.action = "DeleteRequested" /\ e.image = image
        /\ image \in Images /\ e.recorded = at
  BY EventsHave
<1>2. PICK i \in Images : i = image
  BY <1>1
<1>3. i \in confirmed /\ Has(i, "WriteCompleted") /\ Expired(i, at)
  BY <1>2 DEF ScreenshotsInv, Deleting, DeleteSteps, Doomed
<1>4. Has(i, "Observed")
  BY <1>3, NothingHas DEF ScreenshotsInv
<1>5. /\ Filed' /\ Begun' /\ Requested' /\ Logged' = Logged \cup {e}
      /\ \A j : j # e.image => \A a : Has(j, a)' <=> Has(j, a)
      /\ \A j, a : Has(j, a)' <=> Has(j, a) \/ (e.image = j /\ e.action = a)
  <2>1. Admissible(e)
    BY <1>1, <1>2, <1>3, <1>4 DEF Admissible
  <2> QED BY <1>1, <2>1, Recording
<1>6. Settled' /\ FilesAgree'
  <2>1. Stands(i)
    BY AllStand DEF ScreenshotsInv
  <2>2. /\ Has(i, "DeleteRequested")' /\ Has(i, "Observed")'
        /\ HasTerminal(i)' <=> HasTerminal(i)
        /\ Has(i, "DeleteCompleted")' <=> Has(i, "DeleteCompleted")
        /\ Has(i, "WriteFailed")' <=> Has(i, "WriteFailed")
    BY <1>1, <1>2, <1>4, <1>5, HasGrows DEF Terminals, WriteOutcomes
  <2>3. Stands(i)'
    BY <2>1, <2>2 DEF Stands
  <2>4. \A j \in Images : j # i => Left(j)
    BY DEF Left
  <2> QED BY <1>1, <1>2, <1>5, <2>3, <2>4, OthersStand
<1> QED  BY <1>1, <1>5, <1>6

LEMMA AskKeeps == ScreenshotsInv /\ Ask => ScreenshotsInv'
<1> SUFFICES ASSUME ScreenshotsInv, Ask PROVE ScreenshotsInv'
  OBVIOUS
<1>1. /\ UNCHANGED <<now, file, settled, rows, cursor, open, image, at, batch, preview, confirmed,
                     lost, faults>>
      /\ step = "request" /\ step' = "projectRequest" /\ AppendEvent(Request(image))
  BY DEF Ask, Go, disk, index, ghost
<1>2. image \in Images /\ at \in Instants /\ Request(image).action = "DeleteRequested"
  BY <1>1, EventsHave
<1>3. /\ Filed' /\ Begun' /\ Requested' /\ Settled' /\ FilesAgree'
      /\ Logged' = Logged \cup {Request(image)}
  BY <1>1, Asking
<1>4. Typed' /\ Operating'
  BY <1>1, <1>2 DEF ScreenshotsInv, Typed, Operating, Steps, Places2
<1>5. Writing'
  BY <1>1 DEF Writing, WriteSteps, ProjectSteps
<1>6. Deleting'
  <2>1. \A i : Doomed(i) => Doomed(i)'
    BY <1>1, <1>2, <1>3, DoomStays
  <2>2. Doomed(image) /\ \A k \in DOMAIN batch : Doomed(batch[k])
    BY <1>1 DEF ScreenshotsInv, Deleting, DeleteSteps
  <2>3. Doomed(image)' /\ \A k \in DOMAIN batch' : Doomed(batch[k])'
    BY <1>1, <2>1, <2>2
  <2>4. Request(image)' \in Logged'
    BY <1>1, <1>3, EventsStay
  <2> QED BY <1>1, <2>3, <2>4 DEF Deleting, DeleteSteps, AskedSteps, Doomed
<1> QED  BY <1>3, <1>4, <1>5, <1>6 DEF ScreenshotsInv

LEMMA AskFailsKeeps == ScreenshotsInv /\ AskFails => ScreenshotsInv'
<1> SUFFICES ASSUME ScreenshotsInv, AskFails PROVE ScreenshotsInv'
  OBVIOUS
<1>1. /\ UNCHANGED <<now, file, settled, rows, cursor, open, preview, confirmed, lost>>
      /\ step = "request" /\ Fault /\ Done
      /\ AppendEvent(Request(image)) \/ UNCHANGED journal
  BY DEF AskFails, AppendFails, Finish, disk, index, ghost
<1>2. Filed' /\ Begun' /\ Requested' /\ Settled' /\ FilesAgree'
  <2>1. CASE AppendEvent(Request(image))
    BY <1>1, <2>1, Asking
  <2>2. CASE UNCHANGED journal
    BY <1>1, <2>2, Stays
  <2> QED BY <1>1, <2>1, <2>2
<1>3. Typed'
  BY <1>1, DoneHas, FaultHas DEF ScreenshotsInv, Typed, Places2
<1> QED  BY <1>1, <1>2, <1>3, DoneHas DEF ScreenshotsInv

LEMMA ProjectRequestKeeps == ScreenshotsInv /\ ProjectRequest => ScreenshotsInv'
<1> SUFFICES ASSUME ScreenshotsInv, ProjectRequest PROVE ScreenshotsInv'
  OBVIOUS
<1>1. /\ UNCHANGED <<now, journal, file, settled, open, image, at, batch, preview, confirmed, lost,
                     faults>>
      /\ step = "projectRequest" /\ step' = "unlink"
      /\ Projects(Request(image)) /\ Project(Request(image))
  BY DEF ProjectRequest, Go, disk, ghost
<1>2. image \in Images /\ at \in Instants /\ Request(image) \in Logged
  BY <1>1, EventsHave DEF ScreenshotsInv, Deleting, AskedSteps
<1>3. Filed' /\ rows' \in [Images -> States]
  BY <1>1, <1>2, Projecting
<1>4. Logged' = Logged /\ Begun' /\ Requested'
  BY <1>1, SameLog, BegunStays DEF ScreenshotsInv
<1>5. Settled' /\ FilesAgree'
  BY <1>1, <1>4, FilesStay DEF Left
<1>6. Typed' /\ Operating'
  BY <1>1, <1>2, <1>3 DEF ScreenshotsInv, Typed, Operating, Steps, Places2
<1>7. Writing'
  BY <1>1 DEF Writing, WriteSteps, ProjectSteps
<1>8. Deleting'
  <2>1. Doomed(image) /\ \A k \in DOMAIN batch : Doomed(batch[k])
    BY <1>1 DEF ScreenshotsInv, Deleting, DeleteSteps, AskedSteps
  <2>2. \A i : Doomed(i) => Doomed(i)'
    BY <1>1, <1>4, HasSame DEF Doomed, Expired
  <2>3. Doomed(image)' /\ \A k \in DOMAIN batch' : Doomed(batch[k])'
    BY <1>1, <2>1, <2>2
  <2>4. Request(image)' \in Logged'
    BY <1>1, <1>2, <1>4, EventsStay
  <2> QED BY <1>1, <2>3, <2>4 DEF Deleting, DeleteSteps, AskedSteps, Doomed
<1> QED  BY <1>3, <1>4, <1>5, <1>6, <1>7, <1>8 DEF ScreenshotsInv

LEMMA UnlinkKeeps == ScreenshotsInv /\ Unlink => ScreenshotsInv'
<1> SUFFICES ASSUME ScreenshotsInv, Unlink PROVE ScreenshotsInv'
  OBVIOUS
<1>1. /\ UNCHANGED <<now, journal, rows, cursor, open, image, at, batch, preview, confirmed, lost,
                     faults>>
      /\ step = "unlink" /\ step' = "settleUnlink" /\ Move(image, "none")
  BY DEF Unlink, Go, index, ghost
<1>2. image \in Images /\ at \in Instants /\ Request(image) \in Logged
  BY <1>1, EventsHave DEF ScreenshotsInv, Deleting, AskedSteps
<1>3. Logged' = Logged /\ Filed' /\ Begun' /\ Requested'
  BY <1>1, SameLog, FiledStays, BegunStays DEF ScreenshotsInv
<1>4. PICK i \in Images : i = image
  BY <1>2
<1>5. /\ Places2' /\ file'[i] = "none" /\ settled'[i] = settled[i]
      /\ \A j \in Images : j # i => Left(j)
  BY <1>1, <1>4, Moved DEF Places
<1>6. Settled' /\ FilesAgree'
  <2>1. Has(i, "DeleteRequested") /\ Has(i, "Observed")
    <3>1. Has(i, "DeleteRequested")
      BY <1>1, <1>2, <1>4, EventsHave DEF Has
    <3> QED BY <3>1, NothingHas DEF ScreenshotsInv
  <2>2. Stands(i)
    BY AllStand DEF ScreenshotsInv
  <2>3. Stands(i)'
    BY <1>1, <1>3, <1>5, <2>1, <2>2, HasSame DEF Stands
  <2> QED BY <1>1, <1>3, <1>5, <2>3, HasSame, OthersStand
<1>7. Typed' /\ Operating'
  BY <1>1, <1>2, <1>5 DEF ScreenshotsInv, Typed, Operating, Steps
<1>8. Writing'
  BY <1>1 DEF Writing, WriteSteps, ProjectSteps
<1>9. Deleting'
  <2>1. Doomed(image) /\ \A k \in DOMAIN batch : Doomed(batch[k])
    BY <1>1 DEF ScreenshotsInv, Deleting, DeleteSteps, AskedSteps
  <2>2. \A j : Doomed(j) => Doomed(j)'
    BY <1>1, <1>3, HasSame DEF Doomed, Expired
  <2>3. Doomed(image)' /\ \A k \in DOMAIN batch' : Doomed(batch[k])'
    BY <1>1, <2>1, <2>2
  <2>4. Request(image)' \in Logged' /\ file'[image'] = "none"
    BY <1>1, <1>2, <1>3, <1>4, <1>5, EventsStay
  <2> QED BY <1>1, <2>3, <2>4 DEF Deleting, DeleteSteps, AskedSteps, Doomed
<1> QED  BY <1>3, <1>6, <1>7, <1>8, <1>9 DEF ScreenshotsInv

LEMMA SettleUnlinkKeeps == ScreenshotsInv /\ SettleUnlink => ScreenshotsInv'
<1> SUFFICES ASSUME ScreenshotsInv, SettleUnlink PROVE ScreenshotsInv'
  OBVIOUS
<1>1. /\ UNCHANGED <<now, journal, rows, cursor, open, image, at, batch, preview, confirmed, lost,
                     faults>>
      /\ step = "settleUnlink" /\ step' = "completeDelete" /\ SyncDirectory(image)
  BY DEF SettleUnlink, Go, index, ghost
<1>2. image \in Images /\ at \in Instants /\ Request(image) \in Logged /\ file[image] = "none"
  BY <1>1, EventsHave DEF ScreenshotsInv, Deleting, AskedSteps
<1>3. Logged' = Logged /\ Filed' /\ Begun' /\ Requested'
  BY <1>1, SameLog, FiledStays, BegunStays DEF ScreenshotsInv
<1>4. Places2' /\ file' = file /\ settled'[image] = file[image] /\ \A j \in Images : Left(j)
  BY <1>1, <1>2, DirectorySynced
<1>5. Settled' /\ FilesAgree'
  BY <1>1, <1>3, <1>4, FilesStay
<1>6. Typed' /\ Operating'
  BY <1>1, <1>2, <1>4 DEF ScreenshotsInv, Typed, Operating, Steps
<1>7. Writing'
  BY <1>1 DEF Writing, WriteSteps, ProjectSteps
<1>8. Deleting'
  <2>1. Doomed(image) /\ \A k \in DOMAIN batch : Doomed(batch[k])
    BY <1>1 DEF ScreenshotsInv, Deleting, DeleteSteps, AskedSteps
  <2>2. \A j : Doomed(j) => Doomed(j)'
    BY <1>1, <1>3, HasSame DEF Doomed, Expired
  <2>3. Doomed(image)' /\ \A k \in DOMAIN batch' : Doomed(batch[k])'
    BY <1>1, <2>1, <2>2
  <2>4. Request(image)' \in Logged' /\ file'[image'] = "none" /\ settled'[image'] = "none"
    BY <1>1, <1>2, <1>3, <1>4, EventsStay
  <2> QED BY <1>1, <2>3, <2>4 DEF Deleting, DeleteSteps, AskedSteps, Doomed
<1> QED  BY <1>3, <1>5, <1>6, <1>7, <1>8 DEF ScreenshotsInv

\* The completion of a deletion, whether the call goes on or fails behind it.
LEMMA Deleted ==
  ASSUME ScreenshotsInv, step = "completeDelete", AppendEvent(DeleteCompletion(image)),
         UNCHANGED <<file, settled, cursor, confirmed, lost>>
  PROVE  /\ Filed' /\ Begun' /\ Requested' /\ Settled' /\ FilesAgree'
         /\ Logged' = Logged \cup {DeleteCompletion(image)}
<1>1. PICK e \in Event :
        /\ e = DeleteCompletion(image) /\ e.action = "DeleteCompleted" /\ e.image = image
        /\ image \in Images
  BY EventsHave
<1>2. PICK i \in Images : i = image
  BY <1>1
<1>3. /\ Has(i, "WriteCompleted") /\ Request(image) \in Logged
      /\ file[i] = "none" /\ settled[i] = "none"
  BY <1>2 DEF ScreenshotsInv, Deleting, DeleteSteps, AskedSteps, Doomed
<1>4. Has(i, "Observed") /\ Has(i, "DeleteRequested")
  <2>1. Has(i, "DeleteRequested")
    BY <1>2, <1>3, EventsHave DEF Has
  <2> QED BY <2>1, NothingHas DEF ScreenshotsInv
<1>5. /\ Filed' /\ Begun' /\ Requested' /\ Logged' = Logged \cup {e}
      /\ \A j : j # e.image => \A a : Has(j, a)' <=> Has(j, a)
      /\ \A j, a : Has(j, a)' <=> Has(j, a) \/ (e.image = j /\ e.action = a)
  <2>1. Admissible(e)
    BY <1>1, <1>2, <1>3, <1>4 DEF Admissible
  <2> QED BY <1>1, <2>1, Recording
<1>6. Settled' /\ FilesAgree'
  <2>1. Has(i, "DeleteRequested")' /\ Has(i, "Observed")'
    BY <1>4, <1>5
  <2>2. file'[i] = "none" /\ settled'[i] = "none"
    BY <1>3
  <2>3. Stands(i)'
    BY <2>1, <2>2 DEF Stands
  <2>4. \A j \in Images : j # i => Left(j)
    BY DEF Left
  <2> QED BY <1>1, <1>2, <1>5, <2>3, <2>4, OthersStand
<1> QED  BY <1>1, <1>5, <1>6

LEMMA CompleteDeleteKeeps == ScreenshotsInv /\ CompleteDelete => ScreenshotsInv'
<1> SUFFICES ASSUME ScreenshotsInv, CompleteDelete PROVE ScreenshotsInv'
  OBVIOUS
<1>1. /\ UNCHANGED <<now, file, settled, rows, cursor, open, image, at, batch, preview, confirmed,
                     lost, faults>>
      /\ step = "completeDelete" /\ step' = "projectDelete"
      /\ AppendEvent(DeleteCompletion(image))
  BY DEF CompleteDelete, Go, disk, index, ghost
<1>2. /\ image \in Images /\ at \in Instants /\ Request(image) \in Logged
      /\ DeleteCompletion(image).action = "DeleteCompleted"
  BY <1>1, EventsHave DEF ScreenshotsInv, Deleting, AskedSteps
<1>3. /\ Filed' /\ Begun' /\ Requested' /\ Settled' /\ FilesAgree'
      /\ Logged' = Logged \cup {DeleteCompletion(image)}
  BY <1>1, Deleted
<1>4. Typed' /\ Operating'
  BY <1>1, <1>2 DEF ScreenshotsInv, Typed, Operating, Steps, Places2
<1>5. Writing'
  BY <1>1 DEF Writing, WriteSteps, ProjectSteps
<1>6. Deleting'
  <2>1. \A i : Doomed(i) => Doomed(i)'
    BY <1>1, <1>2, <1>3, DoomStays
  <2>2. Doomed(image) /\ \A k \in DOMAIN batch : Doomed(batch[k])
    BY <1>1 DEF ScreenshotsInv, Deleting, DeleteSteps, AskedSteps
  <2>3. Doomed(image)' /\ \A k \in DOMAIN batch' : Doomed(batch[k])'
    BY <1>1, <2>1, <2>2
  <2>4. Request(image)' \in Logged' /\ DeleteCompletion(image)' \in Logged'
    BY <1>1, <1>2, <1>3, EventsStay
  <2> QED BY <1>1, <2>3, <2>4 DEF Deleting, DeleteSteps, AskedSteps, Doomed
<1> QED  BY <1>3, <1>4, <1>5, <1>6 DEF ScreenshotsInv

LEMMA CompleteDeleteFailsKeeps == ScreenshotsInv /\ CompleteDeleteFails => ScreenshotsInv'
<1> SUFFICES ASSUME ScreenshotsInv, CompleteDeleteFails PROVE ScreenshotsInv'
  OBVIOUS
<1>1. /\ UNCHANGED <<now, file, settled, rows, cursor, open, preview, confirmed, lost>>
      /\ step = "completeDelete" /\ Fault /\ Done
      /\ AppendEvent(DeleteCompletion(image)) \/ UNCHANGED journal
  BY DEF CompleteDeleteFails, AppendFails, Finish, disk, index, ghost
<1>2. Filed' /\ Begun' /\ Requested' /\ Settled' /\ FilesAgree'
  <2>1. CASE AppendEvent(DeleteCompletion(image))
    BY <1>1, <2>1, Deleted
  <2>2. CASE UNCHANGED journal
    BY <1>1, <2>2, Stays
  <2> QED BY <1>1, <2>1, <2>2
<1>3. Typed'
  BY <1>1, DoneHas, FaultHas DEF ScreenshotsInv, Typed, Places2
<1> QED  BY <1>1, <1>2, <1>3, DoneHas DEF ScreenshotsInv

LEMMA ProjectDeleteKeeps == ScreenshotsInv /\ ProjectDelete => ScreenshotsInv'
<1> SUFFICES ASSUME ScreenshotsInv, ProjectDelete PROVE ScreenshotsInv'
  OBVIOUS
<1>1. /\ UNCHANGED <<now, journal, file, settled, open, preview, confirmed, lost, faults>>
      /\ step = "projectDelete"
      /\ Projects(DeleteCompletion(image)) /\ Project(DeleteCompletion(image))
  BY DEF ProjectDelete, Finish, disk, ghost
<1>2. \/ batch = <<>> /\ Done
      \/ /\ batch # <<>> /\ step' = "request" /\ image' = Head(batch) /\ batch' = Tail(batch)
         /\ UNCHANGED at
  BY DEF ProjectDelete, Finish
<1>3. /\ image \in Images /\ at \in Instants /\ DeleteCompletion(image) \in Logged
      /\ batch \in Seq(Images) /\ \A k \in DOMAIN batch : Doomed(batch[k])
  BY <1>1, EventsHave DEF ScreenshotsInv, Typed, Deleting, DeleteSteps, AskedSteps
<1>4. Filed' /\ rows' \in [Images -> States]
  BY <1>1, <1>3, Projecting
<1>5. Logged' = Logged /\ Begun' /\ Requested'
  BY <1>1, SameLog, BegunStays DEF ScreenshotsInv
<1>6. Settled' /\ FilesAgree'
  BY <1>1, <1>5, FilesStay DEF Left
<1>7. CASE batch = <<>> /\ Done
  <2>1. Typed'
    BY <1>1, <1>4, <1>7, DoneHas DEF ScreenshotsInv, Typed, Places2
  <2> QED BY <1>4, <1>5, <1>6, <1>7, <2>1, DoneHas DEF ScreenshotsInv
<1>8. CASE /\ batch # <<>> /\ step' = "request" /\ image' = Head(batch) /\ batch' = Tail(batch)
           /\ UNCHANGED at
  <2>1. /\ image' \in Images /\ batch' \in Seq(Images) /\ 1 \in DOMAIN batch /\ image' = batch[1]
        /\ \A k \in DOMAIN batch' : k + 1 \in DOMAIN batch /\ batch'[k] = batch[k + 1]
    BY <1>3, <1>8
  <2>2. \A i : Doomed(i) => Doomed(i)'
    BY <1>1, <1>5, <1>8, HasSame DEF Doomed, Expired
  <2>3. Doomed(image)' /\ \A k \in DOMAIN batch' : Doomed(batch[k])'
    <3>1. Doomed(batch[1]) /\ \A k \in DOMAIN batch' : Doomed(batch[k + 1])
      BY <1>3, <2>1
    <3>2. PICK j : j = batch[1]
      OBVIOUS
    <3>3. image' = j /\ Doomed(j)'
      BY <2>1, <2>2, <3>1, <3>2
    <3>4. Doomed(image)'
      BY <3>3 DEF Doomed, Expired, Has
    <3>5. ASSUME NEW k \in DOMAIN batch' PROVE Doomed(batch[k])'
      <4>1. PICK l : l = batch[k + 1]
        OBVIOUS
      <4>2. batch'[k] = l /\ Doomed(l)'
        BY <2>1, <2>2, <3>1, <3>5, <4>1
      <4> QED BY <4>2 DEF Doomed, Expired, Has
    <3> QED BY <3>4, <3>5
  <2>4. Typed' /\ Operating'
    BY <1>1, <1>3, <1>4, <1>8, <2>1 DEF ScreenshotsInv, Typed, Operating, Steps, Places2
  <2>5. Writing'
    BY <1>8 DEF Writing, WriteSteps, ProjectSteps
  <2>6. Deleting'
    BY <1>8, <2>3 DEF Deleting, DeleteSteps, AskedSteps
  <2> QED BY <1>4, <1>5, <1>6, <2>4, <2>5, <2>6 DEF ScreenshotsInv
<1> QED  BY <1>2, <1>7, <1>8

\* What has ended leaves the journal and the files as they are.
LEMMA Ending ==
  ASSUME ScreenshotsInv, Done, UNCHANGED <<journal, cursor, rows, file, settled, now, preview,
                                           confirmed, lost>>,
         open' \in BOOLEAN, faults' \in 0 .. MaxFaults
  PROVE  ScreenshotsInv'
<1>1. Filed' /\ Begun' /\ Requested' /\ Settled' /\ FilesAgree'
  BY Stays
<1>2. Typed'
  BY DoneHas DEF ScreenshotsInv, Typed, Places2
<1> QED  BY <1>1, <1>2, DoneHas DEF ScreenshotsInv

LEMMA EndingsKeep ==
  ScreenshotsInv /\ (ProjectionRefuses \/ OtherStepFails \/ RecoveryFails \/ Recovered \/ Defer)
    => ScreenshotsInv'
<1> SUFFICES ASSUME ScreenshotsInv,
                    ProjectionRefuses \/ OtherStepFails \/ RecoveryFails \/ Recovered \/ Defer
             PROVE  ScreenshotsInv'
  OBVIOUS
<1>1. open \in BOOLEAN /\ faults \in 0 .. MaxFaults
  BY DEF ScreenshotsInv, Typed
<1>2. /\ Done /\ UNCHANGED <<journal, cursor, rows, file, settled, now, preview, confirmed, lost>>
      /\ open' \in BOOLEAN
      /\ Fault \/ UNCHANGED faults
  BY <1>1 DEF ProjectionRefuses, OtherStepFails, RecoveryFails, Recovered, Defer, Finish, disk,
              index, ghost
<1>3. faults' \in 0 .. MaxFaults
  BY <1>1, <1>2, FaultHas DEF ScreenshotsInv
<1> QED  BY <1>2, <1>3, Ending

-----------------------------------------------------------------------------
(* Recovery                                                                  *)

LEMMA RecoverKeeps == ScreenshotsInv /\ Recover => ScreenshotsInv'
<1> SUFFICES ASSUME ScreenshotsInv, Recover PROVE ScreenshotsInv'
  OBVIOUS
<1>1. /\ UNCHANGED <<now, journal, file, settled, rows, cursor, open, image, batch, preview,
                     confirmed, lost, faults>>
      /\ step = "ready" /\ step' = "recover" /\ at' = now
  BY DEF Recover, disk, index, ghost
<1>2. Filed' /\ Begun' /\ Requested' /\ Settled' /\ FilesAgree'
  BY <1>1, Stays
<1>3. Typed' /\ Operating'
  BY <1>1 DEF ScreenshotsInv, Typed, Operating, Steps, Places2, Instants
<1>4. Writing'
  BY <1>1 DEF Writing, WriteSteps, ProjectSteps
<1>5. Deleting'
  BY <1>1 DEF Deleting, DeleteSteps, AskedSteps
<1> QED  BY <1>2, <1>3, <1>4, <1>5 DEF ScreenshotsInv

\* What recovery does leaves the operation as it is.
LEMMA Recovering ==
  ASSUME ScreenshotsInv, step = "recover", UNCHANGED <<now, open, step, image, at, batch, preview,
                                                       confirmed, lost, faults>>,
         Places2', rows' \in [Images -> States]
  PROVE  Typed' /\ Operating' /\ Writing' /\ Deleting'
<1>1. Typed' /\ Operating'
  BY DEF ScreenshotsInv, Typed, Operating
<1>2. Writing' /\ Deleting'
  BY DEF Writing, WriteSteps, ProjectSteps, Deleting, DeleteSteps, AskedSteps
<1> QED  BY <1>1, <1>2

\* Recovery moves an image's file.
LEMMA RecoveringFile ==
  ASSUME ScreenshotsInv, step = "recover",
         UNCHANGED <<now, journal, rows, cursor, open, step, image, at, batch, preview, confirmed,
                     lost, faults>>,
         NEW i \in Images, NEW place \in {"none", "final"}, MoveSynced(i, place),
         place = "none" => Has(i, "DeleteRequested") \/ ~ Has(i, "Observed")
                           \/ file[i] = "provisional",
         place = "final" => Has(i, "Observed") /\ ~ HasTerminal(i)
                            /\ ~ Has(i, "DeleteRequested") /\ ~ Has(i, "DeleteCompleted")
  PROVE  ScreenshotsInv'
<1>1. Logged' = Logged /\ Filed' /\ Begun' /\ Requested'
  BY SameLog, FiledStays, BegunStays DEF ScreenshotsInv
<1>2. /\ Places2' /\ file'[i] = place /\ settled'[i] = place
      /\ \A j \in Images : j # i => Left(j)
  <2>1. place \in Places
    BY DEF Places
  <2> QED BY <2>1, MovedSynced
<1>3. Stands(i)'
  <2>1. Stands(i)
    BY AllStand DEF ScreenshotsInv
  <2>2. ~ HasTerminal(i) => ~ Has(i, "WriteCompleted") /\ ~ Has(i, "WriteFailed")
    BY DEF HasTerminal, Terminals, WriteOutcomes
  <2>3. CASE place = "none"
    <3>1. ~ Has(i, "Observed") => ~ Has(i, "WriteCompleted")
      BY NothingHas DEF ScreenshotsInv
    <3> QED BY <1>1, <1>2, <2>1, <2>3, <3>1, HasSame DEF Stands
  <2>4. CASE place = "final"
    BY <1>1, <1>2, <2>2, <2>4, HasSame DEF Stands
  <2> QED BY <2>3, <2>4
<1>4. Settled' /\ FilesAgree'
  BY <1>1, <1>2, <1>3, HasSame, OthersStand
<1>5. Typed' /\ Operating' /\ Writing' /\ Deleting'
  BY <1>2, Recovering DEF ScreenshotsInv, Typed
<1> QED  BY <1>1, <1>4, <1>5 DEF ScreenshotsInv

LEMMA RecoverPromotionKeeps ==
  ASSUME ScreenshotsInv, NEW i \in Images, RecoverPromotion(i)
  PROVE  ScreenshotsInv'
<1>1. /\ UNCHANGED <<now, journal, rows, cursor, open, step, image, at, batch, preview, confirmed,
                     lost, faults>>
      /\ step = "recover" /\ MoveSynced(i, "final") /\ Has(i, "Observed") /\ ~ HasTerminal(i)
  BY DEF RecoverPromotion, Unwritten, Observed, index, call, ghost
<1>2. ~ Has(i, "DeleteRequested") /\ ~ Has(i, "DeleteCompleted")
  <2>1. ~ Has(i, "WriteCompleted")
    BY <1>1 DEF HasTerminal, Terminals, WriteOutcomes
  <2> QED BY <2>1 DEF ScreenshotsInv, Begun, Has
<1> QED  BY <1>1, <1>2, RecoveringFile

LEMMA RecoverStrayKeeps ==
  ASSUME ScreenshotsInv, NEW i \in Images, RecoverStray(i)
  PROVE  ScreenshotsInv'
<1>1. /\ UNCHANGED <<now, journal, rows, cursor, open, step, image, at, batch, preview, confirmed,
                     lost, faults>>
      /\ step = "recover" /\ MoveSynced(i, "none") /\ file[i] = "provisional"
  BY DEF RecoverStray, Stray, index, call, ghost
<1> QED  BY <1>1, RecoveringFile

LEMMA RecoverUnlinkKeeps ==
  ASSUME ScreenshotsInv, NEW i \in Images, RecoverUnlink(i)
  PROVE  ScreenshotsInv'
<1>1. /\ UNCHANGED <<now, journal, rows, cursor, open, step, image, at, batch, preview, confirmed,
                     lost, faults>>
      /\ step = "recover" /\ MoveSynced(i, "none") /\ Has(i, "DeleteRequested")
  BY DEF RecoverUnlink, Undeleted, index, call, ghost
<1> QED  BY <1>1, RecoveringFile

\* Recovery writes a record.
LEMMA RecoveringRecord ==
  ASSUME ScreenshotsInv, step = "recover",
         UNCHANGED <<now, rows, cursor, open, step, image, at, batch, preview, confirmed,
                     lost, faults>>,
         NEW e \in Event, AppendEvent(e), Admissible(e),
         Places2', \A j \in Images : Left(j), Stands(e.image)'
  PROVE  ScreenshotsInv'
<1>1. /\ Filed' /\ Begun' /\ Requested'
      /\ \A j : j # e.image => \A a : Has(j, a)' <=> Has(j, a)
  BY Recording
<1>2. PICK i \in Images : i = e.image
  BY EventHas
<1>3. Settled' /\ FilesAgree'
  BY <1>1, <1>2, OthersStand
<1>4. Typed' /\ Operating' /\ Writing' /\ Deleting'
  BY Recovering DEF ScreenshotsInv, Typed
<1> QED  BY <1>1, <1>3, <1>4 DEF ScreenshotsInv

LEMMA RecoverWriteKeeps ==
  ASSUME ScreenshotsInv, NEW i \in Images, RecoverWrite(i)
  PROVE  ScreenshotsInv'
<1>1. /\ UNCHANGED <<now, rows, cursor, open, step, image, at, batch, preview, confirmed, lost,
                     faults>>
      /\ step = "recover" /\ Has(i, "Observed") /\ ~ HasTerminal(i)
      /\ file[i] # "provisional"
  BY DEF RecoverWrite, Unwritten, Observed, index, call, ghost
<1>2. PICK a \in {"WriteCompleted", "WriteFailed"} :
        a = IF file[i] = "final" THEN "WriteCompleted" ELSE "WriteFailed"
  OBVIOUS
<1>3. AppendEvent(NewEvent(a, i, at, 0))
  BY <1>2 DEF RecoverWrite
<1>4. at \in Instants
  BY <1>1 DEF ScreenshotsInv, Operating
<1>5. PICK e \in Event : e = NewEvent(a, i, at, 0) /\ e.action = a /\ e.image = i
  BY <1>2, <1>4, NewEventHas DEF Actions, Terminals, WriteOutcomes
<1>6. AppendEvent(e) /\ Admissible(e)
  BY <1>1, <1>2, <1>3, <1>5 DEF Admissible
<1>7. /\ Places2' /\ \A j \in Images : Left(j)
      /\ file' = file
      /\ settled'[i] = IF file[i] = "final" THEN "final" ELSE settled[i]
  <2>1. CASE file[i] = "final"
    <3>1. SyncDirectory(i)
      BY <2>1 DEF RecoverWrite
    <3> QED BY <2>1, <3>1, DirectorySynced
  <2>2. CASE file[i] # "final"
    <3>1. file' = file /\ settled' = settled
      BY <2>2 DEF RecoverWrite, disk
    <3> QED BY <2>2, <3>1 DEF ScreenshotsInv, Typed, Places2, Left
  <2> QED BY <2>1, <2>2
<1>8. /\ Logged' = Logged \cup {e}
      /\ \A j, b : Has(j, b)' <=> Has(j, b) \/ (e.image = j /\ e.action = b)
  BY <1>1, <1>6, Recording
<1>9. /\ ~ Has(i, "WriteCompleted") /\ ~ Has(i, "WriteFailed") /\ ~ Has(i, "DeleteRequested")
      /\ ~ Has(i, "DeleteCompleted")
  <2>1. ~ Has(i, "WriteCompleted") /\ ~ Has(i, "WriteFailed")
    BY <1>1 DEF HasTerminal, Terminals, WriteOutcomes
  <2> QED BY <2>1 DEF ScreenshotsInv, Begun, Has
<1>10. Stands(i)
  BY AllStand DEF ScreenshotsInv
<1>11. Stands(i)'
  <2>1. ~ Has(i, "DeleteRequested")' /\ ~ Has(i, "DeleteCompleted")' /\ Has(i, "Observed")'
    BY <1>1, <1>2, <1>5, <1>8, <1>9
  <2>2. CASE file[i] = "final"
    <3>1. file'[i] = "final" /\ settled'[i] = "final" /\ ~ Has(i, "WriteFailed")'
      BY <1>2, <1>5, <1>7, <1>8, <1>9, <2>2
    <3> QED BY <2>1, <3>1 DEF Stands
  <2>3. CASE file[i] # "final"
    <3>1. file'[i] # "final" /\ settled'[i] # "final" /\ ~ Has(i, "WriteCompleted")'
      BY <1>2, <1>5, <1>7, <1>8, <1>9, <1>10, <2>3 DEF Stands
    <3> QED BY <2>1, <3>1 DEF Stands
  <2> QED BY <2>2, <2>3
<1>12. Stands(e.image)'
  BY <1>5, <1>11 DEF Stands
<1> QED  BY <1>1, <1>5, <1>6, <1>7, <1>12, RecoveringRecord

LEMMA RecoverMissingKeeps ==
  ASSUME ScreenshotsInv, NEW i \in Images, RecoverMissing(i)
  PROVE  ScreenshotsInv'
<1>1. /\ UNCHANGED <<now, file, settled, rows, cursor, open, step, image, at, batch, preview,
                     confirmed, lost, faults>>
      /\ step = "recover" /\ Has(i, "Observed") /\ Has(i, "WriteCompleted") /\ file[i] # "final"
      /\ AppendEvent(NewEvent("Missing", i, at, 0))
  BY DEF RecoverMissing, Vanished, Observed, disk, index, call, ghost
<1>2. at \in Instants
  BY <1>1 DEF ScreenshotsInv, Operating
<1>3. PICK e \in Event : e = NewEvent("Missing", i, at, 0) /\ e.action = "Missing" /\ e.image = i
  BY <1>2, NewEventHas DEF Actions, Terminals
<1>4. AppendEvent(e) /\ Admissible(e)
  BY <1>1, <1>3 DEF Admissible
<1>5. /\ Logged' = Logged \cup {e}
      /\ \A j, b : Has(j, b)' <=> Has(j, b) \/ (e.image = j /\ e.action = b)
  BY <1>1, <1>4, Recording
<1>6. Stands(i)'
  <2>1. Stands(i)
    BY AllStand DEF ScreenshotsInv
  <2>2. \A a : a # "Missing" => (Has(i, a)' <=> Has(i, a))
    BY <1>3, <1>5
  <2>3. HasTerminal(i)
    BY <1>1 DEF HasTerminal, Terminals, WriteOutcomes
  <2> QED BY <1>1, <2>1, <2>2, <2>3 DEF Stands
<1>7. Stands(e.image)' /\ \A j \in Images : Left(j)
  BY <1>1, <1>3, <1>6 DEF Stands, Left
<1>8. Places2'
  BY <1>1 DEF ScreenshotsInv, Typed, Places2
<1> QED  BY <1>1, <1>3, <1>4, <1>7, <1>8, RecoveringRecord

\* The record by which recovery completes a deletion names its request.
LEMMA RecordedHas ==
  ASSUME Filed, NEW i, NEW a, Has(i, a)
  PROVE  /\ Recorded(i, a) \in Logged /\ Recorded(i, a) \in Event
         /\ Recorded(i, a).image = i /\ Recorded(i, a).action = a
<1>1. Recorded(i, a) \in Logged /\ Recorded(i, a).image = i /\ Recorded(i, a).action = a
  BY DEF Recorded, Has
<1> QED  BY <1>1, LoggedHas

LEMMA RecoverDeleteHas ==
  ASSUME ScreenshotsInv, NEW i \in Images, RecoverDelete(i)
  PROVE  /\ UNCHANGED <<now, file, settled, rows, cursor, open, step, image, at, batch, preview,
                        confirmed, lost, faults>>
         /\ step = "recover" /\ Has(i, "DeleteRequested") /\ ~ Has(i, "DeleteCompleted")
         /\ file[i] = "none" /\ settled[i] = "none"
         /\ \E e \in Event :
              /\ e = NewEvent("DeleteCompleted", i, at, Recorded(i, "DeleteRequested").requested)
              /\ e.action = "DeleteCompleted" /\ e.image = i /\ e.recorded = at
              /\ e.requested = Recorded(i, "DeleteRequested").requested
              /\ AppendEvent(e)
<1>1. /\ UNCHANGED <<now, file, settled, rows, cursor, open, step, image, at, batch, preview,
                     confirmed, lost, faults>>
      /\ step = "recover" /\ Has(i, "DeleteRequested") /\ ~ Has(i, "DeleteCompleted")
      /\ file[i] = "none" /\ settled[i] = "none"
      /\ AppendEvent(NewEvent("DeleteCompleted", i, at, Recorded(i, "DeleteRequested").requested))
  BY DEF RecoverDelete, Undeleted, disk, index, call, ghost
<1>2. PICK r : r = Recorded(i, "DeleteRequested").requested
  OBVIOUS
<1>3. r \in Instants \cup {0} /\ at \in Instants
  BY <1>1, <1>2, RecordedHas, EventHas DEF ScreenshotsInv, Operating
<1>4. PICK e \in Event : /\ e = NewEvent("DeleteCompleted", i, at, r)
                         /\ e.action = "DeleteCompleted" /\ e.image = i /\ e.recorded = at
                         /\ e.requested = r
  BY <1>3, NewEventHas DEF Actions
<1> QED  BY <1>1, <1>2, <1>4

LEMMA RecoverDeleteKeeps ==
  ASSUME ScreenshotsInv, NEW i \in Images, RecoverDelete(i)
  PROVE  ScreenshotsInv'
<1>1. /\ UNCHANGED <<now, file, settled, rows, cursor, open, step, image, at, batch, preview,
                     confirmed, lost, faults>>
      /\ step = "recover" /\ Has(i, "DeleteRequested")
      /\ file[i] = "none" /\ settled[i] = "none"
  BY RecoverDeleteHas
<1>2. PICK e \in Event : e.action = "DeleteCompleted" /\ e.image = i /\ AppendEvent(e)
  BY RecoverDeleteHas
<1>3. Has(i, "Observed") /\ Has(i, "WriteCompleted")
  BY <1>1 DEF ScreenshotsInv, Begun, Has
<1>4. Admissible(e)
  BY <1>2, <1>3 DEF Admissible
<1>5. \A j, b : Has(j, b)' <=> Has(j, b) \/ (e.image = j /\ e.action = b)
  BY <1>1, <1>2, <1>4, Recording
<1>6. Stands(e.image)'
  <2>1. Has(i, "Observed")' /\ Has(i, "DeleteRequested")'
    BY <1>1, <1>3, <1>5
  <2> QED BY <1>1, <1>2, <2>1 DEF Stands
<1>7. Places2' /\ \A j \in Images : Left(j)
  BY <1>1 DEF ScreenshotsInv, Typed, Places2, Left
<1> QED  BY <1>1, <1>2, <1>4, <1>6, <1>7, RecoveringRecord

\* What is projected leaves everything else.
LEMMA RecoveringIndex ==
  ASSUME ScreenshotsInv, step = "recover",
         UNCHANGED <<now, journal, file, settled, open, step, image, at, batch, preview, confirmed,
                     lost, faults>>,
         Filed', rows' \in [Images -> States]
  PROVE  ScreenshotsInv'
<1>1. Logged' = Logged /\ Begun' /\ Requested'
  BY SameLog, BegunStays DEF ScreenshotsInv
<1>2. Settled' /\ FilesAgree'
  BY <1>1, FilesStay DEF Left
<1>3. Typed' /\ Operating' /\ Writing' /\ Deleting'
  <2>1. Places2'
    BY DEF ScreenshotsInv, Typed, Places2
  <2> QED BY <2>1, Recovering
<1> QED  BY <1>1, <1>2, <1>3 DEF ScreenshotsInv

\* The next record of the earliest shard that has one.
LEMMA UnindexedHas ==
  ASSUME Filed, NEW d \in Unindexed, NEW e, e = journal[d][cursor[d] + 1]
  PROVE  /\ d \in Days /\ e \in Logged /\ Day(e.recorded) = d /\ Position(e) = cursor[d] + 1
         /\ Behind(e) /\ cursor[d] \in Nat
<1>1. d \in Days /\ cursor[d] \in Nat /\ cursor[d] < Len(journal[d]) /\ Len(journal[d]) \in Nat
  BY DEF Unindexed, Filed
<1>2. cursor[d] + 1 \in 1 .. Len(journal[d])
  BY <1>1
<1>3. e \in Logged /\ Day(e.recorded) = d /\ Position(e) = cursor[d] + 1
  BY <1>1, <1>2, LoggedHas
<1> QED  BY <1>1, <1>3 DEF Behind

LEMMA RecoverProjectionKeeps == ScreenshotsInv /\ RecoverProjection => ScreenshotsInv'
<1> SUFFICES ASSUME ScreenshotsInv, RecoverProjection PROVE ScreenshotsInv'
  OBVIOUS
<1>1. /\ UNCHANGED <<now, journal, file, settled, open, step, image, at, batch, preview,
                     confirmed, lost, faults>>
      /\ step = "recover"
  BY DEF RecoverProjection, disk, call, ghost
<1>2. PICK d \in Unindexed :
        /\ Projectable(rows[journal[d][cursor[d] + 1].image], journal[d][cursor[d] + 1])
        /\ Project(journal[d][cursor[d] + 1])
  BY DEF RecoverProjection
<1>3. PICK e : e = journal[d][cursor[d] + 1]
  OBVIOUS
<1>4. e \in Logged /\ Projects(e)
  BY <1>2, <1>3, UnindexedHas DEF ScreenshotsInv, Projects
<1>5. Filed' /\ rows' \in [Images -> States]
  BY <1>1, <1>2, <1>3, <1>4, Projecting
<1> QED  BY <1>1, <1>5, RecoveringIndex

\* The state that records leave behind.
LEMMA StateInHas ==
  ASSUME Filed, NEW E \in SUBSET Logged
  PROVE  StateIn(E) \in States
<1>1. CASE E = {}
  BY <1>1 DEF StateIn, States
<1>2. CASE E # {}
  <2>1. PICK e \in Logged : e = Latest(E)
    BY <1>2, LatestHas
  <2>2. e.action \in Actions
    BY LoggedHas, EventHas
  <2>3. StateAfter(e.action) \in States
    BY <2>2 DEF StateAfter, States, Actions, Terminals, WriteOutcomes
  <2> QED BY <1>2, <2>1, <2>3 DEF StateIn
<1> QED  BY <1>1, <1>2

LEMMA RebuildKeeps == ScreenshotsInv /\ Rebuild => ScreenshotsInv'
<1> SUFFICES ASSUME ScreenshotsInv, Rebuild PROVE ScreenshotsInv'
  OBVIOUS
<1>1. /\ UNCHANGED <<now, journal, file, settled, open, step, image, at, batch, preview,
                     confirmed, lost, faults>>
      /\ step = "recover" /\ rows' = Replayed /\ cursor' = [d \in Days |-> Len(journal[d])]
  BY DEF Rebuild, disk, call, ghost
<1>2. \A i \in Images : StateIn(Of(i)) \in States
  <2> TAKE i \in Images
  <2>1. Of(i) \in SUBSET Logged
    BY DEF Of
  <2> QED BY <2>1, StateInHas DEF ScreenshotsInv
<1>3. rows' \in [Images -> States]
  BY <1>1, <1>2 DEF Replayed
<1>4. Filed'
  BY <1>1 DEF ScreenshotsInv, Filed
<1> QED  BY <1>1, <1>3, <1>4, RecoveringIndex

-----------------------------------------------------------------------------
(* The environment                                                           *)

LEMMA CrashKeeps == ScreenshotsInv /\ Crash => ScreenshotsInv'
<1> SUFFICES ASSUME ScreenshotsInv, Crash PROVE ScreenshotsInv'
  OBVIOUS
<1>1. /\ UNCHANGED <<now, journal, rows, cursor, confirmed, lost>>
      /\ Fault /\ Done /\ open' = FALSE /\ preview' = NoPreview
      /\ file' \in [Images -> Places] /\ settled' = file'
      /\ \A i \in Images : file'[i] \in {file[i], settled[i]}
  BY DEF Crash, index, ghost
<1>2. Logged' = Logged /\ Filed' /\ Begun' /\ Requested'
  BY <1>1, SameLog, FiledStays, BegunStays DEF ScreenshotsInv
<1>3. Settled' /\ FilesAgree'
  BY <1>1, <1>2, FilesStay DEF Left
<1>4. Typed'
  <2>1. faults' \in 0 .. MaxFaults
    BY <1>1, FaultHas DEF ScreenshotsInv
  <2>2. preview'.cutoff = 0 /\ preview'.candidates = {}
    BY <1>1 DEF NoPreview
  <2> QED BY <1>1, <2>1, <2>2, DoneHas DEF ScreenshotsInv, Typed, Places2
<1> QED  BY <1>1, <1>2, <1>3, <1>4, DoneHas DEF ScreenshotsInv

LEMMA QuitKeeps == ScreenshotsInv /\ Quit => ScreenshotsInv'
<1> SUFFICES ASSUME ScreenshotsInv, Quit PROVE ScreenshotsInv'
  OBVIOUS
<1>1. /\ UNCHANGED <<now, journal, file, settled, rows, cursor, step, image, at, batch, confirmed,
                     lost, faults>>
      /\ open' = FALSE /\ preview' = NoPreview
  BY DEF Quit, disk, index, ghost
<1>2. Logged' = Logged /\ Filed' /\ Begun' /\ Requested'
  BY <1>1, SameLog, FiledStays, BegunStays DEF ScreenshotsInv
<1>3. Settled' /\ FilesAgree'
  BY <1>1, <1>2, FilesStay DEF Left
<1>4. Operating' /\ Writing' /\ Deleting'
  BY <1>1, OperationStays
<1>5. Typed'
  <2>1. preview'.cutoff = 0 /\ preview'.candidates = {}
    BY <1>1 DEF NoPreview
  <2> QED BY <1>1, <2>1 DEF ScreenshotsInv, Typed, Places2
<1> QED  BY <1>2, <1>3, <1>4, <1>5 DEF ScreenshotsInv

LEMMA LoseKeeps ==
  ASSUME ScreenshotsInv, NEW i \in Images, Lose(i)
  PROVE  ScreenshotsInv'
<1>1. /\ UNCHANGED <<now, journal, rows, cursor, open, step, image, at, batch, preview, confirmed>>
      /\ step = "ready" /\ Fault /\ MoveSynced(i, "none") /\ lost' = lost \cup {i}
      /\ file[i] = "final"
  BY DEF Lose, index, call
<1>2. Logged' = Logged /\ Filed' /\ Begun' /\ Requested'
  BY <1>1, SameLog, FiledStays, BegunStays DEF ScreenshotsInv
<1>3. /\ Places2' /\ file'[i] = "none" /\ settled'[i] = "none"
      /\ \A j \in Images : j # i => Left(j)
  BY <1>1, MovedSynced DEF Places
<1>4. Settled' /\ FilesAgree'
  <2>1. Stands(i)'
    BY <1>1, <1>3 DEF Stands
  <2> QED BY <1>1, <1>2, <1>3, <2>1, HasSame, OthersStand
<1>5. Typed'
  <2>1. faults' \in 0 .. MaxFaults
    BY <1>1, FaultHas DEF ScreenshotsInv
  <2> QED BY <1>1, <1>3, <2>1 DEF ScreenshotsInv, Typed
<1>6. Operating' /\ Writing' /\ Deleting'
  BY <1>1 DEF ScreenshotsInv, Operating, Writing, Deleting, WriteSteps, ProjectSteps,
              DeleteSteps, AskedSteps
<1> QED  BY <1>2, <1>4, <1>5, <1>6 DEF ScreenshotsInv

\* What neither the files nor the operation are about.
LEMMA OutsideKeeps ==
  ASSUME ScreenshotsInv,
         UNCHANGED <<journal, file, settled, open, step, image, at, batch, preview, confirmed, lost>>,
         now' \in Instants, faults' \in 0 .. MaxFaults,
         Filed', rows' \in [Images -> States]
  PROVE  ScreenshotsInv'
<1>1. Logged' = Logged /\ Begun' /\ Requested'
  BY SameLog, BegunStays DEF ScreenshotsInv
<1>2. Settled' /\ FilesAgree'
  BY <1>1, FilesStay DEF Left
<1>3. Operating' /\ Writing' /\ Deleting'
  BY OperationStays
<1>4. Typed'
  BY DEF ScreenshotsInv, Typed, Places2
<1> QED  BY <1>1, <1>2, <1>3, <1>4 DEF ScreenshotsInv

LEMMA TimeKeeps == ScreenshotsInv /\ (Tick \/ Correct) => ScreenshotsInv'
<1> SUFFICES ASSUME ScreenshotsInv, Tick \/ Correct PROVE ScreenshotsInv'
  OBVIOUS
<1>1. /\ UNCHANGED <<journal, file, settled, rows, cursor, open, step, image, at, batch, preview,
                     confirmed, lost>>
      /\ now' \in Instants
      /\ Fault \/ UNCHANGED faults
  <2>1. now \in Instants /\ MaxInstant \in Nat
    BY ScreenshotsAssumption DEF ScreenshotsInv, Typed
  <2>2. CASE Tick
    BY <2>1, <2>2 DEF Tick, Instants, disk, index, call, ghost
  <2>3. CASE Correct
    BY <2>1, <2>3 DEF Correct, Instants, disk, index, call, ghost
  <2> QED BY <2>2, <2>3
<1>2. faults' \in 0 .. MaxFaults
  BY <1>1, FaultHas DEF ScreenshotsInv, Typed
<1>3. Filed' /\ rows' \in [Images -> States]
  BY <1>1, FiledStays DEF ScreenshotsInv, Typed
<1> QED  BY <1>1, <1>2, <1>3, OutsideKeeps

LEMMA LoseIndexKeeps == ScreenshotsInv /\ LoseIndex => ScreenshotsInv'
<1> SUFFICES ASSUME ScreenshotsInv, LoseIndex PROVE ScreenshotsInv'
  OBVIOUS
<1>1. /\ UNCHANGED <<now, journal, file, settled, open, step, image, at, batch, preview,
                     confirmed, lost>>
      /\ Fault /\ rows' = [i \in Images |-> "none"] /\ cursor' = [d \in Days |-> 0]
  BY DEF LoseIndex, disk, call, ghost
<1>2. faults' \in 0 .. MaxFaults /\ now' \in Instants
  BY <1>1, FaultHas DEF ScreenshotsInv, Typed
<1>3. Filed' /\ rows' \in [Images -> States]
  BY <1>1 DEF ScreenshotsInv, Filed, States
<1> QED  BY <1>1, <1>2, <1>3, OutsideKeeps

LEMMA SettledStep == ScreenshotsInv /\ UNCHANGED vars => ScreenshotsInv'
<1> SUFFICES ASSUME ScreenshotsInv, UNCHANGED vars PROVE ScreenshotsInv'
  OBVIOUS
<1>1. UNCHANGED <<now, journal, file, settled, rows, cursor, open, step, image, at, batch, preview,
                  confirmed, lost, faults>>
  BY DEF vars, disk, index, call, ghost
<1>2. /\ Filed' /\ rows' \in [Images -> States] /\ now' \in Instants
      /\ faults' \in 0 .. MaxFaults
  BY <1>1, FiledStays DEF ScreenshotsInv, Typed
<1> QED  BY <1>1, <1>2, OutsideKeeps

-----------------------------------------------------------------------------
(* Every step                                                                *)

LEMMA InitHolds == Init => ScreenshotsInv
<1> SUFFICES ASSUME Init PROVE ScreenshotsInv
  OBVIOUS
<1>1. /\ now = 1 /\ at = 0 /\ step = "ready" /\ image = NoImage /\ batch = <<>>
      /\ file = [i \in Images |-> "none"] /\ settled = file
      /\ rows = [i \in Images |-> "none"] /\ cursor = [d \in Days |-> 0]
      /\ open = FALSE /\ preview.cutoff = 0 /\ preview.candidates = {} /\ confirmed = {}
      /\ lost = {} /\ faults = 0 /\ journal = [d \in Days |-> <<>>]
  BY DEF Init, NoPreview
<1>2. Typed
  <2>1. now \in Instants /\ at \in Instants \cup {0}
    BY <1>1, ScreenshotsAssumption DEF Instants
  <2>2. Places2 /\ rows \in [Images -> States]
    BY <1>1 DEF Places2, Places, States
  <2>3. open \in BOOLEAN /\ step \in Steps /\ image \in Images \cup {NoImage} /\ batch \in Seq(Images)
    <3>1. open \in BOOLEAN
      BY <1>1
    <3>2. step \in Steps
      BY <1>1 DEF Steps
    <3>3. image \in Images \cup {NoImage}
      BY <1>1
    <3>4. batch \in Seq(Images)
      BY <1>1
    <3> QED BY <3>1, <3>2, <3>3, <3>4
  <2>4. /\ preview.cutoff \in Instants \cup {0} /\ preview.candidates \subseteq Images
        /\ confirmed \subseteq Images /\ lost \subseteq Images
    BY <1>1
  <2>5. faults \in 0 .. MaxFaults
    BY <1>1, ScreenshotsAssumption
  <2> QED BY <2>1, <2>2, <2>3, <2>4, <2>5 DEF Typed
<1>3. \A d \in Days : journal[d] = <<>>
  BY <1>1
<1>4. Logged = {}
  BY <1>3 DEF Logged, ToSet
<1>5. Filed
  BY <1>1, <1>3 DEF Filed
<1>6. Operating /\ Writing /\ Deleting
  BY <1>1 DEF Operating, Writing, Deleting, WriteSteps, ProjectSteps, DeleteSteps, AskedSteps
<1>7. \A i, a : ~ Has(i, a)
  BY <1>4 DEF Has
<1>8. Begun /\ Requested
  BY <1>4 DEF Begun, Requested
<1>9. Settled /\ FilesAgree
  BY <1>1, <1>7, AllStand DEF Stands
<1> QED  BY <1>2, <1>5, <1>6, <1>8, <1>9 DEF ScreenshotsInv

LEMMA NextKeeps == ScreenshotsInv /\ [Next]_vars => ScreenshotsInv'
<1> SUFFICES ASSUME ScreenshotsInv, [Next]_vars PROVE ScreenshotsInv'
  OBVIOUS
<1>1. CASE Retain
  BY <1>1, ProvisionKeeps, ObserveKeeps, PromoteKeeps, SettleKeeps, CompleteWriteKeeps,
     ProjectWriteKeeps, ProjectWriteCompletionKeeps DEF Retain
<1>2. CASE Preview \/ Apply \/ Recover
  BY <1>2, PreviewKeeps, ApplyKeeps, RecoverKeeps
<1>3. CASE Delete
  BY <1>3, AskKeeps, ProjectRequestKeeps, UnlinkKeeps, SettleUnlinkKeeps, CompleteDeleteKeeps,
     ProjectDeleteKeeps DEF Delete
<1>4. CASE Recovery
  BY <1>4, RecoverPromotionKeeps, RecoverWriteKeeps, RecoverMissingKeeps, RecoverStrayKeeps,
     RecoverUnlinkKeeps, RecoverDeleteKeeps, RecoverProjectionKeeps, RebuildKeeps, EndingsKeep
     DEF Recovery
<1>5. CASE Failure
  BY <1>5, ObserveFailsKeeps, CompleteWriteFailsKeeps, AskFailsKeeps, CompleteDeleteFailsKeeps,
     EndingsKeep DEF Failure
<1>6. CASE Environment
  BY <1>6, CrashKeeps, QuitKeeps, LoseKeeps, LoseIndexKeeps, TimeKeeps DEF Environment
<1>7. CASE UNCHANGED vars
  BY <1>7, SettledStep
<1> QED  BY <1>1, <1>2, <1>3, <1>4, <1>5, <1>6, <1>7 DEF Next

LEMMA Always == Spec => []ScreenshotsInv
BY InitHolds, NextKeeps, PTL DEF Spec

LEMMA InvTyped == ScreenshotsInv => TypeOK
BY DEF ScreenshotsInv, Typed, Filed, Places2, TypeOK

LEMMA InvAgrees == ScreenshotsInv => FilesAgree
BY DEF ScreenshotsInv

\* Every variable keeps its type.
THEOREM TypeCorrect == Spec => []TypeOK
BY Always, InvTyped, PTL

\* Whatever step fails, dies or loses its power, the files of the images are what the
\* canonical records say of them: what they call retained is stored for good, what they
\* call deleted or never written has no file, and no power loss changes that.
THEOREM FilesAlwaysAgree == Spec => []FilesAgree
BY Always, InvAgrees, PTL

-----------------------------------------------------------------------------
(* What removes an image                                                     *)

LEMMA AskedFor ==
  ASSUME ScreenshotsInv, NEW i, Has(i, "DeleteRequested")
  PROVE  i \in confirmed /\ Expires(i) <= Recorded(i, "DeleteRequested").recorded
<1>1. Has(i, "Observed")
  BY NothingHas DEF ScreenshotsInv
<1>2. PICK e \in Logged : e = Recorded(i, "DeleteRequested") /\ e.image = i
                          /\ e.action = "DeleteRequested"
  BY RecordedHas DEF ScreenshotsInv
<1>3. PICK o \in Logged : o = Recorded(i, "Observed") /\ o.image = i /\ o.action = "Observed"
  BY <1>1, RecordedHas DEF ScreenshotsInv
<1>4. i \in confirmed /\ Expired(i, e.recorded)
  BY <1>2 DEF ScreenshotsInv, Requested
<1>5. o.recorded + Lifetime <= e.recorded
  BY <1>3, <1>4 DEF Expired
<1> QED  BY <1>2, <1>3, <1>4, <1>5 DEF Expires

LEMMA RemovedOnly ==
  ASSUME ScreenshotsInv, [Next]_vars, NEW i \in Images, file[i] = "final", file'[i] # "final"
  PROVE  i \in lost' \/ i \in Unwritten \/ Has(i, "DeleteRequested")
<1>1. Stands(i)
  BY AllStand DEF ScreenshotsInv
<1>2. Has(i, "Observed")
  BY <1>1 DEF Stands
<1>3. file \in [Images -> Places]
  BY DEF ScreenshotsInv, Typed, Places2
<1>4. file' # file
  OBVIOUS
<1>5. ASSUME NEW j \in Images, NEW place, file' = [file EXCEPT ![j] = place], j # i PROVE FALSE
  BY <1>3, <1>5
<1>6. CASE Retain
  <2>1. PICK j \in Images : Provision(j)
    <3>1. ~ (Observe \/ Settle \/ CompleteWrite \/ ProjectWrite \/ ProjectWriteCompletion)
      BY <1>4 DEF Observe, Settle, CompleteWrite, ProjectWrite, ProjectWriteCompletion, disk,
                  SyncDirectory
    <3>2. ASSUME Promote PROVE FALSE
      <4>1. file' = [file EXCEPT ![image] = "final"]
        BY <3>2 DEF Promote, Move
      <4> QED BY <1>3, <4>1
    <3> QED BY <1>6, <3>1, <3>2 DEF Retain
  <2>2. file[j] = "none" /\ file' = [file EXCEPT ![j] = "provisional"]
    BY <2>1 DEF Provision, MoveSynced
  <2> QED BY <1>5, <2>2
<1>7. CASE Delete
  <2>1. Unlink
    BY <1>4, <1>7 DEF Delete, Ask, ProjectRequest, SettleUnlink, CompleteDelete, ProjectDelete, disk,
                      SyncDirectory
  <2>2. image \in Images /\ file' = [file EXCEPT ![image] = "none"] /\ Request(image) \in Logged
        /\ Request(image).image = image /\ Request(image).action = "DeleteRequested"
    BY <2>1, EventsHave DEF Unlink, Move, ScreenshotsInv, Deleting, AskedSteps
  <2>3. image = i
    BY <1>5, <2>2
  <2> QED BY <2>2, <2>3 DEF Has
<1>8. CASE Recovery
  <2>1. PICK j \in Images : RecoverPromotion(j) \/ RecoverStray(j) \/ RecoverUnlink(j)
    <3>1. ~ (RecoverProjection \/ Rebuild \/ Recovered \/ Defer)
      BY <1>4 DEF RecoverProjection, Rebuild, Recovered, Defer, disk
    <3>2. ASSUME NEW k \in Images PROVE ~ (RecoverWrite(k) \/ RecoverMissing(k) \/ RecoverDelete(k))
      BY <1>4 DEF RecoverWrite, RecoverMissing, RecoverDelete, disk, SyncDirectory
    <3> QED BY <1>8, <3>1, <3>2 DEF Recovery
  <2>2. ASSUME RecoverPromotion(j) PROVE FALSE
    <3>1. file' = [file EXCEPT ![j] = "final"]
      BY <2>2 DEF RecoverPromotion, MoveSynced
    <3> QED BY <1>3, <1>5, <3>1
  <2>3. CASE RecoverStray(j)
    BY <1>3, <1>5, <2>3 DEF RecoverStray, Stray, MoveSynced
  <2>4. CASE RecoverUnlink(j)
    <3>1. j = i
      BY <1>5, <2>4 DEF RecoverUnlink, MoveSynced
    <3> QED BY <2>4, <3>1 DEF RecoverUnlink, Undeleted
  <2> QED BY <2>1, <2>2, <2>3, <2>4
<1>9. CASE Failure
  <2>1. ObserveFails
    BY <1>4, <1>9 DEF Failure, CompleteWriteFails, AskFails, CompleteDeleteFails, ProjectionRefuses,
                      OtherStepFails, RecoveryFails, disk
  <2>2. image \in Images /\ ~ Has(image, "Observed") /\ file' = [file EXCEPT ![image] = "none"]
    BY <2>1, EventsHave DEF ObserveFails, MoveSynced, ScreenshotsInv, Writing
  <2> QED BY <1>2, <1>5, <2>2
<1>10. CASE Environment
  <2>1. CASE Crash
    <3>1. settled[i] # "final"
      BY <2>1 DEF Crash
    <3> QED BY <1>1, <1>2, <3>1 DEF Stands, Unwritten, Observed
  <2>2. ASSUME NEW j \in Images, Lose(j) PROVE i \in lost'
    <3>1. file' = [file EXCEPT ![j] = "none"] /\ lost' = lost \cup {j}
      BY <2>2 DEF Lose, MoveSynced
    <3> QED BY <1>5, <3>1
  <2>3. ~ (Quit \/ LoseIndex \/ Tick \/ Correct)
    BY <1>4 DEF Quit, LoseIndex, Tick, Correct, disk
  <2> QED BY <1>10, <2>1, <2>2, <2>3 DEF Environment
<1>11. ~ (Preview \/ Apply \/ Recover \/ UNCHANGED vars)
  BY <1>4 DEF Preview, Apply, Recover, vars, disk
<1> QED  BY <1>6, <1>7, <1>8, <1>9, <1>10, <1>11 DEF Next

LEMMA RemovedConfirmed ==
  ScreenshotsInv /\ [Next]_vars =>
    [\A i \in Images :
       file[i] = "final" /\ file'[i] # "final" /\ ~ Has(i, "WriteFailed")
         => \/ i \in lost'
            \/ i \in Unwritten
            \/ i \in confirmed /\ Has(i, "DeleteRequested")
               /\ Expires(i) <= Recorded(i, "DeleteRequested").recorded]_vars
BY RemovedOnly, AskedFor

\* Nothing takes a retained image away but a deletion of an expired image that the user
\* confirmed and the journal recorded, or somebody's hand: no failure, death, power loss
\* or recovery does.
THEOREM OnlyConfirmedRemoved == Spec => OnlyConfirmedUnlinked
BY Always, RemovedConfirmed, PTL DEF Spec, OnlyConfirmedUnlinked

-----------------------------------------------------------------------------
(* The order of the records                                                  *)

LEMMA EarlierHas ==
  ASSUME Filed, NEW e \in Logged, NEW f \in Logged
  PROVE  /\ Earlier(e, f) => ~ Earlier(f, e) /\ e # f
         /\ \A g \in Logged : Earlier(e, f) /\ Earlier(f, g) => Earlier(e, g)
<1>1. \A x \in Logged : Day(x.recorded) \in Int /\ Position(x) \in Int
  BY LoggedHas DEF Days
<1>2. Earlier(e, f) => ~ Earlier(f, e) /\ e # f
  BY <1>1 DEF Earlier
<1>3. \A g \in Logged : Earlier(e, f) /\ Earlier(f, g) => Earlier(e, g)
  BY <1>1 DEF Earlier
<1> QED  BY <1>2, <1>3

LEMMA SameOrder ==
  ASSUME journal' = journal
  PROVE  /\ Logged' = Logged
         /\ \A e, f : Earlier(e, f)' <=> Earlier(e, f)
         /\ \A i, a : Has(i, a)' <=> Has(i, a)
         /\ \A i : Of(i)' = Of(i)
<1>1. Logged' = Logged /\ \A e : Position(e)' = Position(e)
  BY SameLog
<1>2. \A e, f : Earlier(e, f)' <=> Earlier(e, f)
  BY <1>1 DEF Earlier
<1> QED  BY <1>1, <1>2, HasSame DEF Of

LEMMA OrderStays ==
  ASSUME OrderedInv, UNCHANGED journal, Day(now) <= Day(now'), now' \in Instants,
         ScreenshotsInv,
         \/ step' = "ready"
         \/ Day(at') <= Day(now') /\ \A e \in Logged : Day(e.recorded) <= Day(at'),
         Batched', RowsFollow'
  PROVE  OrderedInv'
<1>1. /\ Logged' = Logged
      /\ \A e, f : Earlier(e, f)' <=> Earlier(e, f)
      /\ \A i, a : Has(i, a)' <=> Has(i, a)
  BY SameOrder
<1>2. InDayOrder'
  <2>1. \A e \in Logged : Day(e.recorded) \in Nat
    BY LoggedHas DEF Days, ScreenshotsInv
  <2>2. \A e \in Logged : Day(e.recorded) <= Day(now)
    BY DEF OrderedInv, InDayOrder
  <2>3. Day(now) \in Nat /\ Day(now') \in Nat
    BY DayHas DEF Days, ScreenshotsInv, Typed
  <2>4. \A e \in Logged : Day(e.recorded) <= Day(now')
    BY <2>1, <2>2, <2>3
  <2> QED BY <1>1, <2>4 DEF InDayOrder
<1>3. Lifecycle'
  BY <1>1 DEF OrderedInv, Lifecycle
<1> QED  BY <1>2, <1>3 DEF OrderedInv

\* With the journal and the index, the rows keep following the records.
LEMMA RowsStay ==
  ASSUME OrderedInv, UNCHANGED <<journal, rows, cursor>>
  PROVE  RowsFollow'
<1>1. /\ Logged' = Logged /\ \A e, f : Earlier(e, f)' <=> Earlier(e, f)
      /\ \A i : Of(i)' = Of(i)
  BY SameOrder
<1>2. \A e : Behind(e)' <=> Behind(e)
  BY SameLog DEF Behind
<1>3. \A i : Taken(i)' = Taken(i)
  BY <1>1, <1>2 DEF Taken
<1> QED  BY <1>1, <1>3 DEF OrderedInv, RowsFollow

\* The records that an operation may make of an image, after those it has.
Successive(e) ==
  /\ ~ Has(e.image, e.action)
  /\ e.action = "WriteCompleted" => ~ Has(e.image, "WriteFailed")
  /\ e.action = "WriteFailed" => ~ Has(e.image, "WriteCompleted")
  /\ e.action = "DeleteRequested" => ~ Has(e.image, "Missing")
  /\ e.action = "Missing" => ~ Has(e.image, "DeleteRequested")
  /\ e.action = "DeleteCompleted" =>
       /\ Has(e.image, "DeleteRequested")
       /\ \A f \in Of(e.image) : f.action = "DeleteRequested" => f.requested = e.requested

\* A record of the present day is the latest of all.
LEMMA OrderGrows ==
  ASSUME ScreenshotsInv, InDayOrder, step # "ready", NEW e \in Event, e \notin Logged,
         e.recorded = at, AppendEvent(e), UNCHANGED cursor
  PROVE  /\ Logged' = Logged \cup {e}
         /\ \A f, g \in Logged : Earlier(f, g)' <=> Earlier(f, g)
         /\ \A f \in Logged : Earlier(f, e)'
         /\ \A f \in Logged : Behind(f)' <=> Behind(f)
         /\ Behind(e)'
<1>1. /\ Logged' = Logged \cup {e} /\ \A f \in Logged : Position(f)' = Position(f)
      /\ Position(e)' = Len(journal[Day(e.recorded)]) + 1
  BY Appends DEF ScreenshotsInv
<1>2. PICK d \in Days : d = Day(e.recorded)
  BY EventHas
<1>3. Len(journal[d]) \in Nat /\ cursor[d] \in Nat /\ cursor[d] <= Len(journal[d])
  BY DEF ScreenshotsInv, Filed
<1>4. \A f, g \in Logged : Earlier(f, g)' <=> Earlier(f, g)
  BY <1>1 DEF Earlier
<1>5. ASSUME NEW f \in Logged PROVE Earlier(f, e)'
  <2>1. /\ Day(f.recorded) \in Days /\ Position(f) \in 1 .. Len(journal[Day(f.recorded)])
        /\ Day(f.recorded) <= d
    BY <1>2, LoggedHas DEF InDayOrder, ScreenshotsInv
  <2>2. Day(f.recorded) \in Int /\ d \in Int
    BY <1>2, <2>1 DEF Days
  <2>3. CASE Day(f.recorded) = d
    <3>1. Position(f) < Len(journal[d]) + 1
      BY <1>3, <2>1, <2>3
    <3> QED BY <1>1, <1>2, <2>3, <3>1 DEF Earlier
  <2>4. CASE Day(f.recorded) # d
    <3>1. Day(f.recorded) < d
      BY <2>1, <2>2, <2>4
    <3> QED BY <1>2, <3>1 DEF Earlier
  <2> QED BY <2>3, <2>4
<1>6. \A f \in Logged : Behind(f)' <=> Behind(f)
  BY <1>1 DEF Behind
<1>7. Behind(e)'
  <2>1. cursor[d] < Len(journal[d]) + 1
    BY <1>3
  <2> QED BY <1>1, <1>2, <2>1 DEF Behind
<1> QED  BY <1>1, <1>4, <1>5, <1>6, <1>7

LEMMA LifecycleGrows ==
  ASSUME Begun, Lifecycle, NEW e \in Event, Successive(e),
         Logged' = Logged \cup {e},
         \A f, g \in Logged : Earlier(f, g)' <=> Earlier(f, g),
         \A f \in Logged : Earlier(f, e)'
  PROVE  Lifecycle'
<1>1. \A i, a : Has(i, a)' <=> Has(i, a) \/ (e.image = i /\ e.action = a)
  BY HasGrows
<1>2. \A f \in Logged : f.image = e.image => f.action # e.action
  BY DEF Successive, Has
<1>3. \A f, g \in Logged' : f.image = g.image /\ f.action = g.action => f = g
  BY <1>2 DEF Lifecycle
<1>4. ASSUME NEW f \in Logged', NEW g \in Logged', f.image = g.image,
             Precedes(f.action, g.action)
      PROVE  Earlier(f, g)'
  <2>1. CASE f \in Logged /\ g \in Logged
    BY <1>4, <2>1 DEF Lifecycle
  <2>2. CASE f \in Logged /\ g = e
    BY <2>2
  <2>3. CASE f = e /\ g \in Logged
    <3>1. Has(g.image, "Observed")
      BY <2>3 DEF Begun
    <3>2. g.action \in {"Missing", "DeleteRequested", "DeleteCompleted"}
            => Has(g.image, "WriteCompleted")
      BY <2>3 DEF Begun
    <3>3. ASSUME g.action = "DeleteCompleted" PROVE Has(g.image, "DeleteRequested")
      <4>1. g.image \in Images
        BY <1>4, <2>3, EventHas
      <4>2. Has(g.image, "DeleteCompleted")
        BY <2>3, <3>3 DEF Has
      <4> QED BY <4>1, <4>2 DEF Lifecycle
    <3>4. ~ Has(g.image, f.action)
      BY <1>4, <2>3 DEF Successive
    <3> QED BY <1>4, <3>1, <3>2, <3>3, <3>4 DEF Precedes
  <2>4. CASE f = e /\ g = e
    BY <1>4, <2>4 DEF Precedes
  <2> QED BY <2>1, <2>2, <2>3, <2>4
<1>5. ASSUME NEW i \in Images
      PROVE  /\ Has(i, "WriteCompleted")' => ~ Has(i, "WriteFailed")'
             /\ Has(i, "DeleteRequested")' => ~ Has(i, "Missing")'
             /\ Has(i, "DeleteCompleted")' => Has(i, "DeleteRequested")'
  BY <1>1, <1>5 DEF Lifecycle, Successive
<1>6. ASSUME NEW f \in Logged', NEW g \in Logged', f.image = g.image,
             f.action = "DeleteRequested", g.action = "DeleteCompleted"
      PROVE  f.requested = g.requested
  <2>1. CASE f \in Logged /\ g \in Logged
    BY <1>6, <2>1 DEF Lifecycle
  <2>2. CASE g = e
    BY <1>6, <2>2 DEF Successive, Of
  <2>3. CASE f = e /\ g \in Logged
    <3>1. Has(e.image, "DeleteCompleted") /\ e.image \in Images
      BY <1>6, <2>3, EventHas DEF Has
    <3> QED BY <1>6, <2>3, <3>1 DEF Lifecycle, Successive
  <2> QED BY <2>1, <2>2, <2>3
<1> QED  BY <1>3, <1>4, <1>5, <1>6 DEF Lifecycle

\* An operation or recovery makes a record.
LEMMA RecordOrdered ==
  ASSUME ScreenshotsInv, OrderedInv, step # "ready", NEW e \in Event, e.recorded = at,
         Successive(e), AppendEvent(e), UNCHANGED <<now, rows, cursor>>,
         step' = "ready" \/ UNCHANGED at, Batched'
  PROVE  OrderedInv'
<1>1. e \notin Logged
  BY DEF Successive, Has
<1>2. /\ Logged' = Logged \cup {e}
      /\ \A f, g \in Logged : Earlier(f, g)' <=> Earlier(f, g)
      /\ \A f \in Logged : Earlier(f, e)'
      /\ \A f \in Logged : Behind(f)' <=> Behind(f)
      /\ Behind(e)'
  BY <1>1, OrderGrows DEF OrderedInv
<1>3. Lifecycle'
  BY <1>2, LifecycleGrows DEF OrderedInv, ScreenshotsInv
<1>4. InDayOrder'
  <2>1. \A f \in Logged' : Day(f.recorded) <= Day(now)
    <3>1. Day(e.recorded) <= Day(now)
      BY DEF OrderedInv, InDayOrder
    <3>2. \A f \in Logged : Day(f.recorded) <= Day(now)
      BY DEF OrderedInv, InDayOrder
    <3> QED BY <1>2, <3>1, <3>2
  <2>2. Day(at) \in Nat
    BY EventHas
  <2>3. \A f \in Logged' : Day(f.recorded) <= Day(at)
    BY <1>2, <2>2 DEF OrderedInv, InDayOrder
  <2> QED BY <2>1, <2>3 DEF OrderedInv, InDayOrder
<1>5. RowsFollow'
  <2>1. \A i : Taken(i)' = Taken(i) /\ Taken(i) \subseteq Logged
    BY <1>2 DEF Taken, Of
  <2>2. ASSUME NEW i \in Images, NEW x \in Taken(i), NEW y \in Taken(i) PROVE Earlier(x, y)' <=> Earlier(x, y)
    BY <1>2, <2>1
  <2> QED BY <2>1, <2>2 DEF OrderedInv, RowsFollow
<1> QED  BY <1>3, <1>4, <1>5 DEF OrderedInv

\* The next record of a shard is later than all that its image has in the index.
LEMMA RowsTake ==
  ASSUME ScreenshotsInv, OrderedInv, NEW e \in Logged, Projects(e), Project(e), UNCHANGED journal
  PROVE  RowsFollow'
<1>1. /\ Logged' = Logged /\ \A f, g : Earlier(f, g)' <=> Earlier(f, g)
      /\ \A i : Of(i)' = Of(i)
  BY SameOrder
<1>2. CASE ~ Behind(e)
  BY <1>2, RowsStay DEF Project, index
<1>3. CASE Behind(e)
  <2>1. PICK d \in Days : d = Day(e.recorded)
    BY LoggedHas DEF ScreenshotsInv
  <2>2. PICK i \in Images : i = e.image
    BY LoggedHas, EventHas DEF ScreenshotsInv
  <2>3. /\ rows' = [rows EXCEPT ![i] = StateAfter(e.action)]
        /\ cursor' = [cursor EXCEPT ![d] = @ + 1]
        /\ cursor[d] + 1 = Position(e) /\ Projectable(rows[i], e)
    BY <1>3, <2>1, <2>2 DEF Project, Projects, Projected
  <2>4. /\ rows'[i] = StateAfter(e.action) /\ \A j \in Images : j # i => rows'[j] = rows[j]
        /\ cursor'[d] = cursor[d] + 1 /\ \A c \in Days : c # d => cursor'[c] = cursor[c]
        /\ cursor[d] \in Nat
    BY <2>3 DEF ScreenshotsInv, Typed, Filed
  <2>5. ASSUME NEW f \in Logged PROVE ~ Behind(f)' <=> ~ Behind(f) \/ f = e
    <3>1. /\ Day(f.recorded) \in Days /\ Position(f) \in Nat /\ Position(f)' = Position(f)
          /\ cursor[Day(f.recorded)] \in Nat
      BY LoggedHas, SameLog DEF ScreenshotsInv, Filed
    <3>2. CASE Day(f.recorded) = d
      <4>1. Position(f) = Position(e) => f = e
        BY <2>1, <3>2, LoggedHas DEF ScreenshotsInv
      <4>2. ~ Behind(f)' <=> Position(f) <= cursor[d] + 1
        BY <2>4, <3>1, <3>2 DEF Behind
      <4>3. ~ Behind(f) <=> Position(f) <= cursor[d]
        BY <2>4, <3>1, <3>2 DEF Behind
      <4> QED BY <2>3, <2>4, <3>1, <4>1, <4>2, <4>3
    <3>3. CASE Day(f.recorded) # d
      BY <2>1, <2>4, <3>1, <3>3 DEF Behind
    <3> QED BY <3>2, <3>3
  <2>6. \A j \in Images : j # i => Taken(j)' = Taken(j)
    BY <1>1, <2>2, <2>5 DEF Taken, Of
  <2>7. Taken(i)' = Taken(i) \cup {e} /\ Taken(i) \subseteq Logged /\ e \notin Taken(i)
    BY <1>1, <1>3, <2>2, <2>5 DEF Taken, Of
  <2>8. ASSUME NEW j \in Images, j # i
        PROVE  \/ Taken(j)' = {} /\ rows'[j] = "none"
               \/ /\ \E x \in Taken(j)' : x.action = "Observed"
                  /\ \E x \in Taken(j)' : rows'[j] = StateAfter(x.action)
                                           /\ \A f \in Taken(j)' \ {x} : Earlier(f, x)'
    BY <1>1, <2>4, <2>6, <2>8 DEF OrderedInv, RowsFollow
  <2>9. /\ \E x \in Taken(i) \cup {e} : x.action = "Observed"
        /\ \A f \in Taken(i) : Earlier(f, e)
    <3>1. e.action \in Actions
      BY LoggedHas, EventHas DEF ScreenshotsInv
    <3>2. CASE e.action = "Observed"
      <4>1. \A f \in Taken(i) : f.action # "Observed"
        BY <2>2, <2>7, <3>2 DEF ScreenshotsInv, Begun, Taken, Of
      <4>2. Taken(i) = {}
        BY <4>1 DEF OrderedInv, RowsFollow
      <4> QED BY <3>2, <4>2
    <3>3. CASE e.action # "Observed"
      <4>1. rows[i] # "none"
        BY <2>3, <3>1, <3>3 DEF Projectable, Actions, Terminals, WriteOutcomes
      <4>2. \E x \in Taken(i) : x.action = "Observed"
        BY <4>1 DEF OrderedInv, RowsFollow
      <4>3. PICK g \in Taken(i) : /\ rows[i] = StateAfter(g.action)
                                  /\ \A f \in Taken(i) \ {g} : Earlier(f, g)
        BY <4>1 DEF OrderedInv, RowsFollow
      <4>4. g.image = i /\ g \in Logged /\ g.action \in Actions /\ g # e
        BY <2>7, LoggedHas, EventHas DEF Taken, Of, ScreenshotsInv
      <4>5. Precedes(g.action, e.action)
        <5>1. CASE e.action \in WriteOutcomes
          BY <2>3, <4>3, <4>4, <5>1 DEF Projectable, StateAfter, Actions, Terminals, WriteOutcomes,
                                        Precedes
        <5>2. CASE e.action = "Missing"
          BY <2>3, <4>3, <4>4, <5>2 DEF Projectable, StateAfter, Actions, Terminals, WriteOutcomes,
                                        Precedes
        <5>3. CASE e.action = "DeleteRequested"
          <6>1. g.action \notin {"DeleteRequested", "DeleteCompleted"}
            BY <2>3, <4>3, <5>3 DEF Projectable, StateAfter, WriteOutcomes
          <6>2. Has(i, "WriteCompleted") /\ Has(i, "DeleteRequested")
            BY <2>2, <5>3 DEF ScreenshotsInv, Begun, Has
          <6>3. ~ Has(i, "WriteFailed") /\ ~ Has(i, "Missing")
            BY <6>2 DEF OrderedInv, Lifecycle
          <6>4. g.action \notin {"WriteFailed", "Missing"}
            BY <4>4, <6>3 DEF Has
          <6> QED BY <4>4, <5>3, <6>1, <6>4 DEF Actions, Terminals, WriteOutcomes, Precedes
        <5>4. CASE e.action = "DeleteCompleted"
          BY <2>3, <4>3, <4>4, <5>4 DEF Projectable, StateAfter, Actions, Terminals, WriteOutcomes,
                                        Precedes
        <5> QED BY <3>1, <3>3, <5>1, <5>2, <5>3, <5>4 DEF Actions, Terminals
      <4>6. Earlier(g, e)
        BY <2>2, <4>4, <4>5 DEF OrderedInv, Lifecycle
      <4>7. ASSUME NEW f \in Taken(i) PROVE Earlier(f, e)
        <5>1. CASE f = g
          BY <4>6, <5>1
        <5>2. CASE f # g
          <6>1. Earlier(f, g) /\ f \in Logged
            BY <2>7, <4>3, <5>2
          <6> QED BY <4>4, <4>6, <6>1, EarlierHas DEF ScreenshotsInv
        <5> QED BY <5>1, <5>2
      <4> QED BY <4>2, <4>7
    <3> QED BY <3>2, <3>3
  <2>10. /\ \E x \in Taken(i)' : x.action = "Observed"
         /\ \E x \in Taken(i)' : rows'[i] = StateAfter(x.action)
                                  /\ \A f \in Taken(i)' \ {x} : Earlier(f, x)'
    BY <1>1, <2>4, <2>7, <2>9
  <2> QED BY <2>8, <2>10 DEF RowsFollow
<1> QED  BY <1>2, <1>3

\* A step that leaves the journal as it is.
LEMMA JournalStays ==
  ASSUME ScreenshotsInv, OrderedInv, UNCHANGED <<journal, now>>,
         step' = "ready" \/ (step # "ready" /\ UNCHANGED at) \/ at' = now,
         Batched', RowsFollow'
  PROVE  OrderedInv'
<1>1. now \in Instants /\ Day(now) \in Int
  BY DayHas DEF ScreenshotsInv, Typed, Days
<1>2. \/ step' = "ready"
      \/ Day(at') <= Day(now') /\ \A e \in Logged : Day(e.recorded) <= Day(at')
  BY <1>1 DEF OrderedInv, InDayOrder
<1> QED  BY <1>1, <1>2, OrderStays

LEMMA ProjectOrdered ==
  ASSUME ScreenshotsInv, OrderedInv, NEW e \in Logged, Projects(e), Project(e),
         UNCHANGED <<journal, now>>, step # "ready", step' = "ready" \/ UNCHANGED at, Batched'
  PROVE  OrderedInv'
BY RowsTake, JournalStays

LEMMA QuietOrdered ==
  ASSUME ScreenshotsInv, OrderedInv, UNCHANGED <<journal, rows, cursor, now>>,
         step' = "ready" \/ (step # "ready" /\ UNCHANGED at) \/ at' = now, Batched'
  PROVE  OrderedInv'
BY RowsStay, JournalStays

LEMMA NoBatch ==
  ASSUME step' \notin DeleteSteps
  PROVE  Batched'
BY DEF Batched, DeleteSteps, AskedSteps

-----------------------------------------------------------------------------
(* The order is kept by every operation                                      *)

LEMMA RetainOrdered == ScreenshotsInv /\ OrderedInv /\ Retain => OrderedInv'
<1> SUFFICES ASSUME ScreenshotsInv, OrderedInv, Retain PROVE OrderedInv'
  OBVIOUS
<1>1. ASSUME NEW i \in Images, Provision(i) PROVE OrderedInv'
  <2>1. UNCHANGED <<journal, rows, cursor, now>> /\ at' = now /\ step' = "observe"
    BY <1>1 DEF Provision, index
  <2>2. Batched'
    BY <2>1, NoBatch DEF DeleteSteps, AskedSteps
  <2> QED BY <2>1, <2>2, QuietOrdered
<1>2. CASE Promote \/ Settle
  <2>1. /\ UNCHANGED <<journal, rows, cursor, now, at>> /\ step # "ready"
        /\ step' \in {"settle", "complete"}
    BY <1>2 DEF Promote, Settle, Go, index
  <2>2. Batched'
    BY <2>1, NoBatch DEF DeleteSteps, AskedSteps
  <2> QED BY <2>1, <2>2, QuietOrdered
<1>3. CASE Observe
  <2>1. /\ UNCHANGED <<rows, cursor, now, at>> /\ step = "observe" /\ step' = "promote"
        /\ AppendEvent(Observation(image))
    BY <1>3 DEF Observe, Go, index
  <2>2. PICK e \in Event : /\ e = Observation(image) /\ e.action = "Observed" /\ e.recorded = at
                           /\ e.image = image
    BY <2>1, EventsHave
  <2>3. Successive(e)
    BY <2>1, <2>2 DEF ScreenshotsInv, Writing, Successive
  <2>4. Batched'
    BY <2>1, NoBatch DEF DeleteSteps, AskedSteps
  <2> QED BY <2>1, <2>2, <2>3, <2>4, RecordOrdered
<1>4. CASE CompleteWrite
  <2>1. /\ UNCHANGED <<rows, cursor, now, at>> /\ step = "complete" /\ step' = "projectWrite"
        /\ AppendEvent(WriteCompletion(image))
    BY <1>4 DEF CompleteWrite, Go, index
  <2>2. PICK e \in Event : /\ e = WriteCompletion(image) /\ e.action = "WriteCompleted"
                           /\ e.recorded = at /\ e.image = image
    BY <2>1, EventsHave
  <2>3. Successive(e)
    <3>1. \A f \in Of(image) : f.action = "Observed"
      BY <2>1 DEF ScreenshotsInv, Writing, WriteSteps
    <3> QED BY <2>2, <3>1 DEF Successive, Has, Of
  <2>4. Batched'
    BY <2>1, NoBatch DEF DeleteSteps, AskedSteps
  <2> QED BY <2>1, <2>2, <2>3, <2>4, RecordOrdered
<1>5. CASE ProjectWrite
  <2>1. /\ UNCHANGED <<journal, now, at>> /\ step = "projectWrite" /\ step' = "projectCompletion"
        /\ Projects(Observation(image)) /\ Project(Observation(image))
    BY <1>5 DEF ProjectWrite, Go
  <2>2. PICK e \in Logged : e = Observation(image)
    BY <2>1 DEF ScreenshotsInv, Writing, ProjectSteps
  <2>3. Batched'
    BY <2>1, NoBatch DEF DeleteSteps, AskedSteps
  <2> QED BY <2>1, <2>2, <2>3, ProjectOrdered
<1>6. CASE ProjectWriteCompletion
  <2>1. /\ UNCHANGED <<journal, now>> /\ step = "projectCompletion" /\ step' = "ready"
        /\ Projects(WriteCompletion(image)) /\ Project(WriteCompletion(image))
    BY <1>6 DEF ProjectWriteCompletion, Finish, Done
  <2>2. PICK e \in Logged : e = WriteCompletion(image)
    BY <2>1 DEF ScreenshotsInv, Writing, ProjectSteps
  <2>3. Batched'
    BY <2>1, NoBatch DEF DeleteSteps, AskedSteps
  <2> QED BY <2>1, <2>2, <2>3, ProjectOrdered
<1> QED  BY <1>1, <1>2, <1>3, <1>4, <1>5, <1>6 DEF Retain

\* An image of the batch has neither a request nor a missing file on record.
LEMMA EligibleUnasked ==
  ASSUME ScreenshotsInv, OrderedInv, NEW cutoff, NEW i \in Eligible(cutoff)
  PROVE  Unasked(i)
<1>1. LastState(i) = "retained"
  BY DEF Eligible
<1>2. PICK e \in Of(i) : /\ e.action = "WriteCompleted"
                         /\ \A f \in Of(i) \ {e} : f.action # "Observed" => Earlier(f, e)
  BY <1>1, RetainedHas DEF ScreenshotsInv
<1>3. ASSUME NEW f \in Logged, f.image = i, f.action \in {"DeleteRequested", "Missing"}
      PROVE  FALSE
  <2>1. e \in Logged /\ e.image = i
    BY DEF Of
  <2>2. Earlier(e, f)
    BY <1>2, <1>3, <2>1 DEF OrderedInv, Lifecycle, Precedes
  <2>3. f \in Of(i) \ {e}
    BY <1>2, <1>3 DEF Of
  <2>4. Earlier(f, e)
    BY <1>2, <1>3, <2>3
  <2> QED BY <2>1, <2>2, <2>4, EarlierHas DEF ScreenshotsInv
<1> QED  BY <1>3 DEF Unasked, Has

LEMMA ApplyOrdered == ScreenshotsInv /\ OrderedInv /\ Apply => OrderedInv'
<1> SUFFICES ASSUME ScreenshotsInv, OrderedInv, Apply PROVE OrderedInv'
  OBVIOUS
<1>1. /\ UNCHANGED <<now, journal, rows, cursor>> /\ at' = now /\ step' = "request"
      /\ preview.candidates = Eligible(preview.cutoff)
      /\ image' \in preview.candidates /\ batch' \in Seq(preview.candidates)
      /\ \A k \in DOMAIN batch' : batch'[k] # image'
      /\ \A k, l \in DOMAIN batch' : batch'[k] = batch'[l] => k = l
  BY ApplyHas
<1>2. \A i, a : Has(i, a)' <=> Has(i, a)
  BY <1>1, SameOrder
<1>3. \A i \in preview.candidates : Unasked(i)'
  BY <1>1, <1>2, EligibleUnasked DEF Unasked
<1>4. \A k \in DOMAIN batch' : batch'[k] \in preview.candidates
  BY <1>1
<1>5. Unasked(image)' /\ \A k \in DOMAIN batch' : Unasked(batch[k])'
  <2>1. Unasked(image)'
    BY <1>1, <1>3 DEF Unasked, Has
  <2>2. ASSUME NEW k \in DOMAIN batch' PROVE Unasked(batch[k])'
    BY <1>3, <1>4, <2>2 DEF Unasked, Has
  <2> QED BY <2>1, <2>2
<1>6. Batched'
  BY <1>1, <1>5 DEF Batched, DeleteSteps, AskedSteps
<1> QED  BY <1>1, <1>6, QuietOrdered

\* The rest of the batch.
Rested ==
  /\ \A k \in DOMAIN batch : Unasked(batch[k]) /\ batch[k] # image
  /\ \A k, l \in DOMAIN batch : batch[k] = batch[l] => k = l

LEMMA RestStays ==
  ASSUME step \in DeleteSteps, Batched, UNCHANGED <<image, batch>>,
         \A i, a : i # image => (Has(i, a)' <=> Has(i, a))
  PROVE  Rested'
<1>1. \A k \in DOMAIN batch : Unasked(batch[k]) /\ batch[k] # image
  BY DEF Batched
<1>2. ASSUME NEW k \in DOMAIN batch PROVE Unasked(batch[k])'
  <2>1. PICK i : i = batch[k]
    OBVIOUS
  <2>2. Unasked(i) /\ i # image
    BY <1>1, <1>2, <2>1
  <2>3. Unasked(i)'
    BY <2>2 DEF Unasked
  <2> QED BY <2>1, <2>3 DEF Unasked, Has
<1> QED  BY <1>1, <1>2 DEF Rested, Batched

LEMMA DeleteOrdered == ScreenshotsInv /\ OrderedInv /\ Delete => OrderedInv'
<1> SUFFICES ASSUME ScreenshotsInv, OrderedInv, Delete PROVE OrderedInv'
  OBVIOUS
<1>1. CASE Ask
  <2>1. /\ UNCHANGED <<rows, cursor, now, at, image, batch, confirmed>> /\ step = "request"
        /\ step' = "projectRequest" /\ AppendEvent(Request(image))
    BY <1>1 DEF Ask, Go, index, ghost
  <2>2. PICK e \in Event : /\ e = Request(image) /\ e.action = "DeleteRequested"
                           /\ e.recorded = at /\ e.image = image /\ image \in Images
    BY <2>1, EventsHave
  <2>3. Unasked(image) /\ ~ Has(image, "DeleteCompleted")
    BY <2>1, <2>2 DEF OrderedInv, Batched, Unasked, Lifecycle
  <2>4. Successive(e)
    BY <2>2, <2>3 DEF Successive, Unasked
  <2>5. Logged' = Logged \cup {e}
    BY <2>1, <2>2, Appends DEF ScreenshotsInv
  <2>6. \A i, a : Has(i, a)' <=> Has(i, a) \/ (e.image = i /\ e.action = a)
    BY <2>5, HasGrows
  <2>7. Rested'
    BY <2>1, <2>2, <2>6, RestStays DEF OrderedInv, DeleteSteps, AskedSteps
  <2>8. ~ Has(image, "DeleteCompleted")'
    <3>1. PICK i : i = image
      OBVIOUS
    <3>2. ~ Has(i, "DeleteCompleted")'
      BY <2>2, <2>3, <2>6, <3>1
    <3> QED BY <2>1, <3>1, <3>2 DEF Has
  <2>9. Batched'
    BY <2>1, <2>7, <2>8 DEF Batched, Rested
  <2> QED BY <2>1, <2>2, <2>4, <2>9, RecordOrdered
<1>2. CASE ProjectRequest
  <2>1. /\ UNCHANGED <<journal, now, at, image, batch>> /\ step = "projectRequest"
        /\ step' = "unlink" /\ Projects(Request(image)) /\ Project(Request(image))
    BY <1>2 DEF ProjectRequest, Go
  <2>2. PICK e \in Logged : e = Request(image)
    BY <2>1 DEF ScreenshotsInv, Deleting, AskedSteps
  <2>3. \A i, a : Has(i, a)' <=> Has(i, a)
    BY <2>1, SameOrder
  <2>4. Rested' /\ ~ Has(image, "DeleteCompleted")'
    <3>1. ~ Has(image, "DeleteCompleted")
      BY <2>1 DEF OrderedInv, Batched
    <3> QED BY <2>1, <2>3, <3>1, RestStays DEF OrderedInv, DeleteSteps, AskedSteps, Has
  <2>5. Batched'
    BY <2>1, <2>4 DEF Batched, Rested
  <2> QED BY <2>1, <2>2, <2>5, ProjectOrdered
<1>3. CASE Unlink \/ SettleUnlink
  <2>1. /\ UNCHANGED <<journal, rows, cursor, now, at, image, batch>>
        /\ step \in {"unlink", "settleUnlink"} /\ step' \in {"settleUnlink", "completeDelete"}
    BY <1>3 DEF Unlink, SettleUnlink, Go, index
  <2>2. \A i, a : Has(i, a)' <=> Has(i, a)
    BY <2>1, SameOrder
  <2>3. Rested' /\ ~ Has(image, "DeleteCompleted")'
    <3>1. ~ Has(image, "DeleteCompleted")
      BY <2>1 DEF OrderedInv, Batched
    <3> QED BY <2>1, <2>2, <3>1, RestStays DEF OrderedInv, DeleteSteps, AskedSteps, Has
  <2>4. Batched'
    BY <2>1, <2>3 DEF Batched, Rested
  <2> QED BY <2>1, <2>4, QuietOrdered
<1>4. CASE CompleteDelete
  <2>1. /\ UNCHANGED <<rows, cursor, now, at, image, batch, confirmed>> /\ step = "completeDelete"
        /\ step' = "projectDelete" /\ AppendEvent(DeleteCompletion(image))
    BY <1>4 DEF CompleteDelete, Go, index, ghost
  <2>2. PICK e \in Event : /\ e = DeleteCompletion(image) /\ e.action = "DeleteCompleted"
                           /\ e.recorded = at /\ e.image = image /\ e.requested = at
    BY <2>1, EventsHave
  <2>3. Successive(e)
    <3>1. ~ Has(image, "DeleteCompleted") /\ Request(image) \in Logged
      BY <2>1 DEF OrderedInv, Batched, ScreenshotsInv, Deleting, AskedSteps
    <3>2. /\ Request(image).image = image /\ Request(image).action = "DeleteRequested"
          /\ Request(image).requested = at
      BY <2>1, EventsHave
    <3>3. \A f \in Of(image) : f.action = "DeleteRequested" => f = Request(image)
      BY <3>1, <3>2 DEF OrderedInv, Lifecycle, Of
    <3> QED BY <2>2, <3>1, <3>2, <3>3 DEF Successive, Has
  <2>5. Logged' = Logged \cup {e}
    BY <2>1, <2>2, Appends DEF ScreenshotsInv
  <2>6. \A i, a : Has(i, a)' <=> Has(i, a) \/ (e.image = i /\ e.action = a)
    BY <2>5, HasGrows
  <2>7. Rested'
    BY <2>1, <2>2, <2>6, RestStays DEF OrderedInv, DeleteSteps, AskedSteps
  <2>8. Batched'
    BY <2>1, <2>7 DEF Batched, Rested
  <2> QED BY <2>1, <2>2, <2>3, <2>8, RecordOrdered
<1>5. CASE ProjectDelete
  <2>1. /\ UNCHANGED <<journal, now>> /\ step = "projectDelete"
        /\ Projects(DeleteCompletion(image)) /\ Project(DeleteCompletion(image))
        /\ \/ step' = "ready"
           \/ /\ batch # <<>> /\ step' = "request" /\ image' = Head(batch)
              /\ batch' = Tail(batch) /\ UNCHANGED at
    BY <1>5 DEF ProjectDelete, Finish, Done
  <2>2. PICK e \in Logged : e = DeleteCompletion(image)
    BY <2>1 DEF ScreenshotsInv, Deleting
  <2>3. CASE step' = "ready"
    <3>1. Batched'
      BY <2>3, NoBatch DEF DeleteSteps, AskedSteps
    <3> QED BY <2>1, <2>2, <2>3, <3>1, ProjectOrdered
  <2>4. CASE /\ batch # <<>> /\ step' = "request" /\ image' = Head(batch)
             /\ batch' = Tail(batch) /\ UNCHANGED at
    <3>1. batch \in Seq(Images)
      BY DEF ScreenshotsInv, Typed
    <3>2. /\ 1 \in DOMAIN batch /\ image' = batch[1]
          /\ \A k \in DOMAIN batch' : k \in Nat /\ k >= 1 /\ k + 1 \in DOMAIN batch
                                      /\ batch'[k] = batch[k + 1]
      BY <2>4, <3>1
    <3>3. /\ \A k \in DOMAIN batch : Unasked(batch[k])
          /\ \A k, l \in DOMAIN batch : batch[k] = batch[l] => k = l
      BY <2>1 DEF OrderedInv, Batched, DeleteSteps, AskedSteps
    <3>4. \A i, a : Has(i, a)' <=> Has(i, a)
      BY <2>1, SameOrder
    <3>6. ASSUME NEW k \in DOMAIN batch' PROVE Unasked(batch[k])' /\ batch'[k] # image'
      <4>1. PICK i : i = batch[k + 1]
        OBVIOUS
      <4>2. batch'[k] = i /\ Unasked(i)
        BY <3>2, <3>3, <3>6, <4>1
      <4>3. batch'[k] # image'
        BY <3>2, <3>3, <3>6
      <4>4. ~ Has(i, "DeleteRequested")' /\ ~ Has(i, "Missing")'
        BY <3>4, <4>2 DEF Unasked
      <4> QED BY <4>2, <4>3, <4>4 DEF Unasked, Has
    <3>7. ASSUME NEW k \in DOMAIN batch', NEW l \in DOMAIN batch', batch'[k] = batch'[l]
          PROVE  k = l
      <4>1. k + 1 = l + 1
        BY <3>2, <3>3, <3>7
      <4> QED BY <3>2, <3>7, <4>1
    <3>8. Unasked(image)'
      <4>1. PICK i : i = batch[1]
        OBVIOUS
      <4>2. Unasked(i)
        BY <3>2, <3>3, <4>1
      <4>3. ~ Has(i, "DeleteRequested")' /\ ~ Has(i, "Missing")' /\ image' = i
        BY <3>2, <3>4, <4>1, <4>2 DEF Unasked
      <4> QED BY <4>3 DEF Unasked, Has
    <3>9. Batched'
      BY <2>4, <3>6, <3>7, <3>8 DEF Batched, DeleteSteps, AskedSteps
    <3> QED BY <2>1, <2>2, <2>4, <3>9, ProjectOrdered
  <2> QED BY <2>1, <2>3, <2>4
<1> QED  BY <1>1, <1>2, <1>3, <1>4, <1>5 DEF Delete

\* A step that leaves the operation and the records as they are.
LEMMA BatchStays ==
  ASSUME Batched, UNCHANGED <<journal, step, image, batch>>
  PROVE  Batched'
<1>1. \A i, a : Has(i, a)' <=> Has(i, a)
  BY SameOrder
<1>2. \A k \in DOMAIN batch : Unasked(batch[k]) => Unasked(batch[k])'
  <2> TAKE k \in DOMAIN batch
  <2>1. PICK i : i = batch[k]
    OBVIOUS
  <2>2. Unasked(i) => Unasked(i)'
    BY <1>1 DEF Unasked
  <2> QED BY <2>1, <2>2 DEF Unasked, Has
<1>3. Unasked(image) => Unasked(image)'
  BY <1>1 DEF Unasked, Has
<1>4. ~ Has(image, "DeleteCompleted") => ~ Has(image, "DeleteCompleted")'
  BY <1>1 DEF Has
<1> QED  BY <1>2, <1>3, <1>4 DEF Batched

\* Of a write that has no outcome nothing else is on record.
LEMMA UnwrittenHas ==
  ASSUME ScreenshotsInv, NEW i, ~ HasTerminal(i)
  PROVE  \A a : Has(i, a) => a = "Observed"
<1>1. \A a \in Terminals : ~ Has(i, a)
  BY DEF HasTerminal
<1>2. ~ Has(i, "WriteCompleted")
  BY <1>1 DEF Terminals, WriteOutcomes
<1>3. ASSUME NEW a, Has(i, a) PROVE a = "Observed"
  <2>1. PICK e \in Logged : e.image = i /\ e.action = a
    BY <1>3 DEF Has
  <2>2. a \in Actions
    BY <2>1, LoggedHas, EventHas DEF ScreenshotsInv
  <2>3. a \notin {"Missing", "DeleteRequested", "DeleteCompleted"}
    BY <1>2, <2>1 DEF ScreenshotsInv, Begun
  <2> QED BY <1>1, <1>3, <2>2, <2>3 DEF Actions
<1> QED  BY <1>3

LEMMA RecoveryRecordOrdered ==
  ASSUME ScreenshotsInv, OrderedInv, step = "recover", NEW e \in Event, e.recorded = at,
         Successive(e), AppendEvent(e), UNCHANGED <<now, rows, cursor, step, at>>
  PROVE  OrderedInv'
<1>1. Batched'
  BY NoBatch DEF DeleteSteps, AskedSteps
<1> QED  BY <1>1, RecordOrdered

LEMMA RecoveryOrdered == ScreenshotsInv /\ OrderedInv /\ Recovery => OrderedInv'
<1> SUFFICES ASSUME ScreenshotsInv, OrderedInv, Recovery PROVE OrderedInv'
  OBVIOUS
<1>1. ASSUME NEW i \in Images, RecoverPromotion(i) \/ RecoverStray(i) \/ RecoverUnlink(i)
      PROVE  OrderedInv'
  <2>1. UNCHANGED <<journal, rows, cursor, now, at, step>> /\ step = "recover"
    BY <1>1 DEF RecoverPromotion, RecoverStray, RecoverUnlink, index, call
  <2>2. Batched'
    BY <2>1, NoBatch DEF DeleteSteps, AskedSteps
  <2> QED BY <2>1, <2>2, QuietOrdered
<1>2. ASSUME NEW i \in Images, RecoverWrite(i) PROVE OrderedInv'
  <2>1. PICK a \in {"WriteCompleted", "WriteFailed"} :
          a = IF file[i] = "final" THEN "WriteCompleted" ELSE "WriteFailed"
    OBVIOUS
  <2>2. /\ UNCHANGED <<now, rows, cursor, step, at>> /\ step = "recover"
        /\ AppendEvent(NewEvent(a, i, at, 0)) /\ ~ HasTerminal(i)
    BY <1>2, <2>1 DEF RecoverWrite, Unwritten, index, call
  <2>3. at \in Instants
    BY <2>2 DEF ScreenshotsInv, Operating
  <2>4. PICK e \in Event : /\ e = NewEvent(a, i, at, 0) /\ e.action = a /\ e.image = i
                           /\ e.recorded = at
    BY <2>1, <2>3, NewEventHas DEF Actions, Terminals, WriteOutcomes
  <2>5. Successive(e)
    BY <2>1, <2>2, <2>4, UnwrittenHas DEF Successive
  <2> QED BY <2>2, <2>4, <2>5, RecoveryRecordOrdered
<1>3. ASSUME NEW i \in Images, RecoverMissing(i) PROVE OrderedInv'
  <2>1. /\ UNCHANGED <<now, rows, cursor, step, at>> /\ step = "recover"
        /\ AppendEvent(NewEvent("Missing", i, at, 0)) /\ ~ Has(i, "Missing")
        /\ ~ Has(i, "DeleteRequested")
    BY <1>3 DEF RecoverMissing, Vanished, index, call
  <2>2. at \in Instants
    BY <2>1 DEF ScreenshotsInv, Operating
  <2>3. PICK e \in Event : /\ e = NewEvent("Missing", i, at, 0) /\ e.action = "Missing"
                           /\ e.image = i /\ e.recorded = at
    BY <2>2, NewEventHas DEF Actions, Terminals
  <2>4. Successive(e)
    BY <2>1, <2>3 DEF Successive
  <2> QED BY <2>1, <2>3, <2>4, RecoveryRecordOrdered
<1>4. ASSUME NEW i \in Images, RecoverDelete(i) PROVE OrderedInv'
  <2>1. /\ UNCHANGED <<now, rows, cursor, step, at>> /\ step = "recover"
        /\ Has(i, "DeleteRequested") /\ ~ Has(i, "DeleteCompleted")
    BY <1>4, RecoverDeleteHas
  <2>2. PICK e \in Event :
          /\ e.action = "DeleteCompleted" /\ e.image = i /\ e.recorded = at
          /\ e.requested = Recorded(i, "DeleteRequested").requested
          /\ AppendEvent(e)
    BY <1>4, RecoverDeleteHas
  <2>3. PICK r \in Logged : /\ r = Recorded(i, "DeleteRequested") /\ r.image = i
                            /\ r.action = "DeleteRequested"
    BY <2>1, RecordedHas DEF ScreenshotsInv
  <2>4. \A f \in Of(i) : f.action = "DeleteRequested" => f = r
    BY <2>3 DEF OrderedInv, Lifecycle, Of
  <2>5. Successive(e)
    BY <2>1, <2>2, <2>3, <2>4 DEF Successive
  <2> QED BY <2>1, <2>2, <2>5, RecoveryRecordOrdered
<1>5. CASE RecoverProjection
  <2>1. UNCHANGED <<journal, now, at, step>> /\ step = "recover"
    BY <1>5 DEF RecoverProjection, call
  <2>2. PICK d \in Unindexed :
          /\ Projectable(rows[journal[d][cursor[d] + 1].image], journal[d][cursor[d] + 1])
          /\ Project(journal[d][cursor[d] + 1])
    BY <1>5 DEF RecoverProjection
  <2>3. PICK e : e = journal[d][cursor[d] + 1]
    OBVIOUS
  <2>4. e \in Logged /\ Projects(e)
    BY <2>2, <2>3, UnindexedHas DEF ScreenshotsInv, Projects
  <2>5. Batched'
    BY <2>1, NoBatch DEF DeleteSteps, AskedSteps
  <2> QED BY <2>1, <2>2, <2>3, <2>4, <2>5, ProjectOrdered
<1>6. CASE Rebuild
  <2>1. /\ UNCHANGED <<journal, now, at, step>> /\ step = "recover"
        /\ rows' = Replayed /\ cursor' = [d \in Days |-> Len(journal[d])]
    BY <1>6 DEF Rebuild, call
  <2>2. Batched'
    BY <2>1, NoBatch DEF DeleteSteps, AskedSteps
  <2>3. /\ Logged' = Logged /\ \A e, f : Earlier(e, f)' <=> Earlier(e, f)
        /\ \A i : Of(i)' = Of(i)
    BY <2>1, SameOrder
  <2>4. ASSUME NEW e \in Logged PROVE ~ Behind(e)'
    <3>1. Day(e.recorded) \in Days /\ Position(e) \in 1 .. Len(journal[Day(e.recorded)])
      BY LoggedHas DEF ScreenshotsInv
    <3>2. Position(e)' = Position(e) /\ cursor'[Day(e.recorded)] = Len(journal[Day(e.recorded)])
      BY <2>1, <3>1, SameLog
    <3>3. Len(journal[Day(e.recorded)]) \in Nat
      BY <3>1 DEF ScreenshotsInv, Filed
    <3> QED BY <3>1, <3>2, <3>3 DEF Behind
  <2>5. \A i : Taken(i)' = Of(i)
    BY <2>3, <2>4 DEF Taken, Of
  <2>6. ASSUME NEW i \in Images
        PROVE  \/ Taken(i)' = {} /\ rows'[i] = "none"
               \/ /\ \E e \in Taken(i)' : e.action = "Observed"
                  /\ \E e \in Taken(i)' : rows'[i] = StateAfter(e.action)
                                           /\ \A f \in Taken(i)' \ {e} : Earlier(f, e)'
    <3>1. rows'[i] = StateIn(Of(i))
      BY <2>1 DEF Replayed
    <3>2. CASE Of(i) = {}
      BY <2>5, <3>1, <3>2 DEF StateIn
    <3>3. CASE Of(i) # {}
      <4>1. Of(i) \in SUBSET Logged
        BY DEF Of
      <4>2. Latest(Of(i)) \in Of(i) /\ \A f \in Of(i) \ {Latest(Of(i))} : Earlier(f, Latest(Of(i)))
        BY <3>3, <4>1, LatestHas DEF ScreenshotsInv
      <4>3. rows'[i] = StateAfter(Latest(Of(i)).action)
        BY <3>1, <3>3 DEF StateIn
      <4>4. \E e \in Of(i) : e.action = "Observed"
        BY <3>3 DEF ScreenshotsInv, Begun, Has, Of
      <4> QED BY <2>3, <2>5, <4>2, <4>3, <4>4
    <3> QED BY <3>2, <3>3
  <2>7. RowsFollow'
    BY <2>6 DEF RowsFollow
  <2> QED BY <2>1, <2>2, <2>7, JournalStays
<1>7. CASE Recovered \/ Defer
  <2>1. UNCHANGED <<journal, rows, cursor, now>> /\ step' = "ready"
    BY <1>7 DEF Recovered, Defer, Finish, Done, index
  <2>2. Batched'
    BY <2>1, NoBatch DEF DeleteSteps, AskedSteps
  <2> QED BY <2>1, <2>2, QuietOrdered
<1> QED  BY <1>1, <1>2, <1>3, <1>4, <1>5, <1>6, <1>7 DEF Recovery

LEMMA FailureOrdered == ScreenshotsInv /\ OrderedInv /\ Failure => OrderedInv'
<1> SUFFICES ASSUME ScreenshotsInv, OrderedInv, Failure PROVE OrderedInv'
  OBVIOUS
<1>1. UNCHANGED <<rows, cursor, now>> /\ step' = "ready"
  BY DEF Failure, ObserveFails, CompleteWriteFails, AskFails, CompleteDeleteFails,
         ProjectionRefuses, OtherStepFails, RecoveryFails, Finish, Done, index
<1>2. Batched'
  BY <1>1, NoBatch DEF DeleteSteps, AskedSteps
<1>3. CASE UNCHANGED journal
  BY <1>1, <1>2, <1>3, QuietOrdered
<1>4. CASE ~ UNCHANGED journal
  <2>1. \/ step = "observe" /\ AppendEvent(Observation(image))
        \/ step = "complete" /\ AppendEvent(WriteCompletion(image))
        \/ step = "request" /\ AppendEvent(Request(image))
        \/ step = "completeDelete" /\ AppendEvent(DeleteCompletion(image))
    BY <1>4 DEF Failure, ObserveFails, CompleteWriteFails, AskFails, CompleteDeleteFails,
                ProjectionRefuses, OtherStepFails, RecoveryFails, AppendFails
  <2>2. CASE step = "observe" /\ AppendEvent(Observation(image))
    <3>1. PICK e \in Event : /\ e = Observation(image) /\ e.action = "Observed"
                             /\ e.recorded = at /\ e.image = image
      BY <2>2, EventsHave
    <3>2. Successive(e)
      BY <2>2, <3>1 DEF ScreenshotsInv, Writing, Successive
    <3> QED BY <1>1, <1>2, <2>2, <3>1, <3>2, RecordOrdered
  <2>3. CASE step = "complete" /\ AppendEvent(WriteCompletion(image))
    <3>1. PICK e \in Event : /\ e = WriteCompletion(image) /\ e.action = "WriteCompleted"
                             /\ e.recorded = at /\ e.image = image
      BY <2>3, EventsHave
    <3>2. Successive(e)
      <4>1. \A f \in Of(image) : f.action = "Observed"
        BY <2>3 DEF ScreenshotsInv, Writing, WriteSteps
      <4> QED BY <3>1, <4>1 DEF Successive, Has, Of
    <3> QED BY <1>1, <1>2, <2>3, <3>1, <3>2, RecordOrdered
  <2>4. CASE step = "request" /\ AppendEvent(Request(image))
    <3>1. PICK e \in Event : /\ e = Request(image) /\ e.action = "DeleteRequested"
                             /\ e.recorded = at /\ e.image = image
      BY <2>4, EventsHave
    <3>2. Successive(e)
      BY <2>4, <3>1 DEF Successive, OrderedInv, Batched, Unasked
    <3> QED BY <1>1, <1>2, <2>4, <3>1, <3>2, RecordOrdered
  <2>5. CASE step = "completeDelete" /\ AppendEvent(DeleteCompletion(image))
    <3>1. PICK e \in Event : /\ e = DeleteCompletion(image) /\ e.action = "DeleteCompleted"
                             /\ e.recorded = at /\ e.image = image /\ e.requested = at
      BY <2>5, EventsHave
    <3>2. Successive(e)
      <4>1. ~ Has(image, "DeleteCompleted") /\ Request(image) \in Logged
        BY <2>5 DEF OrderedInv, Batched, ScreenshotsInv, Deleting, AskedSteps
      <4>2. /\ Request(image).image = image /\ Request(image).action = "DeleteRequested"
            /\ Request(image).requested = at
        BY <2>5, EventsHave
      <4>3. \A f \in Of(image) : f.action = "DeleteRequested" => f = Request(image)
        BY <4>1, <4>2 DEF OrderedInv, Lifecycle, Of
      <4> QED BY <3>1, <4>1, <4>2, <4>3 DEF Successive, Has
    <3> QED BY <1>1, <1>2, <2>5, <3>1, <3>2, RecordOrdered
  <2> QED BY <2>1, <2>2, <2>3, <2>4, <2>5
<1> QED  BY <1>3, <1>4

LEMMA EnvironmentOrdered ==
  ScreenshotsInv /\ OrderedInv /\ AcrossDays = FALSE /\ Environment => OrderedInv'
<1> SUFFICES ASSUME ScreenshotsInv, OrderedInv, ~ AcrossDays, Environment PROVE OrderedInv'
  OBVIOUS
<1>1. CASE Crash
  <2>1. UNCHANGED <<journal, rows, cursor, now>> /\ step' = "ready"
    BY <1>1 DEF Crash, Done, index
  <2>2. Batched'
    BY <2>1, NoBatch DEF DeleteSteps, AskedSteps
  <2> QED BY <2>1, <2>2, QuietOrdered
<1>2. ASSUME NEW i \in Images, Lose(i) PROVE OrderedInv'
  <2>1. UNCHANGED <<journal, rows, cursor, now>> /\ step' = "ready"
    BY <1>2 DEF Lose, call, index
  <2>2. Batched'
    BY <2>1, NoBatch DEF DeleteSteps, AskedSteps
  <2> QED BY <2>1, <2>2, QuietOrdered
<1>3. CASE LoseIndex
  <2>1. /\ UNCHANGED <<journal, now>> /\ step' = "ready"
        /\ rows' = [i \in Images |-> "none"] /\ cursor' = [d \in Days |-> 0]
    BY <1>3 DEF LoseIndex, call
  <2>2. Batched'
    BY <2>1, NoBatch DEF DeleteSteps, AskedSteps
  <2>3. ASSUME NEW e \in Logged PROVE Behind(e)'
    <3>1. /\ Day(e.recorded) \in Days /\ Position(e)' = Position(e)
          /\ Position(e) \in 1 .. Len(journal[Day(e.recorded)])
      BY <2>1, LoggedHas, SameLog DEF ScreenshotsInv
    <3>2. Position(e) > 0
      BY <3>1
    <3> QED BY <2>1, <3>1, <3>2 DEF Behind
  <2>4. \A i : Taken(i)' = {}
    BY <2>1, <2>3, SameOrder DEF Taken, Of
  <2>5. RowsFollow'
    BY <2>1, <2>4 DEF RowsFollow
  <2> QED BY <2>1, <2>2, <2>5, JournalStays
<1>4. CASE Tick \/ Correct
  <2>1. UNCHANGED <<journal, rows, cursor, step, image, at, batch>>
    BY <1>4 DEF Tick, Correct, index, call
  <2>2. now \in Instants /\ MaxInstant \in Nat
    BY ScreenshotsAssumption DEF ScreenshotsInv, Typed
  <2>3. now' \in Instants /\ Day(now) <= Day(now')
    <3>1. CASE Tick
      BY <2>2, <3>1 DEF Tick, Instants, Day
    <3>2. CASE Correct
      <4>1. now' \in 1 .. now - 1 /\ Day(now') = Day(now)
        BY <3>2 DEF Correct
      <4>2. Day(now) \in Int
        BY <2>2, DayHas DEF Days
      <4> QED BY <2>2, <4>1, <4>2 DEF Instants
    <3> QED BY <1>4, <3>1, <3>2
  <2>4. Batched' /\ RowsFollow'
    BY <2>1, BatchStays, RowsStay DEF OrderedInv
  <2>5. \/ step' = "ready"
        \/ Day(at') <= Day(now') /\ \A e \in Logged : Day(e.recorded) <= Day(at')
    <3>1. CASE step = "ready"
      BY <2>1, <3>1
    <3>2. CASE step # "ready"
      <4>1. Day(at) <= Day(now) /\ \A e \in Logged : Day(e.recorded) <= Day(at)
        BY <3>2 DEF OrderedInv, InDayOrder
      <4>2. at \in Instants
        BY <3>2 DEF ScreenshotsInv, Operating
      <4>3. Day(at) \in Int /\ Day(now) \in Int /\ Day(now') \in Int
        BY <2>2, <2>3, <4>2, DayHas DEF Days
      <4> QED BY <2>1, <2>3, <4>1, <4>3
    <3> QED BY <3>1, <3>2
  <2> QED BY <2>1, <2>3, <2>4, <2>5, OrderStays
<1>5. CASE Quit
  <2>1. UNCHANGED <<journal, rows, cursor, now, image, batch>> /\ step' = "ready"
    BY <1>5 DEF Quit, Idle, index
  <2>2. Batched'
    BY <2>1, NoBatch DEF DeleteSteps, AskedSteps
  <2> QED BY <2>1, <2>2, QuietOrdered
<1> QED  BY <1>1, <1>2, <1>3, <1>4, <1>5 DEF Environment

LEMMA OthersOrdered ==
  ScreenshotsInv /\ OrderedInv /\ (Preview \/ Recover \/ UNCHANGED vars) => OrderedInv'
<1> SUFFICES ASSUME ScreenshotsInv, OrderedInv, Preview \/ Recover \/ UNCHANGED vars
             PROVE  OrderedInv'
  OBVIOUS
<1>1. CASE Recover
  <2>1. UNCHANGED <<journal, rows, cursor, now>> /\ at' = now /\ step' = "recover"
    BY <1>1 DEF Recover, index
  <2>2. Batched'
    BY <2>1, NoBatch DEF DeleteSteps, AskedSteps
  <2> QED BY <2>1, <2>2, QuietOrdered
<1>2. CASE Preview \/ UNCHANGED vars
  <2>1. UNCHANGED <<journal, rows, cursor, now, step, image, at, batch>>
    BY <1>2 DEF Preview, vars, index, call
  <2>2. Batched'
    BY <2>1, BatchStays DEF OrderedInv
  <2>3. step' = "ready" \/ (step # "ready" /\ UNCHANGED at)
    BY <2>1
  <2> QED BY <2>1, <2>2, <2>3, QuietOrdered
<1> QED  BY <1>1, <1>2

LEMMA NextOrdered ==
  AcrossDays = FALSE /\ ScreenshotsInv /\ OrderedInv /\ [Next]_vars => OrderedInv'
BY RetainOrdered, ApplyOrdered, DeleteOrdered, RecoveryOrdered, FailureOrdered,
   EnvironmentOrdered, OthersOrdered DEF Next

LEMMA InitOrdered == Init => OrderedInv
<1> SUFFICES ASSUME Init PROVE OrderedInv
  OBVIOUS
<1>1. step = "ready" /\ rows = [i \in Images |-> "none"] /\ journal = [d \in Days |-> <<>>]
  BY DEF Init
<1>2. \A d \in Days : journal[d] = <<>>
  BY <1>1
<1>3. Logged = {}
  BY <1>2 DEF Logged, ToSet
<1>4. \A i : Of(i) = {} /\ Taken(i) = {}
  BY <1>3 DEF Of, Taken
<1>5. \A i, a : ~ Has(i, a)
  BY <1>3 DEF Has
<1>6. InDayOrder /\ Lifecycle
  BY <1>1, <1>3, <1>5 DEF InDayOrder, Lifecycle
<1>7. Batched
  BY <1>1 DEF Batched, DeleteSteps, AskedSteps
<1>8. RowsFollow
  BY <1>1, <1>4 DEF RowsFollow
<1> QED  BY <1>6, <1>7, <1>8 DEF OrderedInv

-----------------------------------------------------------------------------
(* The records can be replayed                                               *)

\* What may stand before a record of an image.
LEMMA BeforeHas ==
  ASSUME ScreenshotsInv, OrderedInv, NEW e \in Logged, NEW f \in Before(e)
  PROVE  /\ f \in Logged /\ f.image = e.image /\ Earlier(f, e) /\ f # e
         /\ f.action \in Actions /\ f.action # e.action /\ ~ Precedes(e.action, f.action)
<1>1. f \in Logged /\ f.image = e.image /\ Earlier(f, e)
  BY DEF Before, Of
<1>2. f # e /\ ~ Earlier(e, f)
  BY <1>1, EarlierHas DEF ScreenshotsInv
<1>3. f.action \in Actions
  BY <1>1, LoggedHas, EventHas DEF ScreenshotsInv
<1> QED  BY <1>1, <1>2, <1>3 DEF OrderedInv, Lifecycle

\* What may be on record of an image with one of the terminals.
LEMMA Exclusive ==
  ASSUME ScreenshotsInv, OrderedInv, NEW e \in Logged
  PROVE  /\ e.image \in Images /\ Has(e.image, "Observed") /\ Has(e.image, e.action)
         /\ e.action \in {"Missing", "DeleteRequested", "DeleteCompleted"}
              => Has(e.image, "WriteCompleted")
         /\ Has(e.image, "WriteCompleted") => ~ Has(e.image, "WriteFailed")
         /\ Has(e.image, "DeleteRequested") => ~ Has(e.image, "Missing")
         /\ Has(e.image, "DeleteCompleted") => Has(e.image, "DeleteRequested")
BY LoggedHas, EventHas DEF ScreenshotsInv, Begun, OrderedInv, Lifecycle, Has

LEMMA ChainsHold == ScreenshotsInv /\ OrderedInv => ChainsValid
<1> SUFFICES ASSUME ScreenshotsInv, OrderedInv, NEW e \in Logged PROVE Chained(e)
  BY DEF ChainsValid
<1>1. \A f \in Before(e) :
        /\ f \in Logged /\ f.image = e.image /\ f.action \in Actions /\ f.action # e.action
        /\ ~ Precedes(e.action, f.action)
  BY BeforeHas
<1>2. \A f \in Before(e) : Has(e.image, f.action)
  BY <1>1 DEF Has
<1>3. \A f \in Before(e) : f.action = "Missing" => Has(e.image, "WriteCompleted")
  BY <1>1 DEF ScreenshotsInv, Begun
<1>4. e.action \in WriteOutcomes => \A f \in Before(e) : f.action \notin Terminals
  BY <1>1, <1>2, <1>3, Exclusive DEF WriteOutcomes, Terminals, Precedes
<1>5. e.action = "Missing" =>
        \A f \in Before(e) : f.action \in Terminals => f.action = "WriteCompleted"
  BY <1>1, <1>2, Exclusive DEF WriteOutcomes, Terminals
<1>6. e.action = "DeleteRequested" => \A f \in Before(e) : f.action # "DeleteRequested"
  BY <1>1
<1>7. ASSUME e.action = "DeleteCompleted"
      PROVE  \E f \in Before(e) : f.action = "DeleteRequested" /\ f.requested = e.requested
  <2>1. Has(e.image, "DeleteRequested")
    BY <1>7, Exclusive
  <2>2. PICK r \in Logged : r.image = e.image /\ r.action = "DeleteRequested"
    BY <2>1 DEF Has
  <2>3. Earlier(r, e) /\ r.requested = e.requested
    BY <1>7, <2>2 DEF OrderedInv, Lifecycle, Precedes
  <2> QED BY <2>2, <2>3 DEF Before, Of
<1> QED  BY <1>4, <1>5, <1>6, <1>7 DEF Chained

\* The latest record of an image before one of its records.
LEMMA LatestBefore ==
  ASSUME ScreenshotsInv, OrderedInv, NEW e \in Logged, e.action # "Observed"
  PROVE  \E g \in Before(e) :
           StateIn(Before(e)) = StateAfter(g.action)
           /\ \A f \in Before(e) \ {g} : Earlier(f, g)
<1>1. Has(e.image, "Observed")
  BY Exclusive
<1>2. PICK o \in Logged : o.image = e.image /\ o.action = "Observed"
  BY <1>1 DEF Has
<1>3. Earlier(o, e)
  BY <1>2 DEF OrderedInv, Lifecycle, Precedes
<1>4. Before(e) # {} /\ Before(e) \in SUBSET Logged
  BY <1>2, <1>3 DEF Before, Of
<1>5. Latest(Before(e)) \in Before(e)
      /\ \A f \in Before(e) \ {Latest(Before(e))} : Earlier(f, Latest(Before(e)))
  BY <1>4, LatestHas DEF ScreenshotsInv
<1> QED  BY <1>4, <1>5 DEF StateIn

LEMMA ReplayHolds == ScreenshotsInv /\ OrderedInv => Replayable
<1> SUFFICES ASSUME ScreenshotsInv, OrderedInv, NEW e \in Logged
             PROVE  Projectable(StateIn(Before(e)), e)
  BY DEF Replayable
<1>1. e.action \in Actions
  BY LoggedHas, EventHas DEF ScreenshotsInv
<1>2. CASE e.action = "Observed"
  BY <1>2 DEF Projectable, WriteOutcomes
<1>3. CASE e.action # "Observed"
  <2>1. PICK g \in Before(e) : /\ StateIn(Before(e)) = StateAfter(g.action)
                               /\ \A f \in Before(e) \ {g} : Earlier(f, g)
    BY <1>3, LatestBefore
  <2>2. /\ g \in Logged /\ g.image = e.image /\ g.action \in Actions /\ g.action # e.action
        /\ ~ Precedes(e.action, g.action) /\ Has(e.image, g.action)
    BY BeforeHas DEF Has
  <2>3. g.action \in {"Missing", "DeleteRequested", "DeleteCompleted"} => Has(e.image, "WriteCompleted")
    BY <2>2 DEF ScreenshotsInv, Begun
  <2>4. CASE e.action \in WriteOutcomes
    <3>1. /\ Has(e.image, e.action)
          /\ Has(e.image, "WriteCompleted") => ~ Has(e.image, "WriteFailed")
      BY Exclusive
    <3>2. CASE e.action = "WriteCompleted"
      BY <2>1, <2>2, <3>1, <3>2 DEF Projectable, StateAfter, WriteOutcomes, Actions, Terminals,
                                    Precedes
    <3>3. CASE e.action = "WriteFailed"
      <4>1. g.action = "Observed"
        BY <2>2, <2>3, <3>1, <3>3 DEF WriteOutcomes, Actions, Terminals
      <4> QED BY <2>1, <3>3, <4>1 DEF Projectable, StateAfter, WriteOutcomes
    <3> QED BY <2>4, <3>2, <3>3 DEF WriteOutcomes
  <2>5. CASE e.action = "Missing"
    <3>1. g.action \in {"Observed", "WriteCompleted"}
      BY <2>2, <2>5, Exclusive DEF WriteOutcomes, Actions, Terminals
    <3> QED BY <2>1, <2>5, <3>1 DEF Projectable, StateAfter, WriteOutcomes
  <2>6. CASE e.action = "DeleteRequested"
    <3>1. g.action \in {"Observed", "WriteCompleted", "WriteFailed", "Missing"}
      BY <2>2, <2>6 DEF WriteOutcomes, Actions, Terminals, Precedes
    <3> QED BY <2>1, <2>6, <3>1 DEF Projectable, StateAfter, WriteOutcomes
  <2>7. CASE e.action = "DeleteCompleted"
    <3>1. Has(e.image, "DeleteRequested")
      BY <2>7, Exclusive
    <3>2. PICK r \in Logged : r.image = e.image /\ r.action = "DeleteRequested"
      BY <3>1 DEF Has
    <3>3. Earlier(r, e)
      BY <2>7, <3>2 DEF OrderedInv, Lifecycle, Precedes
    <3>4. r \in Before(e)
      BY <3>2, <3>3 DEF Before, Of
    <3>5. g = r
      <4>1. SUFFICES ASSUME g # r PROVE FALSE
        OBVIOUS
      <4>2. Earlier(r, g) /\ ~ Earlier(g, r)
        BY <2>1, <2>2, <3>2, <3>4, <4>1, EarlierHas DEF ScreenshotsInv
      <4>3. ~ Precedes(g.action, r.action)
        BY <2>2, <3>2, <4>2 DEF OrderedInv, Lifecycle
      <4>4. g.action # "Observed" /\ g.action # "WriteCompleted"
        BY <3>2, <4>3 DEF Precedes
      <4>5. g.action # "WriteFailed" /\ g.action # "Missing"
        BY <2>2, <2>7, <3>1, Exclusive
      <4>6. g.action # "DeleteRequested"
        BY <2>2, <3>2, <4>1 DEF OrderedInv, Lifecycle
      <4> QED BY <2>2, <2>7, <4>4, <4>5, <4>6 DEF WriteOutcomes, Actions, Terminals
    <3> QED BY <2>1, <2>7, <3>2, <3>5 DEF Projectable, StateAfter, WriteOutcomes
  <2> QED BY <1>1, <1>3, <2>4, <2>5, <2>6, <2>7 DEF Actions, Terminals
<1> QED  BY <1>2, <1>3

LEMMA IndexHolds == ScreenshotsInv /\ OrderedInv /\ AllProjected => rows = Replayed
<1> SUFFICES ASSUME ScreenshotsInv, OrderedInv, AllProjected PROVE rows = Replayed
  OBVIOUS
<1>1. ASSUME NEW e \in Logged PROVE ~ Behind(e)
  <2>1. /\ Day(e.recorded) \in Days /\ Position(e) \in 1 .. Len(journal[Day(e.recorded)])
    BY LoggedHas DEF ScreenshotsInv
  <2>2. Len(journal[Day(e.recorded)]) \in Nat
        /\ cursor[Day(e.recorded)] = Len(journal[Day(e.recorded)])
    BY <2>1 DEF ScreenshotsInv, Filed, AllProjected
  <2> QED BY <2>1, <2>2 DEF Behind
<1>2. \A i : Taken(i) = Of(i)
  BY <1>1 DEF Taken, Of
<1>3. ASSUME NEW i \in Images PROVE rows[i] = StateIn(Of(i))
  <2>1. CASE Of(i) = {}
    BY <1>2, <2>1 DEF OrderedInv, RowsFollow, StateIn
  <2>2. CASE Of(i) # {}
    <3>1. PICK e \in Of(i) : rows[i] = StateAfter(e.action) /\ \A f \in Of(i) \ {e} : Earlier(f, e)
      BY <1>2, <2>2 DEF OrderedInv, RowsFollow
    <3>2. Of(i) \in SUBSET Logged
      BY DEF Of
    <3>3. PICK g \in Of(i) : g = Latest(Of(i)) /\ \A f \in Of(i) \ {g} : Earlier(f, g)
      BY <2>2, <3>2, LatestHas DEF ScreenshotsInv
    <3>4. g = e
      BY <3>1, <3>2, <3>3, EarlierHas DEF ScreenshotsInv
    <3> QED BY <2>2, <3>1, <3>3, <3>4 DEF StateIn
  <2> QED BY <2>1, <2>2
<1> QED  BY <1>3 DEF ScreenshotsInv, Typed, Replayed

LEMMA InvReplayable == ScreenshotsInv /\ OrderedInv => RecordsReplayable
BY ChainsHold, ReplayHolds, IndexHolds DEF RecordsReplayable

\* As long as no clock correction reaches the day before: whatever failed, died or was
\* lost, the next startup accepts the lifecycle records, an empty index can be rebuilt
\* from them, and the index that has taken all of them is that one.
THEOREM RecordsStayReplayable ==
  ASSUME AcrossDays = FALSE
  PROVE  Spec => []RecordsReplayable
<1>1. Init => ScreenshotsInv /\ OrderedInv
  BY InitHolds, InitOrdered
<1>2. ScreenshotsInv /\ OrderedInv /\ [Next]_vars => (ScreenshotsInv /\ OrderedInv)'
  BY NextKeeps, NextOrdered
<1>3. ScreenshotsInv /\ OrderedInv => RecordsReplayable
  BY InvReplayable
<1> QED  BY <1>1, <1>2, <1>3, PTL DEF Spec
===============================================================================
